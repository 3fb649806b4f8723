\* Two participants who stay, one guest who comes and goes, three messages.
CONSTANTS
    ann = ann
    bob = bob
    gil = gil
    toAll = toAll
    annToGil = annToGil
    annToBob = annToBob
    User = {ann, bob, gil}
    Online = {gil}
    Message = {annToGil}
    Author <- MCAuthor
    To <- MCTo
    Everyone = Everyone
    Nobody = Nobody
    BufSize = 1
    MaxTodo = 1
SPECIFICATION Spec
PROPERTIES
    KnownMessagesStay
