\* Three people, one id, two concurrent handlers, two seats.
CONSTANTS
    User = {ann, bob, cyd}
    Id = {m1}
    Thread = {t1, t2}
    Capacity = 2
    NoMeeting = NoMeeting
    NoJob = NoJob
    NoUser = NoUser
SPECIFICATION Spec
SYMMETRY Interchangeable
INVARIANTS
    TypeOK
    PlacesAgree
    CapacityRespected
    OnlyByAdmission
    CloseIsComplete
PROPERTY ImplementsLobby
