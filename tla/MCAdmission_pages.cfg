\* One guest, two joins of its page at once, two lost connections.
CONSTANTS
    Guest = {gil}
    Host = host
    Call = {c1, c2}
    BufSize = 1
    Overflows = TRUE
    MaxTodo = 2
SPECIFICATION FairSpec
INVARIANTS
    TypeOK
    WaitingPageCatchesUp
PROPERTIES
    ImplementsLobby
    AdmissionIsShown
