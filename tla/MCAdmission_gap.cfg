\* One guest admitted while its socket is being set up.
CONSTANTS
    Guest = {gil}
    Host = host
    Call = {c1}
    BufSize = 2
    Overflows = FALSE
    MaxTodo = 1
SPECIFICATION FairSpec
PROPERTIES
    AdmissionReachesThePage
