\* Two meetings, three sockets that may overlap, pages that come and go.
CONSTANTS
    Meeting = {m1, m2}
    Socket = {s1, s2, s3}
    NoMeeting = NoMeeting
    NoSocket = NoSocket
SPECIFICATION FairSpec
INVARIANTS
    TypeOK
    OneAttempt
    StatusIsHonest
PROPERTIES
    ImplementsLink
    GetsConnected
