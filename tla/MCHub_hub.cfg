\* Two users, a connection of each, three calls of three kinds, a channel of one event.
CONSTANTS
    ann = ann
    bob = bob
    here = here
    there = there
    annConn = annConn
    bobConn = bobConn
    toAll = toAll
    toBob = toBob
    elsewhere = elsewhere
    Conn = {annConn, bobConn}
    User = {ann, bob}
    Room = {here, there}
    Call = {toAll, toBob, elsewhere}
    Everyone = Everyone
    BufSize = 1
    UserOf <- MCUserOf
    RoomOf <- MCRoomOf
    Target <- MCTarget
    To <- MCTo
SPECIFICATION FairSpec
INVARIANTS
    TypeOK
    ChannelEndsOnce
    OnlyToAddressees
    RealTimeOrder
PROPERTIES
    ImplementsChannel
    NoLeakedPumps
    BufferedIsWritten
CHECK_DEADLOCK FALSE
