\* Two clicks that overlap each other, a mute of the host and the room's start.
CONSTANTS
    Click = {c1, c2}
    MaxQueue = 3
    Start = Start
    Host = Host
SPECIFICATION FairSpec
INVARIANTS
    TypeOK
    MuteSilences
    MuteIsSeen
    HotMicIsShown
    LostMediaIsRecoverable
PROPERTY LeavingGoesHome
CHECK_DEADLOCK FALSE
