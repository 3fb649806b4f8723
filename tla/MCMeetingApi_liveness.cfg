\* Two people, two concurrent handlers, every begun handler goes on.
CONSTANTS
    User = {ann, bob}
    Id = {m1}
    Thread = {t1, t2}
    Capacity = 2
    NoMeeting = NoMeeting
    NoJob = NoJob
    NoUser = NoUser
SPECIFICATION FairSpec
PROPERTIES
    AcceptedCloseHappens
    ClosedIsAnnouncedAndSwept
