\* Somebody comes in between the two locks of leave.
CONSTANTS
    User = {ann, bob}
    Id = {m1}
    Thread = {t1, t2}
    Capacity = 2
    NoMeeting = NoMeeting
    NoJob = NoJob
    NoUser = NoUser
SPECIFICATION Spec
PROPERTIES
    LeaveDestroysAnEmptyRoom
