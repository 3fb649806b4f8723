\* One click and one queued call: the end and the room are what matters.
CONSTANTS
    Click = {c1}
    MaxQueue = 1
    Start = Start
    Host = Host
SPECIFICATION Spec
INVARIANT LostMediaStaysOnPage
CHECK_DEADLOCK FALSE
