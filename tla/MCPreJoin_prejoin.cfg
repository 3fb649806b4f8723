\* Two microphones, two requests that may overlap, two refreshes at once.
CONSTANTS
    Device = {d1, d2}
    Removable = {d2}
    Stream = {s1, s2}
    MaxRefresh = 2
    NoDevice = NoDevice
    NoStream = NoStream
SPECIFICATION FairSpec
INVARIANTS
    TypeOK
    PreviewIsRight
    ChoicesSurvive
    ChosenDeviceExists
PROPERTY PreviewAppears
