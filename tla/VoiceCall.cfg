CONSTANTS
    MaxRequests = 3
    MaxClicks = 4
SPECIFICATION Spec
INVARIANTS
    PartiesAgree
    DeviceIsRestored
CHECK_DEADLOCK FALSE
PROPERTIES
    RecordingEnds
