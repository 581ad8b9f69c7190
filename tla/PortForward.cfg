CONSTANTS
    Byte = 8
    Length <- MCLength
    MaxSent = 3
    MaxWritten <- MCWritten
SPECIFICATION Spec
INVARIANTS
    HeadsAreHeads
    NoReplyAfterLogin
PROPERTIES
    ImplementsTunnel
CHECK_DEADLOCK FALSE
