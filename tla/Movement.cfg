SPECIFICATION Spec
CONSTANTS
    Frames <- MCFrames
    Values = {v1, v2}
    Cleared = Cleared
    RangeError = RangeError
    MaxUpdates = 4
INVARIANTS
    TypeOK
    PacketIsItsInterval
    BatchIsToldApart
PROPERTIES
    SingleFrameIsSent
CHECK_DEADLOCK FALSE
