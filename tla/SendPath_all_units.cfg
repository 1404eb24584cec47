\* One frame of three small units.
CONSTANTS
    Frames <- WaitingFrame
    PAYLOAD_SIZE = 6
    SEQ_MOD = 64
    FirstSeqs = {0}
    CLUSTER = 1024
    MaxFrames = 1
SPECIFICATION Spec
INVARIANT AllUnitsSent
CHECK_DEADLOCK FALSE
