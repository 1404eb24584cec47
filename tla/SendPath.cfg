\* Two frames of any kind after each other, in every format; sendmmsg() may fail after
\* any packet.
CONSTANTS
    Frames <- MCFrames
    PAYLOAD_SIZE = 6
    SEQ_MOD = 64
    FirstSeqs = {0, 62}
    CLUSTER = 1
    MaxFrames = 2
SPECIFICATION Spec
INVARIANTS
    WholeFrames
    NumberedOnce
    TransactionsKept
CHECK_DEADLOCK FALSE
