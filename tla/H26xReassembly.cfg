\* Streams of up to six packets that begin anywhere before the overflow; any packet
\* may be lost, overtake any other, and one may come twice.
CONSTANTS
    Streams <- FormatStreams
    FirstSeqs = {0, 9, 10, 11, 12}
    SEQ_MOD = 13
    MaxDuplicates = 1
    EnableIDelay = TRUE
SPECIFICATION Spec
INVARIANTS
    ReturnedIntact
    CompleteIsReturned
PROPERTIES
    DroppedForGood
    ImplementsChannel
CHECK_DEADLOCK FALSE
