\* One unit over the overflow of the sequence number, nothing lost or overtaken.
CONSTANTS
    Streams <- H264Stream
    FirstSeqs = {12}
    SEQ_MOD = 13
    MaxDuplicates = 0
    EnableIDelay = TRUE
SPECIFICATION Spec
INVARIANT OverflowCorrected
CHECK_DEADLOCK FALSE
