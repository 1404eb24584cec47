\* The bounds of MediaParts.cfg.
CONSTANTS
    Streams = {s1, s2}
    FlagSets = {{}, {"RTCP", "HOLEPUNCH"}, {"SCD"}, {"SRTP"}, {"SRTP", "ZRTP"}, {"SRTP", "USER"}, {"SRTP", "USER", "RTCP", "HOLEPUNCH"}}
    MaxContexts = 2
    THRESHOLD = 20
    SLEEP = 5
    SEQ_MOD = 2
    MAX_OFF = 1
    COUNT_MOD = 3
    MaxSent = 4
    MaxOnWire = 2
    RTP_SEQ_MOD = 8
    MIN_SEQUENTIAL = 2
    MAX_DROPOUT = 3
    MAX_MISORDER = 2
    MaxPackets = 6
    MaxInFlight = 3
    Ssrcs = {p1, p2}
    HELLO_TRIES = 3
    TRIES = 3
    MaxStreams = 2
SPECIFICATION Spec
INVARIANT OvertakenIsDecrypted
CHECK_DEADLOCK FALSE
