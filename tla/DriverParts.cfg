\* Five commands and a buffer that ends inside the second; the code's five attach
\* attempts, with room for what five time-outs leave behind; two signals; three
\* handshakes of either kind. The driver stops when it failed, was disposed of or has ended.
CONSTANTS
    MaxSent = 5
    COMMAND_MAX_RECV = 5
    MAX_TIMEOUT_ATTEMPTS = 5
    RequestCap = 6
    InboxCap = 4
    MaxSignals = 2
    Clients = {c1, c2}
    NoClient = NoClient
    MAX_CONFIRM_MSGS = 2
    MaxCalls = 3
    Protocols = {"udp", "tcp"}
SPECIFICATION Spec
INVARIANTS
    NoPhantomCommand
    PacedCommandsExecuted
    AttachedMeansMonitored
    FailureLeavesNothing
    CleanExit
    SearchingShutdownIsClean
    NoDescriptorLeft
    ConnectedWasHeard
PROPERTIES
    StartAndDisposalReturn
CHECK_DEADLOCK FALSE
