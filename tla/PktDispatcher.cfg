\* Three packets: enough for a frame in the queue, one in the runner's hands and one
\* in the socket while a hook is installed or the stream is stopped.
CONSTANTS
    Kinds <- SomeKinds
    MaxPackets = 3
    MaxTimeout = 1
SPECIFICATION FairSpec
INVARIANTS
    LoopLeftBeforeDestruction
PROPERTIES
    StopReturns
    PacketsAreRead
    ImplementsOutlet
CHECK_DEADLOCK FALSE
