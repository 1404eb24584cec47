\* The shortest life of a stream: created and destroyed.
CONSTANTS
    Kinds <- SomeKinds
    MaxPackets = 0
    MaxTimeout = 0
SPECIFICATION Spec
INVARIANT DestructionIsSafe
CHECK_DEADLOCK FALSE
