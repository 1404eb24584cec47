\* A single signal.
CONSTANT MaxSignals = 1
SPECIFICATION Spec
INVARIANT CleanWhateverHappens
CHECK_DEADLOCK FALSE
