\* A child that is slower than the parent's alarm, and a SIGTERM that comes at once.
CONSTANTS
    MayBeSlow = TRUE
    MaxTerms = 1
SPECIFICATION Spec
INVARIANTS TellsOnlyParent
CHECK_DEADLOCK FALSE
