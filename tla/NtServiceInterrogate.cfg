\* A service that is asked for its state while it starts.
CONSTANTS
    Watchdogs = {w1}
    Controls = {"interrogate"}
    MaxStops = 0
    MaxAsks = 1
    MaxExpiries = 0
    SelfEnding = FALSE
SPECIFICATION Spec
INVARIANTS RunningAcceptsStop
CHECK_DEADLOCK FALSE
