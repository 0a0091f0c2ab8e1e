\* A stop slow enough for the watchdog to time out.
CONSTANTS
    Watchdogs = {w1}
    Controls = {"stop"}
    MaxStops = 1
    MaxAsks = 0
    MaxExpiries = 1
    SelfEnding = FALSE
SPECIFICATION Spec
INVARIANTS StoppedIsReported
