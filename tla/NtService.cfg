\* The service, the tools that control it and its command line.
CONSTANTS
    Watchdogs = {w1, w2, w3}
    Tools = {t1, t2}
    Controls = {"stop", "shutdown", "pause", "interrogate"}
    MaxStops = 2
    MaxAsks = 1
    MaxExpiries = 2
    MaxArgs = 3
SPECIFICATION Spec
INVARIANTS StopIsNotTakenBack WatchdogGuards ZeroMeansReached ParsesAsDocumented
PROPERTIES StopEnds
CHECK_DEADLOCK FALSE
