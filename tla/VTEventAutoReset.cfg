\* Event(false), never reset: does a signal get a sleeping thread out of wait()?
CONSTANTS
    Threads = {t1, t2}
    Resetters = {}
    ManualReset = FALSE
    NoThread = NoThread
SPECIFICATION Spec
PROPERTY SignalReleasesSleepers
