\* Three threads, each of which may signal, reset and wait.
CONSTANTS
    Threads = {t1, t2, t3}
    Resetters = {t1, t2, t3}
    ManualReset = TRUE
    NoThread = NoThread
SPECIFICATION Spec
INVARIANT NoLostWakeup
PROPERTY ImplementsEvent
