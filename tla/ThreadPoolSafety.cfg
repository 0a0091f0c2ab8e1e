\* One client that resizes the pool, one that does not; nested work.
CONSTANTS
    a = a  b = b  c = c
    Tasks = {a, b, c}
    Children <- NestedChildren
    Clients = {p, q}
    Adjusters = {p}
    Workers = {w1, w2, w3, w4}
    Scheduler = Scheduler
    None = None
    ThreadCount = 1
    MaxThreadCount = 1
    MaxLimit = 2
    AdjustBound = 2
    ShrinkWhenBusy = FALSE
SPECIFICATION SafetySpec
SYMMETRY WorkerSymmetry
INVARIANTS
    TypeOK WorkInOnePlace SchedulerNotStranded NoLostSignal
    NoBrokenPromise ThreadCountBounded NoDanglingThread
PROPERTY WaitForAllSound
