\* Fair threads; one client, which resizes the pool.
CONSTANTS
    a = a  b = b  c = c
    Tasks = {a, b, c}
    Children <- NestedChildren
    Clients = {p}
    Adjusters = {p}
    Workers = {w1, w2, w3}
    Scheduler = Scheduler
    None = None
    ThreadCount = 1
    MaxThreadCount = 1
    MaxLimit = 2
    AdjustBound = 1
    ShrinkWhenBusy = FALSE
SPECIFICATION Spec
PROPERTIES WorkGetsDone ResizingReturns DestructionEnds
