\* The limit is raised while work is queued.
CONSTANTS
    a = a  b = b  c = c
    Tasks = {a, b}
    Children <- FlatChildren
    Clients = {p}
    Adjusters = {p}
    Workers = {w1, w2, w3}
    Scheduler = Scheduler
    None = None
    ThreadCount = 1
    MaxThreadCount = 1
    MaxLimit = 2
    AdjustBound = 1
    ShrinkWhenBusy = FALSE
SPECIFICATION SafetySpec
INVARIANT GrowsWhenNeeded
