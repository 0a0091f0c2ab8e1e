\* Two clients resize the pool at the same time.
CONSTANTS
    a = a  b = b  c = c
    Tasks = {a}
    Children <- FlatChildren
    Clients = {p, q}
    Adjusters = {p, q}
    Workers = {w1, w2, w3}
    Scheduler = Scheduler
    None = None
    ThreadCount = 1
    MaxThreadCount = 2
    MaxLimit = 2
    AdjustBound = 2
    ShrinkWhenBusy = FALSE
SPECIFICATION SafetySpec
INVARIANT ThreadCountBounded
