\* A pool shrunk while a thread is at work: does set_thread_count return?
CONSTANTS
    a = a  b = b  c = c
    Tasks = {a}
    Children <- FlatChildren
    Clients = {p}
    Adjusters = {p}
    Workers = {w1, w2}
    Scheduler = Scheduler
    None = None
    ThreadCount = 1
    MaxThreadCount = 1
    MaxLimit = 1
    AdjustBound = 1
    ShrinkWhenBusy = TRUE
SPECIFICATION Spec
CHECK_DEADLOCK FALSE
PROPERTY ResizingReturns
