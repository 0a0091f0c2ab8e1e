\* Three threads, each of which may push and pop; two distinguishable items.
CONSTANTS
    Threads = {t1, t2, t3}
    Items = {i, j}
    NoItem = NoItem
    NoThread = NoThread
    MaxLength = 2
SPECIFICATION Spec
INVARIANT NoStrandedItem
PROPERTY ImplementsQueue
