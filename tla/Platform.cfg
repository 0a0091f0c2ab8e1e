\* Daemons, GlobalVar on both systems, handles, sections and guards.
CONSTANTS
    Users = {t1, t2}
    Waiter = t3
    Objects = {o1, o2}
    Handles = {h1, h2, h3}
    Null = Null
    Invalid = Invalid
    NoThread = NoThread
    NoVar = NoVar
    Base = 4
    IntBytes = 2
    MaxTerms = 2
    MaxRefs = 1
    MaxRestarts = 1
    MaxDepth = 3
    MaxHandles = 6
    MaxRounds = 2
SPECIFICATION Spec
INVARIANTS ParentTellsTruth GivenBack
PROPERTIES SignalsArrive ImplementsGlobalVar WaitsForAll WaitEnds
CHECK_DEADLOCK FALSE
