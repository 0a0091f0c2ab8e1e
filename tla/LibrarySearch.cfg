\* The instance of Library.cfg; A* need not find the cheapest way.
CONSTANTS
    Addresses = {a1, a2}
    PerChunk = 3
    Width = 8
    Initial = {0}
    Capacity = 2
    Threads = {t1, t2}
    NoThread = NoThread
    Shared = Shared
    Entry = Entry
    Files = {f1, f2}
    NoFile = NoFile
    SharedLevels = {3}
    MaxMessages = 1
    Joined = TRUE
    GraphNodes = {1, 2, 3}
    Data = {"a", "b"}
    MaxElems = 3
    MaxEdges = 2
    SearchNodes = {1, 2, 3, 4, 5}
    Start = 1
    Dest = 3
    Arcs <- SevenArcs
    Missing = {3, 5}
    Costs = {1, 3}
    Heuristics <- TwoHeuristics
    MaxInt = 13
    XmlKeys <- FourKeys
    Values = {"v"}
    Absent = "absent"
    EmptyText = ""
    Content <- OneNode
    MaxNodes = 4
    Paths <- SixPaths
    Targets <- SixTargets
    MaxPath = 4
    Uses <- ThreeUses
    Enough <- TwoUses
    MaxChars = 5
SPECIFICATION AllSpec
INVARIANTS FindsOptimal
SYMMETRY Symmetry
CHECK_DEADLOCK FALSE
