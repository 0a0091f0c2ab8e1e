------------------------------- MODULE Library -------------------------------
(***************************************************************************)
(* Parts of the library that work for whoever calls them: an allocator's   *)
(* memory, the files of loggers, graphs, searches, documents, files and    *)
(* conversions of encodings.                                               *)
(* They share no state, and each behaviour takes steps of one of them      *)
(* only.                                                                   *)
(***************************************************************************)
EXTENDS VTAllocator, Integers

CONSTANTS Threads, NoThread, Shared, Entry, Files, NoFile, SharedLevels, MaxMessages, Joined,
          GraphNodes, Data, MaxElems, MaxEdges,
          SearchNodes, Start, Dest, Arcs, Missing, Costs, Heuristics, MaxInt,
          XmlKeys, Values, Absent, EmptyText, Content, MaxNodes,
          Paths, Targets, MaxPath,
          Uses, Enough, MaxChars

VARIABLES part,      \* which of them takes steps
          logger, opened, open, pc, worker, sent, out, self_valid, lock, destroyed,
          kind, nodes_, answer, found, strayed,
          search, absent, cost, heur, order, queue, visited,
          openset, closedset, g_score, came_from, current, result,
          nodes, doc, own, deleted, lent, node_, handle, name_, at, from, iterated,
          fs, call, target, prefix, missing, stack, told, hFile, descriptors,
          use, input, ending, convPc, outlen, written, convTaken, calls

allocatorVars == << free, chunks, allocated, live, blocks, taken >>
loggerVars == << logger, opened, open, pc, worker, sent, out, self_valid, lock, destroyed >>
graphVars == << kind, nodes_, answer, found, strayed >>
searchVars == << search, absent, cost, heur, order, queue, visited,
                 openset, closedset, g_score, came_from, current, result >>
xmlVars == << nodes, doc, own, deleted, lent, node_, handle, name_, at, from, iterated >>
fileVars == << fs, call, target, prefix, missing, stack, told, hFile, descriptors >>
convertVars == << use, input, ending, convPc, outlen, written, convTaken, calls >>
libraryVars == << part, allocatorVars, loggerVars, graphVars, searchVars, xmlVars, fileVars,
                  convertVars >>

Logger == INSTANCE VTCPPLogger
Graph == INSTANCE VTGraph WITH Nodes <- GraphNodes
Search == INSTANCE VTSearch WITH Nodes <- SearchNodes
Xml == INSTANCE VTXmlDoc WITH visited <- iterated, Keys <- XmlKeys, Empty <- EmptyText
File == INSTANCE VTFileUtilLin WITH answer <- told, open <- descriptors
Convert == INSTANCE VTEncodeConvert WITH pc <- convPc, taken <- convTaken

ASSUME LoggerInstance == Logger!LoggerAssumption
ASSUME GraphInstance == Graph!GraphAssumption
ASSUME SearchInstance == Search!SearchAssumption
ASSUME XmlInstance == Xml!XmlAssumption
ASSUME FileInstance == File!FileAssumption
ASSUME ConvertInstance == Convert!ConvertAssumption

\* The states of what takes no steps.
LoggerIdle ==
    /\ logger = << >> /\ opened = {} /\ open = {} /\ pc = << >> /\ worker = << >> /\ sent = << >>
    /\ out = << >> /\ self_valid = TRUE /\ lock = NoThread /\ destroyed = FALSE
SearchIdle ==
    /\ search = "none" /\ absent = {} /\ cost = << >> /\ heur = << >> /\ order = "up"
    /\ queue = << >> /\ visited = {} /\ openset = {} /\ closedset = {}
    /\ g_score = << >> /\ came_from = << >> /\ current = 0 /\ result = << >>
FileIdle ==
    /\ fs = << >> /\ call = "none" /\ target = << >> /\ prefix = 0 /\ missing = FALSE
    /\ stack = << >> /\ told = "none" /\ hFile = -1 /\ descriptors = {}
ConvertIdle ==
    /\ use = << >> /\ input = << >> /\ ending = "nothing" /\ convPc = "done"
    /\ outlen = 0 /\ written = 0 /\ convTaken = 0 /\ calls = 0

LibraryInit ==
    /\ Init /\ (part # "allocator" => blocks = << >>)
    /\ IF part = "logger" THEN Logger!Init ELSE LoggerIdle
    /\ Graph!Init /\ (part # "graph" => kind = "map")
    /\ IF part = "search" THEN Search!Init ELSE SearchIdle
    /\ Xml!Init
    /\ IF part = "file" THEN File!Init ELSE FileIdle
    /\ IF part = "convert" THEN Convert!Init ELSE ConvertIdle

LibraryNext ==
    \/ /\ part = "allocator" /\ Next
       /\ UNCHANGED << part, loggerVars, graphVars, searchVars, xmlVars, fileVars,
                       convertVars >>
    \/ /\ part = "logger" /\ Logger!Next
       /\ UNCHANGED << part, allocatorVars, graphVars, searchVars, xmlVars, fileVars,
                       convertVars >>
    \/ /\ part = "graph" /\ Graph!Next
       /\ UNCHANGED << part, allocatorVars, loggerVars, searchVars, xmlVars, fileVars,
                       convertVars >>
    \/ /\ part = "search" /\ Search!Next
       /\ UNCHANGED << part, allocatorVars, loggerVars, graphVars, xmlVars, fileVars,
                       convertVars >>
    \/ /\ part = "xml" /\ Xml!Next
       /\ UNCHANGED << part, allocatorVars, loggerVars, graphVars, searchVars, fileVars,
                       convertVars >>
    \/ /\ part = "file" /\ File!Next
       /\ UNCHANGED << part, allocatorVars, loggerVars, graphVars, searchVars, xmlVars,
                       convertVars >>
    \/ /\ part = "convert" /\ Convert!Next
       /\ UNCHANGED << part, allocatorVars, loggerVars, graphVars, searchVars, xmlVars,
                       fileVars >>

LibrarySpec == LibraryInit /\ [][LibraryNext]_libraryVars

-----------------------------------------------------------------------------
(* Properties; OwnMemory is VTAllocator's *)

\* Whoever is about to write to a file has one that is open, though copies of its
\* logger may come and go.  (set_stream, write_to_streams.)
WritesToOpenFile == part = "logger" => Logger!WritesToOpenFile

\* Messages are in the streams they were due, once and in order.  (log.)
Delivered == part = "logger" => Logger!Delivered

\* Both kinds of graph are the graph of GraphSpec, a VectorGraph as long as its callers
\* add a node once, sort before they look, and look for nodes that exist or are above
\* all that do.  (add_edge, neighbors, sort, ...)
ImplementsGraph == Graph!ImplementsGraph

\* A search that ends finds a way if and only if there is one, or throws as it comes to
\* a node that was never added.  (generalized_search_helper, a_star_search.)
FindsPath == part = "search" => Search!FindsPath

\* What set() stores get() finds, under this key and no other.  (create_value.)
SetTakes == Xml!SetTakes

\* An iterator visits all nodes that there are, once and in order.  (operator++.)
VisitsAll == Xml!VisitsAll

\* Of the descriptors that a File opened one is open at most, and a document is
\* deleted when another takes its place, unless it is the caller's.  (Open, Create,
\* Close, use_document.)
ReleasesOnce == File!OneDescriptor /\ Xml!DeletesItsOwn

\* When ensure_path_exist() returns true the folders are there that it is to make, but
\* that the deepest may be a plain file.
FoldersEnsured == File!FoldersEnsured

\* All text is converted that can be, and none of it is written beyond the buffer.
\* (convert_helper.)
TextConverts == part = "convert" => Convert!ConvertsAll
=============================================================================
