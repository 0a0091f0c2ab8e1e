------------------------------ MODULE MCLibrary ------------------------------
(***************************************************************************)
(* The parts of the library that work for whoever calls them, for one run  *)
(* of TLC: loggers under threads, and allocators, containers, searches,    *)
(* documents, conversions, formats and files in the hands of one thread.   *)
(* They share no state, so each behaviour takes steps of one of them only, *)
(* and the states of all add up.                                           *)
(***************************************************************************)
EXTENDS Library, TLC

VARIABLES tree, contents, list, expected, fmt, args, split, index, formatted, words, trimmed

treeVars == << tree, contents >>
listVars == << list, expected >>
sprintfVars == << fmt, args, split, index, formatted, words, trimmed >>
allVars == << libraryVars, treeVars, listVars, sprintfVars >>

\* Every graph whose edges are among seven, two of which lead back.
SevenArcs == {<<1, 2>>, <<1, 4>>, <<2, 3>>, <<2, 5>>, <<4, 2>>, <<4, 5>>, <<5, 3>>}

\* No estimate, and one that takes the scores of two nodes to MaxInt or near it.
TwoHeuristics ==
    {[n \in SearchNodes |-> 0],
     [n \in SearchNodes |-> IF n = 4 THEN MaxInt - 2 ELSE IF n = 5 THEN MaxInt - 1 ELSE 0]}

\* The current node itself, a child, its attribute and a grandchild; a file with
\* one node.
Key(path, is_attribute) == [path |-> path, is_attribute |-> is_attribute]
FourKeys == {Key(<< >>, FALSE), Key(<< "a" >>, FALSE), Key(<< "a" >>, TRUE), Key(<< "a", "b" >>, FALSE)}
OneNode == << [parent |-> 0, name |-> "a", value |-> "v", attr |-> "absent"] >>

SixPaths == {<< >>, <<"a">>, <<"b">>, <<"a", "a">>, <<"a", "a", "a">>, <<"a", "a", "a", "a">>}
SixTargets ==
    [path : SixPaths \ {<< >>}, absolute : {FALSE}] \cup {[path |-> <<"a", "a">>, absolute |-> TRUE]}

\* Every order in which seven values can be inserted, singly or as ranges of one.
Tree == INSTANCE VTPersistentTree WITH Values <- 1..7, MaxRange <- 1

List == INSTANCE VTPersistentList WITH
    Values <- 1..3, Successor <- [v \in 1..3 |-> IF v = 3 THEN 1 ELSE v + 1], Kept <- {1, 3},
    MaxLength <- 4

\* UTF-8 to wchar_t, wchar_t to UTF-8, and another conversion with a hint too small.
Characters(pairs) == {[in |-> pair[1], out |-> pair[2]] : pair \in pairs}
UTF8ToWstring == [hint |-> 4, chars |-> Characters({<<1, 4>>, <<3, 4>>})]
WstringToUTF8 == [hint |-> 1, chars |-> Characters({<<4, 1>>, <<4, 4>>})]
Other == [hint |-> 0, chars |-> Characters({<<1, 1>>, <<1, 2>>, <<2, 4>>, <<1, 4>>})]
ThreeUses == {UTF8ToWstring, WstringToUTF8, Other}
TwoUses == {UTF8ToWstring, WstringToUTF8}

Sprintf == INSTANCE VTSafeSprintf WITH
    Chars <- {"{", "}", "0", "1", ":", "x"}, Digits <- [c \in {"0", "1"} |-> IF c = "0" THEN 0 ELSE 1],
    MaxLength <- 4, MaxArgs <- 2, out <- formatted

-----------------------------------------------------------------------------
\* The states of what takes no steps.
SprintfIdle ==
    /\ fmt = << >> /\ args = 0 /\ split = << >> /\ index = -1 /\ formatted = << >>
    /\ words = << >> /\ trimmed = << >>

AllInit ==
    /\ part \in {"allocator", "logger", "tree", "list", "graph", "search", "xml", "convert", "sprintf", "file"}
    /\ LibraryInit
    /\ Tree!Init
    /\ List!Init
    /\ IF part = "sprintf" THEN Sprintf!Init ELSE SprintfIdle

AllNext ==
    \/ LibraryNext /\ UNCHANGED << treeVars, listVars, sprintfVars >>
    \/ /\ part = "tree" /\ Tree!Next
       /\ UNCHANGED << libraryVars, listVars, sprintfVars >>
    \/ /\ part = "list" /\ List!Next
       /\ UNCHANGED << libraryVars, treeVars, sprintfVars >>
    \/ /\ part = "sprintf" /\ Sprintf!Next
       /\ UNCHANGED << libraryVars, treeVars, listVars >>

AllSpec == AllInit /\ [][AllNext]_allVars

Symmetry == Permutations(Threads) \cup Permutations(Files)

-----------------------------------------------------------------------------
(* Properties; the others of the run are those of Library *)

\* Whatever is done to them, trees are red-black trees of what was inserted and
\* lists are the sequences that their operations promise; and formats and delimiters
\* in any text are taken as documented.  (insert, insertAt, safe_sprintf, tsplit, ...)
ValuesSound ==
    /\ Tree!RedBlack /\ Tree!IsTheSet /\ List!IsTheSequence
    /\ part = "sprintf" => Sprintf!ReplacesAnchors /\ Sprintf!SplitsWords

-----------------------------------------------------------------------------
(* What the code does not keep *)

\* No logger uses the manager once it is destroyed; with Joined FALSE, as when threads
\* outlive the static objects.  (LogManager, self_valid_.)
NotUsedWhenDestroyed == part = "logger" => Logger!NotUsedWhenDestroyed

\* No way costs less than the one that A* returns: "search will always find optimal
\* solution".  (a_star_search.)
FindsOptimal == part = "search" => Search!FindsOptimal

\* A* does not end up with a node that it has done with.  (a_star_search.)
GoesOn == part = "search" => Search!GoesOn

\* "{{" becomes "{".  (split_format, "Doubled occurences of curly braces will be
\* replaced by single occurence".)
HalvesBraces == part = "sprintf" => Sprintf!HalvesBraces

\* A document has a node to begin at, after a failed read too.  (find_node,
\* "assert(node_)".)
HasCurrentNode == Xml!HasCurrentNode

\* Only what lies in the folder that is to be deleted is deleted.  (delete_folder.)
DeletesOnlyBelow == File!DeletesOnlyBelow

\* A node that does not exist is not found, whatever the callers of a VectorGraph have
\* done.  (get_inc_list, "Node does not exist".)
ImplementsGraphAlways == Graph!ImplementsGraphAlways
=============================================================================
