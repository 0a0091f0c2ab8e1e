---------------------------- MODULE VTFileUtilLin ----------------------------
(***************************************************************************)
(* ensure_path_exist(), delete_file_folder() and File of                   *)
(* src/VTFileUtilLin.cpp on a small tree of files, to which another        *)
(* process adds folders.  A path is the sequence of its names; << >> is    *)
(* the current folder.  One thread has one File.                           *)
(***************************************************************************)
EXTENDS Integers, Sequences, SequencesExt, FiniteSetsExt

CONSTANTS Paths,       \* where there may be a file, with the folders above
          Targets,     \* [path, absolute]: what calls are made with
          MaxPath      \* names in the longest path that the system takes

VARIABLES fs,          \* [Paths -> {"none", "folder", "file"}]
          call,        \* the call that is going on, "none" between calls
          target,      \* its argument
          prefix,      \* names in the folder that ensure_path_exist() is at
          missing,     \* that folder was not there when it looked
          stack,       \* delete_folder() and its callers: [path, seen]
          answer,      \* of the last call
          hFile,       \* File's descriptor, -1 for none
          open         \* descriptors that are open

vars == << fs, call, target, prefix, missing, stack, answer, hFile, open >>

\* Where a path with "." and ".." leads.
Walk(p) ==
    FoldLeft(LAMBDA q, name : IF name = "." \/ (name = ".." /\ q = << >>) THEN q
                              ELSE IF name = ".." THEN Front(q) ELSE Append(q, name), << >>, p)

\* Paths are written without "." and "..", the folders above each are among them, and
\* the system takes them all.
FileAssumption ==
    /\ Paths \subseteq Seq(STRING) /\ Targets \subseteq [path : Paths, absolute : BOOLEAN]
    /\ \A p \in Paths : /\ Walk(p) = p /\ Len(p) <= MaxPath
                        /\ \A k \in 0..Len(p) : SubSeq(p, 1, k) \in Paths

Kind(p) == IF Walk(p) \in Paths /\ Len(p) <= MaxPath THEN fs[Walk(p)] ELSE "none"
HasParent(p) == p # << >> /\ Kind(Front(p)) = "folder"
Inside(p) == {q \in Paths \ {<< >>} : Front(q) = Walk(p) /\ fs[q] # "none"}
Entries(p) == {".", ".."} \cup {Last(q) : q \in Inside(p)}

Init ==
    /\ fs \in {f \in [Paths -> {"none", "folder", "file"}] :
                 /\ f[<< >>] = "folder"
                 /\ \A p \in Paths \ {<< >>} : f[p] # "none" => f[Front(p)] = "folder"}
    /\ call = "none" /\ target = (CHOOSE t \in Targets : TRUE) /\ prefix = 0 /\ missing = FALSE
    /\ stack = << >> /\ answer = "none" /\ hFile = -1 /\ open = {}

Ends(result) == call' = "none" /\ answer' = result

\* Faults the runs must catch; no specification uses them.

\* A File that opens another file and forgets the one it has.
OpenLeaks(t) ==
    /\ call = "none" /\ target' = t
    /\ \/ /\ Kind(t.path) = "file" /\ hFile' = Cardinality(open) + 1
          /\ open' = open \cup {hFile'} /\ answer' = "true"
       \/ hFile' = -1 /\ open' = open \ {hFile} /\ answer' = "false"
    /\ UNCHANGED << fs, call, prefix, missing, stack >>

\* ensure_path_exist() that takes any failure of mkdir() for success.
MakeFolderTrusting ==
    /\ call \in {"ensure", "create"} /\ missing
    /\ LET p == SubSeq(target.path, 1, prefix) IN
       fs' = IF HasParent(p) /\ Kind(p) = "none" THEN [fs EXCEPT ![p] = "folder"] ELSE fs
    /\ missing' = FALSE /\ prefix' = prefix + 1
    /\ UNCHANGED << call, target, stack, answer, hFile, open >>

-----------------------------------------------------------------------------
\* File::Create() closes the file and begins with ensure_path_exist().
EnsurePathExist(t, create) ==
    /\ call = "none" /\ target' = t /\ missing' = FALSE
    /\ call' = IF create THEN "create" ELSE "ensure"
    /\ prefix' = IF t.absolute THEN 0 ELSE 1
    /\ IF create THEN hFile' = -1 /\ open' = open \ {hFile} ELSE UNCHANGED << hFile, open >>
    /\ answer' = "none"
    /\ UNCHANGED << fs, stack >>

\* The folders whose names end before a slash of what comes before the last one:
\* all above the target but the last.  Of an absolute path the first is "", which
\* does not exist.
LastPrefix == Len(target.path) - 2
Looking == call \in {"ensure", "create"} /\ ~missing /\ prefix <= LastPrefix

LookForFolder ==
    /\ Looking
    /\ IF prefix # 0 /\ Kind(SubSeq(target.path, 1, prefix)) # "none"
       THEN prefix' = prefix + 1 /\ UNCHANGED missing
       ELSE missing' = TRUE /\ UNCHANGED prefix
    /\ UNCHANGED << fs, call, target, stack, answer, hFile, open >>

\* The attempt may have been overtaken by another process: EEXIST is no failure.
MakeFolder ==
    /\ call \in {"ensure", "create"} /\ missing /\ missing' = FALSE
    /\ LET p == SubSeq(target.path, 1, prefix) IN
       \/ /\ prefix # 0 /\ HasParent(p) /\ Kind(p) = "none"
          /\ fs' = [fs EXCEPT ![p] = "folder"]
          /\ prefix' = prefix + 1 /\ UNCHANGED << call, answer >>
       \/ /\ prefix # 0 /\ Kind(p) # "none"
          /\ prefix' = prefix + 1 /\ UNCHANGED << fs, call, answer >>
       \/ /\ prefix = 0 \/ (~HasParent(p) /\ Kind(p) = "none")
          /\ IF call = "ensure" THEN Ends("false")
                                ELSE call' = "creat" /\ UNCHANGED answer
          /\ UNCHANGED << fs, prefix >>
    /\ UNCHANGED << target, stack, hFile, open >>

EnsureEnds ==
    /\ call \in {"ensure", "create"} /\ ~missing /\ prefix > LastPrefix
    /\ IF call = "ensure" THEN Ends("true") ELSE call' = "creat" /\ UNCHANGED answer
    /\ UNCHANGED << fs, target, prefix, missing, stack, hFile, open >>

\* creat(), whatever ensure_path_exist() has returned.
Create ==
    /\ call = "creat"
    /\ LET p == target.path IN
       IF HasParent(p) /\ Kind(p) # "folder" /\ ~target.absolute
       THEN /\ fs' = [fs EXCEPT ![p] = "file"] /\ Ends("true")
            /\ hFile' = Cardinality(open) + 1 /\ open' = open \cup {hFile'}
       ELSE Ends("false") /\ UNCHANGED << fs, hFile, open >>
    /\ UNCHANGED << target, prefix, missing, stack >>

\* File::Open().
Open(t) ==
    /\ call = "none" /\ target' = t
    /\ LET closed == open \ {hFile} IN
       \/ /\ Kind(t.path) = "file" /\ ~t.absolute /\ hFile' = Cardinality(closed) + 1
          /\ open' = closed \cup {hFile'} /\ answer' = "true"
       \/ hFile' = -1 /\ open' = closed /\ answer' = "false"
    /\ UNCHANGED << fs, call, prefix, missing, stack >>

\* File::Close() and the destructor.
Close ==
    /\ call = "none" /\ hFile # -1
    /\ open' = open \ {hFile} /\ hFile' = -1
    /\ UNCHANGED << fs, call, target, prefix, missing, stack, answer >>

-----------------------------------------------------------------------------
\* delete_file_folder() of one path; is_directory() throws for one that is not there.
DeleteFileFolder(t) ==
    /\ call = "none" /\ ~t.absolute /\ target' = t
    /\ \/ /\ Kind(t.path) = "none" /\ Ends("false") /\ UNCHANGED << fs, stack >>
       \/ /\ Kind(t.path) = "file" /\ Ends("true")
          /\ fs' = [fs EXCEPT ![t.path] = "none"] /\ UNCHANGED stack
       \/ /\ Kind(t.path) = "folder" /\ call' = "delete" /\ answer' = "none"
          /\ stack' = << [path |-> t.path, seen |-> {}] >> /\ UNCHANGED fs
    /\ UNCHANGED << prefix, missing, hFile, open >>

\* readdir() hands out what is in the folder, itself and its parent in any order.
\* An exception ends all; rmdir() of an empty folder would follow if ever there were
\* no entry left.
DeleteEntry ==
    /\ call = "delete"
    /\ LET folder == Last(stack)
           left == Entries(folder.path) \ folder.seen
       IN IF left = {}
          THEN IF Inside(folder.path) = {}
               THEN /\ fs' = [fs EXCEPT ![Walk(folder.path)] = "none"] /\ stack' = Front(stack)
                    /\ IF stack' = << >> THEN Ends("true") ELSE UNCHANGED << call, answer >>
               ELSE Ends("false") /\ stack' = << >> /\ UNCHANGED fs
          ELSE \E e \in left :
               LET path == Append(folder.path, e)
                   noted == [stack EXCEPT ![Len(stack)].seen = @ \cup {e}]
               IN \/ Kind(path) = "none" /\ Ends("false") /\ stack' = << >> /\ UNCHANGED fs
                  \/ /\ Kind(path) = "file" /\ fs' = [fs EXCEPT ![Walk(path)] = "none"]
                     /\ stack' = noted /\ UNCHANGED << call, answer >>
                  \/ /\ Kind(path) = "folder"
                     /\ stack' = Append(noted, [path |-> path, seen |-> {}])
                     /\ UNCHANGED << fs, call, answer >>
    /\ UNCHANGED << target, prefix, missing, hFile, open >>

\* Another process makes a folder.
OtherMakes(p) ==
    /\ fs[p] = "none" /\ HasParent(p)
    /\ fs' = [fs EXCEPT ![p] = "folder"]
    /\ UNCHANGED << call, target, prefix, missing, stack, answer, hFile, open >>

Next ==
    \/ LookForFolder \/ MakeFolder \/ EnsureEnds \/ Create \/ Close \/ DeleteEntry
    \/ \E t \in Targets :
         \/ Open(t) \/ DeleteFileFolder(t)
         \/ \E create \in BOOLEAN : EnsurePathExist(t, create)
    \/ \E p \in Paths : OtherMakes(p)

Spec == Init /\ [][Next]_vars

-----------------------------------------------------------------------------
(* Properties *)

Ensured ==
    call = "ensure" /\ answer' = "true" =>
        \A k \in 1..LastPrefix :
            LET kind == Kind(SubSeq(target.path, 1, k))
            IN kind = "folder" \/ (k = LastPrefix /\ kind = "file")

\* When ensure_path_exist() returns true the folders above the target but the last
\* are there, though other processes may have made some of them at the same time.  It
\* asks whether something exists and not what: only the deepest may be a plain file,
\* as below a file nothing can be made.
FoldersEnsured == [][Ensured]_vars

\* Of the descriptors that a File has opened it has at most one open, its own.
\* "Prevent handle leak".  (Open, Create, Close, ~File.)
OneDescriptor == open = {hFile} \ {-1}

\* What is deleted lies in the folder that is to be deleted.  (delete_folder.)
DeletesOnlyBelow ==
    [][call = "delete" =>
          \A p \in Paths : fs[p] # "none" /\ fs'[p] = "none" => IsPrefix(target.path, p)]_vars
=============================================================================
