---------------------------- MODULE VTWin32Handle ----------------------------
(***************************************************************************)
(* Handle of src/fn_win32.h: objects that own a system handle each.        *)
(* attach, detach and close exchange it in one step; an assignment         *)
(* duplicates, closes and stores in several.  The classes derived from     *)
(* Handle (Event, Mutex, Semaphore, WaitableTimer, Thread) create and      *)
(* attach.  The system gives a closed handle's number out again.           *)
(***************************************************************************)
EXTENDS Naturals, FiniteSets

CONSTANTS Threads, Objects, Handles,
          Null, Invalid,      \* 0 and INVALID_HANDLE_VALUE
          MayFail             \* may the system hand out Invalid, as CreateFile() does?

HandleAssumption ==
    Null \notin Handles /\ Invalid \notin Handles /\ Null # Invalid /\ MayFail \in BOOLEAN

VARIABLES m_h,       \* per object
          open,      \* handles that the system has given out
          raw,       \* those that the program keeps by itself
          pc,        \* per thread: where it is in Handle
          target,    \* per thread: the object it works on
          old,       \* per thread: the handle it is about to close
          new,       \* per thread: the duplicate it is about to store
          isOk,      \* per thread: was the handle that it duplicated valid?
          crossed    \* (history) was a handle put into an object that another
                     \* thread's assignment had emptied and was about to fill?

locals == << pc, target, old, new, isOk >>
vars == << m_h, open, raw, locals, crossed >>

Values == Handles \cup {Null, Invalid}

\* Every variable has its type.
TypeOK ==
    /\ m_h \in [Objects -> Values]
    /\ open \subseteq Handles /\ raw \subseteq open
    /\ pc \in [Threads -> {"idle", "close", "exchange", "closeOld", "store"}]
    /\ target \in [Threads -> Objects]
    /\ old \in [Threads -> Values] /\ new \in [Threads -> Values]
    /\ isOk \in [Threads -> BOOLEAN] /\ crossed \in BOOLEAN

Init ==
    /\ m_h = [o \in Objects |-> Null]
    /\ open = {} /\ raw = {}
    /\ pc = [t \in Threads |-> "idle"]
    /\ target \in [Threads -> Objects]
    /\ old = [t \in Threads |-> Null] /\ new = [t \in Threads |-> Null]
    /\ isOk = [t \in Threads |-> FALSE]
    /\ crossed = FALSE

-----------------------------------------------------------------------------
\* A thread begins something with an object, whatever others do with it.
Begins(t, o, next) ==
    /\ pc[t] = "idle"
    /\ pc' = [pc EXCEPT ![t] = next]
    /\ target' = [target EXCEPT ![t] = o]

\* InterlockedExchangePointer().
Exchange(t, o, h) ==
    /\ m_h' = [m_h EXCEPT ![o] = h]
    /\ old' = [old EXCEPT ![t] = m_h[o]]

\* A thread puts a handle into an object.  An assignment of another thread that is
\* between its close and its store will overwrite it, or has been overtaken.
Puts(t, o) ==
    crossed' = (crossed \/ \E u \in Threads \ {t} :
                              target[u] = o /\ pc[u] \in {"closeOld", "store"})

\* Faults the runs must catch; no specification uses them.

\* close() that reads and clears the handle in two steps.
CloseReads(t, o) ==
    /\ Begins(t, o, "closeOld")
    /\ old' = [old EXCEPT ![t] = m_h[o]]
    /\ new' = [new EXCEPT ![t] = Null]
    /\ UNCHANGED << m_h, open, raw, isOk, crossed >>

-----------------------------------------------------------------------------
\* attach(), of a handle just created by a derived class, or of a raw one.
Attach(t, o) ==
    /\ Begins(t, o, "close") /\ Puts(t, o)
    /\ \/ \E h \in Handles \ open : Exchange(t, o, h) /\ open' = open \cup {h} /\ UNCHANGED raw
       \/ \E h \in raw : Exchange(t, o, h) /\ raw' = raw \ {h} /\ UNCHANGED open
       \/ Exchange(t, o, IF MayFail THEN Invalid ELSE Null) /\ UNCHANGED << open, raw >>
    /\ UNCHANGED << new, isOk >>

Detach(t, o) ==
    /\ Begins(t, o, "idle")
    /\ m_h' = [m_h EXCEPT ![o] = Null]
    /\ raw' = raw \cup ({m_h[o]} \cap Handles)
    /\ UNCHANGED << open, old, new, isOk, crossed >>

\* close(), and the destructor.
Close(t, o) ==
    /\ Begins(t, o, "close")
    /\ Exchange(t, o, Null)
    /\ UNCHANGED << open, raw, new, isOk, crossed >>

\* CloseHandle(), unless there was none.
CloseHandle(t) ==
    /\ pc[t] \in {"close", "closeOld"}
    /\ open' = open \ {old[t]}
    /\ old' = [old EXCEPT ![t] = Null]
    /\ pc' = [pc EXCEPT ![t] = IF pc[t] = "close" THEN "idle" ELSE "store"]
    /\ UNCHANGED << m_h, raw, target, new, isOk, crossed >>

\* operator=, the copy constructor too: DuplicateHandle() fails for a handle that
\* is not open, but takes INVALID_HANDLE_VALUE for the process's own.
Duplicate(t, o, p) ==
    /\ Begins(t, o, "exchange")
    /\ isOk' = [isOk EXCEPT ![t] = m_h[p] \in Handles]
    /\ \/ \E h \in Handles \ open :
            /\ m_h[p] \in open \cup {Invalid}
            /\ new' = [new EXCEPT ![t] = h] /\ open' = open \cup {h}
       \/ new' = [new EXCEPT ![t] = Null] /\ UNCHANGED open
    /\ UNCHANGED << m_h, raw, old, crossed >>

CloseOld(t) ==
    /\ pc[t] = "exchange"
    /\ pc' = [pc EXCEPT ![t] = "closeOld"]
    /\ Exchange(t, target[t], Null)
    /\ UNCHANGED << open, raw, target, new, isOk, crossed >>

\* A plain write, which closes nothing.
Store(t) ==
    /\ pc[t] = "store" /\ Puts(t, target[t])
    /\ pc' = [pc EXCEPT ![t] = "idle"]
    /\ m_h' = [m_h EXCEPT ![target[t]] = new[t]]
    /\ new' = [new EXCEPT ![t] = Null]
    /\ UNCHANGED << open, raw, target, old, isOk >>

Next == \E t \in Threads :
    \/ \E o \in Objects : \/ Attach(t, o) \/ Detach(t, o) \/ Close(t, o)
                          \/ \E p \in Objects : Duplicate(t, o, p)
    \/ CloseHandle(t) \/ CloseOld(t) \/ Store(t)

Spec == Init /\ [][Next]_vars

-----------------------------------------------------------------------------
(* Properties *)

\* The objects, threads about to close or store it, and the program itself, that own
\* a handle.
Owners(h) ==
    Cardinality({o \in Objects : m_h[o] = h}) + Cardinality({t \in Threads : old[t] = h})
      + Cardinality({t \in Threads : new[t] = h}) + Cardinality({h} \cap raw)

\* However threads attach, detach, close and copy the same objects, no handle has two
\* owners and what has one is open: nothing is closed twice, and no handle that the
\* system gave out again is closed for another.  And nothing leaks, every open handle
\* has its owner, unless a handle was put into an object between another thread's
\* close and store of an assignment to it.  (attach, detach, close, operator=.)
OneOwner ==
    \A h \in Handles :
        /\ Owners(h) <= IF h \in open THEN 1 ELSE 0
        /\ h \in open /\ ~crossed => Owners(h) = 1

\* Nothing leaks at all.  The code does not keep this: the store of an assignment
\* overwrites what another thread has attached since its close.  (operator=.)
NothingLeaks == \A h \in open : Owners(h) = 1

\* The copy of an invalid handle is invalid.  (operator=, isOk; "duplicates handle
\* controlled by given 'Handle' object".)
CopyIsOkOnlyIfOriginalWas == \A t \in Threads : pc[t] = "store" /\ new[t] \in Handles => isOk[t]
=============================================================================
