----------------------------- MODULE MCPlatform ------------------------------
(***************************************************************************)
(* What the library builds on one operating system each, for one run of    *)
(* TLC: daemons and GlobalVar on Linux, GlobalVar, Handle, Cs and          *)
(* StopGuard on Windows.  They share no state, so each behaviour takes     *)
(* steps of one of them only, and the states of all add up.                *)
(***************************************************************************)
EXTENDS Integers, FiniteSets

CONSTANTS Users, Waiter,                \* threads
          Objects, Handles, Null, Invalid,
          NoThread, NoVar,
          Base, IntBytes,               \* values of a byte, bytes of an int
          MaxTerms, MaxRefs, MaxRestarts, MaxDepth, MaxHandles, MaxRounds

VARIABLES part,      \* which of them takes steps
          mode, ofInit, pc, status, pending, handlers, alarmed, target, detached,
          told, quit, onSignal, terms,
          open, file, flock, locked, linPc, linMod, linCount, linAnswer, linHeld, restarts,
          winOwner, winDepth, handles, value, winPc, winMod, winCount, winAnswer, winHeld,
          m_h, given, raw, handlePc, object, old, new, isOk, crossed,
          owner, depth, counter, at, deleted, count, event, guardPc, delta, rounds

daemonVars == << mode, ofInit, pc, status, pending, handlers, alarmed, target, detached,
                 told, quit, onSignal, terms >>
linVars == << open, file, flock, locked, linPc, linMod, linCount, linAnswer, linHeld, restarts >>
winVars == << winOwner, winDepth, handles, value, winPc, winMod, winCount, winAnswer, winHeld >>
handleVars == << m_h, given, raw, handlePc, object, old, new, isOk, crossed >>
csVars == << owner, depth, counter, at, deleted >>
guardVars == << count, event, guardPc, delta, rounds >>
vars == << part, daemonVars, linVars, winVars, handleVars, csVars, guardVars >>

\* Children are prompt; SIGTERMs come to either process.
Daemon == INSTANCE VTDaemon WITH MayBeSlow <- FALSE

\* Threads with an object each, that of a thread named as the thread, in a process
\* that may die.
Linux == INSTANCE VTOSProcessLin WITH
    Threads <- Users, Vars <- Users, Uses <- [t \in Users |-> t],
    pc <- linPc, mod <- linMod, count <- linCount, answer <- linAnswer, held <- linHeld

Windows == INSTANCE VTOSProcessWin WITH
    Threads <- Users, owner <- winOwner, depth <- winDepth,
    pc <- winPc, mod <- winMod, count <- winCount, answer <- winAnswer, held <- winHeld

\* Threads that share objects; no system call hands out INVALID_HANDLE_VALUE.
Handle == INSTANCE VTWin32Handle WITH
    Threads <- Users, MayFail <- FALSE, open <- given, pc <- handlePc, target <- object

\* A section by itself, with nested locks, and the one inside a StopGuard(0).
Section == INSTANCE VTWin32Cs WITH Threads <- Users \cup {Waiter}

Guard == INSTANCE VTWin32StopGuard WITH
    Default <- FALSE, AtOnce <- FALSE, pc <- guardPc

ASSUME PlatformInstances ==
    /\ Daemon!DaemonAssumption
    /\ Linux!GlobalVarAssumption /\ Linux!PowersAssumption /\ Windows!GlobalVarAssumption
    /\ Handle!HandleAssumption /\ Section!CsAssumption /\ Guard!StopGuardAssumption

Init ==
    /\ part \in {"daemon", "linux", "windows", "handle", "section", "guard"}
    /\ Daemon!Init /\ (part # "daemon" => mode = "help" /\ ofInit)
    /\ Linux!Init
    /\ Windows!Init
    /\ Handle!Init /\ (part # "handle" => object = [t \in Users |-> CHOOSE o \in Objects : TRUE])
    /\ Guard!Init

Next ==
    \/ /\ part = "daemon" /\ Daemon!Next
       /\ UNCHANGED << part, linVars, winVars, handleVars, csVars, guardVars >>
    \/ /\ part = "linux" /\ Linux!Next
       /\ UNCHANGED << part, daemonVars, winVars, handleVars, csVars, guardVars >>
    \/ /\ part = "windows" /\ Windows!Next
       /\ UNCHANGED << part, daemonVars, linVars, handleVars, csVars, guardVars >>
    \/ /\ part = "handle" /\ Handle!Next
       /\ UNCHANGED << part, daemonVars, linVars, winVars, csVars, guardVars >>
    \/ /\ part = "section" /\ Section!Next
       /\ UNCHANGED << part, daemonVars, linVars, winVars, handleVars, guardVars >>
    \/ /\ part = "guard" /\ Guard!Next
       /\ UNCHANGED << part, daemonVars, linVars, winVars, handleVars >>

\* The fairness of the part that takes steps.
Fairness ==
    /\ part = "daemon" => Daemon!Fairness
    /\ part = "guard" => Guard!Fairness

Spec == Init /\ [][Next]_vars /\ Fairness

-----------------------------------------------------------------------------
\* Every variable has its type.
TypeOK ==
    /\ Daemon!TypeOK /\ Linux!TypeOK /\ Windows!TypeOK /\ Handle!TypeOK
    /\ IF part = "section" THEN Section!TypeOK ELSE Guard!TypeOK

\* A parent that forked and returns success leaves a daemon that has told it so,
\* and one that returns failure leaves none.  (daemonize, child_handler.)
ParentTellsTruth == Daemon!SuccessMeansDaemon /\ Daemon!FailureMeansNoDaemon

\* The parent does not hang, and a signal to quit reaches the thread that
\* on_signal() started, though it may have come first.  (daemonize,
\* wait_for_signal, term_handler.)
SignalsArrive == part = "daemon" => Daemon!ParentEnds /\ Daemon!HandlerCalled

\* On both systems a GlobalVar is the lock and the counter of GlobalVarSpec.
\* (lock, unlock, OperateMapping.)
ImplementsGlobalVar == Linux!ImplementsGlobalVar /\ Windows!ImplementsGlobalVar

\* No handle has two owners or is closed twice, none leaks unless another one was put
\* into an object in the middle of an assignment to it, and a destroyed section has
\* been left as often as it was entered.  (attach, detach, close, operator=, ~Cs.)
GivenBack == Handle!OneOwner /\ Section!DestroyedFree

\* Nobody is let through while a user has what it acquired.  (acquire, release.)
WaitsForAll == Guard!WaitsForAll

\* A waiter is let through when users have no more to acquire.  (release.)
WaitEnds == part = "guard" => Guard!WaitEnds

\* The file holds the references of the living.  The code does not keep this: the
\* file of a process that died is there when its number comes back.
\* (GlobalVar::GlobalVar; "we use it only from current process".)
FileCounts == Linux!FileCounts
=============================================================================
