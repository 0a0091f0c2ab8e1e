---------------------------- MODULE PlatformProofs ----------------------------
(***************************************************************************)
(* Proofs about MCPlatform for every set of threads, objects and handles   *)
(* and every bound: a daemon's parent tells the truth, handles and         *)
(* sections are given back, a StopGuard lets nobody through while a user   *)
(* has what it acquired, and a GlobalVar is one lock and one counter.      *)
(***************************************************************************)
EXTENDS MCPlatform, FiniteSetTheorems, TLAPS

-----------------------------------------------------------------------------
(* Daemon *)

DaemonTypes ==
    /\ pc \in [Daemon!Procs -> {"main", "daemonize", "fork", "pause", "getppid", "detach",
                                "tell", "handlers", "run", "over"}]
    /\ status \in [Daemon!Procs -> {"none", "running", "0", "1", "killed"}]
    /\ pending \in [Daemon!Procs -> SUBSET Daemon!Signals]
    /\ handlers \in [Daemon!Procs -> SUBSET Daemon!Signals]

Forked == status["child"] # "none"

\* Before the fork there is nothing to wait for, and after it the parent only waits.
ForkOK ==
    /\ status["parent"] # "running" => pc["parent"] = "over"
    /\ pc["parent"] = "pause" => Forked
    /\ Forked => pc["parent"] \in {"pause", "over"}
    /\ ~Forked =>
         /\ pc["child"] = "over" /\ ~alarmed
         /\ pending["parent"] \cap {"SIGALRM", "SIGUSR1", "SIGCHLD"} = {}

\* What each signal to the parent says of the child.
SignalsOK ==
    /\ pc["child"] \in {"getppid", "detach", "tell", "handlers", "run", "over"}
    /\ pc["child"] \in {"tell", "handlers", "run"} => detached
    /\ "SIGUSR1" \in pending["parent"] => detached /\ "parent" \in told
    /\ pending["parent"] \cap {"SIGALRM", "SIGCHLD"} # {} => status["child"] # "running"

DaemonInv ==
    /\ DaemonTypes /\ ForkOK /\ SignalsOK
    /\ Daemon!SuccessMeansDaemon /\ Daemon!FailureMeansNoDaemon

\* A process that ends says why: the parent with 0 only on its child's word or
\* without a child, with 1 only without a child that runs.
LEMMA EndsKeepsDaemon ==
    ASSUME DaemonInv, NEW p \in Daemon!Procs, NEW how \in {"0", "1", "killed"},
           status[p] = "running", Daemon!Ends(p, how),
           p = "parent" /\ how = "0" /\ Forked => detached /\ "parent" \in told,
           p = "parent" /\ how = "1" => status["child"] # "running"
    PROVE  DaemonInv'
BY DEF DaemonInv, DaemonTypes, ForkOK, SignalsOK, Forked, Daemon!Ends, Daemon!Procs, Daemon!Signals,
       Daemon!SuccessMeansDaemon, Daemon!FailureMeansNoDaemon, Daemon!user

LEMMA DaemonStepKeeps == DaemonInv /\ Daemon!Next => DaemonInv'
<1> SUFFICES ASSUME DaemonInv, Daemon!Next
             PROVE  DaemonInv'
    OBVIOUS
<1> USE DEF DaemonInv, DaemonTypes, ForkOK, SignalsOK, Forked, Daemon!Procs, Daemon!Signals,
            Daemon!SuccessMeansDaemon, Daemon!FailureMeansNoDaemon, Daemon!life, Daemon!signals,
            Daemon!user
<1>1. CASE Daemon!Main
    <2>1. CASE Daemon!Exits("parent", "main", "0")
        BY <2>1, EndsKeepsDaemon DEF Daemon!Exits
    <2> QED
        BY <1>1, <2>1 DEF Daemon!Main, Daemon!Go
<1>2. CASE Daemon!Daemonize
    <2>1. CASE Daemon!Exits("parent", "daemonize", "1")
        BY <2>1, EndsKeepsDaemon DEF Daemon!Exits
    <2> QED
        BY <1>2, <2>1 DEF Daemon!Daemonize, Daemon!Go
<1>3. CASE Daemon!Fork
    <2>1. CASE Daemon!Exits("parent", "fork", "1")
        BY <2>1, EndsKeepsDaemon DEF Daemon!Exits
    <2> QED
        BY <1>3, <2>1 DEF Daemon!Fork
<1>4. CASE Daemon!Alarm
    BY <1>4 DEF Daemon!Alarm
<1>5. CASE Daemon!GetParent
    BY <1>5 DEF Daemon!GetParent, Daemon!Go
<1>6. CASE Daemon!Detach
    <2>1. CASE Daemon!Exits("child", "detach", "1")
        BY <2>1, EndsKeepsDaemon DEF Daemon!Exits
    <2> QED
        BY <1>6, <2>1 DEF Daemon!Detach, Daemon!Go
<1>7. CASE Daemon!Tell
    BY <1>7 DEF Daemon!Tell, Daemon!Go
<1>8. ASSUME NEW p \in Daemon!Procs, Daemon!SetHandlers(p)
      PROVE  DaemonInv'
    BY <1>8 DEF Daemon!SetHandlers, Daemon!Go
<1>9. ASSUME NEW p \in Daemon!Procs, Daemon!RunEnds(p)
      PROVE  DaemonInv'
    <2>1. PICK how \in {"0", "1"} : Daemon!Exits(p, "run", how)
        BY <1>9 DEF Daemon!RunEnds
    <2> QED
        BY <2>1, EndsKeepsDaemon DEF Daemon!Exits
<1>10. ASSUME NEW p \in Daemon!Procs,
              Daemon!OnSignal(p) \/ Daemon!WaitForSignal(p) \/ Daemon!Terminate(p)
       PROVE  DaemonInv'
    BY <1>10 DEF Daemon!OnSignal, Daemon!WaitForSignal, Daemon!Terminate
<1>11. ASSUME NEW p \in Daemon!Procs, NEW s \in Daemon!Signals, Daemon!Handle(p, s)
       PROVE  DaemonInv'
    <2>1. CASE s \notin handlers[p] /\ s # "SIGCHLD"
        BY <1>11, <2>1, EndsKeepsDaemon DEF Daemon!Handle
    <2>2. CASE s \in handlers[p] /\ s = "SIGUSR1"
        BY <1>11, <2>2, EndsKeepsDaemon DEF Daemon!Handle
    <2>3. CASE s \in handlers[p] /\ s \in {"SIGALRM", "SIGCHLD"}
        BY <1>11, <2>3, EndsKeepsDaemon DEF Daemon!Handle
    <2>4. CASE pending' = [pending EXCEPT ![p] = @ \ {s}] /\ UNCHANGED << pc, status, handlers, alarmed, detached, told >>
        BY <2>4
    <2> QED
        BY <1>11, <2>1, <2>2, <2>3, <2>4 DEF Daemon!Handle
<1>12. CASE Daemon!AlarmRings
    BY <1>12 DEF Daemon!AlarmRings
<1>13. CASE Daemon!Over
    BY <1>13 DEF Daemon!Over, Daemon!vars
<1> QED
    BY <1>1, <1>2, <1>3, <1>4, <1>5, <1>6, <1>7, <1>8, <1>9, <1>10, <1>11, <1>12, <1>13
    DEF Daemon!Next, Daemon!Proceed

\* A parent that forked and returns success leaves a daemon that has detached
\* itself and told it so, and one that returns failure leaves none, whatever the
\* order of signals, deaths and the alarm.  (daemonize, child_handler.)
THEOREM TellsTruth == Spec => []ParentTellsTruth
<1>1. Init => DaemonInv
    BY DEF Init, Daemon!Init, DaemonInv, DaemonTypes, ForkOK, SignalsOK, Forked, Daemon!Procs,
           Daemon!Signals, Daemon!SuccessMeansDaemon, Daemon!FailureMeansNoDaemon
<1>2. DaemonInv /\ [Next]_vars => DaemonInv'
    <2> SUFFICES ASSUME DaemonInv, [Next]_vars
                 PROVE  DaemonInv'
        OBVIOUS
    <2>1. CASE UNCHANGED daemonVars
        BY <2>1 DEF daemonVars, DaemonInv, DaemonTypes, ForkOK, SignalsOK, Forked,
                    Daemon!SuccessMeansDaemon, Daemon!FailureMeansNoDaemon
    <2> QED
        BY <2>1, DaemonStepKeeps DEF Next, vars
<1>3. DaemonInv => ParentTellsTruth
    BY DEF DaemonInv, ParentTellsTruth
<1> QED
    BY <1>1, <1>2, <1>3, PTL DEF Spec
-----------------------------------------------------------------------------
(* StopGuard *)

GuardTypes ==
    /\ guardPc \in [Guard!Threads -> {"free", "locking", "add", "signal", "unlock", "leaving", "held",
                                      "waiting", "released", "over"}]
    /\ delta \in [Users -> {-1, 1}]
    /\ at \in [Guard!Threads -> {"idle", "entering", "entered", "leaving", "destroying"}]
    /\ owner \in Users \cup {NoThread} /\ deleted \in BOOLEAN

\* Where a user is in release() and where it is in Cs.
PlaceOK ==
    /\ guardPc[Waiter] \in {"waiting", "released", "over"}
    /\ \A t \in Users :
         /\ guardPc[t] \in {"free", "locking", "add", "signal", "unlock", "leaving", "held"}
         /\ guardPc[t] = "locking" => at[t] \in {"entering", "entered"}
         /\ guardPc[t] = "leaving" => at[t] = "leaving"
         /\ guardPc[t] \notin {"locking", "leaving"} => at[t] = "idle"
         /\ guardPc[t] = "held" => delta[t] = -1

Inside(t) == at[t] = "entered" \/ guardPc[t] \in {"add", "signal", "unlock", "leaving"}

\* One user at a time is inside, and the section has been entered as often as its
\* counter and the user's place say.
InsideOK ==
    /\ \A t \in Users : Inside(t) <=> owner = t
    /\ depth = IF owner = NoThread THEN 0 ELSE 1
    /\ ~deleted =>
         counter = IF owner \in Users /\ guardPc[owner] \in {"add", "signal", "unlock"} THEN 1 ELSE 0

\* The guard is destroyed after everybody's last round.
DestructionOK ==
    /\ at[Waiter] \in {"idle", "destroying"}
    /\ at[Waiter] = "destroying" => ~deleted
    /\ at[Waiter] = "destroying" \/ deleted =>
         /\ guardPc[Waiter] = "over"
         /\ \A t \in Users : guardPc[t] = "free" /\ rounds[t] = MaxRounds

\* Users whose acquisition is in m_count.
Counts(t) ==
    \/ guardPc[t] = "held"
    \/ guardPc[t] \in {"locking", "add"} /\ delta[t] = 1
    \/ guardPc[t] \in {"signal", "unlock", "leaving"} /\ delta[t] = -1

Holders == {t \in Users : Counts(t)}

CountOK == count = -Cardinality(Holders)

\* The event is down from before an acquisition ends until another change of the count.
EventOK ==
    \A t \in Users :
        guardPc[t] = "held" \/ (guardPc[t] \in {"unlock", "leaving"} /\ delta[t] = -1) => ~event

GuardInv == GuardTypes /\ PlaceOK /\ InsideOK /\ DestructionOK /\ CountOK /\ EventOK

LEMMA GuardConstants ==
    /\ IsFiniteSet(Users) /\ Waiter \notin Users /\ NoThread \notin Users \cup {Waiter}
    /\ MaxRounds \in Nat
BY PlatformInstances DEF Guard!StopGuardAssumption, Guard!IsFiniteSet, IsFiniteSet

\* A step of a user other than a change of the count.
LEMMA UserKeepsHolders ==
    ASSUME CountOK, GuardTypes, count' = count, \A u \in Users : Counts(u)' = Counts(u)
    PROVE  CountOK'
<1>1. Holders' = Holders
    BY DEF Holders
<1> QED
    BY <1>1 DEF CountOK

LEMMA CallKeepsGuard ==
    ASSUME GuardInv, NEW t \in Users, Guard!Call(t)
    PROVE  GuardInv'
<1> USE GuardConstants
         DEF GuardInv, GuardTypes, Guard!Call, Guard!Section!LockCall, Guard!Section!Move,
             Guard!Section!section, Guard!Threads
<1>1. GuardTypes'
    OBVIOUS
<1>2. PlaceOK'
    BY DEF PlaceOK
<1>3. InsideOK'
    BY DEF PlaceOK, InsideOK, Inside
<1>4. DestructionOK'
    BY DEF PlaceOK, DestructionOK
<1>5. \A u \in Users : Counts(u)' = Counts(u)
    BY DEF PlaceOK, Counts
<1>6. EventOK'
    BY DEF EventOK
<1> QED
    BY <1>1, <1>2, <1>3, <1>4, <1>5, <1>6, UserKeepsHolders

LEMMA EnterKeepsGuard ==
    ASSUME GuardInv, NEW t \in Users, Guard!Enter(t)
    PROVE  GuardInv'
<1> USE GuardConstants
         DEF GuardInv, GuardTypes, Guard!Enter, Guard!Section!Enter, Guard!Section!Move,
             Guard!Section!SystemEnters, Guard!Threads
<1>1. guardPc[t] = "locking" /\ owner = NoThread
    BY DEF PlaceOK, InsideOK, Inside
<1>2. GuardTypes' /\ PlaceOK'
    BY <1>1 DEF PlaceOK
<1>3. InsideOK'
    BY <1>1 DEF PlaceOK, InsideOK, Inside
<1>4. DestructionOK'
    BY DEF DestructionOK
<1>5. \A u \in Users : Counts(u)' = Counts(u)
    BY DEF Counts
<1>6. EventOK'
    BY DEF EventOK
<1> QED
    BY <1>2, <1>3, <1>4, <1>5, <1>6, UserKeepsHolders

LEMMA LockedKeepsGuard ==
    ASSUME GuardInv, NEW t \in Users, Guard!Locked(t)
    PROVE  GuardInv'
<1> USE GuardConstants
         DEF GuardInv, GuardTypes, Guard!Locked, Guard!Go, Guard!Section!Increment,
             Guard!Section!Move, Guard!Section!section, Guard!Threads
<1>1. GuardTypes' /\ PlaceOK'
    BY DEF PlaceOK
<1>2. owner = t
    BY DEF InsideOK, Inside
<1>3. DestructionOK'
    BY DEF DestructionOK
<1>4. InsideOK'
    BY <1>2 DEF PlaceOK, InsideOK, Inside, DestructionOK
<1>5. \A u \in Users : Counts(u)' = Counts(u)
    BY DEF Counts
<1>6. EventOK'
    BY DEF EventOK
<1> QED
    BY <1>1, <1>3, <1>4, <1>5, <1>6, UserKeepsHolders

\* The count goes down with a new holder, and up when one has gone.
LEMMA AddKeepsGuard ==
    ASSUME GuardInv, NEW t \in Users, Guard!Add(t)
    PROVE  GuardInv'
<1> USE GuardConstants
         DEF GuardInv, GuardTypes, Guard!Add, Guard!Go, Guard!cs, Guard!Threads
<1>1. GuardTypes' /\ PlaceOK'
    BY DEF PlaceOK
<1>2. InsideOK'
    BY DEF PlaceOK, InsideOK, Inside
<1>3. DestructionOK'
    BY DEF DestructionOK
<1>4. EventOK'
    BY DEF EventOK
<1>5. IsFiniteSet(Holders) /\ Cardinality(Holders) \in Nat
    BY FS_Subset, FS_CardinalityType DEF Holders
<1>6. CASE delta[t] = -1
    <2>1. t \notin Holders /\ Holders' = Holders \cup {t}
        BY <1>6 DEF Holders, Counts
    <2>2. Cardinality(Holders') = Cardinality(Holders) + 1
        BY <2>1, <1>5, FS_AddElement
    <2>3. CountOK'
        BY <2>2, <1>5, <1>6 DEF CountOK
    <2> QED
        BY <1>1, <1>2, <1>3, <1>4, <2>3
<1>7. CASE delta[t] = 1
    <2>1. t \in Holders /\ Holders' = Holders \ {t}
        BY <1>7 DEF Holders, Counts
    <2>2. Cardinality(Holders') = Cardinality(Holders) - 1
        BY <2>1, <1>5, FS_RemoveElement
    <2>3. CountOK'
        BY <2>2, <1>5, <1>7 DEF CountOK
    <2> QED
        BY <1>1, <1>2, <1>3, <1>4, <2>3
<1> QED
    BY <1>6, <1>7

\* The event goes up only without holders.
LEMMA NoHoldersAtZero ==
    ASSUME GuardInv, count >= 0
    PROVE  \A t \in Users : ~Counts(t)
<1>1. IsFiniteSet(Holders) /\ Cardinality(Holders) \in Nat
    BY GuardConstants, FS_Subset, FS_CardinalityType DEF Holders
<1>2. Cardinality(Holders) = 0
    BY <1>1 DEF GuardInv, CountOK
<1> QED
    BY <1>1, <1>2, FS_EmptySet DEF Holders

LEMMA SignalKeepsGuard ==
    ASSUME GuardInv, NEW t \in Users, Guard!Signal(t)
    PROVE  GuardInv'
<1> USE GuardConstants
         DEF GuardInv, GuardTypes, Guard!Signal, Guard!Go, Guard!cs, Guard!Threads
<1>1. GuardTypes' /\ PlaceOK'
    BY DEF PlaceOK
<1>2. InsideOK'
    BY DEF PlaceOK, InsideOK, Inside
<1>3. DestructionOK'
    BY DEF DestructionOK
<1>4. \A u \in Users : Counts(u)' = Counts(u)
    BY DEF Counts
<1>5. event' => \A u \in Users : ~Counts(u)'
    BY <1>4, NoHoldersAtZero
<1>6. EventOK'
    BY <1>5 DEF EventOK, Counts
<1> QED
    BY <1>1, <1>2, <1>3, <1>4, <1>6, UserKeepsHolders

LEMMA UnlockKeepsGuard ==
    ASSUME GuardInv, NEW t \in Users, Guard!Unlock(t)
    PROVE  GuardInv'
<1> USE GuardConstants
         DEF GuardInv, GuardTypes, Guard!Unlock, Guard!Go, Guard!Section!Unlock,
             Guard!Section!Move, Guard!Section!section, Guard!Threads
<1>1. GuardTypes' /\ PlaceOK'
    BY DEF PlaceOK
<1>2. DestructionOK'
    BY DEF DestructionOK
<1>3. InsideOK'
    BY DEF PlaceOK, InsideOK, Inside, DestructionOK
<1>4. \A u \in Users : Counts(u)' = Counts(u)
    BY DEF Counts
<1>5. EventOK'
    BY DEF EventOK
<1> QED
    BY <1>1, <1>2, <1>3, <1>4, <1>5, UserKeepsHolders

LEMMA LeaveKeepsGuard ==
    ASSUME GuardInv, NEW t \in Users, Guard!Leave(t)
    PROVE  GuardInv'
<1> USE GuardConstants
         DEF GuardInv, GuardTypes, Guard!Leave, Guard!Go, Guard!Section!Leave,
             Guard!Section!Move, Guard!Section!SystemLeaves, Guard!Threads
<1>1. owner = t /\ depth = 1
    BY DEF InsideOK, Inside
<1>2. GuardTypes' /\ PlaceOK'
    BY <1>1 DEF PlaceOK
<1>3. DestructionOK'
    BY DEF DestructionOK
<1>4. InsideOK'
    BY <1>1 DEF PlaceOK, InsideOK, Inside, DestructionOK
<1>5. \A u \in Users : Counts(u)' = Counts(u)
    BY DEF Counts
<1>6. EventOK'
    BY DEF EventOK
<1> QED
    BY <1>2, <1>3, <1>4, <1>5, <1>6, UserKeepsHolders

\* The waiter is let through by the event, and destroys what nobody uses any more.
LEMMA WaiterKeepsGuard ==
    ASSUME GuardInv, Guard!Wait \/ Guard!Destroy
    PROVE  GuardInv'
<1> USE GuardConstants
         DEF GuardInv, GuardTypes, Guard!Go, Guard!Threads
<1>1. CASE Guard!Wait
    <2>1. GuardTypes' /\ PlaceOK'
        BY <1>1 DEF Guard!Wait, Guard!cs, PlaceOK
    <2>2. InsideOK'
        BY <1>1 DEF Guard!Wait, Guard!cs, InsideOK, Inside
    <2>3. DestructionOK'
        BY <1>1 DEF Guard!Wait, Guard!cs, DestructionOK
    <2>4. \A u \in Users : Counts(u)' = Counts(u)
        BY <1>1 DEF Guard!Wait, Counts
    <2>5. EventOK'
        BY <1>1 DEF Guard!Wait, EventOK
    <2> QED
        BY <1>1, <2>1, <2>2, <2>3, <2>4, <2>5, UserKeepsHolders DEF Guard!Wait
<1>2. CASE Guard!Destroy
    <2> USE <1>2 DEF Guard!Destroy
    <2>1. \A t \in Users : guardPc[t] = "free" /\ rounds[t] = MaxRounds
        OBVIOUS
    <2>2. CASE Guard!Go(Waiter, "released", "over") /\ Guard!Section!Destroy(Waiter)
        <3> USE <2>1, <2>2 DEF Guard!Section!Destroy, Guard!Section!Move, Guard!Section!section
        <3>1. GuardTypes' /\ PlaceOK'
            BY DEF PlaceOK
        <3>2. InsideOK'
            BY DEF InsideOK, Inside
        <3>3. DestructionOK'
            BY DEF DestructionOK
        <3>4. \A u \in Users : Counts(u)' = Counts(u)
            BY DEF Counts
        <3>5. EventOK'
            BY DEF EventOK
        <3> QED
            BY <3>1, <3>2, <3>3, <3>4, <3>5, UserKeepsHolders
    <2>3. CASE Guard!Section!DestroyLoop(Waiter) /\ UNCHANGED guardPc
        <3> USE <2>1, <2>3 DEF Guard!Section!DestroyLoop, Guard!Section!section
        <3>1. owner = NoThread /\ depth = 0 /\ counter = 0
            BY DEF InsideOK, Inside, PlaceOK, DestructionOK
        <3>2. /\ deleted' /\ at' = [at EXCEPT ![Waiter] = "idle"]
              /\ owner' = owner /\ depth' = depth
            BY <3>1
        <3>3. GuardTypes' /\ PlaceOK'
            BY <3>2 DEF PlaceOK
        <3>4. InsideOK'
            BY <3>2 DEF InsideOK, Inside
        <3>5. DestructionOK'
            BY <3>2 DEF DestructionOK
        <3>6. \A u \in Users : Counts(u)' = Counts(u)
            BY DEF Counts
        <3>7. EventOK'
            BY DEF EventOK
        <3> QED
            BY <3>3, <3>4, <3>5, <3>6, <3>7, UserKeepsHolders
    <2> QED
        BY <2>2, <2>3
<1> QED
    BY <1>1, <1>2

LEMMA GuardStepKeeps == GuardInv /\ Guard!Next => GuardInv'
<1> SUFFICES ASSUME GuardInv, Guard!Next
             PROVE  GuardInv'
    OBVIOUS
<1>1. ASSUME NEW t \in Users, Guard!Call(t) \/ Guard!Release(t)
      PROVE  GuardInv'
    BY <1>1, CallKeepsGuard, EnterKeepsGuard, LockedKeepsGuard, AddKeepsGuard, SignalKeepsGuard,
       UnlockKeepsGuard, LeaveKeepsGuard DEF Guard!Release
<1>2. CASE Guard!Done
    BY <1>2 DEF Guard!Done, Guard!vars, Guard!cs, GuardInv, GuardTypes, PlaceOK, InsideOK, Inside,
                DestructionOK, CountOK, Holders, Counts, EventOK
<1> QED
    BY <1>1, <1>2, WaiterKeepsGuard DEF Guard!Next

GuardPart == part = "guard" => GuardInv

LEMMA GuardBegins == Init => GuardPart
<1> SUFFICES ASSUME Guard!Init
             PROVE  GuardInv
    BY DEF Init, GuardPart
<1> USE GuardConstants DEF Guard!Init, Guard!Section!Init, Guard!Threads
<1>1. GuardTypes /\ PlaceOK /\ InsideOK /\ DestructionOK /\ EventOK
    BY DEF GuardTypes, PlaceOK, InsideOK, Inside, DestructionOK, EventOK
<1>2. Holders = {}
    BY DEF Holders, Counts
<1>3. CountOK
    BY <1>2, FS_EmptySet DEF CountOK
<1> QED
    BY <1>1, <1>3 DEF GuardInv

LEMMA GuardContinues == GuardPart /\ [Next]_vars => GuardPart'
<1> SUFFICES ASSUME part = "guard", GuardInv, [Next]_vars
             PROVE  GuardInv'
    BY DEF Next, vars, GuardPart
<1>1. CASE UNCHANGED vars
    BY <1>1 DEF vars, csVars, guardVars, GuardInv, GuardTypes, PlaceOK, InsideOK, Inside,
                DestructionOK, CountOK, Holders, Counts, EventOK
<1> QED
    BY <1>1, GuardStepKeeps DEF Next

\* Nobody is let through while a user has what it acquired: acquire() has returned
\* and release() has not been called.  (acquire, release.)
THEOREM LetsNobodyThrough == Spec => WaitsForAll
<1>1. GuardPart /\ [Next]_vars =>
        (guardPc[Waiter] = "waiting" /\ guardPc'[Waiter] = "released" =>
           \A t \in Users : guardPc[t] # "held")
    <2> SUFFICES ASSUME GuardPart, [Next]_vars, guardPc[Waiter] = "waiting",
                        guardPc'[Waiter] = "released"
                 PROVE  \A t \in Users : guardPc[t] # "held"
        OBVIOUS
    <2>1. part = "guard" /\ GuardInv /\ Guard!Next
        BY DEF Next, vars, guardVars, GuardPart
    <2> USE <2>1, GuardConstants DEF GuardInv, GuardTypes, Guard!Threads, Guard!Go
    <2>2. CASE Guard!Wait
        BY <2>2 DEF Guard!Wait, EventOK
    <2>3. ASSUME NEW t \in Users, Guard!Call(t) \/ Guard!Release(t)
          PROVE  FALSE
        BY <2>3 DEF Guard!Call, Guard!Release, Guard!Enter, Guard!Locked, Guard!Add, Guard!Signal,
                    Guard!Unlock, Guard!Leave
    <2>4. CASE Guard!Destroy
        BY <2>4 DEF Guard!Destroy
    <2>5. CASE Guard!Done
        BY <2>5 DEF Guard!Done, Guard!vars
    <2> QED
        BY <2>1, <2>2, <2>3, <2>4, <2>5 DEF Guard!Next
<1>2. Spec => [](GuardPart)
    BY GuardBegins, GuardContinues, PTL DEF Spec
<1> QED
    BY <1>1, <1>2, PTL DEF Spec, WaitsForAll, Guard!WaitsForAll
-----------------------------------------------------------------------------
(* Cs, by itself *)

SectionTypes ==
    /\ owner \in Guard!Threads \cup {NoThread} /\ depth \in Nat /\ counter \in Int
    /\ at \in [Guard!Threads -> {"idle", "entering", "entered", "leaving", "destroying"}]
    /\ deleted \in BOOLEAN

\* One thread at a time is between the system's section and the counter: the depth is
\* one more than the counter then, and as much otherwise.
DepthOK ==
    /\ depth = 0 <=> owner = NoThread
    /\ \A t \in Guard!Threads : at[t] \in {"entered", "leaving"} => owner = t
    /\ ~deleted =>
         depth = IF owner # NoThread /\ at[owner] \in {"entered", "leaving"}
                 THEN counter + 1 ELSE counter

\* A section is destroyed by one that may, and has no threads in it then or later.
EndOK ==
    /\ \A t \in Guard!Threads : at[t] = "destroying" =>
         /\ ~deleted /\ owner \in {NoThread, t}
         /\ \A u \in Guard!Threads \ {t} : at[u] = "idle"
    /\ deleted => owner = NoThread /\ \A t \in Guard!Threads : at[t] = "idle"

SectionInv == SectionTypes /\ DepthOK /\ EndOK

LEMMA SectionStepKeeps == SectionInv /\ Section!Next => SectionInv'
<1> SUFFICES ASSUME SectionInv, NEW t \in Guard!Threads,
                    \/ Section!Usable /\ (Section!LockCall(t) \/ Section!Unlock(t))
                    \/ Section!Enter(t) \/ (Section!Usable /\ Section!TryLock(t))
                    \/ Section!Increment(t) \/ Section!Leave(t)
                    \/ Section!MayDestroy(t) /\ Section!Destroy(t)
                    \/ Section!DestroyLoop(t)
             PROVE  SectionInv'
    BY DEF Section!Next, Guard!Threads
<1>0. NoThread \notin Guard!Threads
    BY PlatformInstances DEF Section!CsAssumption, Guard!Threads
<1> USE <1>0 DEF SectionInv, SectionTypes, DepthOK, EndOK, Section!Move, Section!section,
                 Section!Usable, Guard!Threads
<1>1. CASE Section!Usable /\ Section!LockCall(t)
    BY <1>1 DEF Section!LockCall
<1>2. CASE Section!Usable /\ Section!Unlock(t)
    BY <1>2 DEF Section!Unlock
<1>3. CASE Section!Enter(t)
    BY <1>3 DEF Section!Enter, Section!SystemEnters
<1>4. CASE Section!Usable /\ Section!TryLock(t)
    BY <1>4 DEF Section!TryLock, Section!SystemEnters, Section!vars
<1>5. CASE Section!Increment(t)
    BY <1>5 DEF Section!Increment
<1>6. CASE Section!Leave(t)
    BY <1>6 DEF Section!Leave, Section!SystemLeaves
<1>7. CASE Section!MayDestroy(t) /\ Section!Destroy(t)
    BY <1>7 DEF Section!MayDestroy, Section!Destroy
<1>8. CASE Section!DestroyLoop(t)
    <2> USE <1>8 DEF Section!DestroyLoop, Section!SystemLeaves
    <2>1. depth = counter
        OBVIOUS
    <2>2. CASE counter > 0
        BY <2>1, <2>2
    <2>3. CASE counter = 0
        BY <2>1, <2>3
    <2> QED
        BY <2>1, <2>2, <2>3
<1> QED
    BY <1>1, <1>2, <1>3, <1>4, <1>5, <1>6, <1>7, <1>8

\* The section of a StopGuard is one of GuardInv; other parts do not destroy it.
SectionPart == part = "section" => SectionInv

NotDeleted == part \notin {"section", "guard"} => ~deleted

LEMMA SectionBegins == Init => SectionPart /\ NotDeleted
<1> SUFFICES ASSUME Guard!Init
             PROVE  SectionInv /\ ~deleted
    BY DEF Init, SectionPart, NotDeleted
<1>1. NoThread \notin Guard!Threads
    BY PlatformInstances DEF Section!CsAssumption, Guard!Threads
<1> USE <1>1 DEF Guard!Init, Guard!Section!Init
<1>2. /\ owner = NoThread /\ depth = 0 /\ counter = 0 /\ deleted = FALSE
      /\ at = [t \in Guard!Threads |-> "idle"]
    OBVIOUS
<1>3. SectionTypes
    <2>1. owner \in Guard!Threads \cup {NoThread}
        BY <1>2
    <2>2. depth \in Nat /\ counter \in Int
        BY <1>2
    <2>3. deleted \in BOOLEAN
        BY <1>2
    <2>4. at \in [Guard!Threads -> {"idle", "entering", "entered", "leaving", "destroying"}]
        BY <1>2
    <2> QED
        BY <2>1, <2>2, <2>3, <2>4 DEF SectionTypes
<1>4. DepthOK
    BY DEF DepthOK
<1>5. EndOK
    BY DEF EndOK
<1> QED
    BY <1>2, <1>3, <1>4, <1>5 DEF SectionInv

LEMMA SectionContinues ==
    SectionPart /\ NotDeleted /\ [Next]_vars => SectionPart' /\ NotDeleted'
<1> SUFFICES ASSUME SectionPart, NotDeleted, [Next]_vars
             PROVE  SectionPart' /\ NotDeleted'
    OBVIOUS
<1>1. NotDeleted'
    BY DEF NotDeleted, Next, vars, csVars
<1>2. CASE part = "section"
    <2>1. CASE UNCHANGED vars
        BY <1>1, <1>2, <2>1 DEF vars, csVars, SectionPart, SectionInv, SectionTypes, DepthOK, EndOK
    <2> QED
        BY <1>1, <1>2, <2>1, SectionStepKeeps DEF Next, SectionPart
<1>3. CASE part # "section"
    BY <1>1, <1>3 DEF Next, vars, SectionPart
<1> QED
    BY <1>2, <1>3

-----------------------------------------------------------------------------
(* Handle *)

HandleTypes ==
    /\ m_h \in [Objects -> Handle!Values]
    /\ given \subseteq Handles /\ raw \subseteq given
    /\ handlePc \in [Users -> {"idle", "close", "exchange", "closeOld", "store"}]
    /\ object \in [Users -> Objects]
    /\ old \in [Users -> Handle!Values] /\ new \in [Users -> Handle!Values]
    /\ crossed \in BOOLEAN

\* A thread has a handle to close or to store only where it is about to, and the
\* object that it has emptied stays empty as long as nobody puts a handle into it.
HandlePlaceOK ==
    \A t \in Users :
        /\ handlePc[t] \notin {"close", "closeOld"} => old[t] = Null
        /\ handlePc[t] \in {"idle", "close"} => new[t] = Null
        /\ ~crossed /\ handlePc[t] \in {"closeOld", "store"} => m_h[object[t]] = Null

OwnedIsOpen ==
    /\ \A o \in Objects : m_h[o] \in Handles => m_h[o] \in given \ raw
    /\ \A t \in Users : old[t] \in Handles => old[t] \in given \ raw
    /\ \A t \in Users : new[t] \in Handles => new[t] \in given \ raw

\* No two owners of one handle, whichever they are.
OneOwnerEach ==
    /\ \A o, p \in Objects : m_h[o] \in Handles /\ m_h[o] = m_h[p] => o = p
    /\ \A t, u \in Users : old[t] \in Handles /\ old[t] = old[u] => t = u
    /\ \A t, u \in Users : new[t] \in Handles /\ new[t] = new[u] => t = u
    /\ \A o \in Objects, t \in Users : m_h[o] \in Handles => m_h[o] # old[t] /\ m_h[o] # new[t]
    /\ \A t, u \in Users : old[t] \in Handles => old[t] # new[u]

OpenIsOwned ==
    ~crossed => \A h \in given :
        \/ h \in raw
        \/ \E o \in Objects : m_h[o] = h
        \/ \E t \in Users : old[t] = h \/ new[t] = h

HandleInv == HandleTypes /\ HandlePlaceOK /\ OwnedIsOpen /\ OneOwnerEach /\ OpenIsOwned

LEMMA HandleConstants == Null \notin Handles /\ Invalid \notin Handles
BY PlatformInstances DEF Handle!HandleAssumption

LEMMA HandleStepKeeps == HandleInv /\ Handle!Next => HandleInv'
<1> SUFFICES ASSUME HandleInv, NEW t \in Users,
                    \/ \E o \in Objects :
                         \/ Handle!Attach(t, o) \/ Handle!Detach(t, o) \/ Handle!Close(t, o)
                         \/ \E p \in Objects : Handle!Duplicate(t, o, p)
                    \/ Handle!CloseHandle(t) \/ Handle!CloseOld(t) \/ Handle!Store(t)
             PROVE  HandleInv'
    BY DEF Handle!Next
<1> USE HandleConstants DEF HandleInv, HandleTypes, Handle!Values
<1>1. ASSUME NEW o \in Objects, Handle!Attach(t, o)
      PROVE  HandleInv'
    <2> USE <1>1 DEF Handle!Attach, Handle!Begins, Handle!Exchange, Handle!Puts
    <2>1. HandleTypes'
        OBVIOUS
    <2>0. /\ \A q \in Objects \ {o} : m_h'[q] = m_h[q]
          /\ \A u \in Users \ {t} : old'[u] = old[u]
          /\ handlePc[t] = "idle" /\ new' = new
          /\ handlePc' = [handlePc EXCEPT ![t] = "close"] /\ object' = [object EXCEPT ![t] = o]
        OBVIOUS
    <2>2. HandlePlaceOK'
        <3> SUFFICES ASSUME NEW u \in Users
                     PROVE  /\ handlePc'[u] \notin {"close", "closeOld"} => old'[u] = Null
                            /\ handlePc'[u] \in {"idle", "close"} => new'[u] = Null
                            /\ ~crossed' /\ handlePc'[u] \in {"closeOld", "store"} =>
                                 m_h'[object'[u]] = Null
            BY DEF HandlePlaceOK
        <3>1. CASE u = t
            BY <2>0, <3>1 DEF HandlePlaceOK
        <3>2. CASE u # t
            <4>1. /\ handlePc'[u] = handlePc[u] /\ object'[u] = object[u]
                  /\ old'[u] = old[u] /\ new'[u] = new[u]
                BY <2>0, <3>2
            <4>2. ~crossed' => ~crossed /\ (handlePc[u] \in {"closeOld", "store"} => object[u] # o)
                BY <3>2
            <4> QED
                BY <2>0, <4>1, <4>2 DEF HandlePlaceOK
        <3> QED
            BY <3>1, <3>2
    <2>3. OwnedIsOpen'
        BY DEF HandlePlaceOK, OwnedIsOpen, OneOwnerEach
    <2>4. OneOwnerEach'
        BY DEF HandlePlaceOK, OwnedIsOpen, OneOwnerEach
    <2>5. OpenIsOwned'
        BY DEF HandlePlaceOK, OpenIsOwned
    <2> QED
        BY <2>1, <2>2, <2>3, <2>4, <2>5
<1>2. ASSUME NEW o \in Objects, Handle!Detach(t, o)
      PROVE  HandleInv'
    <2> USE <1>2 DEF Handle!Detach, Handle!Begins
    <2>1. HandleTypes'
        BY DEF OwnedIsOpen
    <2>2. HandlePlaceOK'
        BY DEF HandlePlaceOK
    <2>3. OwnedIsOpen'
        BY DEF OwnedIsOpen, OneOwnerEach
    <2>4. OneOwnerEach'
        BY DEF OneOwnerEach
    <2>5. OpenIsOwned'
        BY DEF OpenIsOwned
    <2> QED
        BY <2>1, <2>2, <2>3, <2>4, <2>5
<1>3. ASSUME NEW o \in Objects, Handle!Close(t, o)
      PROVE  HandleInv'
    <2> USE <1>3 DEF Handle!Close, Handle!Begins, Handle!Exchange
    <2>1. HandleTypes'
        OBVIOUS
    <2>2. HandlePlaceOK'
        BY DEF HandlePlaceOK
    <2>3. OwnedIsOpen' /\ OneOwnerEach'
        BY DEF HandlePlaceOK, OwnedIsOpen, OneOwnerEach
    <2>4. OpenIsOwned'
        BY DEF HandlePlaceOK, OpenIsOwned
    <2> QED
        BY <2>1, <2>2, <2>3, <2>4
<1>4. ASSUME NEW o \in Objects, NEW p \in Objects, Handle!Duplicate(t, o, p)
      PROVE  HandleInv'
    <2> USE <1>4 DEF Handle!Duplicate, Handle!Begins
    <2>1. HandleTypes'
        OBVIOUS
    <2>2. HandlePlaceOK'
        BY DEF HandlePlaceOK
    <2>3. OwnedIsOpen' /\ OneOwnerEach'
        BY DEF HandlePlaceOK, OwnedIsOpen, OneOwnerEach
    <2>4. OpenIsOwned'
        BY DEF HandlePlaceOK, OpenIsOwned
    <2> QED
        BY <2>1, <2>2, <2>3, <2>4
<1>5. CASE Handle!CloseHandle(t)
    <2> USE <1>5 DEF Handle!CloseHandle
    <2>1. HandleTypes'
        BY DEF OwnedIsOpen
    <2>2. HandlePlaceOK'
        BY DEF HandlePlaceOK
    <2>3. OwnedIsOpen' /\ OneOwnerEach'
        BY DEF OwnedIsOpen, OneOwnerEach
    <2>4. OpenIsOwned'
        BY DEF OpenIsOwned
    <2> QED
        BY <2>1, <2>2, <2>3, <2>4
<1>6. CASE Handle!CloseOld(t)
    <2> USE <1>6 DEF Handle!CloseOld, Handle!Exchange
    <2>1. HandleTypes'
        OBVIOUS
    <2>2. HandlePlaceOK'
        BY DEF HandlePlaceOK
    <2>3. OwnedIsOpen' /\ OneOwnerEach'
        BY DEF HandlePlaceOK, OwnedIsOpen, OneOwnerEach
    <2>4. OpenIsOwned'
        BY DEF HandlePlaceOK, OpenIsOwned
    <2> QED
        BY <2>1, <2>2, <2>3, <2>4
<1>7. CASE Handle!Store(t)
    <2> USE <1>7 DEF Handle!Store, Handle!Puts
    <2>1. HandleTypes'
        OBVIOUS
    <2>2. HandlePlaceOK'
        BY DEF HandlePlaceOK
    <2>3. OwnedIsOpen' /\ OneOwnerEach'
        BY DEF HandlePlaceOK, OwnedIsOpen, OneOwnerEach
    <2>4. OpenIsOwned'
        BY DEF HandlePlaceOK, OpenIsOwned
    <2> QED
        BY <2>1, <2>2, <2>3, <2>4
<1> QED
    BY <1>1, <1>2, <1>3, <1>4, <1>5, <1>6, <1>7

\* One owner as OneOwner counts it.
LEMMA OwnersCounted == HandleInv => Handle!OneOwner
<1> SUFFICES ASSUME HandleInv, NEW h \in Handles
             PROVE  /\ Handle!Owners(h) <= IF h \in given THEN 1 ELSE 0
                    /\ h \in given /\ ~crossed => Handle!Owners(h) = 1
    BY DEF Handle!OneOwner
<1> DEFINE Objs == {o \in Objects : m_h[o] = h}
           Olds == {t \in Users : old[t] = h}
           News == {t \in Users : new[t] = h}
           Raws == {h} \cap raw
<1> USE DEF HandleInv, HandleTypes, OwnedIsOpen, OneOwnerEach
<1>0. Cardinality({}) = 0 /\ \A x : Cardinality({x}) = 1
    BY FS_EmptySet, FS_Singleton
<1>1. ASSUME h \notin given
      PROVE  Cardinality(Objs) + Cardinality(Olds) + Cardinality(News) + Cardinality(Raws) = 0
    <2>1. Objs = {} /\ Olds = {} /\ News = {} /\ Raws = {}
        BY <1>1
    <2>2. Cardinality(Objs) = 0 /\ Cardinality(Olds) = 0 /\ Cardinality(News) = 0
          /\ Cardinality(Raws) = 0
        BY <1>0, <2>1
    <2> HIDE DEF Objs, Olds, News, Raws
    <2> QED
        BY <2>2
<1>2. ASSUME h \in raw
      PROVE  Cardinality(Objs) + Cardinality(Olds) + Cardinality(News) + Cardinality(Raws) = 1
    <2>1. Objs = {} /\ Olds = {} /\ News = {} /\ Raws = {h}
        BY <1>2
    <2>2. Cardinality(Objs) = 0 /\ Cardinality(Olds) = 0 /\ Cardinality(News) = 0
          /\ Cardinality(Raws) = 1
        BY <1>0, <2>1
    <2> HIDE DEF Objs, Olds, News, Raws
    <2> QED
        BY <2>2
<1>3. ASSUME NEW o \in Objects, m_h[o] = h
      PROVE  Cardinality(Objs) + Cardinality(Olds) + Cardinality(News) + Cardinality(Raws) = 1
    <2>1. Objs = {o} /\ Olds = {} /\ News = {} /\ Raws = {}
        BY <1>3
    <2>2. Cardinality(Objs) = 1 /\ Cardinality(Olds) = 0 /\ Cardinality(News) = 0
          /\ Cardinality(Raws) = 0
        BY <1>0, <2>1
    <2> HIDE DEF Objs, Olds, News, Raws
    <2> QED
        BY <2>2
<1>4. ASSUME NEW t \in Users, old[t] = h
      PROVE  Cardinality(Objs) + Cardinality(Olds) + Cardinality(News) + Cardinality(Raws) = 1
    <2>1. Objs = {} /\ Olds = {t} /\ News = {} /\ Raws = {}
        BY <1>4
    <2>2. Cardinality(Objs) = 0 /\ Cardinality(Olds) = 1 /\ Cardinality(News) = 0
          /\ Cardinality(Raws) = 0
        BY <1>0, <2>1
    <2> HIDE DEF Objs, Olds, News, Raws
    <2> QED
        BY <2>2
<1>5. ASSUME NEW t \in Users, new[t] = h
      PROVE  Cardinality(Objs) + Cardinality(Olds) + Cardinality(News) + Cardinality(Raws) = 1
    <2>1. Objs = {} /\ Olds = {} /\ News = {t} /\ Raws = {}
        BY <1>5
    <2>2. Cardinality(Objs) = 0 /\ Cardinality(Olds) = 0 /\ Cardinality(News) = 1
          /\ Cardinality(Raws) = 0
        BY <1>0, <2>1
    <2> HIDE DEF Objs, Olds, News, Raws
    <2> QED
        BY <2>2
<1>6. ASSUME h \notin raw, \A o \in Objects : m_h[o] # h,
             \A t \in Users : old[t] # h /\ new[t] # h
      PROVE  Cardinality(Objs) + Cardinality(Olds) + Cardinality(News) + Cardinality(Raws) = 0
    <2>1. Objs = {} /\ Olds = {} /\ News = {} /\ Raws = {}
        BY <1>6
    <2>2. Cardinality(Objs) = 0 /\ Cardinality(Olds) = 0 /\ Cardinality(News) = 0
          /\ Cardinality(Raws) = 0
        BY <1>0, <2>1
    <2> HIDE DEF Objs, Olds, News, Raws
    <2> QED
        BY <2>2
<1>7. Handle!Owners(h) = Cardinality(Objs) + Cardinality(Olds) + Cardinality(News) + Cardinality(Raws)
    BY DEF Handle!Owners, Handle!Cardinality, Cardinality
<1>8. /\ h \notin given => Handle!Owners(h) = 0
      /\ h \in given => Handle!Owners(h) \in {0, 1}
      /\ h \in given /\ ~crossed => Handle!Owners(h) = 1
    <2> HIDE DEF Objs, Olds, News, Raws
    <2> QED
        BY <1>1, <1>2, <1>3, <1>4, <1>5, <1>6, <1>7 DEF OpenIsOwned
<1> QED
    BY <1>8

LEMMA HandleBegins == Init => HandleInv
<1> SUFFICES ASSUME Handle!Init
             PROVE  HandleInv
    BY DEF Init
<1> USE HandleConstants DEF Handle!Init
<1>1. HandleTypes
    BY DEF HandleTypes, Handle!Values
<1>2. HandlePlaceOK /\ OwnedIsOpen /\ OneOwnerEach /\ OpenIsOwned
    BY DEF HandlePlaceOK, OwnedIsOpen, OneOwnerEach, OpenIsOwned
<1> QED
    BY <1>1, <1>2 DEF HandleInv

LEMMA HandleContinues == HandleInv /\ [Next]_vars => HandleInv'
<1>1. HandleInv /\ UNCHANGED handleVars => HandleInv'
    BY DEF handleVars, HandleInv, HandleTypes, Handle!Values, HandlePlaceOK, OwnedIsOpen,
           OneOwnerEach, OpenIsOwned
<1> QED
    BY <1>1, HandleStepKeeps DEF Next, vars

\* However any number of threads attach, detach, close and copy the same objects, no
\* handle has two owners or is closed twice, and none leaks unless another one was put
\* into an object in the middle of an assignment to it; and a section that was
\* destroyed is free, alone and inside a StopGuard.  (attach, detach, close,
\* operator=, ~Cs.)
THEOREM HandlesAndSectionsGivenBack == Spec => []GivenBack
<1> DEFINE I == HandleInv /\ GuardPart /\ SectionPart /\ NotDeleted
<1>1. Init => I
    BY HandleBegins, GuardBegins, SectionBegins
<1>2. I /\ [Next]_vars => I'
    BY HandleContinues, GuardContinues, SectionContinues
<1>3. I => GivenBack
    <2> SUFFICES ASSUME I
                 PROVE  Section!DestroyedFree
        BY OwnersCounted DEF GivenBack
    <2>1. CASE part = "section"
        BY <2>1 DEF SectionPart, SectionInv, DepthOK, EndOK, Section!DestroyedFree
    <2>2. CASE part = "guard"
        BY <2>2, GuardConstants DEF GuardPart, GuardInv, GuardTypes, InsideOK, Inside, PlaceOK,
                                    DestructionOK, Section!DestroyedFree
    <2> QED
        BY <2>1, <2>2 DEF NotDeleted, Section!DestroyedFree
<1> QED
    BY <1>1, <1>2, <1>3, PTL DEF Spec
-----------------------------------------------------------------------------
(* GlobalVar: arithmetic *)

\* Quotient and remainder.
LEMMA DivMod ==
    ASSUME NEW a \in Nat, NEW b \in Nat \ {0}
    PROVE  /\ a \div b \in Nat /\ a % b \in 0..(b - 1)
           /\ a = b * (a \div b) + (a % b)
OBVIOUS

LEMMA ModUnique ==
    ASSUME NEW a \in Nat, NEW b \in Nat \ {0}, NEW q \in Nat, NEW r \in 0..(b - 1), a = b * q + r
    PROVE  a \div b = q /\ a % b = r
<1> DEFINE q1 == a \div b
           r1 == a % b
<1>1. q1 \in Nat /\ r1 \in 0..(b - 1) /\ a = b * q1 + r1
    BY DivMod
<1> HIDE DEF q1, r1
<1>2. b * (q - q1) = r1 - r
    BY <1>1
<1>3. ~(q > q1)
    <2> SUFFICES ASSUME q > q1 PROVE FALSE
        OBVIOUS
    <2>1. q - q1 \in Nat /\ q - q1 >= 1
        BY <1>1
    <2>2. b * (q - q1) >= b
        BY <2>1
    <2> QED
        BY <1>1, <1>2, <2>2
<1>4. ~(q1 > q)
    <2> SUFFICES ASSUME q1 > q PROVE FALSE
        OBVIOUS
    <2>1. q1 - q \in Nat /\ q1 - q >= 1 /\ b * (q1 - q) = r - r1
        BY <1>1, <1>2
    <2>2. b * (q1 - q) >= b
        BY <2>1
    <2> QED
        BY <1>1, <2>1, <2>2
<1>5. q = q1 /\ r = r1
    BY <1>1, <1>2, <1>3, <1>4
<1> QED
    BY <1>5 DEF q1, r1

\* One more digit.
LEMMA TwoDigits ==
    ASSUME NEW v \in Nat, NEW P \in Nat \ {0}, NEW B \in Nat \ {0}
    PROVE  v % (B * P) = (v % P) + ((v \div P) % B) * P
<1> DEFINE q == v \div P
           r == v % P
           c == q \div B
           d == q % B
<1>1. q \in Nat /\ r \in 0..(P - 1) /\ v = P * q + r
    BY DivMod
<1>2. c \in Nat /\ d \in 0..(B - 1) /\ q = B * c + d
    BY DivMod, <1>1
<1> HIDE DEF q, r, c, d
<1>3. v = (B * P) * c + (r + d * P)
    BY <1>1, <1>2
<1>4. B * P \in Nat \ {0}
    OBVIOUS
<1>5. r + d * P \in 0..(B * P - 1)
    <2>1. d * P \in Nat /\ d * P <= (B - 1) * P
        BY <1>2
    <2>2. (B - 1) * P = B * P - P
        OBVIOUS
    <2> QED
        BY <1>1, <1>4, <2>1, <2>2
<1>6. v % (B * P) = r + d * P
    BY <1>2, <1>3, <1>4, <1>5, ModUnique
<1> QED
    BY <1>6 DEF r, d, q

\* What holds of 0, and of k + 1 if of k, holds of all up to n.
LEMMA UpTo ==
    ASSUME NEW n \in Nat, NEW S, 0 \in S, \A k \in 0..(n - 1) : k \in S => k + 1 \in S
    PROVE  \A k \in 0..n : k \in S
<1> SUFFICES ASSUME NEW m \in 0..n, m \notin S
             PROVE  FALSE
    OBVIOUS
<1> DEFINE A == {i \in 0..m : i \in S}
           f == [i \in A |-> i + 1]
<1>1. \A i \in A : i + 1 \in A \ {0}
    OBVIOUS
<1>2. f \in [A -> A \ {0}] /\ 0 \in A
    BY <1>1
<1>3. A \in SUBSET (0..m) /\ IsFiniteSet(0..m)
    BY FS_Interval
<1> HIDE DEF A
<1>4. IsFiniteSet(A)
    BY <1>3, FS_Subset
<1>5. IsFiniteSet(A \ {0}) /\ Cardinality(A \ {0}) < Cardinality(A)
    <2>1. Cardinality(A) \in Nat
        BY <1>4, FS_CardinalityType
    <2>2. 0 \in A
        BY <1>2
    <2>3. /\ IsFiniteSet(A \ {0})
          /\ Cardinality(A \ {0}) = IF 0 \in A THEN Cardinality(A) - 1 ELSE Cardinality(A)
        BY <1>4, FS_RemoveElement, Zenon
    <2> QED
        BY <2>1, <2>2, <2>3
<1>6. PICK x \in A, y \in A : x # y /\ f[x] = f[y]
    <2> HIDE DEF f
    <2> QED
        BY <1>2, <1>4, <1>5, FS_PigeonHole
<1> QED
    BY <1>6 DEF A

-----------------------------------------------------------------------------
(* GlobalVar: val_to_buf() and buf_to_val() *)

LEMMA LinuxConstants ==
    /\ NoThread \notin Users /\ NoVar \notin Users
    /\ Base \in Nat \ {0, 1} /\ IntBytes \in Nat \ {0}
    /\ MaxRefs \in Nat /\ MaxRestarts \in Nat
    /\ 2 * ((MaxRestarts + 1) * (MaxRefs * Cardinality(Users)) + 1) <= Base ^ IntBytes
    /\ Base ^ 0 = 1 /\ \A k \in 0..(2 * IntBytes) : Base ^ (k + 1) = Base * Base ^ k
BY PlatformInstances
DEF Linux!GlobalVarAssumption, Linux!PowersAssumption, Linux!Cardinality, Cardinality

LEMMA Powers == \A k \in 0..(2 * IntBytes) : Base ^ k \in Nat \ {0}
<1> DEFINE S == {k \in 0..(2 * IntBytes) : Base ^ k \in Nat \ {0}}
<1>1. 0 \in S
    BY LinuxConstants
<1>2. ASSUME NEW k \in 0..(2 * IntBytes - 1), k \in S PROVE k + 1 \in S
    <2>1. Base ^ (k + 1) = Base * Base ^ k /\ Base ^ k \in Nat \ {0}
        BY <1>2, LinuxConstants
    <2>2. Base * Base ^ k \in Nat \ {0}
        BY <2>1, LinuxConstants
    <2> QED
        BY <2>1, <2>2, LinuxConstants
<1>3. \A k \in 0..(2 * IntBytes) : k \in S
    <2> HIDE DEF S
    <2>1. 2 * IntBytes \in Nat
        BY LinuxConstants
    <2> QED
        BY <1>1, <1>2, <2>1, UpTo
<1> QED
    BY <1>3

\* The sums that IntOf() forms.
Sums(low) ==
    CHOOSE f : f = [k \in 0..IntBytes |->
                       IF k = 0 THEN 0 ELSE f[k - 1] + low[k - 1] * Base ^ (k - 1)]

LEMMA IntOfSums ==
    ASSUME NEW low
    PROVE  Linux!IntOf(low) = IF Sums(low)[IntBytes] < -Linux!Least THEN Sums(low)[IntBytes]
                              ELSE Sums(low)[IntBytes] - Base ^ IntBytes
BY DEF Linux!IntOf, Sums

\* The digits of a number sum up to it, as far as there are sums.
LEMMA SumOfDigits ==
    ASSUME NEW v \in Nat, NEW low,
           \A k \in 0..(IntBytes - 1) : low[k] = (v \div Base ^ k) % Base
    PROVE  Sums(low)[IntBytes] = v % Base ^ IntBytes
<1> DEFINE IsSums(f) == f = [k \in 0..IntBytes |->
                                IF k = 0 THEN 0 ELSE f[k - 1] + low[k - 1] * Base ^ (k - 1)]
           h == [k \in 0..IntBytes |-> v % Base ^ k]
<1>1. \A k \in 1..IntBytes : v % Base ^ k = (v % Base ^ (k - 1)) + low[k - 1] * Base ^ (k - 1)
    <2> SUFFICES ASSUME NEW k \in 1..IntBytes
                 PROVE  v % Base ^ k = (v % Base ^ (k - 1)) + low[k - 1] * Base ^ (k - 1)
        OBVIOUS
    <2>1. k - 1 \in 0..(IntBytes - 1) /\ k - 1 \in 0..(2 * IntBytes) /\ (k - 1) + 1 = k
        BY LinuxConstants
    <2>2. Base ^ k = Base * Base ^ (k - 1) /\ Base ^ (k - 1) \in Nat \ {0}
        BY <2>1, LinuxConstants, Powers
    <2> DEFINE P == Base ^ (k - 1)
    <2>3. P \in Nat \ {0} /\ Base ^ k = Base * P /\ low[k - 1] = (v \div P) % Base
        BY <2>1, <2>2
    <2> HIDE DEF P
    <2>4. v % (Base * P) = (v % P) + ((v \div P) % Base) * P
        BY <2>3, TwoDigits, LinuxConstants
    <2>5. v % Base ^ k = (v % P) + low[k - 1] * P
        BY <2>3, <2>4
    <2> QED
        BY <2>5 DEF P
<1>2. v % Base ^ 0 = 0
    BY LinuxConstants
<1>3. IsSums(h)
    <2>1. \A k \in 0..IntBytes : k # 0 => h[k - 1] = v % Base ^ (k - 1) /\ k \in 1..IntBytes
        BY LinuxConstants
    <2>2. \A k \in 0..IntBytes :
            v % Base ^ k = IF k = 0 THEN 0 ELSE h[k - 1] + low[k - 1] * Base ^ (k - 1)
        BY <1>1, <1>2, <2>1
    <2> QED
        BY <2>2
<1>4. IsSums(Sums(low))
    BY <1>3 DEF Sums
<1> DEFINE g == Sums(low)
<1> HIDE DEF g
<1>5. g[0] = 0 /\ \A k \in 1..IntBytes : g[k] = g[k - 1] + low[k - 1] * Base ^ (k - 1)
    <2>1. IsSums(g)
        BY <1>4 DEF g
    <2> DEFINE F(k) == IF k = 0 THEN 0 ELSE g[k - 1] + low[k - 1] * Base ^ (k - 1)
    <2>2. \A k \in 0..IntBytes : g[k] = F(k)
        <3>1. g = [k \in 0..IntBytes |-> F(k)]
            BY <2>1
        <3> HIDE DEF F
        <3> QED
            BY <3>1
    <2>3. 0 \in 0..IntBytes /\ \A k \in 1..IntBytes : k \in 0..IntBytes /\ k # 0
        BY LinuxConstants
    <2> QED
        BY <2>2, <2>3
<1> DEFINE S == {k \in 0..IntBytes : g[k] = v % Base ^ k}
<1>6. 0 \in S
    BY <1>2, <1>5, LinuxConstants
<1>7. ASSUME NEW k \in 0..(IntBytes - 1), k \in S PROVE k + 1 \in S
    <2>1. k + 1 \in 1..IntBytes /\ (k + 1) - 1 = k
        BY LinuxConstants
    <2>2. g[k + 1] = g[k] + low[k] * Base ^ k
        BY <1>5, <2>1
    <2>3. v % Base ^ (k + 1) = (v % Base ^ k) + low[k] * Base ^ k
        BY <1>1, <2>1
    <2> QED
        BY <1>7, <2>1, <2>2, <2>3
<1> HIDE DEF S
<1>8. \A k \in 0..IntBytes : k \in S
    BY <1>6, <1>7, UpTo, LinuxConstants
<1> QED
    BY <1>8, LinuxConstants DEF S, g

\* What the file is good for: numbers that are less than half of an int's values.
Storable == {v \in Nat : 2 * (v + 1) <= Base ^ IntBytes}

LEMMA HigherPowers == \A k \in 0..IntBytes : Base ^ IntBytes <= Base ^ (IntBytes + k)
<1> DEFINE S == {k \in 0..IntBytes : Base ^ IntBytes <= Base ^ (IntBytes + k)}
<1>1. Base ^ IntBytes \in Nat
    BY Powers, LinuxConstants
<1>2. 0 \in S
    <2>1. IntBytes + 0 = IntBytes /\ 0 \in 0..IntBytes
        BY LinuxConstants
    <2> QED
        BY <1>1, <2>1
<1>3. ASSUME NEW k \in 0..(IntBytes - 1), k \in S PROVE k + 1 \in S
    <2>1. IntBytes + k \in 0..(2 * IntBytes) /\ IntBytes + (k + 1) = (IntBytes + k) + 1
          /\ k + 1 \in 0..IntBytes
        BY LinuxConstants
    <2>2. Base ^ (IntBytes + (k + 1)) = Base * Base ^ (IntBytes + k)
          /\ Base ^ (IntBytes + k) \in Nat \ {0}
        BY <2>1, LinuxConstants, Powers
    <2>3. \A P \in Nat \ {0} : P <= Base * P
        BY LinuxConstants
    <2>4. Base ^ (IntBytes + k) <= Base * Base ^ (IntBytes + k)
        BY <2>2, <2>3
    <2> QED
        BY <1>1, <1>3, <2>1, <2>2, <2>4, LinuxConstants
<1>4. \A k \in 0..IntBytes : k \in S
    <2> HIDE DEF S
    <2> QED
        BY <1>2, <1>3, UpTo, LinuxConstants
<1> QED
    BY <1>4

\* What buf_to_val() makes of the bytes of val_to_buf().
LEMMA IntOfDigits ==
    ASSUME NEW v \in Storable, NEW low,
           \A k \in 0..(IntBytes - 1) : low[k] = (v \div Base ^ k) % Base
    PROVE  Linux!IntOf(low) = v
<1>1. v \in Nat /\ v < Base ^ IntBytes /\ Base ^ IntBytes \in Nat \ {0}
    BY Powers, LinuxConstants DEF Storable
<1>2. Sums(low)[IntBytes] = v % Base ^ IntBytes
    BY <1>1, SumOfDigits
<1>3. v % Base ^ IntBytes = v
    BY <1>1, ModUnique
<1>4. v < -Linux!Least
    <2>1. \A P \in Nat : 2 * (v + 1) <= P => v < P \div 2
        BY <1>1
    <2> QED
        BY <1>1, <2>1 DEF Linux!Least, Storable
<1> QED
    BY <1>2, <1>3, <1>4, IntOfSums

LEMMA Restored ==
    ASSUME NEW v \in Storable
    PROVE  Linux!FromBuf(Linux!ToBuf(v)) = {v} /\ Linux!ToBuf(v) # << >>
<1> DEFINE buf == Linux!ToBuf(v)
           low == [k \in 0..(IntBytes - 1) |-> buf[k]]
           wide == [k \in 0..(IntBytes - 1) |->
                       IF buf[k + IntBytes] = 0 THEN buf[k] ELSE Base - 1]
<1>1. v \in Nat /\ v < Base ^ IntBytes /\ Base ^ IntBytes \in Nat \ {0}
    BY Powers, LinuxConstants DEF Storable
<1>2. \A k \in 0..(2 * IntBytes - 1) : buf[k] = (v \div Base ^ k) % Base
    BY DEF Linux!ToBuf
<1>3. \A k \in 0..(IntBytes - 1) : buf[k + IntBytes] = 0
    <2> SUFFICES ASSUME NEW k \in 0..(IntBytes - 1)
                 PROVE  buf[k + IntBytes] = 0
        OBVIOUS
    <2>1. k + IntBytes \in 0..(2 * IntBytes - 1) /\ k + IntBytes = IntBytes + k
        BY LinuxConstants
    <2>2. Base ^ (IntBytes + k) \in Nat \ {0} /\ v < Base ^ (IntBytes + k)
        <3>1. IntBytes + k \in 0..(2 * IntBytes)
            BY LinuxConstants
        <3>2. Base ^ (IntBytes + k) \in Nat \ {0}
            BY <3>1, Powers
        <3>3. Base ^ IntBytes <= Base ^ (IntBytes + k)
            <4>1. k \in 0..IntBytes
                BY LinuxConstants
            <4> QED
                BY <4>1, HigherPowers
        <3> QED
            BY <1>1, <3>2, <3>3
    <2>3. v \div Base ^ (IntBytes + k) = 0
        BY <1>1, <2>2, ModUnique
    <2>4. 0 % Base = 0
        BY LinuxConstants
    <2> QED
        BY <1>2, <2>1, <2>3, <2>4
<1>4. \A k \in 0..(IntBytes - 1) : k \in 0..(2 * IntBytes - 1)
    BY LinuxConstants
<1>5. Linux!IntOf(low) = v
    <2>1. \A k \in 0..(IntBytes - 1) : low[k] = (v \div Base ^ k) % Base
        BY <1>2, <1>4
    <2> HIDE DEF low
    <2> QED
        BY <2>1, IntOfDigits
<1>6. Linux!IntOf(wide) = v
    <2>1. \A k \in 0..(IntBytes - 1) : wide[k] = (v \div Base ^ k) % Base
        BY <1>2, <1>3, <1>4
    <2> HIDE DEF wide
    <2> QED
        BY <2>1, IntOfDigits
<1>7. Linux!FromBuf(buf) = {v}
    BY <1>5, <1>6 DEF Linux!FromBuf
<1>8. 0 \in DOMAIN buf
    BY LinuxConstants DEF Linux!ToBuf
<1>9. buf # << >>
    BY <1>8
<1> QED
    BY <1>7, <1>9

-----------------------------------------------------------------------------
(* GlobalVar on Windows *)

\* The references that threads hold, each numbered by its thread.
WinRefs == {r \in Users \X Nat : r[2] < winHeld[r[1]]}

WinTypes ==
    /\ handles \in Nat /\ value \in Int
    /\ winPc \in [Users -> {"idle", "add", "close"}]
    /\ winMod \in [Users -> {-1, 0, 1}]
    /\ winCount \in [Users -> Int]
    /\ winAnswer \in [Users -> BOOLEAN]
    /\ winHeld \in [Users -> Nat]

\* Who is inside OperateMapping() has the mutex and a handle, dereferences what it
\* has referenced, and has read what the mapping still holds.
WinPlaceOK ==
    \A t \in Users : winPc[t] # "idle" =>
        /\ winOwner = t /\ handles > 0
        /\ winPc[t] = "add" /\ winMod[t] = -1 => winHeld[t] > 0
        /\ winPc[t] = "close" => winCount[t] = value

\* While it exists the mapping holds the number of references.
WinCountOK ==
    /\ IsFiniteSet(WinRefs)
    /\ IF handles > 0 THEN value = Cardinality(WinRefs) ELSE WinRefs = {}

WinInv == WinTypes /\ WinPlaceOK /\ WinCountOK

LEMMA WinConstants == NoThread \notin Users
BY PlatformInstances DEF Windows!GlobalVarAssumption

\* A step that makes and undoes no reference.
LEMMA WinKeepsCount ==
    ASSUME WinCountOK, winHeld' = winHeld, value' = value, handles > 0 <=> handles' > 0
    PROVE  WinCountOK'
<1>1. WinRefs' = WinRefs
    BY DEF WinRefs
<1> HIDE DEF WinRefs
<1> QED
    BY <1>1 DEF WinCountOK

WinStep == Windows!Global!Next \/ UNCHANGED Windows!Global!vars

LEMMA WinLock ==
    ASSUME WinInv, NEW t \in Users, Windows!Lock(t) \/ Windows!Unlock(t)
    PROVE  WinInv' /\ WinStep
<1> USE WinConstants DEF WinInv, Windows!Lock, Windows!Unlock, Windows!mapping
<1>1. WinTypes'
    BY DEF WinTypes
<1>2. WinPlaceOK'
    BY DEF WinTypes, WinPlaceOK
<1>3. WinCountOK'
    BY WinKeepsCount
<1>4. WinStep
    BY DEF WinStep, Windows!Global!Next, Windows!Global!vars, Windows!Global!Lock, Windows!Global!Unlock
<1> QED
    BY <1>1, <1>2, <1>3, <1>4

LEMMA WinOpen ==
    ASSUME WinInv, NEW t \in Users, NEW change \in {-1, 0, 1}, Windows!OpenMapping(t, change)
    PROVE  WinInv' /\ WinStep
<1> USE WinConstants DEF WinInv, Windows!OpenMapping, Windows!mapping, Windows!mutex
<1>1. WinTypes'
    <2>1. CASE handles = 0 /\ change = 0
        BY <2>1 DEF WinTypes
    <2>2. CASE ~(handles = 0 /\ change = 0)
        BY <2>2 DEF WinTypes
    <2> QED
        BY <2>1, <2>2
<1>2. WinPlaceOK'
    <2>1. \A u \in Users \ {t} : winPc[u] = "idle"
        BY DEF WinPlaceOK
    <2>2. \A u \in Users \ {t} : winPc'[u] = "idle"
        BY <2>1 DEF WinTypes
    <2>3. winPc'[t] # "idle" => winPc'[t] = "add" /\ winMod'[t] = change /\ handles' = handles + 1
        BY DEF WinTypes, WinPlaceOK
    <2> QED
        BY <2>2, <2>3 DEF WinTypes, WinPlaceOK
<1>3. CASE handles = 0 /\ change = 0
    <2>1. WinCountOK'
        BY <1>3, WinKeepsCount
    <2>2. Windows!Global!IsSet(t)
        <3>1. ((IF handles > 0 THEN value ELSE 0) > 0) = FALSE
            BY <1>3
        <3>2. winAnswer' = [winAnswer EXCEPT ![t] = (IF handles > 0 THEN value ELSE 0) > 0]
            BY <1>3, <3>1, Zenon
        <3> QED
            BY <1>3, <3>2 DEF Windows!Global!IsSet
    <2> QED
        BY <1>1, <1>2, <2>1, <2>2 DEF WinStep, Windows!Global!Next
<1>4. CASE ~(handles = 0 /\ change = 0)
    <2>1. WinRefs' = WinRefs
        BY <1>4 DEF WinRefs
    <2>2. handles = 0 => Cardinality(WinRefs) = 0
        BY FS_EmptySet DEF WinCountOK
    <2>3. WinCountOK'
        <3> HIDE DEF WinRefs
        <3> QED
            BY <1>4, <2>1, <2>2 DEF WinCountOK, WinTypes
    <2>4. UNCHANGED Windows!Global!vars
        BY <1>4 DEF Windows!Global!vars, WinTypes
    <2> QED
        BY <1>1, <1>2, <2>3, <2>4 DEF WinStep
<1> QED
    BY <1>3, <1>4

LEMMA WinAdd ==
    ASSUME WinInv, NEW t \in Users, Windows!Add(t)
    PROVE  WinInv' /\ WinStep
<1> USE WinConstants DEF WinInv, Windows!Add, Windows!mutex
<1>1. winOwner = t /\ handles > 0 /\ (winMod[t] = -1 => winHeld[t] > 0)
    BY DEF WinPlaceOK
<1>2. WinTypes'
    BY <1>1 DEF WinTypes
<1>3. WinPlaceOK'
    BY DEF WinTypes, WinPlaceOK
<1>4. IsFiniteSet(WinRefs') /\ Cardinality(WinRefs') = Cardinality(WinRefs) + winMod[t]
    <2>0. IsFiniteSet(WinRefs) /\ Cardinality(WinRefs) \in Nat
        BY FS_CardinalityType DEF WinCountOK
    <2>1. CASE winMod[t] = 0
        <3>1. WinRefs' = WinRefs
            BY <2>1 DEF WinRefs, WinTypes
        <3> HIDE DEF WinRefs
        <3> QED
            BY <2>0, <2>1, <3>1
    <2>2. CASE winMod[t] = 1
        <3>1. WinRefs' = WinRefs \cup {<< t, winHeld[t] >>} /\ << t, winHeld[t] >> \notin WinRefs
            BY <2>2 DEF WinRefs, WinTypes
        <3> HIDE DEF WinRefs
        <3> QED
            BY <2>0, <2>2, <3>1, FS_AddElement
    <2>3. CASE winMod[t] = -1
        <3>1. WinRefs' = WinRefs \ {<< t, winHeld[t] - 1 >>} /\ << t, winHeld[t] - 1 >> \in WinRefs
            BY <1>1, <2>3 DEF WinRefs, WinTypes
        <3> HIDE DEF WinRefs
        <3> QED
            BY <2>0, <2>3, <3>1, FS_RemoveElement
    <2> QED
        BY <2>1, <2>2, <2>3 DEF WinTypes
<1>5. WinCountOK'
    BY <1>1, <1>4 DEF WinCountOK
<1>6. WinStep
    <2>1. CASE winMod[t] = 0
        <3>1. Windows!Global!IsSet(t)
            BY <1>1, <2>1 DEF Windows!Global!IsSet, WinTypes
        <3> QED
            BY <3>1 DEF WinStep, Windows!Global!Next
    <2>2. CASE winMod[t] \in {-1, 1}
        <3>1. Windows!Global!Change(t, winMod[t])
            BY <1>1, <2>2 DEF Windows!Global!Change, WinTypes
        <3> QED
            BY <2>2, <3>1 DEF WinStep, Windows!Global!Next
    <2> QED
        BY <2>1, <2>2 DEF WinTypes
<1> QED
    BY <1>2, <1>3, <1>5, <1>6

LEMMA WinClose ==
    ASSUME WinInv, NEW t \in Users, Windows!CloseMapping(t)
    PROVE  WinInv' /\ WinStep
<1> USE WinConstants DEF WinInv, Windows!CloseMapping, Windows!mutex
<1>1. winOwner = t /\ handles > 0 /\ winCount[t] = value
    BY DEF WinPlaceOK
<1>2. WinTypes'
    BY <1>1 DEF WinTypes
<1>3. WinPlaceOK'
    BY <1>1 DEF WinTypes, WinPlaceOK
<1>4. WinRefs' = WinRefs
    BY DEF WinRefs
<1>5. value = Cardinality(WinRefs) /\ value \in Nat /\ (value = 0 => WinRefs = {})
    <2> HIDE DEF WinRefs
    <2> QED
        BY <1>1, FS_CardinalityType, FS_EmptySet DEF WinCountOK
<1> HIDE DEF WinRefs
<1>6. WinCountOK'
    BY <1>1, <1>4, <1>5 DEF WinCountOK, WinTypes
<1>7. UNCHANGED Windows!Global!vars
    BY <1>1, <1>5 DEF Windows!Global!vars, WinTypes
<1> QED
    BY <1>2, <1>3, <1>6, <1>7 DEF WinStep

-----------------------------------------------------------------------------
(* GlobalVar on Linux *)

\* What GlobalVarSpec's lock and counter are here.
Has(t) == linPc[t] \in {"locked", "read"}
LinOwner == IF \E t \in Users : Has(t) THEN CHOOSE t \in Users : Has(t) ELSE NoThread
LinValue == IF file = << >> THEN 0 ELSE CHOOSE val \in Linux!FromBuf(file) : TRUE

\* The references that the threads of this process hold, at most Room.
LinRefs == {r \in Users \X (1..MaxRefs) : r[2] <= linHeld[r[1]]}
Room == MaxRefs * Cardinality(Users)

LinTypes ==
    /\ flock \in Users \cup {NoVar}
    /\ locked \in [Users -> BOOLEAN]
    /\ linPc \in [Users -> {"idle", "locking", "locked", "read"}]
    /\ linMod \in [Users -> {-1, 0, 1}]
    /\ linCount \in [Users -> Int]
    /\ linAnswer \in [Users -> BOOLEAN]
    /\ linHeld \in [Users -> 0..MaxRefs]
    /\ restarts \in 0..MaxRestarts

\* From lock() to unlock() a thread's object has the lock, and what was read of the
\* file is what it holds.
LinPlaceOK ==
    /\ \A t \in Users : Has(t) => flock = t /\ locked[t]
    /\ \A t \in Users : linPc[t] = "read" =>
         /\ linCount[t] = LinValue /\ linMod[t] \in {-1, 1}
         /\ linMod[t] = -1 => linHeld[t] > 0
         /\ linMod[t] = 1 => linHeld[t] < MaxRefs

\* The file holds the references of the living and at most those of the dead.
LinFileOK ==
    /\ LinValue \in Nat
    /\ file # << >> => file = Linux!ToBuf(LinValue)
    /\ LinValue - Cardinality(LinRefs) \in 0..(restarts * Room)

LinInv == LinTypes /\ LinPlaceOK /\ LinFileOK

LinStep == Linux!Global!Next \/ UNCHANGED Linux!Global!vars

LEMMA Rooms ==
    /\ IsFiniteSet(Users) /\ Room \in Nat
    /\ \A n \in 0..MaxRestarts : \A w \in Nat : w <= n * Room + Room => w \in Storable
<1>1. IsFiniteSet(Users)
    BY PlatformInstances DEF Guard!StopGuardAssumption, Guard!IsFiniteSet, IsFiniteSet
<1>2. Cardinality(Users) \in Nat
    BY <1>1, FS_CardinalityType
<1>3. Room \in Nat /\ 2 * ((MaxRestarts + 1) * Room + 1) <= Base ^ IntBytes
    BY <1>2, LinuxConstants DEF Room
<1> HIDE DEF Room
<1>4. ASSUME NEW n \in 0..MaxRestarts, NEW w \in Nat, w <= n * Room + Room
      PROVE  w \in Storable
    <2>1. n * Room <= MaxRestarts * Room
        BY <1>3, LinuxConstants
    <2>2. (MaxRestarts + 1) * Room = MaxRestarts * Room + Room
        BY <1>3, LinuxConstants
    <2>3. n * Room \in Nat /\ MaxRestarts * Room \in Nat
        BY <1>3, LinuxConstants
    <2>4. w + 1 <= (MaxRestarts + 1) * Room + 1
        BY <1>3, <1>4, <2>1, <2>2, <2>3
    <2>5. Base ^ IntBytes \in Nat
        BY Powers, LinuxConstants
    <2> QED
        BY <1>3, <2>2, <2>3, <2>4, <2>5 DEF Storable
<1> QED
    BY <1>1, <1>3, <1>4

LEMMA LinRefsFit ==
    ASSUME NEW R \in SUBSET (Users \X (1..MaxRefs))
    PROVE  IsFiniteSet(R) /\ Cardinality(R) \in 0..Room
<1>1. IsFiniteSet(1..MaxRefs) /\ Cardinality(1..MaxRefs) = MaxRefs
    BY FS_Interval, LinuxConstants
<1>2. /\ IsFiniteSet(Users \X (1..MaxRefs))
      /\ Cardinality(Users \X (1..MaxRefs)) = Cardinality(Users) * MaxRefs
    BY <1>1, Rooms, FS_Product
<1>3. IsFiniteSet(R) /\ Cardinality(R) <= Cardinality(Users \X (1..MaxRefs))
    BY <1>2, FS_Subset
<1>4. Cardinality(R) \in Nat /\ Cardinality(Users) \in Nat
    BY <1>3, Rooms, FS_CardinalityType
<1> QED
    BY <1>2, <1>3, <1>4, LinuxConstants DEF Room

LEMMA LinRefsThere ==
    /\ LinRefs \in SUBSET (Users \X (1..MaxRefs))
    /\ LinRefs' \in SUBSET (Users \X (1..MaxRefs))
BY DEF LinRefs

\* What a thread reads is what the file holds, and all of it can be written.
LEMMA LinReads ==
    ASSUME LinTypes, LinFileOK
    PROVE  /\ LinValue \in Storable
           /\ (IF file = << >> THEN {0} ELSE Linux!FromBuf(file)) = {LinValue}
<1>1. LinValue \in Nat /\ LinValue <= restarts * Room + Room
    <2>1. Cardinality(LinRefs) \in 0..Room
        BY LinRefsFit, LinRefsThere
    <2>2. restarts * Room \in Nat
        BY Rooms, LinuxConstants DEF LinTypes
    <2> HIDE DEF LinValue, LinRefs, Room
    <2> QED
        BY <2>1, <2>2, Rooms DEF LinFileOK
<1>2. LinValue \in Storable
    BY <1>1, Rooms DEF LinTypes
<1>3. CASE file = << >>
    BY <1>2, <1>3 DEF LinValue
<1>4. CASE file # << >>
    <2>1. file = Linux!ToBuf(LinValue)
        BY <1>4 DEF LinFileOK
    <2>2. Linux!FromBuf(Linux!ToBuf(LinValue)) = {LinValue}
        BY <1>2, Restored
    <2> QED
        BY <1>2, <1>4, <2>1, <2>2
<1> QED
    BY <1>3, <1>4

\* Two threads do not have the lock at once.
LEMMA LinOwns ==
    LinPlaceOK =>
        /\ \A t \in Users : Has(t) => LinOwner = t
        /\ (\A t \in Users : ~Has(t)) => LinOwner = NoThread
BY DEF LinPlaceOK, LinOwner

LEMMA LinOwnsAfter ==
    LinPlaceOK' =>
        /\ \A t \in Users : Has(t)' => LinOwner' = t
        /\ (\A t \in Users : ~Has(t)') => LinOwner' = NoThread
BY DEF LinPlaceOK, LinOwner

\* A step that neither writes the file nor changes the references.
LEMMA LinKeepsFile ==
    ASSUME LinFileOK, file' = file, linHeld' = linHeld, restarts' = restarts
    PROVE  LinFileOK' /\ LinValue' = LinValue
<1>1. LinValue' = LinValue /\ LinRefs' = LinRefs
    BY DEF LinValue, LinRefs
<1> HIDE DEF LinValue, LinRefs
<1> QED
    BY <1>1 DEF LinFileOK

LEMMA LinOpens ==
    ASSUME LinInv, NEW v \in Users, Linux!Open(v) \/ Linux!Close(v)
    PROVE  LinInv' /\ LinStep
<1> USE DEF LinInv, Linux!Open, Linux!Close
<1>1. LinTypes'
    BY DEF LinTypes
<1>2. LinFileOK' /\ LinValue' = LinValue
    BY LinKeepsFile
<1>3. \A t \in Users : Has(t)' = Has(t)
    BY DEF Has
<1>4. LinPlaceOK'
    <2>1. \A t \in Users : Has(t) => flock' = t /\ locked'[t]
        BY LinuxConstants DEF LinTypes, LinPlaceOK, Has
    <2> QED
        BY <1>2, <1>3, <2>1 DEF LinPlaceOK
<1>5. UNCHANGED Linux!Global!vars
    <2>1. LinOwner' = LinOwner
        BY DEF LinOwner, Has
    <2> QED
        BY <1>2, <2>1 DEF Linux!Global!vars, LinOwner, LinValue, Has
<1> QED
    BY <1>1, <1>2, <1>4, <1>5 DEF LinStep

LEMMA LinLocks ==
    ASSUME LinInv, NEW t \in Users, Linux!LockCall(t) \/ Linux!Lock(t) \/ Linux!Unlock(t)
    PROVE  LinInv' /\ LinStep
<1> USE DEF LinInv, Linux!LockCall, Linux!Lock, Linux!Unlock
<1>1. LinTypes'
    BY DEF LinTypes
<1>2. LinFileOK' /\ LinValue' = LinValue
    BY LinKeepsFile
<1>3. LinPlaceOK'
    BY <1>2, LinuxConstants DEF LinTypes, LinPlaceOK, Has
<1>4. CASE Linux!LockCall(t)
    <2>1. \A u \in Users : Has(u)' = Has(u)
        BY <1>4 DEF Has, LinTypes
    <2>2. LinOwner' = LinOwner
        BY <2>1 DEF LinOwner
    <2>3. UNCHANGED Linux!Global!vars
        BY <1>2, <1>4, <2>2 DEF Linux!Global!vars, LinOwner, LinValue, Has
    <2> QED
        BY <1>1, <1>2, <1>3, <2>3 DEF LinStep
<1>5. CASE Linux!Lock(t)
    <2>1. (\A u \in Users : ~Has(u)) /\ Has(t)'
        BY <1>5, LinuxConstants DEF Has, LinTypes, LinPlaceOK
    <2>2. LinOwner = NoThread /\ LinOwner' = t
        BY <1>3, <2>1, LinOwns, LinOwnsAfter
    <2>3. Linux!Global!Lock(t)
        BY <1>2, <1>5, <2>2 DEF Linux!Global!Lock, LinOwner, LinValue, Has
    <2> QED
        BY <1>1, <1>2, <1>3, <2>3 DEF LinStep, Linux!Global!Next
<1>6. CASE Linux!Unlock(t)
    <2>1. Has(t) /\ \A u \in Users : ~Has(u)'
        BY <1>6 DEF Has, LinTypes, LinPlaceOK
    <2>2. LinOwner = t /\ LinOwner' = NoThread
        BY <1>3, <2>1, LinOwns, LinOwnsAfter
    <2>3. Linux!Global!Unlock(t)
        BY <1>2, <1>6, <2>2 DEF Linux!Global!Unlock, LinOwner, LinValue, Has
    <2> QED
        BY <1>1, <1>2, <1>3, <2>3 DEF LinStep, Linux!Global!Next
<1> QED
    BY <1>4, <1>5, <1>6

LEMMA LinOperates ==
    ASSUME LinInv, NEW t \in Users, NEW change \in {-1, 0, 1}, Linux!Operate(t, change)
    PROVE  LinInv' /\ LinStep
<1> USE DEF LinInv
<1>1. /\ linCount' = [linCount EXCEPT ![t] = LinValue]
      /\ linAnswer' = IF change = 0 THEN [linAnswer EXCEPT ![t] = LinValue > 0] ELSE linAnswer
    <2>1. (IF file = << >> THEN {0} ELSE Linux!FromBuf(file)) = {LinValue}
        BY LinReads
    <2> HIDE DEF LinValue
    <2> QED
        BY <2>1 DEF Linux!Operate
<1>2. LinValue \in Int
    BY DEF LinFileOK
<1>3. LinFileOK' /\ LinValue' = LinValue
    BY LinKeepsFile DEF Linux!Operate
<1>4. LinTypes'
    <2>1. linCount' \in [Users -> Int]
        BY <1>1, <1>2 DEF LinTypes
    <2>2. linAnswer' \in [Users -> BOOLEAN]
        BY <1>1, <1>2 DEF LinTypes
    <2> QED
        BY <2>1, <2>2 DEF LinTypes, Linux!Operate
<1>5. linPc[t] = "locked" /\ \A u \in Users : Has(u)' = Has(u)
    BY DEF Has, LinTypes, Linux!Operate
<1>6. LinPlaceOK'
    <2>1. \A u \in Users : Has(u)' => flock' = u /\ locked'[u]
        BY <1>5 DEF LinPlaceOK, Linux!Operate
    <2>2. \A u \in Users \ {t} : linPc'[u] # "read"
        <3>1. \A u \in Users \ {t} : ~Has(u)
            BY <1>5 DEF LinPlaceOK, Has
        <3> QED
            BY <1>5, <3>1 DEF Has
    <2>3. linPc'[t] = "read" =>
            /\ linCount'[t] = LinValue' /\ linMod'[t] \in {-1, 1}
            /\ linMod'[t] = -1 => linHeld'[t] > 0
            /\ linMod'[t] = 1 => linHeld'[t] < MaxRefs
        <3>1. linCount'[t] = LinValue'
            BY <1>1, <1>3 DEF LinTypes
        <3>2. linMod'[t] = change /\ linHeld' = linHeld
            BY DEF LinTypes, Linux!Operate
        <3>3. linPc'[t] = "read" => change # 0
            BY <1>5 DEF Linux!Operate
        <3> QED
            BY <3>1, <3>2, <3>3 DEF Linux!Operate
    <2> QED
        BY <2>1, <2>2, <2>3 DEF LinPlaceOK
<1>7. LinOwner' = LinOwner
    BY <1>5 DEF LinOwner
<1>8. CASE change = 0
    <2>1. LinOwner = t
        BY <1>5, LinOwns DEF Has
    <2>2. Linux!Global!IsSet(t)
        BY <1>1, <1>3, <1>7, <1>8, <2>1
        DEF Linux!Global!IsSet, Linux!Operate, LinOwner, LinValue, Has
    <2> QED
        BY <1>3, <1>4, <1>6, <2>2 DEF LinStep, Linux!Global!Next
<1>9. CASE change # 0
    <2>1. UNCHANGED Linux!Global!vars
        BY <1>1, <1>3, <1>7, <1>9 DEF Linux!Global!vars, Linux!Operate, LinOwner, LinValue, Has
    <2> QED
        BY <1>3, <1>4, <1>6, <2>1 DEF LinStep
<1> QED
    BY <1>8, <1>9

LEMMA LinWrites ==
    ASSUME LinInv, NEW t \in Users, Linux!Write(t)
    PROVE  LinInv' /\ LinStep
<1> USE DEF LinInv
<1> DEFINE w == LinValue + linMod[t]
<1>1. /\ Has(t) /\ linCount[t] = LinValue /\ linMod[t] \in {-1, 1}
      /\ linMod[t] = -1 => linHeld[t] > 0
      /\ linMod[t] = 1 => linHeld[t] < MaxRefs
    BY DEF Linux!Write, LinPlaceOK, Has
<1>2. LinValue \in Nat /\ linHeld[t] \in 0..MaxRefs
    BY DEF LinFileOK, LinTypes
<1>3. LinTypes'
    <2>1. linHeld[t] + linMod[t] \in 0..MaxRefs
        BY <1>1, <1>2, LinuxConstants
    <2>2. linCount[t] + linMod[t] \in Int
        BY <1>1, <1>2
    <2> QED
        BY <2>1, <2>2 DEF LinTypes, Linux!Write
<1>4. Cardinality(LinRefs') = Cardinality(LinRefs) + linMod[t]
    <2>0. IsFiniteSet(LinRefs) /\ Cardinality(LinRefs) \in Nat
        BY LinRefsFit, LinRefsThere
    <2>1. linHeld' = [linHeld EXCEPT ![t] = linHeld[t] + linMod[t]]
        BY DEF Linux!Write
    <2>2. CASE linMod[t] = 1
        <3>1. /\ LinRefs' = LinRefs \cup {<< t, linHeld[t] + 1 >>}
              /\ << t, linHeld[t] + 1 >> \notin LinRefs
            BY <1>1, <1>2, <2>1, <2>2, LinuxConstants DEF LinRefs, LinTypes
        <3> HIDE DEF LinRefs
        <3> QED
            BY <2>0, <2>2, <3>1, FS_AddElement
    <2>3. CASE linMod[t] = -1
        <3>1. /\ LinRefs' = LinRefs \ {<< t, linHeld[t] >>}
              /\ << t, linHeld[t] >> \in LinRefs
            BY <1>1, <1>2, <2>1, <2>3, LinuxConstants DEF LinRefs, LinTypes
        <3> HIDE DEF LinRefs
        <3> QED
            BY <2>0, <2>3, <3>1, FS_RemoveElement
    <2> QED
        BY <1>1, <2>2, <2>3
<1>5. w \in Nat /\ w \in Storable /\ w - Cardinality(LinRefs') \in 0..(restarts * Room)
    <2>1. restarts * Room \in Nat
        BY Rooms, LinuxConstants DEF LinTypes
    <2>2. Cardinality(LinRefs) \in Nat /\ Cardinality(LinRefs') \in 0..Room
        BY <1>3, LinRefsFit, LinRefsThere
    <2>3. LinValue - Cardinality(LinRefs) \in 0..(restarts * Room)
        BY DEF LinFileOK
    <2> HIDE DEF LinValue, LinRefs
    <2>4. w - Cardinality(LinRefs') \in 0..(restarts * Room)
        BY <1>1, <1>2, <1>4, <2>1, <2>2, <2>3
    <2>5. w \in Nat /\ w <= restarts * Room + Room
        BY <1>1, <1>2, <2>1, <2>2, <2>4, Rooms
    <2> HIDE DEF w
    <2> QED
        BY <2>4, <2>5, Rooms DEF LinTypes
<1>6. file' = Linux!ToBuf(w)
    BY <1>1 DEF Linux!Write
<1>7. LinValue' = w
    <2>1. Linux!FromBuf(Linux!ToBuf(w)) = {w} /\ Linux!ToBuf(w) # << >>
        BY <1>5, Restored
    <2> HIDE DEF w
    <2>2. Linux!FromBuf(file)' = Linux!FromBuf(file')
        BY DEF Linux!FromBuf, Linux!IntOf, Linux!Least
    <2>3. file' # << >> /\ Linux!FromBuf(file)' = {w}
        BY <1>6, <2>1, <2>2
    <2> QED
        BY <2>3 DEF LinValue
<1>8. LinFileOK'
    <2> HIDE DEF LinValue, LinRefs
    <2>1. restarts' = restarts
        BY DEF Linux!Write
    <2>2. Linux!ToBuf(LinValue)' = Linux!ToBuf(w)
        BY <1>7 DEF Linux!ToBuf
    <2> HIDE DEF w
    <2> QED
        BY <1>5, <1>6, <1>7, <2>1, <2>2 DEF LinFileOK, Room
<1>9. \A u \in Users : Has(u)' = Has(u)
    BY <1>1 DEF Has, LinTypes, Linux!Write
<1>10. LinPlaceOK'
    <2>1. \A u \in Users : Has(u)' => flock' = u /\ locked'[u]
        BY <1>9 DEF LinPlaceOK, Linux!Write
    <2>2. \A u \in Users : linPc'[u] # "read"
        BY <1>1 DEF LinPlaceOK, LinTypes, Has, Linux!Write
    <2> QED
        BY <2>1, <2>2 DEF LinPlaceOK
<1>11. LinOwner = t /\ LinOwner' = t
    BY <1>1, <1>9, <1>10, LinOwns, LinOwnsAfter
<1>12. Linux!Global!Change(t, linMod[t])
    BY <1>7, <1>11 DEF Linux!Global!Change, Linux!Write, LinOwner, LinValue, Has
<1> QED
    BY <1>1, <1>3, <1>8, <1>10, <1>12 DEF LinStep, Linux!Global!Next

LEMMA LinRestarts ==
    ASSUME LinInv, Linux!Restart
    PROVE  LinInv' /\ LinStep
<1> USE DEF LinInv, Linux!Restart
<1>1. LinTypes'
    BY LinuxConstants DEF LinTypes
<1>2. \A t \in Users : ~Has(t)' /\ linPc'[t] # "read"
    BY DEF Has
<1>3. LinPlaceOK'
    BY <1>2 DEF LinPlaceOK
<1>4. LinValue' = LinValue
    BY DEF LinValue
<1>5. LinRefs' = {}
    BY DEF LinRefs
<1>6. LinFileOK'
    <2>1. Cardinality(LinRefs') = 0
        BY <1>5, FS_EmptySet
    <2>2. Cardinality(LinRefs) \in 0..Room /\ restarts * Room \in Nat /\ restarts \in Nat
        BY LinRefsFit, LinRefsThere, Rooms, LinuxConstants DEF LinTypes
    <2>3. (restarts + 1) * Room = restarts * Room + Room
        BY <2>2, Rooms
    <2>4. file' = file /\ restarts' = restarts + 1
        OBVIOUS
    <2> HIDE DEF LinValue, LinRefs
    <2>5. LinValue' - 0 \in 0..(restarts' * Room)
        BY <1>4, <2>2, <2>3, <2>4, Rooms DEF LinFileOK
    <2>6. Linux!ToBuf(LinValue)' = Linux!ToBuf(LinValue)
        BY <1>4 DEF Linux!ToBuf
    <2> QED
        BY <1>4, <2>1, <2>4, <2>5, <2>6 DEF LinFileOK, Room
<1>7. LinOwner' = NoThread
    BY <1>2, <1>3, LinOwnsAfter
<1>8. Linux!Global!Restart
    BY <1>4, <1>7 DEF Linux!Global!Restart, LinOwner, LinValue, Has
<1> QED
    BY <1>1, <1>3, <1>6, <1>8 DEF LinStep, Linux!Global!Next

LEMMA WinBegins == Init => WinInv /\ Windows!Global!Init
<1> SUFFICES ASSUME Windows!Init
             PROVE  WinInv /\ Windows!Global!Init
    BY DEF Init
<1> USE DEF Windows!Init
<1>1. WinTypes /\ WinPlaceOK
    BY DEF WinTypes, WinPlaceOK
<1>2. WinRefs = {}
    BY DEF WinRefs
<1>3. WinCountOK
    BY <1>2, FS_EmptySet DEF WinCountOK
<1>4. Windows!Global!Init
    BY DEF Windows!Global!Init
<1> QED
    BY <1>1, <1>3, <1>4 DEF WinInv

LEMMA WinContinues == WinInv /\ [Next]_vars => WinInv' /\ WinStep
<1>1. ASSUME WinInv, UNCHANGED winVars
      PROVE  WinInv' /\ WinStep
    <2> USE <1>1 DEF winVars, WinInv
    <2>1. WinTypes' /\ WinPlaceOK'
        BY DEF WinTypes, WinPlaceOK
    <2>2. WinCountOK'
        BY WinKeepsCount
    <2>3. WinStep
        BY DEF WinStep, Windows!Global!vars
    <2> QED
        BY <2>1, <2>2, <2>3
<1>2. ASSUME WinInv, Windows!Next
      PROVE  WinInv' /\ WinStep
    BY <1>2, WinLock, WinOpen, WinAdd, WinClose DEF Windows!Next
<1> QED
    BY <1>1, <1>2 DEF Next, vars

LEMMA LinBegins == Init => LinInv /\ Linux!Global!Init
<1> SUFFICES ASSUME Linux!Init
             PROVE  LinInv /\ Linux!Global!Init
    BY DEF Init
<1> USE DEF Linux!Init
<1>1. LinTypes
    BY LinuxConstants DEF LinTypes
<1>2. \A t \in Users : ~Has(t) /\ linPc[t] # "read"
    BY DEF Has
<1>3. LinPlaceOK
    BY <1>2 DEF LinPlaceOK
<1>4. LinRefs = {} /\ LinValue = 0
    BY DEF LinRefs, LinValue
<1>5. LinFileOK
    <2>1. Cardinality(LinRefs) = 0
        BY <1>4, FS_EmptySet
    <2>2. restarts * Room = 0
        BY Rooms
    <2> HIDE DEF LinValue, LinRefs, Room
    <2> QED
        BY <1>4, <2>1, <2>2 DEF LinFileOK
<1>6. LinOwner = NoThread
    BY <1>2, <1>3, LinOwns
<1>7. Linux!Global!Init
    BY <1>4, <1>6 DEF Linux!Global!Init, LinOwner, LinValue, Has
<1> QED
    BY <1>1, <1>3, <1>5, <1>7 DEF LinInv

LEMMA LinContinues == LinInv /\ [Next]_vars => LinInv' /\ LinStep
<1>1. ASSUME LinInv, UNCHANGED linVars
      PROVE  LinInv' /\ LinStep
    <2> USE <1>1 DEF linVars, LinInv
    <2>1. LinFileOK' /\ LinValue' = LinValue
        BY LinKeepsFile
    <2>2. \A t \in Users : Has(t)' = Has(t)
        BY DEF Has
    <2>3. LinTypes' /\ LinPlaceOK'
        BY <2>1, <2>2 DEF LinTypes, LinPlaceOK
    <2>4. LinOwner' = LinOwner
        BY <2>2 DEF LinOwner
    <2>5. LinStep
        BY <2>1, <2>4 DEF LinStep, Linux!Global!vars, LinOwner, LinValue, Has
    <2> QED
        BY <2>1, <2>3, <2>5
<1>2. ASSUME LinInv, Linux!Next
      PROVE  LinInv' /\ LinStep
    BY <1>2, LinOpens, LinLocks, LinOperates, LinWrites, LinRestarts DEF Linux!Next
<1> QED
    BY <1>1, <1>2 DEF Next, vars

\* On both systems a GlobalVar is the lock and the counter of GlobalVarSpec, for
\* any number of threads: on Linux with an object each, in processes that die, and
\* on Windows with locks nested to any depth.  (lock, unlock, OperateMapping.)
THEOREM OneLockOneCounter == Spec => ImplementsGlobalVar
<1>1. Init => LinInv /\ WinInv /\ Linux!Global!Init /\ Windows!Global!Init
    BY LinBegins, WinBegins
<1>2. LinInv /\ WinInv /\ [Next]_vars =>
         LinInv' /\ WinInv' /\ [Linux!Global!Next]_(Linux!Global!vars)
                 /\ [Windows!Global!Next]_(Windows!Global!vars)
    BY LinContinues, WinContinues DEF LinStep, WinStep
<1> QED
    BY <1>1, <1>2, PTL
    DEF Spec, ImplementsGlobalVar, Linux!ImplementsGlobalVar, Windows!ImplementsGlobalVar,
        Linux!Global!Spec, Windows!Global!Spec
=============================================================================
