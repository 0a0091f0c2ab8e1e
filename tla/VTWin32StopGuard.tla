--------------------------- MODULE VTWin32StopGuard ---------------------------
(***************************************************************************)
(* StopGuard of src/fn_win32.h, on its Cs: users acquire and release, and  *)
(* somebody waits for the event until all that was acquired is released.   *)
(***************************************************************************)
EXTENDS Integers, FiniteSets

CONSTANTS Users, Waiter, NoThread,
          Default,       \* made by StopGuard(), not by StopGuard(0)
          AtOnce,        \* does the waiter destroy the guard without more ado?
          MaxRounds      \* bound on the acquisitions of a user

StopGuardAssumption ==
    /\ IsFiniteSet(Users) /\ Waiter \notin Users /\ NoThread \notin Users \cup {Waiter}
    /\ Default \in BOOLEAN /\ AtOnce \in BOOLEAN /\ MaxRounds \in Nat

Threads == Users \cup {Waiter}

VARIABLES owner, depth, counter, at, deleted,   \* m_cs
          count,     \* m_count
          event,     \* m_event
          pc,        \* per user: where it is in release(); where the waiter is
          delta,     \* per user: release()'s argument
          rounds     \* acquisitions so far

cs == << owner, depth, counter, at, deleted >>
vars == << cs, count, event, pc, delta, rounds >>

Section == INSTANCE VTWin32Cs WITH MaxDepth <- 1

\* Every variable has its type, and the section is one.
TypeOK ==
    /\ Section!TypeOK
    /\ count \in (-Cardinality(Users))..0
    /\ event \in BOOLEAN
    /\ pc \in [Threads -> {"free", "locking", "add", "signal", "unlock", "leaving", "held",
                           "waiting", "released", "over"}]
    /\ delta \in [Users -> {-1, 1}]
    /\ rounds \in [Users -> 0..MaxRounds]

\* StopGuard(initial) releases initial, which signals the event.
Init ==
    /\ Section!Init
    /\ count = 0
    /\ event = ~Default
    /\ pc = [t \in Threads |-> IF t = Waiter THEN "waiting" ELSE "free"]
    /\ delta = [t \in Users |-> 1]
    /\ rounds = [t \in Users |-> 0]

-----------------------------------------------------------------------------
Go(t, from, to) == pc[t] = from /\ pc' = [pc EXCEPT ![t] = to]

\* Faults the runs must catch; no specification uses them.

\* release() that signals what it knows once it has let go of the lock.
UnlockSignals(t) ==
    /\ Go(t, "unlock", "leaving")
    /\ Section!Unlock(t)
    /\ event' = (delta[t] = 1)
    /\ UNCHANGED << count, delta, rounds >>

\* An event that tells of a count above zero only.
SignalAbove(t) ==
    /\ Go(t, "signal", "unlock")
    /\ event' = (count > 0)
    /\ UNCHANGED << cs, count, delta, rounds >>

-----------------------------------------------------------------------------
\* acquire() is release(-1).
Call(t) ==
    /\ pc[t] \in {"free", "held"}
    /\ pc[t] = "free" => rounds[t] < MaxRounds
    /\ rounds' = IF pc[t] = "free" THEN [rounds EXCEPT ![t] = @ + 1] ELSE rounds
    /\ delta' = [delta EXCEPT ![t] = IF pc[t] = "free" THEN -1 ELSE 1]
    /\ pc' = [pc EXCEPT ![t] = "locking"]
    /\ Section!LockCall(t)
    /\ UNCHANGED << count, event >>

Enter(t) == Section!Enter(t) /\ UNCHANGED << count, event, pc, delta, rounds >>

Locked(t) == Go(t, "locking", "add") /\ Section!Increment(t) /\ UNCHANGED << count, event, delta, rounds >>

Add(t) ==
    /\ Go(t, "add", "signal")
    /\ count' = count + delta[t]
    /\ UNCHANGED << cs, event, delta, rounds >>

Signal(t) ==
    /\ Go(t, "signal", "unlock")
    /\ event' = (count >= 0)
    /\ UNCHANGED << cs, count, delta, rounds >>

Unlock(t) ==
    /\ Go(t, "unlock", "leaving")
    /\ Section!Unlock(t)
    /\ UNCHANGED << count, event, delta, rounds >>

Leave(t) ==
    /\ Go(t, "leaving", IF delta[t] = -1 THEN "held" ELSE "free")
    /\ Section!Leave(t)
    /\ UNCHANGED << count, event, delta, rounds >>

\* Somebody waits for handle().
Wait ==
    /\ event
    /\ AtOnce => \A t \in Users : rounds[t] = MaxRounds
    /\ Go(Waiter, "waiting", "released")
    /\ UNCHANGED << cs, count, event, delta, rounds >>

\* ~StopGuard(), by a waiter that knows that nobody has anything or will acquire it.
Destroy ==
    /\ \A t \in Users :
         /\ rounds[t] = MaxRounds
         /\ pc[t] = "free" \/ (AtOnce /\ delta[t] = 1 /\ pc[t] \in {"unlock", "leaving"})
    /\ \/ Go(Waiter, "released", "over") /\ Section!Destroy(Waiter)
       \/ Section!DestroyLoop(Waiter) /\ UNCHANGED pc
    /\ UNCHANGED << count, event, delta, rounds >>

Done ==
    /\ \A t \in Users : pc[t] = "free" /\ rounds[t] = MaxRounds
    /\ pc[Waiter] \in {"waiting", "released", "over"}
    /\ UNCHANGED vars

Release(t) == Enter(t) \/ Locked(t) \/ Add(t) \/ Signal(t) \/ Unlock(t) \/ Leave(t)

Next == (\E t \in Users : Call(t) \/ Release(t)) \/ Wait \/ Destroy \/ Done

\* Users that hold something release it, and the section lets threads in.
Fairness ==
    /\ \A t \in Users : SF_vars(Release(t)) /\ WF_vars(pc[t] = "held" /\ Call(t))
    /\ SF_vars(Wait)

Spec == Init /\ [][Next]_vars /\ Fairness

-----------------------------------------------------------------------------
(* Properties *)

\* Nobody is let through while a user has what it acquired: acquire() has returned
\* and release() has not been called.  (acquire, release.)
WaitsForAll ==
    [][pc[Waiter] = "waiting" /\ pc'[Waiter] = "released" =>
        \A t \in Users : pc[t] # "held"]_vars

\* A waiter is let through when users have no more to acquire.  (release.)
WaitEnds == pc[Waiter] = "waiting" ~> pc[Waiter] = "released"

\* "StopGuard is in signalled state if 'count()' is equal or greater than zero",
\* whenever nobody is in the middle of a change.  (StopGuard, release.)
SignalledByCount == (\A t \in Users : pc[t] \in {"free", "held"}) => event = (count >= 0)

\* A guard whose event was waited for is not used after its destruction.  (release.)
NoUseAfterDestroy == deleted => \A t \in Users : pc[t] = "free"
=============================================================================
