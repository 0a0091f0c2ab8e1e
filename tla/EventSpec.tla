------------------------------ MODULE EventSpec ------------------------------
(***************************************************************************)
(* What VT::Event promises its callers: a flag that signal() raises,       *)
(* reset() lowers and wait() observes.  Every operation takes effect at    *)
(* one instant between its call and its return.  VTEvent.tla, the model of *)
(* src/VTEvent.hpp, is checked to implement this specification, and        *)
(* VTThreadPool.tla uses events as this specification describes them.      *)
(***************************************************************************)
CONSTANT Threads

VARIABLES flag,    \* is the event signaled?
          call,    \* call[t]: the wait() thread t is in, or "none"
          result   \* result[t]: what t's last wait() returned

vars == << flag, call, result >>

Calls == {"none", "untimed", "timed"}
Results == {"none", "true", "false"}

TypeOK == /\ flag \in BOOLEAN
          /\ call \in [Threads -> Calls]
          /\ result \in [Threads -> Results]

Init == /\ flag = FALSE
        /\ call = [t \in Threads |-> "none"]
        /\ result = [t \in Threads |-> "none"]

Raise == flag' = TRUE /\ UNCHANGED << call, result >>

Lower == flag' = FALSE /\ UNCHANGED << call, result >>

\* wait() without a timeout is the untimed call, wait(ms) the timed one.
Wait(t) == /\ call[t] = "none"
           /\ \E kind \in {"untimed", "timed"} : call' = [call EXCEPT ![t] = kind]
           /\ result' = [result EXCEPT ![t] = "none"]
           /\ UNCHANGED flag

\* A wait returns true at an instant at which the event is signaled ...
ReturnTrue(t) == /\ call[t] # "none"
                 /\ flag
                 /\ call' = [call EXCEPT ![t] = "none"]
                 /\ result' = [result EXCEPT ![t] = "true"]
                 /\ UNCHANGED flag

\* ... and false, for a timed wait only, at an instant at which it is not.
ReturnFalse(t) == /\ call[t] = "timed"
                  /\ ~flag
                  /\ call' = [call EXCEPT ![t] = "none"]
                  /\ result' = [result EXCEPT ![t] = "false"]
                  /\ UNCHANGED flag

Next == \/ Raise
        \/ Lower
        \/ \E t \in Threads : Wait(t) \/ ReturnTrue(t) \/ ReturnFalse(t)

\* No waiter is left behind while the event stays signaled.
Fairness == \A t \in Threads : WF_vars(ReturnTrue(t))

SafetySpec == Init /\ [][Next]_vars

Spec == SafetySpec /\ Fairness
=============================================================================
