------------------------------- MODULE Timeouts -------------------------------
(***************************************************************************)
(* What a TickTimer promises: a timer armed with timeout d goes off at the  *)
(* d-th tick after, and one armed with timeout 0 when the first wheel has   *)
(* turned once.  left is the number of ticks a timer has to go.            *)
(***************************************************************************)
EXTENDS Naturals

CONSTANTS Timer, Timeout, Turn

VARIABLES left,  \* ticks to go, 0 when the timer is not armed
          due    \* the timers going off in the tick at work

vars == <<left, due>>

Wait(d) == IF d = 0 THEN Turn ELSE d

Init == left = [t \in Timer |-> 0] /\ due = {}

Arm(t, d) == due = {} /\ left' = [left EXCEPT ![t] = Wait(d)] /\ UNCHANGED due

Disarm(T) == /\ due = {}
             /\ left' = [t \in Timer |-> IF t \in T THEN 0 ELSE left[t]]
             /\ UNCHANGED due

Tick == /\ due = {}
        /\ due' = {t \in Timer : left[t] = 1}
        /\ left' = [t \in Timer |-> IF left[t] = 0 THEN 0 ELSE left[t] - 1]

GoOff(t) == /\ t \in due
            /\ due' = due \ {t}
            /\ \/ UNCHANGED left
               \/ \E d \in Timeout : left' = [left EXCEPT ![t] = Wait(d)]

Next == \/ Tick \/ \E T \in SUBSET Timer : Disarm(T)
        \/ \E t \in Timer : GoOff(t) \/ \E d \in Timeout : Arm(t, d)

Spec == Init /\ [][Next]_vars /\ WF_vars(\E t \in Timer : GoOff(t))
=============================================================================
