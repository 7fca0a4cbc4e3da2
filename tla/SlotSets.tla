------------------------------- MODULE SlotSets -------------------------------
(***************************************************************************)
(* The slots of a timing wheel as TickTimer sees them: every timer is in    *)
(* one slot or in none, and a walk meets the timers that were in its list   *)
(* when it began, each once, wherever they are put meanwhile.               *)
(***************************************************************************)
EXTENDS Naturals

CONSTANTS Timer, Slot, Local   \* Local: the list a tick walks

VARIABLES place,  \* the slots a timer is linked in: none or one
          todo,   \* the timers the walk has still to meet
          work    \* off, fire, cascade, stop

vars == <<place, todo, work>>

None == {}
At(s) == {t \in Timer : place[t] = {s}}

Init == place = [t \in Timer |-> None] /\ todo = {} /\ work = "off"

Put(t, s) == /\ work = "off" /\ place' = [place EXCEPT ![t] = s]
             /\ UNCHANGED <<todo, work>>

Walk(s, w) ==
  /\ work = "off" /\ work' = w
  /\ todo' = At(s)
  /\ place' = [t \in Timer |-> IF w = "fire" /\ t \in At(s) THEN {Local} ELSE place[t]]

(* a timer that fires or is stopped is unlinked, and may be armed again by   *)
(* its callback; one that is cascaded is put in another slot                 *)
Meet(t, s) ==
  /\ t \in todo /\ todo' = todo \ {t}
  /\ work = "stop" => s = None
  /\ work = "cascade" => s # None /\ s # place[t]
  /\ place' = [place EXCEPT ![t] = s]
  /\ UNCHANGED work

End == work # "off" /\ todo = {} /\ work' = "off" /\ UNCHANGED <<place, todo>>

Next == \/ \E t \in Timer, s \in {None} \cup {{x} : x \in Slot} : Put(t, s) \/ Meet(t, s)
        \/ \E s \in Slot, w \in {"fire", "cascade", "stop"} : Walk(s, w)
        \/ End

Spec == Init /\ [][Next]_vars
=============================================================================
