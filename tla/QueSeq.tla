-------------------------------- MODULE QueSeq --------------------------------
(***************************************************************************)
(* What the code uses a pair of doubly linked lists for: tmp, which other   *)
(* threads append to, and que, which its owner splices tmp behind, walks    *)
(* and empties from the front.                                             *)
(***************************************************************************)
EXTENDS Sequences

CONSTANT Node

VARIABLES tmp, que,  \* the lists
          walk       \* of que: on, finished (at its end), stopped (before)

In(x, q) == \E k \in DOMAIN q : q[k] = x

Init == tmp = <<>> /\ que = <<>> /\ walk = "finished"

Push(x) == /\ ~In(x, tmp) /\ ~In(x, que)
           /\ tmp' = Append(tmp, x)
           /\ UNCHANGED <<que, walk>>

Insert(x) == /\ walk # "on" /\ ~In(x, tmp) /\ ~In(x, que)
             /\ que' = Append(que, x)
             /\ UNCHANGED <<tmp, walk>>

Delete(x) == /\ walk # "on"
             /\ que' = SelectSeq(que, LAMBDA y : y # x)
             /\ UNCHANGED <<tmp, walk>>

Splice == /\ walk # "on"
          /\ que' = que \o tmp /\ tmp' = <<>>
          /\ UNCHANGED walk

Begin == walk # "on" /\ walk' = "on" /\ UNCHANGED <<tmp, que>>

Take == /\ walk = "on" /\ que # <<>>
        /\ que' = Tail(que)
        /\ UNCHANGED <<tmp, walk>>

Finish == walk = "on" /\ que = <<>> /\ walk' = "finished" /\ UNCHANGED <<tmp, que>>

Stop == walk = "on" /\ que # <<>> /\ walk' = "stopped" /\ UNCHANGED <<tmp, que>>

Next == \/ \E x \in Node : Push(x) \/ Insert(x) \/ Delete(x)
        \/ Splice \/ Begin \/ Take \/ Finish \/ Stop

Spec == Init /\ [][Next]_<<tmp, que, walk>>
=============================================================================
