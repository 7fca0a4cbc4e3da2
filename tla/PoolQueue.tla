------------------------------ MODULE PoolQueue ------------------------------
(***************************************************************************)
(* The two queues of a Pooler as sequences, the way TaskPool sees them:     *)
(* producers push on lockq, the consumer splices lockq behind what it kept  *)
(* and walks the result, keeping or giving up each task.                    *)
(***************************************************************************)
EXTENDS Sequences

CONSTANTS Task, NoTask

VARIABLES lockq, kept, todo,   \* as in TaskPool
          curr,                \* the task the walk is at
          placed,              \* the tasks that hold a place in the pool
          out                  \* the walk has given up its current task

Init == /\ lockq = <<>> /\ kept = <<>> /\ todo = <<>>
        /\ curr = NoTask /\ placed = {} /\ out = FALSE

Push(t) == /\ t \notin placed
           /\ lockq' = Append(lockq, t)
           /\ placed' = placed \cup {t}
           /\ UNCHANGED <<kept, todo, curr, out>>

Splice == /\ curr = NoTask /\ todo = <<>>
          /\ todo' = kept \o lockq
          /\ lockq' = <<>> /\ kept' = <<>>
          /\ UNCHANGED <<curr, placed, out>>

Enter == /\ curr = NoTask /\ todo # <<>>
         /\ curr' = Head(todo) /\ todo' = Tail(todo)
         /\ UNCHANGED <<lockq, kept, placed, out>>

GiveUp == /\ curr # NoTask /\ ~out
          /\ out' = TRUE
          /\ placed' = placed \ {curr}
          /\ UNCHANGED <<lockq, kept, todo, curr>>

Leave == /\ curr # NoTask
         /\ kept' = IF out THEN kept ELSE Append(kept, curr)
         /\ curr' = NoTask /\ out' = FALSE
         /\ UNCHANGED <<lockq, todo, placed>>

Next == (\E t \in Task : Push(t)) \/ Splice \/ Enter \/ GiveUp \/ Leave

Spec == Init /\ [][Next]_<<lockq, kept, todo, curr, placed, out>>
=============================================================================
