------------------------------- MODULE PoolList -------------------------------
(***************************************************************************)
(* The queues of a Pooler at the level of their pointers: the singly linked *)
(* roots of listnode.h, pushNode and spliceRoot under the LockPooler's spin *)
(* lock, and the walk of Pooler::consume, which unlinks nodes without a     *)
(* lock while other threads push them again.                                *)
(*                                                                         *)
(* TaskPool shows that a task is pushed only when it has no place in the    *)
(* pool; here that is the guard of Add, and the question is whether the     *)
(* pointers then always describe the queues TaskPool works with.  m_size of  *)
(* a root is written and never read; it is left out.                       *)
(***************************************************************************)
EXTENDS Integers, FiniteSets, SequencesExt

CONSTANTS Task, NoTask

\* the roots, m_lock_root and m_safe_root, stand for their m_head nodes
LockRoot == "lock_root"
SafeRoot == "safe_root"
Root     == {LockRoot, SafeRoot}
NULL     == NoTask

VARIABLES
  next,               \* m_next of every node
  tail,               \* m_tail of each root
  pc,                 \* consume: "off", "walk" (before a node), "task", "left"
  prev, curr, follow, \* its pointers; follow is the variable named next
  placed,             \* the tasks that hold a place (TaskPool's entitlement)
  out                 \* consume's done

walkVars == <<pc, prev, curr, follow, out>>
vars == <<next, tail, placed, walkVars>>

Init ==
  /\ next = [n \in Root \cup Task \cup {NULL} |-> NULL]
  /\ tail = [r \in Root |-> r]
  /\ pc = "off" /\ prev = SafeRoot /\ curr = NULL /\ follow = NULL
  /\ placed = {} /\ out = FALSE

(* pushNode: the node is cut off from whatever followed it, then appended.  *)
Pushed(n) == [next EXCEPT ![n] = NULL, ![tail[LockRoot]] = n]

Add(t) ==
  /\ t \notin placed
  /\ next' = Pushed(t)
  /\ tail' = [tail EXCEPT ![LockRoot] = t]
  /\ placed' = placed \cup {t}
  /\ UNCHANGED walkVars

(* spliceRoot: what the two roots hold afterwards.                          *)
isEmpty(r) == next[r] = NULL

SplicedTail == IF isEmpty(LockRoot) THEN tail
               ELSE (LockRoot :> LockRoot) @@ (SafeRoot :> tail[LockRoot])

(* consume: splice, then start at the head of the private list.             *)
Splice ==
  /\ pc = "off"
  /\ next' = IF isEmpty(LockRoot) THEN next
             ELSE [next EXCEPT ![tail[SafeRoot]] = next[LockRoot],
                               ![LockRoot] = NULL]
  /\ tail' = SplicedTail
  /\ pc' = "walk" /\ prev' = SafeRoot
  /\ follow' = next'[SafeRoot]
  /\ UNCHANGED <<curr, placed, out>>

(* The loop's head: curr moves on, and its successor is read while the task *)
(* still holds its place.                                                   *)
Enter ==
  /\ pc = "walk" /\ follow # NULL
  /\ curr' = follow /\ follow' = next[follow]
  /\ pc' = "task"
  /\ UNCHANGED <<next, tail, prev, placed, out>>

(* The door is released, slept on or left locked: from here on another      *)
(* thread may push the task, although it is still linked.                   *)
GiveUp ==
  /\ pc = "task"
  /\ out' = TRUE /\ placed' = placed \ {curr}
  /\ pc' = "left"
  /\ UNCHANGED <<next, tail, prev, curr, follow>>

\* as a fault: the successor is read when the task is already given up
UnlinkLate ==
  /\ pc = "left"
  /\ next' = [next EXCEPT ![prev] = next[curr]]
  /\ curr' = NULL /\ out' = FALSE /\ pc' = "walk"
  /\ follow' = next[curr]
  /\ UNCHANGED <<tail, prev, placed>>
Unlink ==
  /\ pc = "left"
  /\ next' = [next EXCEPT ![prev] = follow]
  /\ curr' = NULL /\ out' = FALSE /\ pc' = "walk"
  /\ UNCHANGED <<tail, prev, follow, placed>>

Keep ==
  /\ pc = "task"
  /\ prev' = curr /\ curr' = NULL
  /\ pc' = "walk"
  /\ UNCHANGED <<next, tail, follow, placed, out>>

EndWalk ==
  /\ pc = "walk" /\ follow = NULL
  /\ tail' = [tail EXCEPT ![SafeRoot] = prev]
  /\ pc' = "off" /\ prev' = SafeRoot
  /\ UNCHANGED <<next, curr, follow, placed, out>>

Consume == Splice \/ Enter \/ GiveUp \/ Unlink \/ Keep \/ EndWalk

Next == Consume \/ \E t \in Task : Add(t)

Spec == Init /\ [][Next]_vars

-----------------------------------------------------------------------------
(* The queues the pointers describe                                         *)

(* the nodes reached from node n, in order; one node more than there are    *)
(* tasks, so that a cycle shows as a repetition                             *)
Reached(n) ==
  LET nth[k \in 0..Cardinality(Task)] == IF k = 0 THEN n ELSE next[nth[k - 1]]
  IN  SelectSeq([k \in 1..(Cardinality(Task) + 1) |-> nth[k - 1]],
                LAMBDA x : x # NULL)

Upto(s, n) == SubSeq(s, 1, SelectInSeq(s, LAMBDA x : x = n))

LockQ == Reached(next[LockRoot])
Kept  == IF pc = "off" THEN Reached(next[SafeRoot])
         ELSE Upto(Reached(next[SafeRoot]), prev)
Todo  == IF pc = "off" THEN <<>> ELSE Reached(follow)

(* The pointer operations, in every interleaving of pushes with the walk,   *)
(* are the sequence operations TaskPool uses: no node is lost, linked twice *)
(* or taken out of its order (tasker.cpp:230-275, listnode.h:312-348).      *)
Queues == INSTANCE PoolQueue WITH lockq <- LockQ, kept <- Kept, todo <- Todo
QueueSpec == Queues!Spec
=============================================================================
