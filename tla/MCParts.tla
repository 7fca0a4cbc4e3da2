------------------------------- MODULE MCParts -------------------------------
(* What TaskPool, NodeLife and TickTimer take for granted, each with an        *)
(* instance of its own: one task's word (DoorBits), a pool's queues (PoolList),*)
(* a node's queues (QueList) and a wheel's slots (SlotList).  They share       *)
(* nothing, so a behaviour runs one of them and leaves the others alone.       *)
EXTENDS DoorBits, TLC

CONSTANTS Task, NoTask, Place

VARIABLES part,
          next, tail, at, prev, curr, follow, placed, out,  \* PoolList
          fore, back, walk, this, after,                          \* QueList
          cell, pprev, work, from, pos                            \* SlotList

bitVars  == <<state, prodVars, workVars>>
listVars == <<next, tail, at, prev, curr, follow, placed, out>>
queVars  == <<fore, back, walk, this, after>>
slotVars == <<cell, pprev, work, from, pos>>

List == INSTANCE PoolList WITH pc <- at
Que  == INSTANCE QueList WITH Node <- Task, next <- fore, prev <- back,
                              pos <- this, follow <- after
Hash == INSTANCE SlotList WITH Timer <- Task, Slot <- Place, NULL <- NoTask

\* the slots of the events this instance uses, and of LOCK and END
Slots == "LOCK" :> 0 @@ "NORM" :> 1 @@ "CUSTOM" :> 2 @@ "READ" :> 3 @@ "END" :> 15

Symmetry == Permutations(Producer) \cup Permutations(Task)

PartsInit == /\ part \in {"word", "queues", "lists", "slots"}
             /\ Init /\ List!Init /\ Que!Init /\ Hash!Init

PartsNext ==
  \/ part = "word" /\ Next /\ UNCHANGED <<part, listVars, queVars, slotVars>>
  \/ part = "queues" /\ List!Next /\ UNCHANGED <<part, bitVars, queVars, slotVars>>
  \/ part = "lists" /\ Que!Next /\ UNCHANGED <<part, bitVars, listVars, slotVars>>
  \/ part = "slots" /\ Hash!Next /\ UNCHANGED <<part, bitVars, listVars, queVars>>

PartsSpec == PartsInit /\ [][PartsNext]_<<part, bitVars, listVars, queVars, slotVars>>

(* The pointers are the queues of TaskPool (PoolList). *)
QueueSpec == List!QueueSpec

(* The pointers are the queues of a node (QueList). *)
ListSpec == Que!ListSpec

(* The hash lists are the slots of the wheel (SlotList). *)
SlotSpec == Hash!SlotSpec
=============================================================================
