------------------------------- MODULE SlotList -------------------------------
(***************************************************************************)
(* The slots of a timing wheel at the level of their pointers: the hash     *)
(* lists of listnode.h, and the three walks of ticktimer.cpp, which take    *)
(* every node out, put it in another slot or hand it to a callback that may *)
(* put it back in the slot the walk came from.                              *)
(*                                                                         *)
(* A cell is a place in memory that holds a pointer to a node: m_first of a *)
(* slot, or m_next of a node.  m_pprev of a node is the address of a cell.  *)
(***************************************************************************)
EXTENDS Naturals, FiniteSets, SequencesExt

CONSTANTS Timer,
          Slot,   \* slots of the wheels
          NULL

Local == "list"               \* the head on tick's stack
Slots == Slot \cup {Local}
First(s) == <<"m_first", s>>
Nxt(t)   == <<"m_next", t>>
Cell == {First(s) : s \in Slots} \cup {Nxt(t) : t \in Timer}

VARIABLES
  cell,   \* what the cells hold
  pprev,  \* m_pprev of every node
  work,   \* the walk: off, fire, cascade, stop
  from,   \* the slot it began with
  pos     \* the node it is at

vars == <<cell, pprev, work, from, pos>>

Init == /\ cell = [c \in Cell |-> NULL] /\ pprev = [t \in Timer |-> NULL]
        /\ work = "off" /\ from = NULL /\ pos = NULL

-----------------------------------------------------------------------------
(* The operations, on a memory m of cells and back pointers *)
Memory == [cell |-> cell, pprev |-> pprev]

unhashed(m, t) == m.pprev[t] = NULL

(* hlist_del *)
Deleted(m, t) ==
  LET next == m.cell[Nxt(t)] IN
  [cell  |-> [m.cell EXCEPT ![m.pprev[t]] = next, ![Nxt(t)] = NULL],
   pprev |-> [x \in Timer |-> CASE x = t    -> NULL
                                [] x = next -> m.pprev[t]
                                [] OTHER    -> m.pprev[x]]]

(* hlist_add *)
Added(m, t, s) ==
  LET first == m.cell[First(s)] IN
  [cell  |-> [m.cell EXCEPT ![Nxt(t)] = first, ![First(s)] = t],
   pprev |-> [x \in Timer |-> CASE x = t     -> First(s)
                                [] x = first -> Nxt(t)
                                [] OTHER     -> m.pprev[x]]]

\* as a fault: the first node's m_pprev is left behind
ReplacedFirst(m, s) ==
  [cell  |-> [m.cell EXCEPT ![First(Local)] = m.cell[First(s)], ![First(s)] = NULL],
   pprev |-> m.pprev]
(* hlist_replace(s, list) *)
Replaced(m, s) ==
  [cell  |-> [m.cell EXCEPT ![First(Local)] = m.cell[First(s)], ![First(s)] = NULL],
   pprev |-> [x \in Timer |-> IF x = m.cell[First(s)] THEN First(Local) ELSE m.pprev[x]]]

Becomes(m) == cell' = m.cell /\ pprev' = m.pprev

-----------------------------------------------------------------------------
(* delTimer, which modTimer begins with *)
Unhooked(t) == IF unhashed(Memory, t) THEN Memory ELSE Deleted(Memory, t)

DelTimer(t) == work = "off" /\ Becomes(Unhooked(t)) /\ UNCHANGED <<work, from, pos>>

ModTimer(t, s) == /\ work = "off" /\ Becomes(Added(Unhooked(t), t, s))
                  /\ UNCHANGED <<work, from, pos>>

(* the loops of tick and stop, up to their first node *)
Walk(s, w) ==
  /\ work = "off" /\ work' = w /\ from' = s
  /\ pos' = cell[First(s)]
  /\ Becomes(IF w = "fire" THEN Replaced(Memory, s) ELSE Memory)

(* one turn: the successor is read, the node unlinked, and then dealt with: *)
(* nothing more, hlist_add to the first wheel, or a callback that may arm   *)
(* the timer again                                                          *)
Meet ==
  /\ pos # NULL
  /\ pos' = cell[Nxt(pos)]
  /\ \/ /\ work \in {"stop", "fire"}
        /\ Becomes(Deleted(Memory, pos))
     \/ \E s \in Slot :
          /\ work = "fire" \/ (work = "cascade" /\ s # from)
          /\ Becomes(Added(Deleted(Memory, pos), pos, s))
  /\ UNCHANGED <<work, from>>

End == /\ work # "off" /\ pos = NULL
       /\ work' = "off" /\ from' = NULL
       /\ UNCHANGED <<cell, pprev, pos>>

Next == \/ \E t \in Timer : DelTimer(t) \/ \E s \in Slot : ModTimer(t, s)
        \/ \E s \in Slot, w \in {"fire", "cascade", "stop"} : Walk(s, w)
        \/ Meet \/ End

Spec == Init /\ [][Next]_vars

-----------------------------------------------------------------------------
(* Properties *)

(* the nodes reached from t *)
Reached(t) ==
  LET nth[k \in 0..Cardinality(Timer)] ==
        IF k = 0 THEN t ELSE IF nth[k - 1] = NULL THEN NULL ELSE cell[Nxt(nth[k - 1])]
  IN  IF t = NULL THEN {} ELSE {nth[k] : k \in 0..Cardinality(Timer)} \ {NULL}

Sets == INSTANCE SlotSets WITH
          place <- [t \in Timer |-> {s \in Slots : t \in Reached(cell[First(s)])}],
          todo <- Reached(pos)

(* The hash lists are the slots of TickTimer: no timer is in two of them or  *)
(* lost from one, a walk meets each of its timers once although it empties   *)
(* the list it follows, and a timer that is armed again in the slot that is  *)
(* going off waits for the next turn (listnode.h:139-214, ticktimer.cpp:     *)
(* 19-115).                                                                 *)
SlotSpec == Sets!Spec
=============================================================================
