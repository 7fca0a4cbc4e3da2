-------------------------------- MODULE QueList --------------------------------
(***************************************************************************)
(* The doubly linked lists of listnode.h, used as the code uses them: the   *)
(* two halves of a node's queues (m_..._que_tmp, appended to under the      *)
(* node's lock, and m_..._que, private to one thread), and single lists,    *)
(* which are the second half alone (the director's m_node_que).             *)
(*                                                                         *)
(* A walk takes a node out and frees it, and the node may be in a list      *)
(* again before the walk moves on: a command's memory is used for the next  *)
(* command, and DefSockCb sends the very message it was given.              *)
(* LIST_SIZE is written and never read; it is left out.                     *)
(***************************************************************************)
EXTENDS Naturals, FiniteSets, SequencesExt

CONSTANT Node

Roots == {"tmp", "que"}   \* the roots of the lists

VARIABLES
  prev, next,   \* m_prev and m_next of nodes and roots
  walk,         \* finished, stopped, node (at pos), left (pos was taken out)
  pos, follow   \* of list_for_each_safe; follow is its n

links == <<prev, next>>
iter  == <<walk, pos, follow>>
vars  == <<prev, next, walk, pos, follow>>

Off == walk \in {"finished", "stopped"}

Init ==
  /\ prev = [x \in Roots \cup Node |-> x] /\ next = prev
  /\ walk = "finished" /\ pos = "que" /\ follow = "que"

Empty(h) == next[h] = h

(* list_add_back of a node that is in no list *)
AddBack(x, h) ==
  /\ next[x] = x
  /\ prev' = [prev EXCEPT ![x] = prev[h], ![h] = x]
  /\ next' = [next EXCEPT ![x] = h, ![prev[h]] = x]
  /\ UNCHANGED iter

Push(x)   == AddBack(x, "tmp")
Insert(x) == Off /\ AddBack(x, "que")

(* list_splice_back(tmp, que) *)
Splice ==
  /\ Off /\ ~Empty("tmp")
  /\ next' = [next EXCEPT ![prev["que"]] = next["tmp"], ![prev["tmp"]] = "que",
                          !["tmp"] = "tmp"]
  /\ prev' = [prev EXCEPT ![next["tmp"]] = prev["que"], !["que"] = prev["tmp"],
                          !["tmp"] = "tmp"]
  /\ UNCHANGED iter

(* list_del: __list_del, then INIT_LIST_NODE *)
Unlink(x) ==
  /\ next' = [next EXCEPT ![prev[x]] = next[x], ![x] = x]
  /\ prev' = [prev EXCEPT ![next[x]] = prev[x], ![x] = x]

(* the nodes reached from x up to the root h; one more than there are, so    *)
(* that a cycle shows as a repetition                                       *)
Reached(x, h) ==
  LET nth[k \in 0..Cardinality(Node)] ==
        IF k = 0 THEN x ELSE IF nth[k - 1] = h THEN h ELSE next[nth[k - 1]]
  IN  IF x = h THEN <<>>
      ELSE SelectSeq([k \in 1..(Cardinality(Node) + 1) |-> nth[k - 1]], LAMBDA y : y # h)

Tmp == Reached(next["tmp"], "tmp")
Que == Reached(next["que"], "que")

(* list_del outside a walk (delNode); a node in no list is left alone *)
Delete(x) ==
  /\ Off /\ x \notin ToSet(Tmp)
  /\ IF next[x] = x THEN UNCHANGED links ELSE Unlink(x)
  /\ UNCHANGED iter

-----------------------------------------------------------------------------
(* list_for_each_safe over que *)
Goto(x) == /\ pos' = x /\ follow' = next[x]
           /\ walk' = IF x = "que" THEN "finished" ELSE "node"

Begin == Off /\ ~Empty("que") /\ Goto(next["que"]) /\ UNCHANGED links

(* the body takes the node out, deals with it and frees it *)
Take == /\ walk = "node" /\ Unlink(pos)
        /\ walk' = "left"
        /\ UNCHANGED <<pos, follow>>

\* as a fault: list_for_each, which follows the node that was taken out
AdvanceUnsafe == walk = "left" /\ Goto(next[pos]) /\ UNCHANGED links
Advance == walk = "left" /\ Goto(follow) /\ UNCHANGED links

(* prune breaks at a message that was sent in part *)
Break == /\ walk = "node" /\ walk' = "stopped"
         /\ UNCHANGED <<links, pos, follow>>

Next == \/ \E x \in Node : Push(x) \/ Insert(x) \/ Delete(x)
        \/ Splice \/ Begin \/ Take \/ Advance \/ Break

Spec == Init /\ [][Next]_vars

-----------------------------------------------------------------------------
(* Properties *)

Lists == INSTANCE QueSeq WITH
           tmp <- Tmp, que <- Que,
           walk <- IF walk \in {"node", "left"} THEN "on" ELSE walk

(* The pointers are the two sequences: what is spliced, taken from the       *)
(* front, deleted in the middle or pushed again, while a walk is on its way, *)
(* is neither lost nor linked twice, and a walk ends only where the list     *)
(* does or where it was told to (listnode.h:21-107, 119-121).               *)
ListSpec == Lists!Spec
=============================================================================
