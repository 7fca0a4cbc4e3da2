------------------------------- MODULE TaskDoor -------------------------------
(***************************************************************************)
(* The two lock-free "doors" of tasker.cpp, as operators on a door's value. *)
(*                                                                         *)
(* BitDoor: the word Task.m_state.  Its low half has one bit per event that *)
(* was requested, its high half one bit per event the consumer has agreed  *)
(* to sleep on.  A word is a record of the two sets of raised bits.  Every  *)
(* operation of BitTool is one atomic read-modify-write: addBit's loop      *)
(* linearises at its last compare-and-swap (or at the read that finds the   *)
(* bit set), setBit is an exchange, casBit a compare-and-swap.             *)
(*                                                                         *)
(* BinaryDoor: Tasker.m_door, the set of its raised flags.                  *)
(*                                                                         *)
(* Definitions headed "as a fault" are the mutated forms PROJECT.json names: *)
(* no specification uses them.                                              *)
(***************************************************************************)

CONSTANT ParkEvents    \* the events of CUSTOM..ERROR that tasks can sleep on

LOCK == "LOCK"         \* BIT_EVENT_LOCK: the consumer holds the task
NORM == "NORM"         \* BIT_EVENT_NORM
END  == "END"          \* BIT_EVENT_END
STAY == "IN"           \* BIT_EVENT_IN: keep the task in the queue
OUT  == "OUT"          \* any other result of procTask

ASSUME ParkAssumption == ParkEvents \cap {LOCK, NORM, END, STAY, OUT} = {}

Event == {NORM, END} \cup ParkEvents     \* what checkin accepts
Bit   == {LOCK} \cup Event               \* the bits of one half of the word
Word  == [low : SUBSET Bit, high : SUBSET Bit]

Zero   == [low |-> {}, high |-> {}]
Locked == [low |-> {LOCK}, high |-> {}]
Quit   == [low |-> Bit, high |-> {}]     \* 0xFFFF

-----------------------------------------------------------------------------
(* BitDoor::checkin: the word afterwards, and its result ("the caller is    *)
(* the one who must queue the task").                                       *)
\* as a fault: raises the END bit alone, like any other event
EndBitOnly(w, ev) == [low |-> w.low \cup {ev}, high |-> w.high]
CheckinWord(w, ev) ==
  IF ev = END THEN Quit ELSE [low |-> w.low \cup {ev}, high |-> w.high]

\* as a fault: a second request for the awaited event queues the task again
FirstThoughSeen(w, ev) ==
  \/ w = Zero
  \/ ev = END /\ ~(w.high \subseteq w.low)
  \/ ev # END /\ ev \in w.high
CheckinFirst(w, ev) ==
  \/ w = Zero
  \/ ev = END /\ ~(w.high \subseteq w.low)
  \/ ev # END /\ ev \in w.high /\ ev \notin w.low

(* BitDoor::checkout: the consumer offers to sleep on ev; the result is     *)
(* FALSE when ev was requested meanwhile, and the task stays queued.        *)
CheckoutWord(w, ev) == [low |-> w.low, high |-> w.high \cup {ev}]
\* as a fault: sleeps though the event has come
SleepBlindly(w, ev) == TRUE
CheckoutOut(w, ev)  == ~(ev \in w.low /\ ev \notin w.high)

(* BitDoor::release: compare-and-swap from LOCK alone to 0.                 *)
ReleaseOut(w)  == w = Locked
\* as a fault: a plain store instead of the compare-and-swap
ClearBlindly(w) == Zero
ReleaseWord(w) == IF w = Locked THEN Zero ELSE w

IsEof(w) == END \in w.low

(* What Pooler::consume does with procTask's result: the word afterwards,   *)
(* and whether the task leaves the queue.                                   *)
ResultWord(w, ret) ==
  IF ret = NORM THEN ReleaseWord(w)
  ELSE IF ret \in ParkEvents THEN CheckoutWord(w, ret) ELSE w

ResultOut(w, ret) ==
  \/ ret = NORM /\ ReleaseOut(w)
  \/ ret \in ParkEvents /\ CheckoutOut(w, ret)
  \/ ret \notin {NORM, STAY} \cup ParkEvents

(* A word that entitles its task to a place in the queue: something was     *)
(* requested, and nothing it sleeps on is still missing.                    *)
Armed(w) == w # Zero /\ w.high \subseteq w.low

-----------------------------------------------------------------------------
LOGIN    == "LOGIN"
DoorFlag == {LOCK, LOGIN}

Login(d)       == d \cup {LOGIN}
\* as a fault: the alarm goes to a consumer that is awake
LoginWhenLocked(d) == d = {LOCK}
LoginFirst(d)  == d = {}
DoorLocked     == {LOCK}
\* as a fault: a plain store instead of the compare-and-swap
OpenBlindly(d) == TRUE
DoorFree(d)    == d = {LOCK}
DoorRelease(d) == IF DoorFree(d) THEN {} ELSE d
=============================================================================
