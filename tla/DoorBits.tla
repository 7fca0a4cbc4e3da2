------------------------------- MODULE DoorBits -------------------------------
(***************************************************************************)
(* One task's BitDoor down to the 32-bit word and the hardware's atomic     *)
(* operations.  BitTool::addBit is a loop around a compare-and-swap that    *)
(* starts from a guess of 0 and may fail any number of times while other    *)
(* threads change the word; setBit is an exchange.                          *)
(***************************************************************************)
EXTENDS Integers

CONSTANTS Producer, ParkEvents,
          Slot          \* BIT_EVENT_TYPE: the number of each event

D == INSTANCE TaskDoor

Max == 16               \* BIT_EVENT_MAX

\* the positions of an event's bits; consume checks out events below END
\* only, so that bit 31 is never set and every word is below 2^31
Low(ev)  == Slot[ev]
High(ev) == Slot[ev] + Max
Has(w, n) == (w \div 2^n) % 2 = 1                   \* BitTool::isMember
With(w, n) == IF Has(w, n) THEN w ELSE w + 2^n

VARIABLES
  state,            \* Task.m_state
  pc, ev, seen,     \* each producer's addBit: its event, and its oldval
  wpc, wev, wseen,  \* the same of the consumer, in checkout
  ended, answer, leaves

prodVars == <<pc, ev, seen, answer>>
workVars == <<wpc, wev, wseen, ended, leaves>>

Init ==
  /\ state = 0
  /\ pc = [p \in Producer |-> "idle"]
  /\ ev = [p \in Producer |-> D!NORM] /\ seen = [p \in Producer |-> 0]
  /\ wpc = "idle" /\ wev = D!NORM /\ wseen = 0
  /\ ended = FALSE /\ answer = [p \in Producer |-> FALSE] /\ leaves = TRUE

(* What checkin concludes from the word it found. *)
First(old, e) == old = 0 \/ (Has(old, High(e)) /\ ~Has(old, Low(e)))

FirstEnd(old) ==
  old = 0 \/ \E n \in 0..(Max - 2) : Has(old, n + Max) /\ ~Has(old, n)

(* checkin with BIT_EVENT_END: one exchange. *)
CheckinEnd(p) ==
  /\ pc[p] = "idle"
  /\ state' = 2^Max - 1
  /\ answer' = [answer EXCEPT ![p] = FirstEnd(state)]
  /\ UNCHANGED <<pc, ev, seen, workVars>>

(* checkin with another event enters addBit, whose first guess is 0. *)
CheckinCall(p, e) ==
  /\ pc[p] = "idle"
  /\ pc' = [pc EXCEPT ![p] = "cas"]
  /\ ev' = [ev EXCEPT ![p] = e] /\ seen' = [seen EXCEPT ![p] = 0]
  /\ UNCHANGED <<state, answer, workVars>>

\* as a fault: the guess is stored whatever the word has become
StoreGuess(old, n) == With(old, n)
(* One turn of addBit's loop: the guess was right and the bit is set, or    *)
(* the word read has the bit already, or the loop goes round with it.       *)
Swapped(old, n) == IF state = old THEN With(old, n) ELSE state
Finished(old, n) == state = old \/ Has(state, n)

CheckinCas(p) ==
  /\ pc[p] = "cas"
  /\ state' = Swapped(seen[p], Low(ev[p]))
  /\ IF Finished(seen[p], Low(ev[p]))
     THEN /\ pc' = [pc EXCEPT ![p] = "idle"]
          /\ ev' = [ev EXCEPT ![p] = D!NORM] /\ seen' = [seen EXCEPT ![p] = 0]
          /\ answer' = [answer EXCEPT ![p] = First(state, ev[p])]
     ELSE /\ seen' = [seen EXCEPT ![p] = state]
          /\ UNCHANGED <<pc, ev, answer>>
  /\ UNCHANGED workVars

(* consume locks a task that has its place, which by TaskPool's             *)
(* PlaceIffArmed is a task whose word is armed.                             *)
Word == [low  |-> {e \in D!Bit : Has(state, Low(e))},
         high |-> {e \in ParkEvents : Has(state, High(e))}]

Lock ==
  /\ wpc = "idle" /\ ~ended /\ D!Armed(Word)
  /\ state' = 2^Low(D!LOCK)
  /\ ended' = Has(state, Low(D!END))
  /\ wpc' = "locked"
  /\ UNCHANGED <<prodVars, wev, wseen, leaves>>

Release ==
  /\ wpc = "locked" /\ ~ended
  /\ leaves' = (state = 2^Low(D!LOCK))
  /\ state' = IF state = 2^Low(D!LOCK) THEN 0 ELSE state
  /\ wpc' = "idle"
  /\ UNCHANGED <<prodVars, wev, wseen, ended>>

Stay ==
  /\ wpc = "locked" /\ ~ended
  /\ wpc' = "idle"
  /\ UNCHANGED <<state, prodVars, wev, wseen, ended, leaves>>

CheckoutCall(e) ==
  /\ wpc = "locked" /\ ~ended
  /\ wpc' = "cas" /\ wev' = e /\ wseen' = 0
  /\ UNCHANGED <<state, prodVars, ended, leaves>>

CheckoutCas ==
  /\ wpc = "cas"
  /\ state' = Swapped(wseen, High(wev))
  /\ IF Finished(wseen, High(wev))
     THEN /\ wpc' = "idle" /\ wev' = D!NORM /\ wseen' = 0
          /\ leaves' = ~(Has(state, Low(wev)) /\ ~Has(state, High(wev)))
     ELSE /\ wseen' = state
          /\ UNCHANGED <<wpc, wev, leaves>>
  /\ UNCHANGED <<prodVars, ended>>

Next == \/ \E p \in Producer : CheckinEnd(p) \/ CheckinCas(p)
        \/ \E p \in Producer, e \in D!Event \ {D!END} : CheckinCall(p, e)
        \/ Lock \/ Release \/ Stay
        \/ \E e \in ParkEvents : CheckoutCall(e)
        \/ CheckoutCas

Spec == Init /\ [][Next]_<<state, prodVars, workVars>>

(* Whatever the loops and exchanges of several threads do to each other,    *)
(* each operation takes effect once, on the word it found, and answers as   *)
(* TaskPool assumes (tasker.cpp:4-30, 137-199): no bit of another thread is *)
(* overwritten by a guess that is out of date, and no answer comes from a   *)
(* word that was never there.                                               *)
Ops == INSTANCE DoorOps WITH word <- Word
OpsSpec == Ops!Spec
=============================================================================
