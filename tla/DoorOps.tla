------------------------------- MODULE DoorOps -------------------------------
(***************************************************************************)
(* The operations of one task's BitDoor as the single atomic steps TaskPool *)
(* takes them for: each changes the word and gives its caller the result.   *)
(***************************************************************************)
EXTENDS TaskDoor

CONSTANT Producer

VARIABLES word,     \* Task.m_state, as the sets of raised bits
          ended,    \* the consumer took the end
          answer,   \* what checkin last answered each producer
          leaves    \* what release or checkout last answered the consumer

Init == /\ word = Zero /\ ended = FALSE
        /\ answer = [p \in Producer |-> FALSE] /\ leaves = TRUE

Checkin(p, ev) ==
  /\ word' = CheckinWord(word, ev)
  /\ answer' = [answer EXCEPT ![p] = CheckinFirst(word, ev)]
  /\ UNCHANGED <<ended, leaves>>

Lock == /\ Armed(word) /\ ~ended
        /\ word' = Locked
        /\ ended' = IsEof(word)
        /\ UNCHANGED <<answer, leaves>>

Release == /\ ~ended
           /\ word' = ReleaseWord(word)
           /\ leaves' = ReleaseOut(word)
           /\ UNCHANGED <<ended, answer>>

Checkout(ev) == /\ ~ended
                /\ word' = CheckoutWord(word, ev)
                /\ leaves' = CheckoutOut(word, ev)
                /\ UNCHANGED <<ended, answer>>

Next == \/ \E p \in Producer, ev \in Event : Checkin(p, ev)
        \/ Lock \/ Release
        \/ \E ev \in ParkEvents : Checkout(ev)

Spec == Init /\ [][Next]_<<word, ended, answer, leaves>>
=============================================================================
