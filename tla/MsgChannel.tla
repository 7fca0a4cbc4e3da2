------------------------------ MODULE MsgChannel ------------------------------
(***************************************************************************)
(* What the two ends of a connection promise their applications: a channel  *)
(* that delivers the messages whole, once each, in the order they were      *)
(* sent, up to the first whose length is out of bounds, at which it breaks, *)
(* or up to any point if the sender closes it.                              *)
(***************************************************************************)
EXTENDS Naturals, Sequences

CONSTANTS MinLen,  \* lengths must lie strictly between these two
          MaxLen

VARIABLES
  lens,    \* the lengths of the messages that will be sent
  sent,    \* how many were sent
  got,     \* how many were delivered
  cut,     \* the sending side closed the connection
  broken   \* the receiving side gave up

vars == <<lens, sent, got, cut, broken>>

Good(k) == MinLen < lens[k] /\ lens[k] < MaxLen

Init == sent = 0 /\ got = 0 /\ ~cut /\ ~broken

Send == /\ sent < Len(lens) /\ ~cut
        /\ sent' = sent + 1
        /\ UNCHANGED <<lens, got, cut, broken>>

Close == ~cut /\ cut' = TRUE /\ UNCHANGED <<lens, sent, got, broken>>

Deliver == /\ got < sent /\ ~broken /\ Good(got + 1)
           /\ got' = got + 1
           /\ UNCHANGED <<lens, sent, cut, broken>>

Break == /\ ~broken
         /\ cut \/ (got < sent /\ ~Good(got + 1))
         /\ broken' = TRUE
         /\ UNCHANGED <<lens, sent, got, cut>>

Next == Send \/ Close \/ Deliver \/ Break

Spec == Init /\ [][Next]_vars /\ WF_vars(Deliver \/ Break)
=============================================================================
