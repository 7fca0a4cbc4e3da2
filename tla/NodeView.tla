------------------------------ MODULE NodeView ------------------------------
(***************************************************************************)
(* What the application sees of one connection through the callbacks of     *)
(* SockCb: it is told once that the connection is open or has failed, is    *)
(* given the messages of an open connection one by one in the order they    *)
(* were received, and is told once that an open connection was closed,      *)
(* after which it hears no more.  A connector that is given up before it    *)
(* was ever open is dropped without onClosed.                              *)
(***************************************************************************)
EXTENDS Naturals

CONSTANT MaxMsg          \* how many messages the peer sends

VARIABLES view,          \* connecting, open, failed, closed or dropped
          delivered      \* the number of the last message process was given

viewVars == <<view, delivered>>

Init == view \in {"connecting", "open"} /\ delivered = 0

Become(from, to) == view \in from /\ view' = to /\ UNCHANGED delivered

OnConnected   == Become({"connecting"}, "open")
OnFailConnect == Become({"connecting"}, "failed")
OnClosed      == Become({"open"}, "closed")
Drop          == Become({"connecting", "failed"}, "dropped")

Process ==
  /\ view = "open" /\ delivered < MaxMsg
  /\ delivered' = delivered + 1
  /\ UNCHANGED view

Next == OnConnected \/ OnFailConnect \/ OnClosed \/ Drop \/ Process

Spec == Init /\ [][Next]_viewVars
=============================================================================
