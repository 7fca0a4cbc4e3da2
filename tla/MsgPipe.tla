------------------------------- MODULE MsgPipe -------------------------------
(***************************************************************************)
(* A connection between two programs: MsgWriter at one end, MsgReader at    *)
(* the other, and the kernel between them.  The receiver's socket is        *)
(* registered edge triggered as well: arriving bytes are reported once, and *)
(* the receiver then reads until the socket has no more.  The sending       *)
(* program may close the connection at any time; what was sent may then     *)
(* still be read, or be cut short by the reset (SO_LINGER, failFd).         *)
(***************************************************************************)
EXTENDS MsgReader

CONSTANTS VecSize, SendMax, Window

ASSUME PipeAssumption ==
  VecSize \in Nat \ {0} /\ SendMax \in Nat \ {0} /\ Window \in Nat \ {0}

VARIABLES
  que, snd, owed,  \* MsgWriter's
  sent,            \* how many of the messages were queued
  rcv,             \* the receiver's task is at rest or ready to run
  came             \* epoll has yet to report bytes that arrived

W == INSTANCE MsgWriter

sndVars == <<que, snd, owed, sent>>
rcvVars == <<pc, buf, rdlen, hdr, dummy, out, rcv>>
pipeVars == <<sndVars, rcvVars, lens, wire, came>>

PipeInit ==
  /\ Fresh /\ W!Init
  /\ sent = 0 /\ rcv = "rest" /\ came = FALSE

Cut == snd = "ended"

Put ==
  /\ sent < Len(lens) /\ ~Cut
  /\ sent' = sent + 1
  /\ W!Add(Bytes(sent + 1))
  /\ UNCHANGED <<rcvVars, lens, came>>

Write ==
  /\ W!Block \/ W!SendNothing
  /\ UNCHANGED <<sent, rcvVars, lens, came>>

WriteSome(n) ==
  /\ W!Send(n)
  /\ came' = TRUE
  /\ UNCHANGED <<sent, rcvVars, lens>>

Writable ==
  /\ W!Writable
  /\ UNCHANGED <<sent, rcvVars, lens, came>>

(* the peer is told by an edge, too *)
Close(n) ==
  /\ W!Close(n)
  /\ came' = TRUE
  /\ UNCHANGED <<sent, rcvVars, lens>>

(* addReadable *)
Readable ==
  /\ came
  /\ came' = FALSE /\ rcv' = "ready"
  /\ UNCHANGED <<sndVars, pc, buf, rdlen, hdr, dummy, out, lens, wire>>

(* readNode returns BIT_EVENT_IN after a piece, BIT_EVENT_NORM after none *)
Read(n) ==
  /\ rcv = "ready" /\ Recv(n)
  /\ UNCHANGED <<sndVars, rcv, came>>

ReadNothing ==
  /\ rcv = "ready" /\ pc = "recv" /\ wire = <<>> /\ ~Cut
  /\ rcv' = "rest"
  /\ UNCHANGED <<sndVars, pc, buf, rdlen, hdr, dummy, out, lens, wire, came>>

(* the end of the stream or an error; or failFd was faster *)
ReadFails ==
  /\ rcv = "ready" /\ pc = "recv" /\ Cut
  /\ pc' = "failed"
  /\ UNCHANGED <<sndVars, buf, rdlen, hdr, dummy, out, rcv, lens, wire, came>>

ParseStep == Parse /\ UNCHANGED <<sndVars, rcv, came>>

Sending   == Write \/ \E n \in 1..Window : WriteSome(n)
Receiving == ParseStep \/ ReadNothing \/ ReadFails \/ \E n \in 1..RecvMax : Read(n)

PipeNext == \/ Put \/ Sending \/ Writable \/ Readable \/ Receiving
            \/ \E n \in 0..Window : Close(n)

PipeSpec == /\ PipeInit /\ [][PipeNext]_pipeVars
            /\ WF_pipeVars(Sending) /\ WF_pipeVars(Receiving)
            /\ WF_pipeVars(Writable) /\ WF_pipeVars(Readable)

-----------------------------------------------------------------------------
(* Properties *)

(* Between two reads every byte of every message that was queued is in one   *)
(* place, in order: dispatched, in the message under construction, on the    *)
(* connection, or in the sender's queue, of which a close leaves a first     *)
(* part; and a message that has arrived completely is not held back         *)
(* (sockobj.cpp:48-277, sender.cpp:61-76).                                  *)
Conserved ==
  pc = "recv" =>
    /\ LET bytes == Stream(Len(out)) \o Partial \o wire \o FlattenSeq(que)
       IN IF Cut THEN IsPrefix(bytes, Stream(sent)) ELSE bytes = Stream(sent)
    /\ Partial # <<>> => Len(Partial) < lens[Len(out) + 1]
    /\ dummy = Null <=> rdlen < HdrLen

Channel == INSTANCE MsgChannel WITH MinLen <- HdrLen, MaxLen <- MaxSize,
                                    got <- Len(out), broken <- (pc = "failed"),
                                    cut <- Cut

(* The two ends implement the message channel, and with the kernel's edges   *)
(* neither end sleeps while bytes are waiting: every message is delivered,   *)
(* or one before it was refused, or the connection was closed; and a close   *)
(* delivers the messages up to some point and no part of the next.          *)
ChannelSpec == Channel!Spec
=============================================================================
