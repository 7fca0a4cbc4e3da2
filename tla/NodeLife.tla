------------------------------- MODULE NodeLife -------------------------------
(***************************************************************************)
(* One socket of the server and the four threads that share it: receiver,   *)
(* sender, dealer and director.  Each thread has one task in the node, and  *)
(* its pool is the gate of TaskGate; the threads talk through three queues  *)
(* of the node, each a locked half that is pushed to and a private half     *)
(* that is worked on.  A push is two steps: append under the node's lock,   *)
(* then, unlocked, addTask on the task that serves the queue.              *)
(*                                                                         *)
(* A node is closed by a chain: CLOSING ends the receiver's task, whose     *)
(* CLOSE_RD ends the sender's, whose CLOSE_WR ends the dealer's, whose      *)
(* CLOSE_DEALER ends the director's, which frees the node.                 *)
(*                                                                         *)
(* Messages are numbered in the order they are queued.  The peer, the       *)
(* network and the application's answers are choices.  Definitions headed    *)
(* "as a fault" are mutated forms that no specification uses.               *)
(***************************************************************************)
EXTENDS Naturals, Sequences, FiniteSets

CONSTANTS Kinds,     \* the node types to start from: SOCK, CONNECTOR
          MaxMsg,    \* bound: messages received
          MaxSend,   \* bound: messages sent
          MaxReport, \* bound: outcomes of a connect waiting for the director
          Failures   \* bound: what may fail, of read, write, refuse, reset

ASSUME LifeAssumption == /\ Kinds \subseteq {"SOCK", "CONNECTOR"}
                         /\ MaxMsg \in Nat /\ MaxSend \in Nat /\ MaxReport \in Nat
                         /\ Failures \subseteq {"read", "write", "refuse", "reset"}

Role == {"rd", "wr", "deal", "dir"}     \* the four threads, and their tasks
Chan == {"cmd", "deal", "wr"}           \* the three pairs of queues
MsgChan == {"deal", "wr"}               \* those that carry messages
Side == {"RD", "WR"}                    \* the two epoll descriptors

VARIABLES
  req, stage, await,  \* the node's four tasks, in their pools (TaskGate)
  pc,                 \* where each thread is in its procTask
  hand,               \* what it has still to push: a channel, or a command
  rung,               \* the head of hand is queued, addTask not called yet
  res,                \* what its procTask will return
  tmp, que,           \* the halves of the queues (m_*_que_tmp, m_*_que)
  made, taken,        \* history: messages queued and taken off, per channel
  status, kind, ev,   \* m_fd_status, m_node_type, m_ev_type
  err,                \* m_rd_err, m_wr_err, m_deal_err
  broken, alerts,     \* the socket failed; epoll has yet to report it there
  view, delivered     \* history: the callbacks made (NodeView)

gateVars == <<req, stage, await>>
thrVars  == <<pc, hand, rung, res>>
queVars  == <<tmp, que, made, taken>>
fdVars   == <<status, kind, ev>>
netVars  == <<broken, alerts>>
viewVars == <<view, delivered>>
vars == <<gateVars, thrVars, queVars, fdVars, err, netVars, viewVars>>

Gate == INSTANCE TaskGate WITH Task <- Role,
                               ParkEvents <- {"READ", "WRITE", "ERROR"}

NORM == Gate!NORM
END  == Gate!END
STAY == Gate!STAY

OpenStatus  == {"CONNECTING", "NORMAL"}           \* below ENUM_FD_CLOSING
CloseStatus == {"CLOSING", "CLOSE_RD", "CLOSE_WR", "CLOSE_DEALER"}
Cmd  == CloseStatus \cup {"CONN_OK", "CONN_FAIL"}
Freed == status = "END"

Repeat(x, n) == [i \in 1..n |-> x]

Init ==
  /\ Gate!Init
  /\ pc = [r \in Role |-> "idle"]
  /\ hand = [r \in Role |-> <<>>]
  /\ rung = [r \in Role |-> FALSE]
  /\ res = [r \in Role |-> NORM]
  /\ tmp = [c \in Chan |-> <<>>] /\ que = [c \in Chan |-> <<>>]
  /\ made = [c \in MsgChan |-> 0] /\ taken = [c \in MsgChan |-> 0]
  /\ kind \in Kinds
  /\ status = IF kind = "SOCK" THEN "NORMAL" ELSE "CONNECTING"
  /\ ev = IF kind = "SOCK" THEN Side ELSE {"WR"}
  /\ err = [d \in {"rd", "wr", "deal"} |-> FALSE]
  /\ broken = FALSE /\ alerts = {}
  /\ view = IF kind = "SOCK" THEN "open" ELSE "connecting"
  /\ delivered = 0

-----------------------------------------------------------------------------
(* Pushing: pushWrite, pushDeal, pushCmd, and close and notify above them   *)

ChanOf(x)   == IF x \in Cmd THEN "cmd" ELSE x
\* as a fault: pushDeal calls the sender's addTask
SenderServes(c) == IF c = "cmd" THEN "dir" ELSE "wr"
ServerOf(c) == IF c = "cmd" THEN "dir" ELSE c

(* addTask and endTask on one of the node's tasks *)
Raise(t, e) ==
  IF stage[t] = "ended" THEN UNCHANGED gateVars ELSE Gate!Raise(t, e)

\* as a fault: list_add_front for list_add_back
QueueFront(r) ==
  /\ hand[r] # <<>> /\ ~rung[r]
  /\ LET x == Head(hand[r])
         c == ChanOf(x)
     IN IF c = "cmd"
        THEN /\ tmp' = [tmp EXCEPT ![c] = <<x>> \o @]
             /\ UNCHANGED made
        ELSE /\ tmp' = [tmp EXCEPT ![c] = <<made[c] + 1>> \o @]
             /\ made' = [made EXCEPT ![c] = @ + 1]
  /\ rung' = [rung EXCEPT ![r] = TRUE]
  /\ UNCHANGED <<gateVars, pc, hand, res, que, taken, fdVars, err, netVars, viewVars>>

Queue(r) ==
  /\ hand[r] # <<>> /\ ~rung[r]
  /\ LET x == Head(hand[r])
         c == ChanOf(x)
     IN IF c = "cmd"
        THEN /\ tmp' = [tmp EXCEPT ![c] = Append(@, x)]
             /\ UNCHANGED made
        ELSE /\ tmp' = [tmp EXCEPT ![c] = Append(@, made[c] + 1)]
             /\ made' = [made EXCEPT ![c] = @ + 1]
  /\ rung' = [rung EXCEPT ![r] = TRUE]
  /\ UNCHANGED <<gateVars, pc, hand, res, que, taken, fdVars, err, netVars, viewVars>>

Ring(r) ==
  /\ hand[r] # <<>> /\ rung[r]
  /\ Raise(ServerOf(ChanOf(Head(hand[r]))), NORM)
  /\ hand' = [hand EXCEPT ![r] = Tail(@)]
  /\ rung' = [rung EXCEPT ![r] = FALSE]
  /\ UNCHANGED <<pc, res, queVars, fdVars, err, netVars, viewVars>>

-----------------------------------------------------------------------------
(* What the four procTask and procTaskEnd have in common                    *)

At(r, label) == pc[r] = label /\ hand[r] = <<>>

Goto(r, label, h) == /\ pc' = [pc EXCEPT ![r] = label]
                     /\ hand' = [hand EXCEPT ![r] = h]
                     /\ UNCHANGED rung

(* procTask is over but for the pushes of h: it will return ret *)
Return(r, ret, h) == /\ Goto(r, "leave", h)
                     /\ res' = [res EXCEPT ![r] = ret]

Begin(r) ==
  /\ At(r, "idle")
  /\ Gate!Begin(r)
  /\ Goto(r, IF r = "rd" THEN "check" ELSE "splice", <<>>)
  /\ UNCHANGED <<res, queVars, fdVars, err, netVars, viewVars>>

\* as a fault: list_splice_front for list_splice_back
SpliceFront(r) ==
  /\ At(r, "splice")
  /\ LET c == IF r = "dir" THEN "cmd" ELSE r
     IN /\ que' = [que EXCEPT ![c] = tmp[c] \o @]
        /\ tmp' = [tmp EXCEPT ![c] = <<>>]
  /\ Goto(r, IF r = "wr" THEN "check" ELSE "loop", <<>>)
  /\ UNCHANGED <<gateVars, res, made, taken, fdVars, err, netVars, viewVars>>

Splice(r) ==
  /\ At(r, "splice")
  /\ LET c == IF r = "dir" THEN "cmd" ELSE r
     IN /\ que' = [que EXCEPT ![c] = @ \o tmp[c]]
        /\ tmp' = [tmp EXCEPT ![c] = <<>>]
  /\ Goto(r, IF r = "wr" THEN "check" ELSE "loop", <<>>)
  /\ UNCHANGED <<gateVars, res, made, taken, fdVars, err, netVars, viewVars>>

(* Director::readNode, writeNode *)
Check(r) ==
  /\ r \in {"rd", "wr"} /\ At(r, "check")
  /\ IF err[r] THEN Return(r, "ERROR", <<"CLOSING">>)
     ELSE Goto(r, "act", <<>>) /\ UNCHANGED res
  /\ UNCHANGED <<gateVars, queVars, fdVars, err, netVars, viewVars>>

(* procTask returns to its pool *)
Leave(r) ==
  /\ At(r, "leave") /\ stage[r] # "ended"
  /\ \/ res[r] = NORM /\ Gate!Rest(r)
     \/ res[r] = STAY /\ Gate!Again(r)
     \/ res[r] \in {"WRITE", "ERROR"} /\ Gate!Park(r, res[r])
  /\ Goto(r, "idle", <<>>)
  /\ res' = [res EXCEPT ![r] = NORM]
  /\ UNCHANGED <<queVars, fdVars, err, netVars, viewVars>>

-----------------------------------------------------------------------------
(* Receiver: SockCommObj, SockConnector::readNode                           *)

RdChange == <<gateVars, queVars, fdVars, netVars, viewVars>>

(* the socket would block, or the node is a connector *)
ReadNothing ==
  /\ At("rd", "act")
  /\ Return("rd", NORM, <<>>)
  /\ UNCHANGED <<RdChange, err>>

(* some bytes came, and with them the end of up to one message *)
ReadSome(n) ==
  /\ At("rd", "act") /\ kind = "SOCK"
  /\ made["deal"] + n <= MaxMsg
  /\ Return("rd", STAY, Repeat("deal", n))
  /\ UNCHANGED <<RdChange, err>>

(* end of stream, an error, or a bad header after n good messages *)
ReadError(n) ==
  /\ At("rd", "act") /\ kind = "SOCK" /\ "read" \in Failures
  /\ made["deal"] + n <= MaxMsg
  /\ err' = [err EXCEPT !["rd"] = TRUE]
  /\ Return("rd", "ERROR", Append(Repeat("deal", n), "CLOSING"))
  /\ UNCHANGED RdChange

\* as a fault: the sender's stage is skipped
EndReadWrite ==
  /\ At("rd", "idle") /\ Gate!Finish("rd")
  /\ Goto("rd", "gone", <<"CLOSE_WR">>)
  /\ UNCHANGED <<res, queVars, fdVars, err, netVars, viewVars>>

(* Receiver::procTaskEnd *)
EndRead ==
  /\ At("rd", "idle") /\ Gate!Finish("rd")
  /\ Goto("rd", "gone", <<"CLOSE_RD">>)
  /\ UNCHANGED <<res, queVars, fdVars, err, netVars, viewVars>>

-----------------------------------------------------------------------------
(* Sender: SockConnector, SockCommObj::writeNode, Sender::procTaskEnd       *)

(* SockConnector::writeNode: the outcome of the asynchronous connect *)
CheckConnect ==
  /\ At("wr", "act") /\ kind = "CONNECTOR"
  /\ IF broken
     THEN /\ err' = [err EXCEPT !["wr"] = TRUE]
          /\ Return("wr", "ERROR", <<"CONN_FAIL">>)
     ELSE /\ Return("wr", NORM, <<"CONN_OK">>)
          /\ UNCHANGED err
  /\ UNCHANGED RdChange

(* the first n messages went out whole; more may follow, unless it blocks *)
Write(n) ==
  /\ At("wr", "act") /\ kind = "SOCK"
  /\ n <= Len(que["wr"])
  /\ que' = [que EXCEPT !["wr"] = SubSeq(@, n + 1, Len(@))]
  /\ taken' = [taken EXCEPT !["wr"] = IF n = 0 THEN @ ELSE que["wr"][n]]
  /\ \/ n = Len(que["wr"]) /\ Return("wr", NORM, <<>>)
     \/ n < Len(que["wr"]) /\ Return("wr", STAY, <<>>)
     \/ n = 0 /\ que["wr"] # <<>> /\ Return("wr", "WRITE", <<>>)
  /\ UNCHANGED <<gateVars, tmp, made, fdVars, err, netVars, viewVars>>

WriteError ==
  /\ At("wr", "act") /\ kind = "SOCK" /\ que["wr"] # <<>>
  /\ "write" \in Failures
  /\ err' = [err EXCEPT !["wr"] = TRUE]
  /\ Return("wr", "ERROR", <<"CLOSING">>)
  /\ UNCHANGED RdChange

\* as a fault: CLOSE_WR is sent before the last attempt to write
EndWriteEarly ==
  /\ At("wr", "idle") /\ Gate!Finish("wr")
  /\ Goto("wr", IF err["wr"] THEN "gone" ELSE "splice", <<"CLOSE_WR">>)
  /\ UNCHANGED <<res, queVars, fdVars, err, netVars, viewVars>>

(* one more attempt to write, then CLOSE_WR *)
EndWrite ==
  /\ At("wr", "idle") /\ Gate!Finish("wr")
  /\ IF err["wr"] THEN Goto("wr", "gone", <<"CLOSE_WR">>)
                  ELSE Goto("wr", "splice", <<>>)
  /\ UNCHANGED <<res, queVars, fdVars, err, netVars, viewVars>>

EndWritten ==
  /\ At("wr", "leave") /\ stage["wr"] = "ended"
  /\ Goto("wr", "gone", <<"CLOSE_WR">>)
  /\ res' = [res EXCEPT !["wr"] = NORM]
  /\ UNCHANGED <<gateVars, queVars, fdVars, err, netVars, viewVars>>

-----------------------------------------------------------------------------
(* Dealer: Dealer::procNodeQue, Director::dealMsg, Dealer::procTaskEnd      *)

DealNext == /\ At("deal", "loop") /\ que["deal"] # <<>>
            /\ que' = [que EXCEPT !["deal"] = Tail(@)]
            /\ taken' = [taken EXCEPT !["deal"] = Head(que["deal"])]
            /\ UNCHANGED <<gateVars, res, tmp, made, fdVars, netVars, view>>

(* a reply may be sent as long as the bound on sent messages allows it *)
MaySend(n) ==
  n = 0 \/ made["wr"] + Cardinality({r \in Role : hand[r] # <<>> /\ Head(hand[r]) = "wr"
                                                  /\ ~rung[r]}) < MaxSend

(* the application accepts a message or a connection, or refuses it *)
Answers == {TRUE} \cup (IF "refuse" \in Failures THEN {FALSE} ELSE {})

(* process is given a message, sends n replies and accepts or refuses it *)
Process(n, ok) ==
  /\ DealNext /\ ~err["deal"] /\ MaySend(n)
  /\ delivered' = Head(que["deal"])
  /\ err' = [err EXCEPT !["deal"] = ~ok]
  /\ Goto("deal", "loop", Repeat("wr", n) \o (IF ok THEN <<>> ELSE <<"CLOSING">>))

(* messages after a refused one are freed *)
Discard ==
  /\ DealNext /\ err["deal"]
  /\ Goto("deal", "loop", <<>>)
  /\ UNCHANGED <<err, delivered>>

DealDone ==
  /\ At("deal", "loop") /\ que["deal"] = <<>>
  /\ Return("deal", NORM, <<>>)
  /\ UNCHANGED <<gateVars, queVars, fdVars, err, netVars, viewVars>>

\* as a fault: the chain stops at the dealer
EndDealSilently ==
  /\ At("deal", "idle") /\ Gate!Finish("deal")
  /\ Goto("deal", "gone", <<>>)
  /\ UNCHANGED <<res, queVars, fdVars, err, netVars, viewVars>>

EndDeal ==
  /\ At("deal", "idle") /\ Gate!Finish("deal")
  /\ Goto("deal", "gone", <<"CLOSE_DEALER">>)
  /\ UNCHANGED <<res, queVars, fdVars, err, netVars, viewVars>>

-----------------------------------------------------------------------------
(* Director: Director::procNodeQue, dealCmd                                 *)

NextCmd(c) == /\ At("dir", "loop") /\ que["cmd"] # <<>> /\ Head(que["cmd"]) = c
              /\ que' = [que EXCEPT !["cmd"] = Tail(@)]
              /\ UNCHANGED <<res, tmp, made, taken, err, broken, delivered>>

SetStatus(s) == status' = s /\ UNCHANGED <<kind, ev, alerts>>

Stay == Goto("dir", "loop", <<>>)

\* as a fault: no delEvent
CmdClosingNoDel ==
  /\ NextCmd("CLOSING") /\ Stay
  /\ IF status \in OpenStatus
     THEN SetStatus("CLOSING") /\ Raise("rd", END)
     ELSE UNCHANGED <<gateVars, fdVars, alerts>>
  /\ UNCHANGED view

(* procStopMsg: the first CLOSING takes the socket out of epoll *)
CmdClosing ==
  /\ NextCmd("CLOSING") /\ Stay
  /\ IF status \in OpenStatus
     THEN /\ status' = "CLOSING" /\ ev' = {} /\ alerts' = {}
          /\ Raise("rd", END)
          /\ UNCHANGED kind
     ELSE UNCHANGED <<gateVars, fdVars, alerts>>
  /\ UNCHANGED view

\* as a fault: CLOSE_WR ends the director's task
CmdCloseEarly(s, t) ==
  /\ NextCmd(s) /\ Stay
  /\ SetStatus(s)
  /\ Raise(IF s = "CLOSE_WR" THEN "dir" ELSE t, END)
  /\ UNCHANGED view

(* each later stage of the chain ends the next task *)
CmdClose(s, t) ==
  /\ NextCmd(s) /\ Stay
  /\ SetStatus(s)
  /\ Raise(t, END)
  /\ UNCHANGED view

\* as a fault: the node stays a connector
CmdConnectedOnly(n, ok) ==
  /\ NextCmd("CONN_OK") /\ kind = "CONNECTOR" /\ MaySend(n)
  /\ SetStatus("NORMAL") /\ view' = "open"
  /\ Goto("dir", "loop", Repeat("wr", n) \o (IF ok THEN <<>> ELSE <<"CLOSING">>))
  /\ UNCHANGED gateVars

(* SockConnector::procConnect: onConnected sends n messages, and accepts   *)
(* the connection or not; a node that is a SOCK by now ignores the command  *)
CmdConnected(n, ok) ==
  /\ NextCmd("CONN_OK") /\ kind = "CONNECTOR" /\ MaySend(n)
  /\ status' = "NORMAL" /\ kind' = "SOCK" /\ view' = "open"
  /\ ev' = IF ok THEN ev \cup {"RD"} ELSE ev
  /\ alerts' = IF ok /\ broken /\ "RD" \notin ev THEN alerts \cup {"RD"} ELSE alerts
  /\ Goto("dir", "loop", Repeat("wr", n) \o (IF ok THEN <<>> ELSE <<"CLOSING">>))
  /\ UNCHANGED gateVars

CmdFailed ==
  /\ NextCmd("CONN_FAIL") /\ kind = "CONNECTOR"
  /\ view' = "failed"
  /\ Goto("dir", "loop", <<"CLOSING">>)
  /\ UNCHANGED <<gateVars, fdVars, alerts>>

CmdIgnored ==
  /\ kind = "SOCK" /\ \E c \in {"CONN_OK", "CONN_FAIL"} : NextCmd(c)
  /\ Stay
  /\ UNCHANGED <<gateVars, fdVars, alerts, view>>

CmdDone ==
  /\ At("dir", "loop") /\ que["cmd"] = <<>>
  /\ Return("dir", NORM, <<>>)
  /\ UNCHANGED <<gateVars, queVars, fdVars, err, netVars, viewVars>>

(* Director::procTaskEnd: eof of the node's type, then delNode *)
EndNode ==
  /\ At("dir", "idle") /\ Gate!Finish("dir")
  /\ status' = "END"
  /\ view' = IF kind = "SOCK" THEN "closed" ELSE "dropped"
  /\ tmp' = [c \in Chan |-> <<>>] /\ que' = [c \in Chan |-> <<>>]
  /\ Goto("dir", "gone", <<>>)
  /\ UNCHANGED <<res, made, taken, kind, ev, err, netVars, delivered>>

(* Between two walks the director's thread polls epoll: addReadable,        *)
(* addWriteable, failFd.                                                   *)
Reported == Len(SelectSeq(que["cmd"] \o tmp["cmd"], LAMBDA c : c = "CONN_OK"))

EpollReady(d) ==
  /\ At("dir", "idle") /\ d \in ev /\ ~Freed
  /\ kind = "CONNECTOR" => Reported < MaxReport
  /\ IF d = "RD" THEN Raise("rd", "READ") ELSE Raise("wr", "WRITE")
  /\ UNCHANGED <<thrVars, queVars, fdVars, err, netVars, viewVars>>

\* as a fault: the errors are noted, but close is not called
EpollFailNoClose(d) ==
  /\ At("dir", "idle") /\ d \in alerts \cap ev /\ ~Freed
  /\ alerts' = alerts \ {d}
  /\ err' = [err EXCEPT !["rd"] = TRUE, !["wr"] = TRUE]
  /\ UNCHANGED <<gateVars, thrVars, queVars, fdVars, broken, viewVars>>

EpollFail(d) ==
  /\ At("dir", "idle") /\ d \in alerts \cap ev /\ ~Freed
  /\ alerts' = alerts \ {d}
  /\ err' = [err EXCEPT !["rd"] = TRUE, !["wr"] = TRUE]
  /\ Goto("dir", "idle", <<"CLOSING">>)
  /\ UNCHANGED <<gateVars, res, queVars, fdVars, broken, viewVars>>

-----------------------------------------------------------------------------
(* The network: the connection is reset, or the connect fails *)
Break ==
  /\ ~broken /\ ~Freed /\ "reset" \in Failures
  /\ broken' = TRUE /\ alerts' = ev
  /\ UNCHANGED <<gateVars, thrVars, queVars, fdVars, err, viewVars>>

Receiver == \/ ReadNothing \/ EndRead
            \/ \E n \in 0..1 : ReadSome(n) \/ ReadError(n)

Sender == \/ CheckConnect \/ WriteError \/ EndWrite \/ EndWritten
          \/ \E n \in 0..MaxSend : Write(n)

Dealer == \/ Discard \/ DealDone \/ EndDeal
          \/ \E n \in 0..1, ok \in Answers : Process(n, ok)

Commands == \/ CmdClosing \/ CmdClose("CLOSE_RD", "wr") \/ CmdClose("CLOSE_WR", "deal")
            \/ CmdClose("CLOSE_DEALER", "dir")
            \/ CmdFailed \/ CmdIgnored \/ CmdDone \/ EndNode
            \/ \E n \in 0..1, ok \in Answers : CmdConnected(n, ok)

Common(r) == Queue(r) \/ Ring(r) \/ Begin(r) \/ Splice(r) \/ Check(r) \/ Leave(r)

(* Nothing is left to do on a node that was freed *)
Over == Freed /\ (\A r \in Role : hand[r] = <<>>) /\ UNCHANGED vars

Next == \/ Receiver \/ Sender \/ Dealer \/ Commands
        \/ \E r \in Role : Common(r)
        \/ \E d \in Side : EpollReady(d) \/ EpollFail(d)
        \/ Break \/ Over

Spec == Init /\ [][Next]_vars

(* The threads and epoll keep working (each pool serves its tasks and ends,  *)
(* TaskPool's RequestServed and EndServed); nothing else has to happen.      *)
Fairness ==
  /\ WF_vars(Receiver \/ Common("rd"))
  /\ WF_vars(Sender \/ Common("wr"))
  /\ WF_vars(Dealer \/ Common("deal"))
  /\ WF_vars(Commands \/ Common("dir"))
  /\ WF_vars(\E d \in Side : EpollFail(d))

FairSpec == Spec /\ Fairness

-----------------------------------------------------------------------------
(* Properties *)

Closing == END \in req["rd"] \/ stage["rd"] = "ended"

(* Each of the two message queues of a node is first in, first out across    *)
(* its locked and its private half, for any interleaving of the pushes with  *)
(* the splices and partial sends (director.cpp:279-315, sender.cpp:100-116). *)
InOrder ==
  ~Freed => \A c \in MsgChan :
    que[c] \o tmp[c] = [i \in 1..(made[c] - taken[c]) |-> taken[c] + i]

(* What was appended to a locked half is never left behind: someone is       *)
(* about to call addTask for it, or the task that serves the queue has a     *)
(* request pending, is on its way to the splice, or waits for the socket.    *)
NoStranded ==
  \A c \in Chan : tmp[c] # <<>> =>
    LET t == ServerOf(c) IN
      \/ \E r \in Role : rung[r] /\ ChanOf(Head(hand[r])) = c
      \/ req[t] \cap {NORM, END} # {}
      \/ stage[t] \in {"running", "ended"} /\ pc[t] = "splice"
      \/ stage[t] = "ended"

(* The four tasks end one after the other, each only after the task before   *)
(* it has ended for good, so that a thread whose task has ended has no work  *)
(* left for a later stage (director.cpp:521-552).                            *)
EndsInOrder ==
  /\ (END \in req["wr"] \/ stage["wr"] = "ended") => stage["rd"] = "ended"
  /\ (END \in req["deal"] \/ stage["deal"] = "ended") => pc["wr"] = "gone"
  /\ (END \in req["dir"] \/ stage["dir"] = "ended") => pc["deal"] = "gone"

(* Once its close has begun a socket stays out of both epoll sets: no event  *)
(* is reported for a node on its way to be freed, and its slot of m_size is  *)
(* given back (director.cpp:526-533).                                        *)
Unregistered == Closing => ev = {}

(* A node is freed when all its tasks have ended and nobody will queue       *)
(* anything in it again; after that no step of any thread but a late addTask *)
(* is about the node.                                                        *)
QuietWhenFreed ==
  Freed => \A r \in Role :
    /\ stage[r] = "ended" /\ pc[r] = "gone"
    /\ hand[r] # <<>> => rung[r] /\ Len(hand[r]) = 1

View == INSTANCE NodeView

(* The application's callbacks follow NodeView: one opening, then messages   *)
(* in order without gaps, then one onClosed and silence.                     *)
ViewSpec == View!Spec

(* A broken connection, a failure seen by the receiver, the sender, the       *)
(* dealer or epoll, and a close once begun lead to the node being freed.     *)
CloseCompletes == (broken \/ Closing \/ \E d \in DOMAIN err : err[d]) ~> Freed

(* A message that was received is taken off its queue by the dealer, unless  *)
(* the node is being closed.                                                 *)
ReceivedTaken ==
  \A n \in 1..MaxMsg : (made["deal"] >= n) ~> (taken["deal"] >= n \/ stage["deal"] = "ended")

-----------------------------------------------------------------------------
(* A statement of the documentation that the code does not keep *)

(* usage_case.txt: the user "can handle massive business thread-safely": a   *)
(* node is not freed while another thread is still about to use it.          *)
AliveWhenTouched == Freed => \A r \in Role : hand[r] = <<>>
=============================================================================
