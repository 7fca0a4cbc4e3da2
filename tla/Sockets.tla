-------------------------------- MODULE Sockets --------------------------------
(***************************************************************************)
(* All the sockets of the server: how they come to be, how they are counted *)
(* and how they are freed (Director::addListener, addConnector, creatNode,  *)
(* delNode, freeNodes; Server::startServer, startClient, addService;        *)
(* SockListener; addEvent and delEvent of SockEpoll).                       *)
(*                                                                         *)
(* What one socket's four threads do is NodeLife; here a socket is its      *)
(* commands, its place in the close chain and its registration.  The        *)
(* listening socket is edge triggered: the receiver answers a report with    *)
(* an ACCEPT command, and the director accepts until nothing is waiting.    *)
(***************************************************************************)
EXTENDS Naturals, Sequences, FiniteSets

CONSTANTS Conn,      \* the connections that clients may make
          Link,      \* the connectors that the program may ask for
          Capacity,  \* m_capacity, of the director and of epoll's m_evs
          MaxCmd,    \* bound: commands queued for one socket by other threads
          Failures   \* bound: what may fail

Fixed == {"epoll", "event", "timer"}   \* the server's own nodes in epoll
Sock  == Fixed \cup {"listener"} \cup Conn \cup Link

ASSUME SocketsAssumption ==
  /\ Capacity \in Nat /\ MaxCmd \in Nat
  /\ Failures \subseteq {"open", "connect", "register", "accept", "refuse"}

(* every socket is a node of its own, and there are finitely many *)
ASSUME NodesAssumption ==
  /\ IsFiniteSet(Conn) /\ IsFiniteSet(Link) /\ Conn \cap Link = {}
  /\ (Conn \cup Link) \cap (Fixed \cup {"listener"}) = {}

(* DEF_FD_MAX_CAPACITY leaves room for the server's own nodes and a listener *)
ASSUME RoomAssumption == Capacity > Cardinality(Fixed)

VARIABLES
  phase,     \* setup, running, over
  state,     \* of a socket: new, asked, waiting, done
  requests,  \* ADD_ADDRESS commands in the event node
  cmds,      \* commands in each socket's node
  chain,     \* how far each socket's close chain has come
  backlog,   \* the connections waiting in the listening socket
  came,      \* epoll has yet to report it
  ready,     \* its receiver task has a READ event
  accepting, \* the director is in SockListener::accept
  stranded,  \* clients were waiting when an accept failed, and none came since
  fds,       \* the descriptors that are open
  que,       \* the nodes in m_node_que
  ev, size,  \* m_ev_type of each node, SockEpoll.m_size
  closing,   \* the nodes with m_fd_status at ENUM_FD_CLOSING or later
  comm,      \* the connectors that are ENUM_NODE_SOCK by now
  late       \* history: connectors told of success after CLOSING

netVars  == <<backlog, came, ready, accepting, stranded>>
nodeVars == <<fds, que, ev, size>>
linkVars == <<closing, comm, late>>
vars == <<phase, state, requests, cmds, chain, netVars, nodeVars, linkVars>>

Init ==
  /\ phase = "setup"
  /\ state = [s \in Sock |-> IF s \in Fixed THEN "done" ELSE "new"]
  /\ requests = <<>> /\ cmds = [s \in Sock |-> <<>>] /\ chain = [s \in Sock |-> 0]
  /\ backlog = <<>> /\ came = FALSE /\ ready = FALSE /\ accepting = FALSE
  /\ stranded = FALSE
  /\ fds = Fixed /\ que = {}
  /\ ev = [s \in Sock |-> IF s \in Fixed THEN {"RD"} ELSE {}]
  /\ size = Cardinality(Fixed)
  /\ closing = {} /\ comm = {} /\ late = {}

-----------------------------------------------------------------------------
(* Registration: SockEpoll::addEvent, delEvent.  addEpoll may fail for a     *)
(* side, which addEvent passes over in silence.                              *)

Registered(sides) ==
  IF "register" \in Failures THEN SUBSET sides ELSE {sides}

\* as a fault: m_size is raised for each side
AddEventEach(s, sides) ==
  \E r \in Registered(sides) :
    /\ ev' = [ev EXCEPT ![s] = @ \cup r]
    /\ size' = size + Cardinality(r \ ev[s])

AddEvent(s, sides) ==
  \E r \in Registered(sides) :
    /\ ev' = [ev EXCEPT ![s] = @ \cup r]
    /\ size' = size + (IF ev[s] = {} /\ r # {} THEN 1 ELSE 0)

DelEvent(s) ==
  /\ ev' = [ev EXCEPT ![s] = {}]
  /\ size' = size - (IF ev[s] # {} THEN 1 ELSE 0)

(* creatNode on a new descriptor *)
CreatNode(s) == fds' = fds \cup {s} /\ que' = que \cup {s}
(* delNode: list_del, freeNode, close *)
DelNode(s) == fds' = fds \ {s} /\ que' = que \ {s}

-----------------------------------------------------------------------------
(* Adding listeners and connectors *)

(* creatTcpSrv: bind or listen fails, and the descriptor is closed again *)
NoSocket == "open" \in Failures /\ UNCHANGED nodeVars
(* connFast, connSlow: connect fails at once, the same; a connect in          *)
(* progress counts as made                                                   *)
NoConnection == "connect" \in Failures /\ UNCHANGED nodeVars

AddListener(s)  == NoSocket \/ (CreatNode(s) /\ AddEvent(s, {"RD"}))
AddConnector(s) == NoConnection \/ (CreatNode(s) /\ AddEvent(s, {"WR"}))

Add(s) == /\ state' = [state EXCEPT ![s] = "done"]
          /\ IF s = "listener" THEN AddListener(s) ELSE AddConnector(s)

(* startServer and startClient, before start *)
StartHere(s) ==
  /\ phase = "setup" /\ state[s] = "new" /\ s \notin Conn
  /\ Add(s)
  /\ UNCHANGED <<phase, requests, cmds, chain, netVars, linkVars>>

(* addService, from any thread *)
AddService(s) ==
  /\ phase \in {"setup", "running"} /\ state[s] = "new" /\ s \notin Conn
  /\ state' = [state EXCEPT ![s] = "asked"]
  /\ requests' = Append(requests, s)
  /\ UNCHANGED <<phase, cmds, chain, netVars, nodeVars, linkVars>>

-----------------------------------------------------------------------------
(* The director's thread, between two accepts *)

Free == phase = "running" /\ ~accepting

(* EventObj::procAddress *)
ProcAddress ==
  /\ Free /\ requests # <<>>
  /\ requests' = Tail(requests)
  /\ Add(Head(requests))
  /\ UNCHANGED <<phase, cmds, chain, netVars, linkVars>>

Cmd(s, c) == /\ Free /\ cmds[s] # <<>> /\ Head(cmds[s]) = c
             /\ UNCHANGED <<phase, state, requests>>

Took(s) == [cmds EXCEPT ![s] = Tail(@)]
TookAndClose(s) == [cmds EXCEPT ![s] = Append(Tail(@), "CLOSING")]

(* procStopMsg, ENUM_FD_CLOSING *)
Closing(s) ==
  /\ Cmd(s, "CLOSING")
  /\ cmds' = Took(s)
  /\ IF s \in closing THEN UNCHANGED <<chain, closing, ev, size>>
     ELSE /\ closing' = closing \cup {s}
          /\ chain' = [chain EXCEPT ![s] = IF @ = 0 THEN 1 ELSE @]
          /\ DelEvent(s)
  /\ UNCHANGED <<netVars, fds, que, comm, late>>

(* ... and CLOSE_RD, CLOSE_WR, of a task that has ended *)
Chain(s) ==
  /\ Cmd(s, "CHAIN")
  /\ cmds' = Took(s)
  /\ chain' = [chain EXCEPT ![s] = @ + 1]
  /\ closing' = closing \cup {s}
  /\ UNCHANGED <<netVars, nodeVars, comm, late>>

(* SockConnector::procConnect: onConnected agrees *)
Connected(s) ==
  /\ Cmd(s, "OK") /\ s \notin comm
  /\ cmds' = Took(s)
  /\ AddEvent(s, {"RD"})
  /\ closing' = closing \ {s} /\ comm' = comm \cup {s}
  /\ late' = IF chain[s] > 0 THEN late \cup {s} ELSE late
  /\ UNCHANGED <<chain, netVars, fds, que>>

(* ... onConnected refuses *)
ConnectRefused(s) ==
  /\ Cmd(s, "OK") /\ s \notin comm /\ "refuse" \in Failures
  /\ cmds' = TookAndClose(s)
  /\ closing' = closing \ {s} /\ comm' = comm \cup {s}
  /\ UNCHANGED <<chain, netVars, nodeVars, late>>

ConnectFailed(s) ==
  /\ Cmd(s, "FAIL") /\ s \notin comm
  /\ cmds' = TookAndClose(s)
  /\ UNCHANGED <<chain, netVars, nodeVars, linkVars>>

(* SockCommObj::procCmd *)
Ignored(s) ==
  /\ s \in comm /\ \E c \in {"OK", "FAIL"} : Cmd(s, c)
  /\ cmds' = Took(s)
  /\ UNCHANGED <<chain, netVars, nodeVars, linkVars>>

(* Director::procTaskEnd: eof, delNode; closing the descriptor takes it out  *)
(* of epoll, but m_size stays                                                *)
End(s) ==
  /\ Free /\ chain[s] = 5 /\ cmds[s] = <<>> /\ s \in que
  /\ DelNode(s)
  /\ UNCHANGED <<ev, size, phase, state, requests, cmds, chain, netVars, linkVars>>

-----------------------------------------------------------------------------
(* SockListener::accept *)

Begin ==
  /\ Free /\ cmds["listener"] # <<>>
  /\ accepting' = TRUE /\ cmds' = Took("listener")
  /\ UNCHANGED <<phase, state, requests, chain, backlog, came, ready, stranded,
                 nodeVars, linkVars>>

Take(c) == /\ accepting /\ backlog # <<>> /\ Head(backlog) = c
           /\ backlog' = Tail(backlog)
           /\ state' = [state EXCEPT ![c] = "done"]
           /\ UNCHANGED <<phase, requests, cmds, chain, came, ready, stranded, linkVars>>

\* as a fault: the last place is given away twice
HasRoomAtLimit == size <= Capacity
HasRoom == size < Capacity

\* as a fault: one connection is accepted for each command
AcceptOnce(c) ==
  /\ HasRoom /\ Take(c)
  /\ CreatNode(c) /\ AddEvent(c, {"RD", "WR"})
  /\ accepting' = FALSE

(* onAccepted agrees *)
Accept(c) ==
  /\ HasRoom /\ Take(c)
  /\ CreatNode(c) /\ AddEvent(c, {"RD", "WR"})
  /\ UNCHANGED accepting

\* as a fault: the node is taken off the list, but not freed
RefuseKept(c) ==
  /\ HasRoom /\ "refuse" \in Failures /\ Take(c)
  /\ fds' = fds \cup {c}
  /\ UNCHANGED <<accepting, que, ev, size>>

(* onAccepted refuses: creatNode, delNode *)
Refuse(c) ==
  /\ HasRoom /\ "refuse" \in Failures /\ Take(c)
  /\ UNCHANGED <<accepting, nodeVars>>

(* no room: the descriptor is closed at once *)
TurnAway(c) ==
  /\ ~HasRoom /\ Take(c)
  /\ UNCHANGED <<accepting, nodeVars>>

AcceptOver(failed) ==
  /\ accepting /\ (failed <=> backlog # <<>>)
  /\ failed => "accept" \in Failures
  /\ accepting' = FALSE /\ stranded' = (stranded \/ failed)
  /\ UNCHANGED <<phase, state, requests, cmds, chain, backlog, came, ready, nodeVars, linkVars>>

-----------------------------------------------------------------------------
(* Clients, epoll and the other three threads *)

Connect(c) ==
  /\ state[c] = "new" /\ "listener" \in que
  /\ state' = [state EXCEPT ![c] = "waiting"]
  /\ backlog' = Append(backlog, c) /\ came' = TRUE /\ stranded' = FALSE
  /\ UNCHANGED <<phase, requests, cmds, chain, ready, accepting, nodeVars, linkVars>>

(* addReadable *)
Report ==
  /\ Free /\ came /\ "RD" \in ev["listener"]
  /\ came' = FALSE /\ ready' = TRUE
  /\ UNCHANGED <<phase, state, requests, cmds, chain, backlog, accepting, stranded,
                 nodeVars, linkVars>>

(* SockListener::readNode *)
ReadNode ==
  /\ ready
  /\ ready' = FALSE
  /\ cmds' = [cmds EXCEPT !["listener"] = Append(@, "ACCEPT")]
  /\ UNCHANGED <<phase, state, requests, chain, backlog, came, accepting, stranded,
                 nodeVars, linkVars>>

Push(s, c) ==
  /\ s \in que /\ Len(cmds[s]) < MaxCmd
  /\ cmds' = [cmds EXCEPT ![s] = Append(@, c)]
  /\ UNCHANGED <<phase, state, requests, netVars, nodeVars, linkVars>>

(* a thread calls close: epoll or the application, the receiver or sender;   *)
(* the dealer may even after the sender's task has ended                     *)
AskClose(s) == /\ s \in Conn \cup Link /\ chain[s] < 5
               /\ Push(s, "CLOSING") /\ UNCHANGED chain

(* SockConnector::writeNode, while the sender's task has not ended *)
Outcome(s, c) == /\ s \in Link \ comm /\ chain[s] < 4
                 /\ Push(s, c) /\ UNCHANGED chain

(* procTaskEnd of the receiver, the sender *)
TaskEnd(s) == /\ chain[s] \in {1, 3} /\ Push(s, "CHAIN")
              /\ chain' = [chain EXCEPT ![s] = @ + 1]

-----------------------------------------------------------------------------
(* The main thread *)

Start == /\ phase = "setup" /\ phase' = "running"
         /\ UNCHANGED <<state, requests, cmds, chain, netVars, nodeVars, linkVars>>

(* Stop, join and Director::finish: freeNodes, with what was queued in the  *)
(* nodes until then, and the server's own nodes; setup is left for it when   *)
(* startServer fails                                                         *)
Finish ==
  /\ phase = "setup" \/ Free
  /\ phase' = "over"
  /\ fds' = fds \ (que \cup Fixed) /\ que' = {}
  /\ requests' = <<>> /\ cmds' = [s \in Sock |-> <<>>] /\ chain' = [s \in Sock |-> 0]
  /\ closing' = {} /\ comm' = {} /\ late' = {}
  /\ backlog' = <<>> /\ state' = [s \in Sock |-> "done"]
  /\ came' = FALSE /\ ready' = FALSE /\ stranded' = FALSE
  /\ UNCHANGED <<accepting, ev, size>>

AcceptStep == \/ Begin \/ \E failed \in BOOLEAN : AcceptOver(failed)
              \/ \E c \in Conn : Accept(c) \/ Refuse(c) \/ TurnAway(c)

Next == \/ AcceptStep \/ Report \/ ReadNode \/ ProcAddress
        \/ Start \/ Finish
        \/ \E c \in Conn : Connect(c)
        \/ \E s \in Sock : \/ StartHere(s) \/ AddService(s)
                           \/ Closing(s) \/ Chain(s) \/ End(s)
                           \/ Connected(s) \/ ConnectRefused(s) \/ ConnectFailed(s)
                           \/ Ignored(s) \/ AskClose(s) \/ TaskEnd(s)
                           \/ \E c \in {"OK", "FAIL"} : Outcome(s, c)

Spec == /\ Init /\ [][Next]_vars
        /\ WF_vars(Report) /\ WF_vars(ReadNode) /\ WF_vars(AcceptStep)

-----------------------------------------------------------------------------
(* Properties *)

(* m_size is the number of registered sockets, for every path of add, accept *)
(* and close and whatever epoll_ctl refuses; a freed socket keeps its place  *)
(* only if it was a connector told of its success after CLOSING              *)
(* (sockepoll.cpp:85-135, sockobj.cpp:394-501).                              *)
SizeCounts ==
  /\ size = Cardinality({s \in Sock : ev[s] # {}})
  /\ phase # "over" => \A s \in Sock \ (que \cup Fixed) : ev[s] # {} => s \in late

(* Accepting never takes m_size beyond the capacity: only connectors, whom   *)
(* nobody counts, can, and by no more than their number (sockobj.cpp:460,    *)
(* director.cpp:676); epoll_wait is given m_size for m_capacity entries.     *)
RoomKept == size <= Capacity + Cardinality({l \in Link : ev[l] # {}})

(* A descriptor is open exactly while a node of m_node_que or one of the     *)
(* server's own nodes owns it: none is left behind by a failed or refused    *)
(* socket or by finish, and none is closed under a node.                     *)
FdsOwned == fds = que \cup (IF phase = "over" THEN {} ELSE Fixed)

(* A connection does not stay in the listening socket: one edge is enough    *)
(* for any number of clients, for the director accepts to the end; and when  *)
(* a failing accept has left clients behind, the next client's edge serves   *)
(* them too (sockobj.cpp:447-501).                                          *)
BacklogServed ==
  \A c \in Conn :
    (state[c] = "waiting" /\ phase = "running" /\ "RD" \in ev["listener"])
      ~> (state[c] # "waiting" \/ stranded \/ phase # "running")
=============================================================================
