----------------------------- MODULE SocketsProofs -----------------------------
(***************************************************************************)
(* The accounts of Sockets, for any connections, connectors, capacity and   *)
(* failures: which descriptors are open, how many sockets are registered,   *)
(* and that accepting keeps to the capacity.  The invariants follow a socket *)
(* from the request to the node (Orders, Waiting) and from the node to its   *)
(* place in epoll (Seats).                                                  *)
(***************************************************************************)
EXTENDS Sockets, QueueLemmas, FiniteSetTheorems

Command == {"ACCEPT", "CLOSING", "CHAIN", "OK", "FAIL"}
Sides   == {"RD", "WR"}

SockTypes ==
  /\ phase \in {"setup", "running", "over"}
  /\ state \in [Sock -> {"new", "asked", "waiting", "done"}]
  /\ requests \in Seq({"listener"} \cup Link) /\ backlog \in Seq(Conn)
  /\ chain \in [Sock -> Nat] /\ cmds \in [Sock -> Seq(Command)]
  /\ ev \in [Sock -> SUBSET Sides]
  /\ que \subseteq Sock

Asked(s) == ToSet(cmds[s])

(* Who may be told what: only connectors hear of an outcome, the close chain *)
(* goes on only where it has begun, and only the listener is asked before it *)
(* has a node.                                                              *)
Orders ==
  \A s \in Sock :
    /\ s = "listener" => Asked(s) \subseteq {"ACCEPT"} /\ chain[s] = 0
    /\ "OK" \in Asked(s) => s \in Link
    /\ "CHAIN" \in Asked(s) => chain[s] > 0
    /\ cmds[s] # <<>> => s \in que \cup {"listener"}
    /\ chain[s] > 0 => state[s] = "done" /\ (ev[s] = {} \/ s \in late)

(* A socket that is asked for, or is waiting, is so once and has no node yet. *)
Waiting ==
  /\ IsInjective(requests) /\ \A s \in ToSet(requests) : state[s] = "asked"
  /\ IsInjective(backlog) /\ \A c \in ToSet(backlog) : state[c] = "waiting"
  /\ \A s \in que \cup Fixed : state[s] = "done"
  /\ que \cap Fixed = {}
  /\ accepting => phase = "running"
  /\ phase = "over" => que = {}

Registrations == {s \in Sock : ev[s] # {}}
Accountable   == {s \in Sock \ Link : ev[s] # {}}    \* those accept looks at

Seats ==
  /\ size = Cardinality(Registrations)
  /\ Cardinality(Accountable) <= Capacity
  /\ phase # "over" =>
       /\ \A s \in Sock \ (que \cup Fixed) : ev[s] # {} => s \in late
       /\ \A c \in Conn : /\ ev[c] # {} => state[c] = "done"
                          /\ state[c] # "new" => state["listener"] = "done"

SockInv == SockTypes /\ Orders /\ Waiting /\ FdsOwned /\ Seats

-----------------------------------------------------------------------------
(* The commands of one socket, and the seats of all *)

(* procNodeQue takes the oldest command of a node, and may queue a CLOSING. *)
LEMMA CmdTaken ==
  ASSUME SockTypes, NEW s \in Sock, cmds[s] # <<>>,
         cmds' = Took(s) \/ cmds' = TookAndClose(s)
  PROVE  /\ cmds' \in [Sock -> Seq(Command)]
         /\ Head(cmds[s]) \in Asked(s)
         /\ Asked(s)' \subseteq Asked(s) \cup {"CLOSING"}
         /\ cmds' = Took(s) => Asked(s)' \subseteq Asked(s)
         /\ \A x \in Sock : x # s => cmds'[x] = cmds[x] /\ Asked(x)' = Asked(x)
<1> DEFINE q == cmds[s]
<1>1. /\ q \in Seq(Command) /\ Tail(q) \in Seq(Command)
      /\ Head(q) \in ToSet(q) /\ ToSet(Tail(q)) \subseteq ToSet(q)
  BY HeadTailElems DEF SockTypes
<1>2. /\ Append(Tail(q), "CLOSING") \in Seq(Command)
      /\ ToSet(Append(Tail(q), "CLOSING")) = ToSet(Tail(q)) \cup {"CLOSING"}
  <2>1. "CLOSING" \in Command
    BY DEF Command
  <2> DEFINE r == Tail(q)
  <2>2. r \in Seq(Command)
    BY <1>1
  <2> HIDE DEF r
  <2>3. /\ Append(r, "CLOSING") \in Seq(Command)
        /\ ToSet(Append(r, "CLOSING")) = ToSet(r) \cup {"CLOSING"}
    BY <2>1, <2>2, AppendElems
  <2> QED BY <2>3 DEF r
<1>3. CASE cmds' = Took(s)
  <2>1. /\ cmds' \in [Sock -> Seq(Command)]
        /\ cmds'[s] = Tail(q)
        /\ \A x \in Sock : x # s => cmds'[x] = cmds[x]
    BY <1>1, <1>3 DEF SockTypes, Took
  <2> QED BY <1>1, <2>1 DEF Asked
<1>4. CASE cmds' = TookAndClose(s)
  <2>1. /\ cmds' \in [Sock -> Seq(Command)]
        /\ cmds'[s] = Append(Tail(q), "CLOSING")
        /\ \A x \in Sock : x # s => cmds'[x] = cmds[x]
    BY <1>2, <1>4 DEF SockTypes, TookAndClose
  <2>2. cmds' = Took(s) => Asked(s)' \subseteq Asked(s)
    BY <1>1 DEF SockTypes, Took, Asked
  <2>3. Asked(s)' \subseteq Asked(s) \cup {"CLOSING"}
    BY <1>1, <1>2, <2>1 DEF Asked
  <2> QED BY <1>1, <2>1, <2>2, <2>3 DEF Asked
<1> QED BY <1>3, <1>4

(* A thread queues a command in a node. *)
LEMMA CmdPushed ==
  ASSUME SockTypes, NEW s \in Sock, NEW c \in Command,
         cmds' = [cmds EXCEPT ![s] = Append(@, c)]
  PROVE  /\ cmds' \in [Sock -> Seq(Command)]
         /\ Asked(s)' = Asked(s) \cup {c}
         /\ \A x \in Sock : x # s => cmds'[x] = cmds[x] /\ Asked(x)' = Asked(x)
<1>1. /\ Append(cmds[s], c) \in Seq(Command)
      /\ ToSet(Append(cmds[s], c)) = ToSet(cmds[s]) \cup {c}
  BY AppendElems DEF SockTypes
<1>2. /\ cmds' \in [Sock -> Seq(Command)] /\ cmds'[s] = Append(cmds[s], c)
      /\ \A x \in Sock : x # s => cmds'[x] = cmds[x]
  BY <1>1 DEF SockTypes
<1> QED BY <1>1, <1>2 DEF Asked

(* The server has three nodes of its own, and room for them and a listener. *)
LEMMA FixedFinite ==
  /\ IsFiniteSet(Fixed) /\ Cardinality(Fixed) \in Nat /\ Cardinality(Fixed) <= Capacity
  /\ IsFiniteSet(Fixed \cup {"listener"})
  /\ Cardinality(Fixed \cup {"listener"}) <= Capacity
<1>1. IsFiniteSet(Fixed) /\ Cardinality(Fixed) \in Nat
  <2>1. Fixed = ({"epoll"} \cup {"event"}) \cup {"timer"} /\ IsFiniteSet({"epoll"})
    BY FS_Singleton DEF Fixed
  <2> QED BY <2>1, FS_AddElement, FS_CardinalityType
<1> DEFINE F == Fixed
           G == Fixed \cup {"listener"}
<1>2. IsFiniteSet(G) /\ (Cardinality(G) = Cardinality(F) \/ Cardinality(G) = Cardinality(F) + 1)
  BY <1>1, FS_AddElement
<1>3. Cardinality(F) \in Nat /\ Capacity \in Nat /\ Capacity > Cardinality(F)
  BY <1>1, SocketsAssumption, RoomAssumption
<1> HIDE DEF F, G
<1>4. Cardinality(F) <= Capacity /\ Cardinality(G) <= Capacity
  BY <1>2, <1>3
<1> QED BY <1>1, <1>2, <1>4 DEF F, G

(* There are finitely many sockets, and those registered are some of them. *)
LEMMA SeatsFinite == IsFiniteSet(Registrations) /\ IsFiniteSet(Accountable)
<1>1. IsFiniteSet(Fixed \cup {"listener"})
  BY FixedFinite
<1>2. IsFiniteSet((Fixed \cup {"listener"}) \cup (Conn \cup Link))
  BY <1>1, NodesAssumption, FS_Union
<1>3. Sock = (Fixed \cup {"listener"}) \cup (Conn \cup Link)
  BY DEF Sock
<1>4. Registrations \in SUBSET Sock /\ Accountable \in SUBSET Sock
  BY DEF Registrations, Accountable
<1> QED BY <1>2, <1>3, <1>4, FS_Subset

(* addEvent: m_size grows by one exactly when the socket was not registered  *)
(* and one of the two sides was.                                            *)
LEMMA SeatAdded ==
  ASSUME SockTypes, NEW s \in Sock, NEW sides \in SUBSET Sides, AddEvent(s, sides),
         size = Cardinality(Registrations)
  PROVE  /\ ev' \in [Sock -> SUBSET Sides]
         /\ \A x \in Sock : x # s => ev'[x] = ev[x]
         /\ size' = Cardinality(Registrations')
         /\ Accountable' \subseteq Accountable \cup {s}
         /\ s \in Link => Accountable' = Accountable
<1>1. PICK r \in SUBSET Sides :
        /\ ev' = [ev EXCEPT ![s] = @ \cup r]
        /\ size' = size + (IF ev[s] = {} /\ r # {} THEN 1 ELSE 0)
  BY DEF AddEvent, Registered
<1>2. /\ ev' \in [Sock -> SUBSET Sides] /\ ev'[s] = ev[s] \cup r
      /\ \A x \in Sock : x # s => ev'[x] = ev[x]
  BY <1>1 DEF SockTypes
<1>3. /\ Accountable' \subseteq Accountable \cup {s}
      /\ s \in Link => Accountable' = Accountable
  BY <1>2 DEF Accountable
<1>4. Registrations' = IF r # {} THEN Registrations \cup {s} ELSE Registrations
  BY <1>2 DEF Registrations
<1>5. s \in Registrations <=> ev[s] # {}
  BY DEF Registrations
<1>6. /\ Cardinality(Registrations) \in Nat
      /\ Cardinality(Registrations \cup {s}) =
           IF s \in Registrations THEN Cardinality(Registrations)
           ELSE Cardinality(Registrations) + 1
  BY SeatsFinite, FS_AddElement, FS_CardinalityType
<1>7. size' = Cardinality(Registrations')
  BY <1>1, <1>4, <1>5, <1>6
<1> QED BY <1>2, <1>3, <1>7

(* delEvent gives the seat back. *)
LEMMA SeatGiven ==
  ASSUME SockTypes, NEW s \in Sock, DelEvent(s), size = Cardinality(Registrations)
  PROVE  /\ ev' \in [Sock -> SUBSET Sides] /\ ev'[s] = {}
         /\ \A x \in Sock : x # s => ev'[x] = ev[x]
         /\ size' = Cardinality(Registrations')
         /\ Accountable' \subseteq Accountable
<1>1. /\ ev' \in [Sock -> SUBSET Sides] /\ ev'[s] = {}
      /\ \A x \in Sock : x # s => ev'[x] = ev[x]
  BY DEF SockTypes, DelEvent
<1>2. Accountable' \subseteq Accountable
  BY <1>1 DEF Accountable
<1>3. Registrations' = Registrations \ {s}
  BY <1>1 DEF Registrations
<1>4. s \in Registrations <=> ev[s] # {}
  BY DEF Registrations
<1>5. /\ Cardinality(Registrations) \in Nat
      /\ Cardinality(Registrations \ {s}) =
           IF s \in Registrations THEN Cardinality(Registrations) - 1
           ELSE Cardinality(Registrations)
  BY SeatsFinite, FS_RemoveElement, FS_CardinalityType
<1>6. size' = Cardinality(Registrations')
  BY <1>3, <1>4, <1>5 DEF DelEvent
<1> QED BY <1>1, <1>2, <1>6

(* Fewer accountable sockets leave at least as much room. *)
LEMMA RoomMonotone ==
  ASSUME NEW S, NEW T, S \subseteq T, IsFiniteSet(T), Cardinality(T) <= Capacity
  PROVE  Cardinality(S) <= Capacity
<1>1. S \in SUBSET T
  OBVIOUS
<1>2. /\ IsFiniteSet(S) /\ Cardinality(S) <= Cardinality(T)
      /\ Cardinality(S) \in Nat /\ Cardinality(T) \in Nat
  BY <1>1, FS_Subset, FS_CardinalityType
<1> QED BY <1>2, SocketsAssumption

(* Nobody is registered or unregistered. *)
LEMMA SeatsKept ==
  ASSUME Seats, UNCHANGED <<ev, size>>
  PROVE  /\ size' = Cardinality(Registrations)'
         /\ Cardinality(Accountable)' <= Capacity
<1>1. Registrations' = Registrations /\ Accountable' = Accountable
  BY DEF Registrations, Accountable
<1> QED BY <1>1 DEF Seats

-----------------------------------------------------------------------------
(* The steps *)

(* Before the start only the server's own three nodes are open. *)
LEMMA SockInit == Init => SockInv
<1> SUFFICES ASSUME Init PROVE SockInv
  OBVIOUS
<1>1. SockTypes
  BY EmptySeq DEF Init, SockTypes, Sides, Sock
<1>2. Orders /\ Waiting /\ FdsOwned
  <2>1. \A s \in Sock : cmds[s] = <<>> /\ Asked(s) = {}
    BY EmptyElems DEF Init, Asked
  <2>2. ToSet(requests) = {} /\ ToSet(backlog) = {} /\ IsInjective(requests) /\ IsInjective(backlog)
    BY EmptyElems DEF Init
  <2> QED BY <2>1, <2>2 DEF Init, Orders, Waiting, FdsOwned, Sock
<1>3. Seats
  <2>1. /\ \A s \in Sock : ev[s] # {} <=> s \in Fixed
        /\ \A c \in Conn : c \in Sock /\ c \notin Fixed /\ state[c] = "new"
        /\ que = {}
    BY NodesAssumption DEF Init, Sock
  <2>2. Registrations = Fixed /\ Accountable = Fixed
    BY <2>1, NodesAssumption DEF Registrations, Accountable, Sock
  <2> QED BY <2>1, <2>2, FixedFinite DEF Init, Seats
<1> QED BY <1>1, <1>2, <1>3 DEF SockInv

(* A listener or a connector is made, or fails to be. *)
LEMMA SockAdd ==
  ASSUME SockInv, NEW s \in {"listener"} \cup Link, Add(s),
         phase # "over", state[s] \in {"new", "asked"},
         UNCHANGED <<phase, cmds, chain, netVars, linkVars>>,
         requests' = requests \/ (requests # <<>> /\ requests' = Tail(requests)
                                   /\ s = Head(requests)),
         state[s] = "asked" => requests' # requests
  PROVE  SockInv'
<1> USE DEF SockInv, netVars, linkVars, nodeVars
<1>1. s \in Sock /\ s \notin Fixed /\ s \notin que /\ s \notin Conn
  BY NodesAssumption DEF Sock, Fixed, Waiting
<1>2. /\ state' \in [Sock -> {"new", "asked", "waiting", "done"}] /\ state'[s] = "done"
      /\ \A x \in Sock : x # s => state'[x] = state[x]
  BY <1>1 DEF SockTypes, Add
<1>3. PICK sides \in SUBSET Sides :
        UNCHANGED <<fds, que, ev, size>> \/ (CreatNode(s) /\ AddEvent(s, sides))
  BY DEF Add, AddListener, AddConnector, NoSocket, NoConnection, Sides
<1>4. /\ ev' \in [Sock -> SUBSET Sides] /\ \A x \in Sock : x # s => ev'[x] = ev[x]
      /\ size' = Cardinality(Registrations)'
      /\ Accountable' \subseteq Accountable \cup {s}
      /\ s \in Link => Accountable' = Accountable
  <2>1. CASE UNCHANGED <<fds, que, ev, size>>
    <3>1. Registrations' = Registrations /\ Accountable' = Accountable
      BY <2>1 DEF Registrations, Accountable
    <3> QED BY <2>1, <3>1 DEF Seats, SockTypes
  <2>2. CASE CreatNode(s) /\ AddEvent(s, sides)
    BY <1>1, <2>2, SeatAdded DEF Seats
  <2> QED BY <1>3, <2>1, <2>2
<1>5. /\ que' \in {que, que \cup {s}} /\ fds' \in {fds, fds \cup {s}}
      /\ (que' = que /\ fds' = fds /\ ev' = ev) \/ (que' = que \cup {s} /\ fds' = fds \cup {s})
  BY <1>3 DEF CreatNode
<1>6. /\ requests' \in Seq({"listener"} \cup Link) /\ IsInjective(requests')
      /\ \A x \in ToSet(requests') : x # s /\ state[x] = "asked"
  <2>1. CASE requests' = requests
    BY <2>1 DEF SockTypes, Waiting
  <2>2. CASE requests' # requests
    <3>1. /\ requests # <<>> /\ requests' = Tail(requests) /\ s = Head(requests)
          /\ requests \in Seq({"listener"} \cup Link) /\ IsInjective(requests)
      BY <2>2 DEF SockTypes, Waiting
    <3>2. /\ Tail(requests) \in Seq({"listener"} \cup Link)
          /\ IsInjective(Tail(requests)) /\ Head(requests) \notin ToSet(Tail(requests))
          /\ ToSet(Tail(requests)) \subseteq ToSet(requests)
      BY <3>1, HeadTailElems
    <3> QED BY <3>1, <3>2 DEF Waiting
  <2> QED BY <2>1, <2>2
<1>7. SockTypes'
  BY <1>1, <1>2, <1>4, <1>5, <1>6 DEF SockTypes
<1>8. Orders'
  <2>1. \A x \in Sock : Asked(x)' = Asked(x)
    BY DEF Asked
  <2> QED BY <1>1, <1>2, <1>4, <1>5, <2>1 DEF Orders, SockTypes
<1>9. Waiting'
  <2>1. \A x \in ToSet(requests') : state'[x] = "asked"
    <3>1. \A x \in ToSet(requests') : x \in Sock
      BY <1>6, SeqElems DEF Sock
    <3> QED BY <1>2, <1>6, <3>1
  <2>2. \A c \in ToSet(backlog') : state'[c] = "waiting"
    <3>1. \A c \in ToSet(backlog) : c \in Sock /\ state[c] = "waiting"
      BY SeqElems DEF Sock, SockTypes, Waiting
    <3> QED BY <1>2, <3>1
  <2>3. \A x \in que' \cup Fixed : state'[x] = "done"
    BY <1>1, <1>2, <1>5 DEF Waiting, SockTypes, Sock
  <2> QED BY <1>1, <1>5, <1>6, <2>1, <2>2, <2>3 DEF Waiting
<1>10. FdsOwned'
  BY <1>5 DEF FdsOwned
<1>11. Cardinality(Accountable)' <= Capacity
  <2>1. CASE s \in Link
    BY <1>4, <2>1 DEF Seats
  <2>2. CASE s = "listener"
    <3>1. Accountable' \subseteq Fixed \cup {"listener"}
      BY <1>1, <1>4, <2>2, NodesAssumption DEF Accountable, Seats, Sock
    <3> QED BY <3>1, FixedFinite, RoomMonotone
  <2> QED BY <2>1, <2>2
<1>12. Seats'
  <2>1. \A x \in Sock \ (que' \cup Fixed) : ev'[x] # {} => x \in late'
    BY <1>4, <1>5 DEF Seats
  <2>2. \A c \in Conn : /\ ev'[c] # {} => state'[c] = "done"
                        /\ state'[c] # "new" => state'["listener"] = "done"
    BY <1>1, <1>2, <1>4 DEF Seats, Sock
  <2> QED BY <1>4, <1>11, <2>1, <2>2 DEF Seats
<1> QED BY <1>7, <1>8, <1>9, <1>10, <1>12

(* startServer, startClient and addService's request to the director. *)
LEMMA SockAsked ==
  ASSUME SockInv, NEW s \in Sock, StartHere(s) \/ ProcAddress \/ AddService(s)
  PROVE  SockInv'
<1> USE DEF SockInv
<1>0. s \notin Conn /\ state[s] = "new" => s \in {"listener"} \cup Link
  BY DEF Waiting, Sock
<1>1. CASE StartHere(s)
  BY <1>0, <1>1, SockAdd DEF StartHere
<1>2. CASE ProcAddress
  <2>1. /\ Head(requests) \in {"listener"} \cup Link
        /\ Head(requests) \in ToSet(requests) /\ Len(Tail(requests)) # Len(requests)
    BY <1>2, HeadTailElems, HeadTailProperties, LenProperties DEF ProcAddress, SockTypes
  <2>2. Add(Head(requests)) /\ state[Head(requests)] = "asked"
    BY <1>2, <2>1 DEF ProcAddress, Waiting
  <2> QED BY <1>2, <2>1, <2>2, SockAdd DEF ProcAddress, Free
<1>3. CASE AddService(s)
  <2>1. /\ s \in {"listener"} \cup Link /\ s \notin Conn /\ state[s] = "new"
        /\ UNCHANGED <<phase, cmds, chain, backlog, accepting, fds, que, ev, size, late>>
        /\ state' \in [Sock -> {"new", "asked", "waiting", "done"}] /\ state'[s] = "asked"
        /\ \A x \in Sock : x # s => state'[x] = state[x]
    BY <1>0, <1>3 DEF AddService, SockTypes, netVars, nodeVars, linkVars
  <2>2. s \notin ToSet(requests)
    BY <2>1 DEF Waiting
  <2>3. /\ requests' \in Seq({"listener"} \cup Link) /\ IsInjective(requests')
        /\ ToSet(requests') = ToSet(requests) \cup {s}
    BY <1>3, <2>1, <2>2, AppendElems DEF AddService, SockTypes, Waiting
  <2>4. SockTypes'
    BY <2>1, <2>3 DEF SockTypes
  <2>5. Orders'
    BY <2>1 DEF Orders, Asked
  <2>6. Waiting'
    <3>1. \A x \in ToSet(requests) : x \in Sock /\ state[x] = "asked"
      BY SeqElems DEF Sock, SockTypes, Waiting
    <3>2. \A c \in ToSet(backlog) : c \in Sock /\ state[c] = "waiting"
      BY SeqElems DEF Sock, SockTypes, Waiting
    <3>3. \A x \in que \cup Fixed : x # s /\ x \in Sock
      BY <2>1 DEF Waiting, SockTypes, Sock
    <3> QED BY <2>1, <2>3, <3>1, <3>2, <3>3 DEF Waiting
  <2>7. FdsOwned' /\ Seats'
    <3>1. "listener" = s => \A c \in Conn : state[c] = "new"
      BY <1>3, <2>1 DEF Seats, AddService
    <3>2. \A c \in Conn : c \in Sock /\ c # s
      BY <2>1 DEF Sock
    <3> QED BY <2>1, <3>1, <3>2, SeatsKept DEF FdsOwned, Seats, Sock
  <2> QED BY <2>4, <2>5, <2>6, <2>7
<1> QED BY <1>1, <1>2, <1>3

(* The director works off a command of a node. *)
LEMMA SockCommand ==
  ASSUME SockInv, NEW s \in Sock,
         \/ Closing(s) \/ Chain(s) \/ Connected(s)
         \/ ConnectRefused(s) \/ ConnectFailed(s) \/ Ignored(s)
  PROVE  SockInv'
<1> USE DEF SockInv
<1>1. /\ cmds[s] # <<>> /\ (cmds' = Took(s) \/ cmds' = TookAndClose(s))
      /\ UNCHANGED <<phase, state, requests, backlog, accepting, fds, que>>
  BY DEF Closing, Chain, Connected, ConnectRefused, ConnectFailed, Ignored, Cmd,
         netVars, nodeVars
<1>2. /\ cmds' \in [Sock -> Seq(Command)] /\ Head(cmds[s]) \in Asked(s)
      /\ Asked(s)' \subseteq Asked(s) \cup {"CLOSING"}
      /\ cmds' = Took(s) => Asked(s)' \subseteq Asked(s)
      /\ \A x \in Sock : x # s => cmds'[x] = cmds[x] /\ Asked(x)' = Asked(x)
  BY <1>1, CmdTaken
<1>3. /\ s # "listener" /\ s \in que /\ state[s] = "done"
      /\ Connected(s) \/ ConnectRefused(s) => s \in Link
      /\ Chain(s) => chain[s] > 0
  <2>1. PICK c \in {"CLOSING", "CHAIN", "OK", "FAIL"} : Head(cmds[s]) = c
    BY DEF Closing, Chain, Connected, ConnectRefused, ConnectFailed, Ignored, Cmd
  <2>2. s # "listener" /\ s \in que
    BY <1>1, <1>2, <2>1 DEF Orders
  <2>3. Connected(s) \/ ConnectRefused(s) => s \in Link
    BY <1>2 DEF Connected, ConnectRefused, Cmd, Orders
  <2> QED BY <1>2, <2>2, <2>3 DEF Waiting, Orders, Chain, Cmd
<1>4. ASSUME chain' \in [Sock -> Nat], ev' \in [Sock -> SUBSET Sides],
             \A x \in Sock : x # s => chain'[x] = chain[x] /\ ev'[x] = ev[x],
             chain'[s] >= chain[s], late \subseteq late',
             "CHAIN" \in Asked(s)' => "CHAIN" \in Asked(s),
             "OK" \in Asked(s)' => "OK" \in Asked(s),
             chain'[s] > 0 => ev'[s] = {} \/ s \in late'
      PROVE  SockTypes' /\ Orders' /\ Waiting' /\ FdsOwned'
  <2>1. SockTypes'
    BY <1>1, <1>2, <1>4 DEF SockTypes
  <2>2. Orders'
    <3>1. chain[s] \in Nat /\ chain'[s] \in Nat
      BY <1>4 DEF SockTypes
    <3>2. /\ s # "listener" /\ s \in que' /\ state'[s] = "done"
          /\ "OK" \in Asked(s)' => s \in Link
          /\ "CHAIN" \in Asked(s)' => chain'[s] > 0
          /\ chain'[s] > 0 => ev'[s] = {} \/ s \in late'
      BY <1>1, <1>3, <1>4, <3>1 DEF Orders
    <3>3. ASSUME NEW x \in Sock, x # s
          PROVE  /\ x = "listener" => Asked(x)' \subseteq {"ACCEPT"} /\ chain'[x] = 0
                 /\ "OK" \in Asked(x)' => x \in Link
                 /\ "CHAIN" \in Asked(x)' => chain'[x] > 0
                 /\ cmds'[x] # <<>> => x \in que' \cup {"listener"}
                 /\ chain'[x] > 0 => state'[x] = "done" /\ (ev'[x] = {} \/ x \in late')
      <4>1. /\ cmds'[x] = cmds[x] /\ Asked(x)' = Asked(x) /\ chain'[x] = chain[x]
            /\ ev'[x] = ev[x] /\ state' = state /\ que' = que
        BY <1>1, <1>2, <1>4, <3>3
      <4>2. x \in late => x \in late'
        BY <1>4
      <4> QED BY <4>1, <4>2 DEF Orders
    <3> QED BY <3>2, <3>3 DEF Orders
  <2>3. Waiting' /\ FdsOwned'
    BY <1>1 DEF Waiting, FdsOwned
  <2> QED BY <2>1, <2>2, <2>3
<1>5. ASSUME UNCHANGED <<ev, size>>, late' = late
      PROVE  Seats'
  BY <1>1, <1>5, SeatsKept DEF Seats
<1>6. CASE Closing(s) /\ s \in closing
  BY <1>1, <1>2, <1>4, <1>5, <1>6 DEF Closing, SockTypes, Orders
<1>7. CASE Closing(s) /\ s \notin closing
  <2>1. /\ DelEvent(s) /\ late' = late /\ cmds' = Took(s)
        /\ chain' = [chain EXCEPT ![s] = IF @ = 0 THEN 1 ELSE @]
    BY <1>7 DEF Closing
  <2>2. /\ ev' \in [Sock -> SUBSET Sides] /\ ev'[s] = {}
        /\ \A x \in Sock : x # s => ev'[x] = ev[x]
        /\ size' = Cardinality(Registrations)'
        /\ Accountable' \subseteq Accountable
    BY <2>1, SeatGiven DEF Seats
  <2>3. /\ chain' \in [Sock -> Nat] /\ chain'[s] >= chain[s]
        /\ \A x \in Sock : x # s => chain'[x] = chain[x]
    BY <2>1 DEF SockTypes
  <2>4. Cardinality(Accountable)' <= Capacity
    BY <2>2, SeatsFinite, RoomMonotone DEF Seats
  <2>5. Seats'
    BY <1>1, <2>1, <2>2, <2>4 DEF Seats, Sock
  <2> QED BY <1>2, <1>4, <2>1, <2>2, <2>3, <2>5
<1>8. CASE Chain(s)
  <2>1. /\ chain' \in [Sock -> Nat] /\ chain'[s] >= chain[s]
        /\ \A x \in Sock : x # s => chain'[x] = chain[x]
        /\ UNCHANGED <<ev, size, late>> /\ cmds' = Took(s)
    BY <1>8 DEF Chain, SockTypes, nodeVars
  <2> QED BY <1>2, <1>3, <1>4, <1>5, <1>8, <2>1 DEF SockTypes, Orders
<1>9. CASE Connected(s)
  <2>1. /\ AddEvent(s, {"RD"}) /\ chain' = chain /\ cmds' = Took(s) /\ s \in Link
        /\ late' = IF chain[s] > 0 THEN late \cup {s} ELSE late
    BY <1>3, <1>9 DEF Connected
  <2>2. /\ ev' \in [Sock -> SUBSET Sides]
        /\ \A x \in Sock : x # s => ev'[x] = ev[x]
        /\ size' = Cardinality(Registrations)' /\ Accountable' = Accountable
    BY <2>1, SeatAdded DEF Seats, Sides
  <2>3. Seats'
    BY <1>1, <1>3, <2>1, <2>2, NodesAssumption DEF Seats, Sock
  <2> QED BY <1>2, <1>4, <2>1, <2>2, <2>3 DEF SockTypes
<1>10. CASE ConnectRefused(s) \/ ConnectFailed(s) \/ Ignored(s)
  <2>1. UNCHANGED <<chain, ev, size, late>>
    BY <1>10 DEF ConnectRefused, ConnectFailed, Ignored, nodeVars, linkVars
  <2> QED BY <1>2, <1>4, <1>5, <2>1 DEF SockTypes, Orders
<1> QED BY <1>6, <1>7, <1>8, <1>9, <1>10

(* A thread queues a command in a node; the receiver's and the sender's task *)
(* may end with it.                                                         *)
LEMMA SockPushed ==
  ASSUME SockInv, NEW s \in Sock,
         \/ AskClose(s) \/ TaskEnd(s) \/ \E c \in {"OK", "FAIL"} : Outcome(s, c)
         \/ ReadNode /\ s = "listener"
  PROVE  SockInv'
<1> USE DEF SockInv
<1>1. PICK c \in Command :
        /\ cmds' = [cmds EXCEPT ![s] = Append(@, c)]
        /\ s = "listener" => c = "ACCEPT"
        /\ s # "listener" => s \in que
        /\ c = "OK" => s \in Link
        /\ c = "CHAIN" => chain[s] > 0
  <2>1. CASE AskClose(s)
    BY <2>1, NodesAssumption DEF AskClose, Push, Command
  <2>2. CASE TaskEnd(s)
    <3>1. chain[s] > 0 /\ s \in que
      BY <2>2 DEF TaskEnd, Push
    <3>2. s # "listener"
      BY <3>1 DEF Orders
    <3> QED BY <2>2, <3>1, <3>2 DEF TaskEnd, Push, Command
  <2>3. ASSUME NEW o \in {"OK", "FAIL"}, Outcome(s, o)
        PROVE  /\ cmds' = [cmds EXCEPT ![s] = Append(@, o)]
               /\ s \in Link /\ s \in que /\ o \in Command
    BY <2>3 DEF Outcome, Push, Command
  <2>4. CASE ReadNode /\ s = "listener"
    BY <2>4 DEF ReadNode, Command
  <2> QED BY <2>1, <2>2, <2>3, <2>4, NodesAssumption
<1>2. /\ UNCHANGED <<phase, state, requests, backlog, fds, que, ev, size, late>>
      /\ accepting' = accepting
      /\ chain' \in [Sock -> Nat] /\ \A x \in Sock : x # s => chain'[x] = chain[x]
      /\ chain'[s] = chain[s] \/ (chain[s] > 0 /\ chain'[s] > 0)
  BY DEF AskClose, TaskEnd, Outcome, ReadNode, Push, SockTypes, netVars, nodeVars, linkVars
<1>3. /\ cmds' \in [Sock -> Seq(Command)]
      /\ Asked(s)' = Asked(s) \cup {c}
      /\ \A x \in Sock : x # s => cmds'[x] = cmds[x] /\ Asked(x)' = Asked(x)
  BY <1>1, CmdPushed
<1>4. SockTypes' /\ Waiting' /\ FdsOwned'
  BY <1>2, <1>3 DEF SockTypes, Waiting, FdsOwned
<1>5. Orders'
  <2>1. /\ s = "listener" => Asked(s)' \subseteq {"ACCEPT"} /\ chain'[s] = 0
        /\ "OK" \in Asked(s)' => s \in Link
        /\ "CHAIN" \in Asked(s)' => chain'[s] > 0
        /\ s \in que' \cup {"listener"}
        /\ chain'[s] > 0 => state'[s] = "done" /\ (ev'[s] = {} \/ s \in late')
    BY <1>1, <1>2, <1>3 DEF Orders
  <2>2. ASSUME NEW x \in Sock, x # s
        PROVE  /\ x = "listener" => Asked(x)' \subseteq {"ACCEPT"} /\ chain'[x] = 0
               /\ "OK" \in Asked(x)' => x \in Link
               /\ "CHAIN" \in Asked(x)' => chain'[x] > 0
               /\ cmds'[x] # <<>> => x \in que' \cup {"listener"}
               /\ chain'[x] > 0 => state'[x] = "done" /\ (ev'[x] = {} \/ x \in late')
    <3>1. cmds'[x] = cmds[x] /\ Asked(x)' = Asked(x) /\ chain'[x] = chain[x]
      BY <1>2, <1>3, <2>2
    <3> QED BY <1>2, <3>1 DEF Orders
  <2> QED BY <2>1, <2>2 DEF Orders
<1>6. Seats'
  BY <1>2, SeatsKept DEF Seats
<1> QED BY <1>4, <1>5, <1>6

(* Director::procTaskEnd frees a node at the end of its close chain. *)
LEMMA SockEnd == ASSUME SockInv, NEW s \in Sock, End(s) PROVE SockInv'
<1> USE DEF SockInv
<1>1. /\ UNCHANGED <<phase, state, requests, backlog, accepting, cmds, chain, ev, size, late>>
      /\ que' = que \ {s} /\ fds' = fds \ {s} /\ s \in que /\ cmds[s] = <<>>
      /\ chain[s] > 0
  BY DEF End, DelNode, netVars, linkVars
<1>2. SockTypes'
  BY <1>1 DEF SockTypes
<1>3. Waiting' /\ FdsOwned'
  BY <1>1 DEF Waiting, FdsOwned
<1>4. Orders'
  BY <1>1 DEF Orders, Asked
<1>5. Seats'
  BY <1>1, SeatsKept DEF Seats, Orders
<1> QED BY <1>2, <1>3, <1>4, <1>5

(* SockListener::accept: the commands, and what happens to one connection. *)
LEMMA SockAccept == ASSUME SockInv, AcceptStep PROVE SockInv'
<1> USE DEF SockInv
<1>1. CASE Begin
  <2>1. /\ UNCHANGED <<phase, state, requests, chain, backlog, fds, que, ev, size, late>>
        /\ phase = "running"
        /\ "listener" \in Sock /\ cmds["listener"] # <<>> /\ cmds' = Took("listener")
    BY <1>1 DEF Begin, Free, nodeVars, linkVars, Sock
  <2>2. /\ cmds' \in [Sock -> Seq(Command)]
        /\ Asked("listener")' \subseteq Asked("listener")
        /\ \A x \in Sock : x # "listener" => cmds'[x] = cmds[x] /\ Asked(x)' = Asked(x)
    BY <2>1, CmdTaken
  <2>3. SockTypes' /\ Waiting' /\ FdsOwned'
    BY <2>1, <2>2 DEF SockTypes, Waiting, FdsOwned
  <2>4. Orders'
    BY <2>1, <2>2 DEF Orders
  <2> QED BY <2>1, <2>3, <2>4, SeatsKept DEF Seats
<1>2. ASSUME NEW failed \in BOOLEAN, AcceptOver(failed) PROVE SockInv'
  <2>1. /\ UNCHANGED <<phase, state, requests, cmds, chain, backlog, fds, que, ev, size, late>>
        /\ accepting' = FALSE
    BY <1>2 DEF AcceptOver, nodeVars, linkVars
  <2>2. SockTypes' /\ Waiting' /\ FdsOwned' /\ Orders'
    BY <2>1 DEF SockTypes, Waiting, FdsOwned, Orders, Asked
  <2> QED BY <2>1, <2>2, SeatsKept DEF Seats
<1>3. ASSUME NEW c \in Conn, Accept(c) \/ Refuse(c) \/ TurnAway(c) PROVE SockInv'
  <2>1. /\ UNCHANGED <<phase, requests, cmds, chain, late, accepting>>
        /\ accepting /\ phase = "running"
        /\ backlog # <<>> /\ Head(backlog) = c /\ backlog' = Tail(backlog)
        /\ c \in Sock /\ c \notin Fixed /\ c # "listener" /\ c \notin Link
        /\ state' \in [Sock -> {"new", "asked", "waiting", "done"}] /\ state'[c] = "done"
        /\ \A x \in Sock : x # c => state'[x] = state[x]
    BY <1>3, NodesAssumption
       DEF Accept, Refuse, TurnAway, Take, Waiting, SockTypes, linkVars, Sock
  <2>2. /\ backlog' \in Seq(Conn) /\ IsInjective(backlog')
        /\ ToSet(backlog') \subseteq ToSet(backlog) /\ c \notin ToSet(backlog')
        /\ state[c] = "waiting"
    BY <2>1, HeadTailElems DEF SockTypes, Waiting
  <2>3. /\ ev' \in [Sock -> SUBSET Sides] /\ \A x \in Sock : x # c => ev'[x] = ev[x]
        /\ size' = Cardinality(Registrations)' /\ Cardinality(Accountable)' <= Capacity
        /\ \/ que' = que \cup {c} /\ fds' = fds \cup {c}
           \/ que' = que /\ fds' = fds /\ ev' = ev
    <3>1. CASE Accept(c)
      <4>1. AddEvent(c, {"RD", "WR"}) /\ size < Capacity /\ CreatNode(c)
        BY <3>1 DEF Accept, HasRoom
      <4>2. /\ ev' \in [Sock -> SUBSET Sides] /\ \A x \in Sock : x # c => ev'[x] = ev[x]
            /\ size' = Cardinality(Registrations)'
            /\ Accountable' \subseteq Accountable \cup {c}
        BY <2>1, <4>1, SeatAdded DEF Seats, Sides
      <4>3. Cardinality(Accountable)' <= Capacity
        <5> DEFINE A == Accountable
                   B == Accountable \cup {c}
        <5>1. IsFiniteSet(A) /\ Cardinality(A) \in Nat /\ Cardinality(A) <= size
          <6>1. Accountable \in SUBSET Registrations
            BY DEF Accountable, Registrations
          <6> QED BY <6>1, SeatsFinite, FS_Subset, FS_CardinalityType DEF Seats
        <5>2. /\ IsFiniteSet(B)
              /\ Cardinality(B) = Cardinality(A) \/ Cardinality(B) = Cardinality(A) + 1
          BY <5>1, FS_AddElement
        <5>3. size \in Nat /\ Capacity \in Nat
          BY SeatsFinite, FS_CardinalityType, SocketsAssumption DEF Seats
        <5> HIDE DEF A, B
        <5>4. Cardinality(B) <= Capacity
          BY <4>1, <5>1, <5>2, <5>3
        <5> QED BY <4>2, <5>2, <5>4, RoomMonotone DEF A, B
      <4> QED BY <4>1, <4>2, <4>3 DEF CreatNode
    <3>2. CASE Refuse(c) \/ TurnAway(c)
      <4>1. UNCHANGED <<fds, que, ev, size>>
        BY <3>2 DEF Refuse, TurnAway, nodeVars
      <4> QED BY <4>1, SeatsKept DEF SockTypes
    <3> QED BY <1>3, <3>1, <3>2
  <2>4. SockTypes'
    BY <2>1, <2>2, <2>3 DEF SockTypes
  <2>5. Orders'
    <3>1. \A x \in Sock : Asked(x)' = Asked(x)
      BY <2>1 DEF Asked
    <3>2. chain[c] = 0
      <4>1. chain[c] \in Nat /\ state[c] # "done"
        BY <2>1, <2>2 DEF SockTypes
      <4>2. ~(chain[c] > 0)
        BY <2>1, <4>1 DEF Orders
      <4> QED BY <4>1, <4>2
    <3> QED BY <2>1, <2>3, <3>1, <3>2 DEF Orders
  <2>6. Waiting' /\ FdsOwned'
    <3>1. \A x \in ToSet(requests) : x \in Sock /\ x # c /\ state[x] = "asked"
      BY <2>2, SeqElems DEF Sock, SockTypes, Waiting
    <3>2. \A x \in ToSet(backlog') : x \in Sock /\ x # c /\ state[x] = "waiting"
      BY <2>2, SeqElems DEF Sock, Waiting
    <3>3. \A x \in que' \cup Fixed : state'[x] = "done"
      BY <2>1, <2>3 DEF Waiting, SockTypes, Sock
    <3>4. que' \cap Fixed = {}
      BY <2>1, <2>3 DEF Waiting
    <3>5. Waiting'
      BY <2>1, <2>2, <2>3, <3>1, <3>2, <3>3, <3>4 DEF Waiting
    <3>6. FdsOwned'
      BY <2>1, <2>3 DEF FdsOwned
    <3> QED BY <3>5, <3>6
  <2>7. Seats'
    BY <2>1, <2>2, <2>3 DEF Seats, Sock
  <2> QED BY <2>4, <2>5, <2>6, <2>7
<1> QED BY <1>1, <1>2, <1>3 DEF AcceptStep

(* A client connects to the listening socket. *)
LEMMA SockConnect == ASSUME SockInv, NEW c \in Conn, Connect(c) PROVE SockInv'
<1> USE DEF SockInv
<1>1. /\ UNCHANGED <<phase, requests, cmds, chain, accepting, fds, que, ev, size, late>>
      /\ c \in Sock /\ c \notin Fixed /\ c # "listener" /\ state[c] = "new"
      /\ "listener" \in que /\ backlog' = Append(backlog, c)
      /\ state' \in [Sock -> {"new", "asked", "waiting", "done"}] /\ state'[c] = "waiting"
      /\ \A x \in Sock : x # c => state'[x] = state[x]
  BY NodesAssumption DEF Connect, SockTypes, nodeVars, linkVars, Sock
<1>2. /\ backlog' \in Seq(Conn) /\ IsInjective(backlog')
      /\ ToSet(backlog') = ToSet(backlog) \cup {c}
  <2>1. backlog \in Seq(Conn) /\ IsInjective(backlog) /\ c \notin ToSet(backlog)
    BY <1>1 DEF SockTypes, Waiting
  <2> QED BY <1>1, <2>1, AppendElems
<1>3. SockTypes' /\ FdsOwned'
  BY <1>1, <1>2 DEF SockTypes, FdsOwned
<1>4. Orders'
  <2>1. \A x \in Sock : Asked(x)' = Asked(x)
    BY <1>1 DEF Asked
  <2> QED BY <1>1, <2>1 DEF Orders
<1>5. Waiting'
  <2>1. \A x \in ToSet(requests) : x \in Sock /\ x # c /\ state[x] = "asked"
    BY <1>1, SeqElems DEF Sock, SockTypes, Waiting
  <2>2. \A x \in ToSet(backlog) : x \in Sock /\ state[x] = "waiting"
    BY SeqElems DEF Sock, SockTypes, Waiting
  <2>3. \A x \in que \cup Fixed : x \in Sock /\ x # c
    BY <1>1 DEF Waiting, SockTypes, Sock
  <2> QED BY <1>1, <1>2, <2>1, <2>2, <2>3 DEF Waiting
<1>6. Seats'
  <2>1. state'["listener"] = "done"
    BY <1>1 DEF Waiting, Sock
  <2>2. \A x \in Conn : ev'[x] # {} => x # c
    BY <1>1 DEF Seats, Waiting
  <2> QED BY <1>1, <2>1, <2>2, SeatsKept DEF Seats, Sock
<1> QED BY <1>3, <1>4, <1>5, <1>6

(* epoll reports the listening socket, and the server starts. *)
LEMMA SockQuiet == ASSUME SockInv, Report \/ Start \/ UNCHANGED vars PROVE SockInv'
<1> USE DEF SockInv
<1>1. /\ UNCHANGED <<state, requests, cmds, chain, backlog, accepting, fds, que, ev, size, late>>
      /\ phase' = phase \/ (phase = "setup" /\ phase' = "running")
  BY DEF Report, Start, vars, netVars, nodeVars, linkVars
<1>2. SockTypes' /\ Orders' /\ Waiting' /\ FdsOwned'
  BY <1>1 DEF SockTypes, Orders, Asked, Waiting, FdsOwned
<1>3. Seats'
  BY <1>1, SeatsKept DEF Seats
<1> QED BY <1>2, <1>3

(* Director::finish frees the nodes with all that was queued in them. *)
LEMMA SockFinish == ASSUME SockInv, Finish PROVE SockInv'
<1> USE DEF SockInv
<1>1. /\ phase' = "over" /\ fds' = fds \ (que \cup Fixed) /\ que' = {} /\ late' = {}
      /\ requests' = <<>> /\ backlog' = <<>> /\ ~accepting'
      /\ cmds' = [s \in Sock |-> <<>>] /\ chain' = [s \in Sock |-> 0]
      /\ state' = [s \in Sock |-> "done"]
      /\ UNCHANGED <<ev, size>>
  BY DEF Finish, Free, Waiting
<1>2. SockTypes'
  BY <1>1, EmptySeq DEF SockTypes
<1>3. Orders'
  <2>1. \A s \in Sock : Asked(s)' = {} /\ chain'[s] = 0 /\ cmds'[s] = <<>>
    BY <1>1, EmptyElems DEF Asked
  <2> QED BY <2>1 DEF Orders
<1>4. Waiting'
  BY <1>1, EmptyElems DEF Waiting, Sock
<1>5. FdsOwned'
  BY <1>1 DEF FdsOwned
<1>6. Seats'
  BY <1>1, SeatsKept DEF Seats
<1> QED BY <1>2, <1>3, <1>4, <1>5, <1>6

(* Every step keeps the accounts. *)
LEMMA SockStep == SockInv /\ [Next]_vars => SockInv'
<1> SUFFICES ASSUME SockInv, [Next]_vars PROVE SockInv'
  OBVIOUS
<1>1. CASE AcceptStep
  BY <1>1, SockAccept
<1>2. CASE Report \/ Start \/ UNCHANGED vars
  BY <1>2, SockQuiet
<1>3. CASE ReadNode \/ ProcAddress
  <2>1. "listener" \in Sock
    BY DEF Sock
  <2> QED BY <1>3, <2>1, SockPushed, SockAsked
<1>4. CASE Finish
  BY <1>4, SockFinish
<1>5. ASSUME NEW c \in Conn, Connect(c) PROVE SockInv'
  BY <1>5, SockConnect
<1>6. ASSUME NEW s \in Sock, StartHere(s) \/ AddService(s) PROVE SockInv'
  BY <1>6, SockAsked
<1>7. ASSUME NEW s \in Sock,
             \/ Closing(s) \/ Chain(s) \/ Connected(s)
             \/ ConnectRefused(s) \/ ConnectFailed(s) \/ Ignored(s)
      PROVE SockInv'
  BY <1>7, SockCommand
<1>8. ASSUME NEW s \in Sock,
             AskClose(s) \/ TaskEnd(s) \/ \E c \in {"OK", "FAIL"} : Outcome(s, c)
      PROVE SockInv'
  BY <1>8, SockPushed
<1>9. ASSUME NEW s \in Sock, End(s) PROVE SockInv'
  BY <1>9, SockEnd
<1> QED BY <1>1, <1>2, <1>3, <1>4, <1>5, <1>6, <1>7, <1>8, <1>9 DEF Next

(* The accounts hold on every behaviour of the server. *)
THEOREM AccountsKept == Spec => []SockInv
<1> QED BY SockInit, SockStep, PTL DEF Spec

-----------------------------------------------------------------------------
(* What the accounts are for *)

(* m_size is the number of registered sockets whatever epoll_ctl refuses, and *)
(* only a connector told of its success after CLOSING keeps its place when   *)
(* it is freed.                                                             *)
THEOREM SizeCounted == Spec => []SizeCounts
<1>1. SockInv => SizeCounts
  BY DEF SockInv, Seats, SizeCounts, Registrations
<1> QED BY <1>1, AccountsKept, PTL

(* SockListener::accept never takes m_size beyond the capacity: what is over *)
(* it are connectors.                                                        *)
THEOREM RoomIsKept == Spec => []RoomKept
<1> DEFINE Linked == {l \in Link : ev[l] # {}}
<1>1. ASSUME SockInv PROVE RoomKept
  <2> DEFINE A == Accountable
             L == Linked
             R == Registrations
  <2>1. R = A \cup L /\ L \in SUBSET Link
    BY DEF Registrations, Accountable, Sock
  <2>2. IsFiniteSet(A) /\ IsFiniteSet(L)
    BY <2>1, SeatsFinite, NodesAssumption, FS_Subset
  <2>3. /\ size = Cardinality(R) /\ Cardinality(A) <= Capacity
        /\ Capacity \in Nat
    BY <1>1, SocketsAssumption DEF SockInv, Seats
  <2>4. /\ Cardinality(A) \in Nat /\ Cardinality(L) \in Nat /\ Cardinality(A \cap L) \in Nat
        /\ Cardinality(A \cup L) = Cardinality(A) + Cardinality(L) - Cardinality(A \cap L)
    <3>1. A \cap L \in SUBSET L
      OBVIOUS
    <3>2. IsFiniteSet(A \cap L)
      BY <2>2, <3>1, FS_Subset
    <3> QED BY <2>2, <3>2, FS_Union, FS_CardinalityType
  <2>5. RoomKept <=> size <= Capacity + Cardinality(L)
    BY DEF RoomKept
  <2> HIDE DEF A, L, R
  <2> QED BY <2>1, <2>3, <2>4, <2>5
<1> QED BY <1>1, AccountsKept, PTL

(* A descriptor is open exactly while a node owns it: none is left behind by *)
(* a socket that failed or was refused, none is closed under its node.       *)
THEOREM FdsAreOwned == Spec => []FdsOwned
<1>1. SockInv => FdsOwned
  BY DEF SockInv
<1> QED BY <1>1, AccountsKept, PTL
=============================================================================
