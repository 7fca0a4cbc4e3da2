---------------------------- MODULE NodeLifeProofs ----------------------------
(***************************************************************************)
(* One socket and its four threads, for any number of messages, sends and   *)
(* reports and whatever fails: the close chain ends the four tasks one       *)
(* after the other and frees the node when all have ended; no message or     *)
(* command is left behind in the locked half of a queue, and the messages    *)
(* stay in order; and what the application sees of it all is a NodeView.     *)
(***************************************************************************)
EXTENDS NodeLife, QueueLemmas

Label == {"idle", "check", "act", "splice", "loop", "leave", "gone"}
Plain == {"CLOSING", "CONN_OK", "CONN_FAIL"} \cup MsgChan

(* The task of r ends with command c, on which the director ends the task of *)
(* t: the chain of Director::procStopMsg.                                   *)
Stages(c, r, t) == \/ c = "CLOSE_RD" /\ r = "rd" /\ t = "wr"
                   \/ c = "CLOSE_WR" /\ r = "wr" /\ t = "deal"
                   \/ c = "CLOSE_DEALER" /\ r = "deal" /\ t = "dir"

Held == ToSet(tmp["cmd"]) \cup ToSet(que["cmd"])    \* the commands in the node

(* The task of r has ended, and its command is in the node, or was. *)
Told(r) == pc[r] = "gone" /\ (hand[r] = <<>> \/ rung[r])

Ending(t) == END \in req[t] \/ stage[t] = "ended"

NodeTypes ==
  /\ req \in [Role -> SUBSET {NORM, END, "READ", "WRITE", "ERROR"}]
  /\ stage \in [Role -> {"idle", "ready", "running", "parked", "ended"}]
  /\ pc \in [Role -> Label] /\ rung \in [Role -> BOOLEAN] /\ DOMAIN hand = Role
  /\ DOMAIN tmp = Chan /\ tmp["cmd"] \in Seq(Cmd)
  /\ DOMAIN que = Chan /\ que["cmd"] \in Seq(Cmd)

(* A thread whose task goes on never says that it has ended; one whose task  *)
(* has ended says so once, and nothing else.                                *)
Hands ==
  \A r \in Role :
    /\ hand[r] = <<>> => ~rung[r]
    /\ pc[r] # "gone" => hand[r] \in Seq(Plain)
    /\ pc[r] = "gone" => /\ stage[r] = "ended"
                         /\ hand[r] = <<>> \/ \E c \in Cmd, t \in Role :
                                                 Stages(c, r, t) /\ hand[r] = <<c>>
    /\ stage[r] = "ended" => pc[r] = "gone" \/ r = "wr"

Chain ==
  /\ \A c \in Cmd, r \in Role, t \in Role :
       Stages(c, r, t) /\ (c \in Held \/ Ending(t)) => Told(r)
  /\ Freed => pc["dir"] = "gone"

NodeInv == NodeTypes /\ Hands /\ Chain

-----------------------------------------------------------------------------
(* The shapes of the steps: what each action does to a thread, to the gate   *)
(* and to the commands, and no more than the invariant asks                  *)

(* A procTask goes on, and may have something to push. *)
Works(r) ==
  /\ hand[r] = <<>> /\ pc[r] \notin {"splice", "gone"}
  /\ \E l \in Label \ {"splice", "gone"} : pc' = [pc EXCEPT ![r] = l]
  /\ \E h \in Seq(Plain) : hand' = [hand EXCEPT ![r] = h]
  /\ UNCHANGED <<rung, req, stage, tmp, status>>
  /\ DOMAIN que' = Chan /\ que'["cmd"] = que["cmd"]

(* The director takes command c and may end a task. *)
Obeys(c) ==
  /\ hand["dir"] = <<>> /\ pc["dir"] = "loop"
  /\ que["cmd"] # <<>> /\ Head(que["cmd"]) = c /\ que' = [que EXCEPT !["cmd"] = Tail(@)]
  /\ pc' = pc /\ \E h \in Seq(Plain) : hand' = [hand EXCEPT !["dir"] = h]
  /\ UNCHANGED <<rung, tmp>> /\ (status' = "END" => status = "END")
  /\ \/ UNCHANGED <<req, stage>>
     \/ \E t \in Role : /\ (t = "rd" /\ ev' = {}) \/ \E r \in Role : Stages(c, r, t)
                        /\ Raise(t, END)

(* The task of r ends. *)
Parts(r) ==
  /\ hand[r] = <<>> /\ UNCHANGED rung
  /\ \/ pc[r] = "idle" /\ Gate!Finish(r)
     \/ pc[r] = "leave" /\ stage[r] = "ended" /\ UNCHANGED <<req, stage>>
  /\ \/ /\ pc' = [pc EXCEPT ![r] = "gone"]
        /\ \E c \in Cmd, t \in Role : Stages(c, r, t) /\ hand' = [hand EXCEPT ![r] = <<c>>]
        /\ UNCHANGED <<tmp, que, status>>
     \/ /\ r = "wr" /\ pc[r] = "idle" /\ pc' = [pc EXCEPT ![r] = "splice"]
        /\ hand' = [hand EXCEPT ![r] = <<>>]
        /\ UNCHANGED <<tmp, que, status>>
     \/ /\ r = "dir" /\ pc' = [pc EXCEPT ![r] = "gone"]
        /\ hand' = [hand EXCEPT ![r] = <<>>]
        /\ tmp' = [c \in Chan |-> <<>>] /\ que' = [c \in Chan |-> <<>>]

(* epoll's reports, the network, and steps that change nothing here. *)
Stands == UNCHANGED <<pc, hand, rung, tmp, que, status>>
Polls  == Stands /\ (Raise("rd", "READ") \/ Raise("wr", "WRITE"))
Sleeps == Stands /\ UNCHANGED <<req, stage>>

Shape ==
  \/ \E r \in Role : Queue(r) \/ Ring(r) \/ Begin(r) \/ Splice(r) \/ Leave(r)
  \/ \E r \in Role : Works(r) \/ Parts(r)
  \/ \E c \in Cmd : Obeys(c)
  \/ Polls \/ Sleeps

(* What a thread has to push, other than the end of its task. *)
LEMMA PlainSeqs ==
  /\ <<>> \in Seq(Plain) /\ <<"CLOSING">> \in Seq(Plain)
  /\ <<"CONN_OK">> \in Seq(Plain) /\ <<"CONN_FAIL">> \in Seq(Plain)
  /\ \A n \in 0..1, c \in MsgChan :
       /\ Repeat(c, n) \in Seq(Plain)
       /\ \A h \in Seq(Plain) : Repeat(c, n) \o h \in Seq(Plain)
       /\ Append(Repeat(c, n), "CLOSING") \in Seq(Plain)
<1>1. /\ <<>> \in Seq(Plain) /\ <<"CLOSING">> \in Seq(Plain)
      /\ <<"CONN_OK">> \in Seq(Plain) /\ <<"CONN_FAIL">> \in Seq(Plain)
  BY DEF Plain
<1>2. ASSUME NEW n \in 0..1, NEW c \in MsgChan
      PROVE  /\ Repeat(c, n) \in Seq(Plain)
             /\ \A h \in Seq(Plain) : Repeat(c, n) \o h \in Seq(Plain)
             /\ Append(Repeat(c, n), "CLOSING") \in Seq(Plain)
  <2>1. c \in Plain /\ n \in Nat /\ "CLOSING" \in Plain
    BY DEF Plain
  <2>2. Repeat(c, n) \in Seq(Plain)
    BY <2>1 DEF Repeat
  <2> QED BY <2>1, <2>2, ConcatProperties, AppendProperties
<1> QED BY <1>1, <1>2

(* Goto and Return, where they do not end a task. *)
LEMMA WorksOn ==
  ASSUME NodeTypes, NEW r \in Role, NEW from \in {"check", "act", "loop", "idle"},
         NEW l \in Label \ {"splice", "gone"}, NEW h \in Seq(Plain),
         At(r, from), Goto(r, l, h),
         UNCHANGED <<gateVars, tmp, status>>,
         que' = que \/ \E c \in MsgChan : \E q : que' = [que EXCEPT ![c] = q]
  PROVE  Works(r)
<1>1. /\ hand[r] = <<>> /\ pc[r] \notin {"splice", "gone"}
      /\ pc' = [pc EXCEPT ![r] = l] /\ hand' = [hand EXCEPT ![r] = h]
      /\ UNCHANGED <<rung, req, stage, tmp, status>>
  BY DEF At, Goto, gateVars
<1>2. DOMAIN que' = Chan /\ que'["cmd"] = que["cmd"]
  BY DEF NodeTypes, MsgChan, Chan
<1> QED BY <1>1, <1>2 DEF Works

(* The receiver's, the sender's and the dealer's steps have these shapes. *)
LEMMA WorkShapes ==
  ASSUME NodeTypes, Receiver \/ Sender \/ Dealer \/ \E r \in Role : Check(r)
  PROVE  \E r \in Role : Works(r) \/ Parts(r)
<1> USE PlainSeqs
<1>1. /\ {"rd", "wr", "deal"} \subseteq Role /\ {"deal", "wr"} \subseteq MsgChan
      /\ {"act", "leave", "loop"} \subseteq Label \ {"splice", "gone"}
  BY DEF Role, Label, MsgChan
<1>2. ASSUME NEW r \in Role, Check(r) PROVE Works(r)
  <2>1. /\ At(r, "check") /\ UNCHANGED <<gateVars, queVars, fdVars>>
        /\ Goto(r, "act", <<>>) \/ Return(r, "ERROR", <<"CLOSING">>)
    BY <1>2 DEF Check
  <2> QED BY <1>1, <2>1, WorksOn DEF Return, queVars, fdVars
<1>3. CASE ReadNothing \/ \E n \in 0..1 : ReadSome(n) \/ ReadError(n)
  <2>1. /\ At("rd", "act") /\ UNCHANGED <<gateVars, tmp, status, que>>
        /\ \E h \in Seq(Plain) : \E x : Return("rd", x, h)
    BY <1>1, <1>3 DEF ReadNothing, ReadSome, ReadError, RdChange, queVars, fdVars
  <2>2. Works("rd")
    BY <1>1, <2>1, WorksOn DEF Return
  <2> QED BY <1>1, <2>2
<1>4. CASE CheckConnect \/ WriteError \/ \E n \in 0..MaxSend : Write(n)
  <2>1. /\ At("wr", "act") /\ UNCHANGED <<gateVars, tmp, status>>
        /\ \E h \in Seq(Plain) : \E x : Return("wr", x, h)
        /\ que' = que \/ \E q : que' = [que EXCEPT !["wr"] = q]
    BY <1>4 DEF CheckConnect, WriteError, Write, RdChange, queVars, fdVars
  <2>2. Works("wr")
    BY <1>1, <2>1, WorksOn DEF Return
  <2> QED BY <1>1, <2>2
<1>5. CASE Discard \/ DealDone \/ \E n \in 0..1, ok \in Answers : Process(n, ok)
  <2>1. /\ At("deal", "loop") /\ UNCHANGED <<gateVars, tmp, status>>
        /\ que' = que \/ \E q : que' = [que EXCEPT !["deal"] = q]
    BY <1>5 DEF Discard, DealDone, DealNext, Process, queVars, fdVars
  <2>2. \E l \in {"loop", "leave"}, h \in Seq(Plain) : Goto("deal", l, h)
    BY <1>1, <1>5 DEF Discard, DealDone, Process, Return
  <2>3. Works("deal")
    BY <1>1, <2>1, <2>2, WorksOn
  <2> QED BY <1>1, <2>3
<1>6. CASE EndRead
  <2>1. Stages("CLOSE_RD", "rd", "wr") /\ "CLOSE_RD" \in Cmd /\ "wr" \in Role
    BY DEF Stages, Cmd, CloseStatus, Role
  <2>2. Parts("rd")
    BY <1>6, <2>1 DEF EndRead, At, Goto, Parts, queVars, fdVars
  <2> QED BY <1>1, <2>2
<1>7. CASE EndWrite \/ EndWritten
  <2>1. Stages("CLOSE_WR", "wr", "deal") /\ "CLOSE_WR" \in Cmd /\ "deal" \in Role
    BY DEF Stages, Cmd, CloseStatus, Role
  <2>2. /\ UNCHANGED <<tmp, que, status, rung>> /\ hand["wr"] = <<>>
        /\ \/ pc["wr"] = "idle" /\ Gate!Finish("wr")
           \/ pc["wr"] = "leave" /\ stage["wr"] = "ended" /\ UNCHANGED <<req, stage>>
        /\ \/ pc' = [pc EXCEPT !["wr"] = "gone"] /\ hand' = [hand EXCEPT !["wr"] = <<"CLOSE_WR">>]
           \/ /\ pc["wr"] = "idle" /\ pc' = [pc EXCEPT !["wr"] = "splice"]
              /\ hand' = [hand EXCEPT !["wr"] = <<>>]
    BY <1>7 DEF EndWrite, EndWritten, At, Goto, queVars, fdVars, gateVars
  <2>3. Parts("wr")
    BY <2>1, <2>2 DEF Parts
  <2> QED BY <1>1, <2>3
<1>8. CASE EndDeal
  <2>1. Stages("CLOSE_DEALER", "deal", "dir") /\ "CLOSE_DEALER" \in Cmd /\ "dir" \in Role
    BY DEF Stages, Cmd, CloseStatus, Role
  <2>2. Parts("deal")
    BY <1>8, <2>1 DEF EndDeal, At, Goto, Parts, queVars, fdVars
  <2> QED BY <1>1, <2>2
<1> QED BY <1>2, <1>3, <1>4, <1>5, <1>6, <1>7, <1>8 DEF Receiver, Sender, Dealer


(* So do the director's, epoll's and all the others. *)
LEMMA NextShapes == NodeTypes /\ [Next]_vars => Shape
<1> SUFFICES ASSUME NodeTypes, [Next]_vars PROVE Shape
  OBVIOUS
<1> USE PlainSeqs
<1>1. /\ "dir" \in Role /\ "wr" \in MsgChan /\ Cmd = CloseStatus \cup {"CONN_OK", "CONN_FAIL"}
      /\ {"loop", "leave", "idle"} \subseteq Label \ {"splice", "gone"}
  BY DEF Role, Label, MsgChan, Cmd
<1>2. CASE Receiver \/ Sender \/ Dealer \/ \E r \in Role : Common(r)
  BY <1>2, WorkShapes DEF Common, Shape
<1>3. CASE CmdDone \/ \E d \in Side : EpollFail(d)
  <2>1. /\ At("dir", "loop") \/ At("dir", "idle")
        /\ UNCHANGED <<gateVars, tmp, status, que>>
        /\ \E l \in {"leave", "idle"}, h \in Seq(Plain) : Goto("dir", l, h)
    BY <1>3 DEF CmdDone, EpollFail, Return, queVars, fdVars
  <2>2. Works("dir")
    BY <1>1, <2>1, WorksOn
  <2> QED BY <1>1, <2>2 DEF Shape
<1>4. ASSUME NEW c \in Cmd, NextCmd(c), NEW h \in Seq(Plain), Goto("dir", "loop", h),
             status' = "END" => status = "END",
             \/ UNCHANGED <<req, stage>>
             \/ \E t \in Role : /\ (t = "rd" /\ ev' = {}) \/ \E r \in Role : Stages(c, r, t)
                                /\ Raise(t, END)
      PROVE  Shape
  <2>1. /\ hand["dir"] = <<>> /\ pc["dir"] = "loop"
        /\ que["cmd"] # <<>> /\ Head(que["cmd"]) = c /\ que' = [que EXCEPT !["cmd"] = Tail(@)]
        /\ hand' = [hand EXCEPT !["dir"] = h] /\ UNCHANGED <<rung, tmp>>
    BY <1>4 DEF NextCmd, At, Goto
  <2>2. pc' = pc
    BY <1>4, <2>1 DEF Goto, NodeTypes
  <2>3. Obeys(c)
    BY <1>4, <2>1, <2>2 DEF Obeys
  <2> QED BY <2>3 DEF Shape
<1>5. CASE CmdClosing
  BY <1>1, <1>4, <1>5 DEF CmdClosing, Stay, CloseStatus, Role, gateVars, fdVars
<1>6. CASE \/ CmdClose("CLOSE_RD", "wr") \/ CmdClose("CLOSE_WR", "deal")
           \/ CmdClose("CLOSE_DEALER", "dir")
  BY <1>1, <1>4, <1>6 DEF CmdClose, SetStatus, Stay, Stages, CloseStatus, Role
<1>7. CASE CmdFailed \/ CmdIgnored \/ \E n \in 0..1, ok \in Answers : CmdConnected(n, ok)
  BY <1>1, <1>4, <1>7 DEF CmdFailed, CmdIgnored, CmdConnected, Stay, gateVars, fdVars
<1>8. CASE EndNode
  BY <1>1, <1>8 DEF EndNode, At, Goto, Parts, Shape
<1>9. CASE \E d \in Side : EpollReady(d)
  BY <1>9 DEF EpollReady, Shape, Polls, Stands, thrVars, queVars, fdVars
<1>10. CASE Break \/ Over \/ UNCHANGED vars
  BY <1>10 DEF Break, Over, vars, gateVars, thrVars, queVars, fdVars, Shape, Sleeps, Stands
<1> QED BY <1>2, <1>3, <1>5, <1>6, <1>7, <1>8, <1>9, <1>10 DEF Next, Commands

-----------------------------------------------------------------------------
(* What the gate does *)

(* addTask and endTask bring no task back that has ended, forget no request, *)
(* and END is requested by endTask only.                                     *)
LEMMA RaiseEffect ==
  ASSUME NodeTypes, NEW t \in Role, NEW e \in {NORM, END, "READ", "WRITE"}, Raise(t, e)
  PROVE  /\ req' \in [Role -> SUBSET {NORM, END, "READ", "WRITE", "ERROR"}]
         /\ stage' \in [Role -> {"idle", "ready", "running", "parked", "ended"}]
         /\ \A x \in Role :
              /\ stage'[x] = "ended" <=> stage[x] = "ended"
              /\ stage'[x] = "running" <=> stage[x] = "running"
              /\ req[x] \cap {NORM, END} # {} => req'[x] \cap {NORM, END} # {}
              /\ Ending(x)' => Ending(x) \/ (x = t /\ e = END)
         /\ (e \in {NORM, END} /\ stage[t] # "ended") => req'[t] \cap {NORM, END} # {}
<1> USE DEF NORM, END, Gate!NORM, Gate!END
<1>1. CASE stage[t] = "ended"
  BY <1>1 DEF Raise, NodeTypes, gateVars, Ending
<1>2. CASE stage[t] # "ended"
  <2>1. /\ req' = [req EXCEPT ![t] = IF e = END \/ END \in req[t] THEN {END} ELSE req[t] \cup {e}]
        /\ \E s \in {"ready", stage[t]} :
             /\ stage' = [stage EXCEPT ![t] = s]
             /\ s # stage[t] => stage[t] \in {"idle", "parked"}
    BY <1>2 DEF Raise, Gate!Raise, Gate!AddRequest, Gate!Awakes
  <2>2. /\ req' \in [Role -> SUBSET {NORM, END, "READ", "WRITE", "ERROR"}]
        /\ stage' \in [Role -> {"idle", "ready", "running", "parked", "ended"}]
        /\ \A x \in Role : x # t => req'[x] = req[x] /\ stage'[x] = stage[x]
    BY <2>1 DEF NodeTypes
  <2>3. /\ req'[t] = IF e = END \/ END \in req[t] THEN {END} ELSE req[t] \cup {e}
        /\ stage'[t] # "ended" /\ (stage'[t] = "running" <=> stage[t] = "running")
    BY <1>2, <2>1 DEF NodeTypes
  <2> QED BY <1>2, <2>2, <2>3 DEF Ending
<1> QED BY <1>1, <1>2

(* A pool calls procTask, which answers all requests, or procTaskEnd. *)
LEMMA EnterEffect ==
  ASSUME NodeTypes, NEW t \in Role, Gate!Begin(t) \/ Gate!Finish(t)
  PROVE  /\ req' \in [Role -> SUBSET {NORM, END, "READ", "WRITE", "ERROR"}]
         /\ stage' \in [Role -> {"idle", "ready", "running", "parked", "ended"}]
         /\ stage[t] = "ready" /\ req'[t] = {}
         /\ stage'[t] = IF END \in req[t] THEN "ended" ELSE "running"
         /\ Gate!Begin(t) <=> END \notin req[t]
         /\ \A x \in Role : x # t => /\ req'[x] = req[x] /\ stage'[x] = stage[x]
                                     /\ Ending(x)' = Ending(x)
<1>1. /\ req' = [req EXCEPT ![t] = {}] /\ stage[t] = "ready"
      /\ stage' = [stage EXCEPT ![t] = IF END \in req[t] THEN "ended" ELSE "running"]
      /\ Gate!Begin(t) <=> END \notin req[t]
  BY DEF Gate!Begin, Gate!Finish, END
<1>2. /\ req' \in [Role -> SUBSET {NORM, END, "READ", "WRITE", "ERROR"}]
      /\ stage' \in [Role -> {"idle", "ready", "running", "parked", "ended"}]
      /\ req'[t] = {} /\ stage'[t] = IF END \in req[t] THEN "ended" ELSE "running"
      /\ \A x \in Role : x # t => req'[x] = req[x] /\ stage'[x] = stage[x]
  BY <1>1 DEF NodeTypes
<1> QED BY <1>1, <1>2 DEF Ending

(* procTask returns, and loses no request. *)
LEMMA LeaveEffect ==
  ASSUME NodeTypes, NEW r \in Role, Leave(r)
  PROVE  /\ req' = req /\ stage' \in [Role -> {"idle", "ready", "running", "parked", "ended"}]
         /\ stage[r] # "ended" /\ stage'[r] # "ended"
         /\ \A x \in Role : x # r => stage'[x] = stage[x]
         /\ \A x \in Role : Ending(x)' = Ending(x)
<1>1. /\ req' = req /\ stage[r] # "ended"
      /\ \E s \in {"idle", "ready", "parked"} : stage' = [stage EXCEPT ![r] = s]
  BY DEF Leave, Gate!Rest, Gate!Again, Gate!Park, Gate!Move
<1>2. /\ stage' \in [Role -> {"idle", "ready", "running", "parked", "ended"}]
      /\ stage'[r] # "ended" /\ \A x \in Role : x # r => stage'[x] = stage[x]
  BY <1>1 DEF NodeTypes
<1> QED BY <1>1, <1>2 DEF Ending

-----------------------------------------------------------------------------
(* The close chain *)

(* A node starts with nothing queued and nobody told to end. *)
LEMMA NodeInit == Init => NodeInv
<1> SUFFICES ASSUME Init PROVE NodeInv
  OBVIOUS
<1>1. /\ req = [r \in Role |-> {}] /\ stage = [r \in Role |-> "idle"]
      /\ pc = [r \in Role |-> "idle"] /\ hand = [r \in Role |-> <<>>]
      /\ rung = [r \in Role |-> FALSE]
      /\ tmp = [c \in Chan |-> <<>>] /\ que = [c \in Chan |-> <<>>] /\ status # "END"
  BY DEF Init, Gate!Init
<1>2. "cmd" \in Chan
  BY DEF Chan
<1>3. NodeTypes
  BY <1>1, <1>2, EmptySeq DEF NodeTypes, Label
<1>4. Hands
  BY <1>1, EmptySeq DEF Hands
<1>5. Chain
  BY <1>1, <1>2, EmptyElems DEF Chain, Held, Ending, Freed, Stages, Role
<1> QED BY <1>3, <1>4, <1>5 DEF NodeInv

(* Each command of the chain has one sender and one task it ends. *)
LEMMA StagesApart ==
  \A c \in Cmd, r \in Role, t \in Role : Stages(c, r, t) =>
    /\ c \notin Plain /\ r # t /\ r # "dir" /\ t # "rd"
    /\ \A d \in Cmd, x \in Role, y \in Role : Stages(d, x, y) =>
         ((c = d \/ r = x \/ t = y) => (c = d /\ r = x /\ t = y))
BY DEF Stages, Plain, MsgChan

(* A procTask that goes on changes nothing about the chain. *)
LEMMA KeptByWork == ASSUME NodeInv, NEW r \in Role, Works(r) PROVE NodeInv'
<1> USE DEF NodeInv
<1>1. PICK l \in Label \ {"splice", "gone"} : pc' = [pc EXCEPT ![r] = l]
  BY DEF Works
<1>2. PICK h \in Seq(Plain) : hand' = [hand EXCEPT ![r] = h]
  BY DEF Works
<1>3. /\ pc' \in [Role -> Label] /\ pc'[r] # "gone" /\ pc[r] # "gone"
      /\ hand'[r] \in Seq(Plain) /\ hand[r] = <<>> /\ DOMAIN hand' = Role
      /\ \A x \in Role : x # r => pc'[x] = pc[x] /\ hand'[x] = hand[x]
      /\ UNCHANGED <<rung, req, stage, tmp, status>>
      /\ DOMAIN que' = Chan /\ que'["cmd"] = que["cmd"]
  BY <1>1, <1>2 DEF Works, NodeTypes
<1>4. NodeTypes'
  BY <1>3 DEF NodeTypes
<1>5. Hands'
  <2>1. ~rung[r] /\ (stage[r] = "ended" => r = "wr")
    BY <1>3 DEF Hands
  <2> QED BY <1>3, <2>1 DEF Hands
<1>6. Chain'
  <2>1. Held' = Held /\ (\A t \in Role : Ending(t)' = Ending(t)) /\ Freed' = Freed
    BY <1>3 DEF Held, Ending, Freed
  <2>2. \A x \in Role : Told(x) => Told(x)'
    BY <1>3 DEF Told
  <2> QED BY <1>3, <2>1, <2>2 DEF Chain, Role
<1> QED BY <1>4, <1>5, <1>6

(* What a thread is about to push, and what it has left then. *)
LEMMA HandHead ==
  ASSUME NodeInv, NEW r \in Role, hand[r] # <<>>
  PROVE  /\ Head(hand[r]) \in Cmd \cup MsgChan
         /\ pc[r] # "gone" => Head(hand[r]) \in Plain /\ Tail(hand[r]) \in Seq(Plain)
         /\ pc[r] = "gone" => /\ \E t \in Role : Stages(Head(hand[r]), r, t)
                              /\ Tail(hand[r]) = <<>>
<1>1. CASE pc[r] # "gone"
  <2>1. hand[r] \in Seq(Plain)
    BY <1>1 DEF NodeInv, Hands
  <2>2. Head(hand[r]) \in Plain /\ Tail(hand[r]) \in Seq(Plain)
    BY <2>1, HeadTailElems
  <2> QED BY <1>1, <2>2 DEF Plain, Cmd, CloseStatus
<1>2. CASE pc[r] = "gone"
  <2>1. PICK c \in Cmd, t \in Role : Stages(c, r, t) /\ hand[r] = <<c>>
    BY <1>2 DEF NodeInv, Hands
  <2>2. Head(<<c>>) = c /\ Tail(<<c>>) = <<>>
    OBVIOUS
  <2> QED BY <1>2, <2>1, <2>2
<1> QED BY <1>1, <1>2

(* A command or a message gets into the node: the chain's commands only when *)
(* the task they come from has ended.                                        *)
LEMMA KeptByQueue == ASSUME NodeInv, NEW r \in Role, Queue(r) PROVE NodeInv'
<1> USE DEF NodeInv
<1> DEFINE x == Head(hand[r])
<1>1. /\ hand[r] # <<>> /\ ~rung[r]
      /\ UNCHANGED <<req, stage, pc, hand, que, status>>
      /\ rung' = [rung EXCEPT ![r] = TRUE]
  BY DEF Queue, gateVars, fdVars
<1>2. /\ x \in Cmd \cup MsgChan
      /\ pc[r] # "gone" => x \in Plain
      /\ pc[r] = "gone" => \E t \in Role : Stages(x, r, t)
  BY <1>1, HandHead
<1>3. /\ DOMAIN tmp' = Chan /\ tmp'["cmd"] \in Seq(Cmd)
      /\ Held' \subseteq Held \cup (IF x \in Cmd THEN {x} ELSE {})
  <2>1. CASE x \in Cmd
    <3>1. tmp' = [tmp EXCEPT !["cmd"] = Append(@, x)]
      BY <2>1 DEF Queue, ChanOf
    <3>2. DOMAIN tmp' = Chan /\ tmp'["cmd"] = Append(tmp["cmd"], x)
      BY <3>1 DEF NodeTypes, Chan
    <3>3. /\ Append(tmp["cmd"], x) \in Seq(Cmd)
          /\ ToSet(Append(tmp["cmd"], x)) = ToSet(tmp["cmd"]) \cup {x}
      BY <2>1, AppendElems DEF NodeTypes
    <3> QED BY <1>1, <2>1, <3>2, <3>3 DEF Held
  <2>2. CASE x \notin Cmd
    <3>1. x \in MsgChan /\ x # "cmd"
      BY <1>2, <2>2 DEF MsgChan
    <3>2. DOMAIN tmp' = Chan /\ tmp'["cmd"] = tmp["cmd"]
      <4>1. ChanOf(x) = x
        BY <2>2 DEF ChanOf
      <4>2. tmp' = [tmp EXCEPT ![x] = Append(@, made[x] + 1)]
        BY <3>1, <4>1 DEF Queue
      <4> HIDE DEF x
      <4> QED BY <3>1, <4>2 DEF NodeTypes, Chan
    <3> QED BY <1>1, <3>2 DEF Held, NodeTypes
  <2> QED BY <2>1, <2>2
<1>4. /\ rung' \in [Role -> BOOLEAN] /\ rung'[r]
      /\ \A y \in Role : y # r => rung'[y] = rung[y]
  BY <1>1 DEF NodeTypes
<1> HIDE DEF x
<1>5. NodeTypes'
  BY <1>1, <1>3, <1>4 DEF NodeTypes
<1>6. Hands'
  BY <1>1, <1>4 DEF Hands
<1>7. Chain'
  <2>1. \A y \in Role : Told(y) => Told(y)'
    BY <1>1, <1>4 DEF Told
  <2>2. ASSUME NEW c \in Cmd, NEW y \in Role, NEW t \in Role, Stages(c, y, t),
               c \in Held' \/ Ending(t)'
        PROVE  Told(y)'
    <3>1. CASE c \in Held \/ Ending(t)'
      BY <1>1, <2>1, <2>2, <3>1 DEF Chain, Ending
    <3>2. CASE c = x
      <4>1. pc[r] = "gone" /\ y = r
        BY <1>2, <2>2, <3>2, StagesApart
      <4> QED BY <1>1, <1>4, <4>1 DEF Told
    <3> QED BY <1>3, <2>2, <3>1, <3>2
  <2> QED BY <1>1, <2>2 DEF Chain, Freed
<1> QED BY <1>5, <1>6, <1>7

(* ... and its task is called. *)
LEMMA KeptByRing == ASSUME NodeInv, NEW r \in Role, Ring(r) PROVE NodeInv'
<1> USE DEF NodeInv
<1>1. /\ hand[r] # <<>> /\ rung[r]
      /\ UNCHANGED <<pc, tmp, que, status>>
      /\ rung' = [rung EXCEPT ![r] = FALSE] /\ hand' = [hand EXCEPT ![r] = Tail(@)]
      /\ Raise(ServerOf(ChanOf(Head(hand[r]))), NORM)
  BY DEF Ring, queVars, fdVars
<1>2. /\ Head(hand[r]) \in Cmd \cup MsgChan
      /\ pc[r] # "gone" => Tail(hand[r]) \in Seq(Plain)
      /\ pc[r] = "gone" => Tail(hand[r]) = <<>>
  BY <1>1, HandHead
<1>3. ServerOf(ChanOf(Head(hand[r]))) \in Role
  BY <1>2 DEF ServerOf, ChanOf, Role, MsgChan
<1>4. /\ req' \in [Role -> SUBSET {NORM, END, "READ", "WRITE", "ERROR"}]
      /\ stage' \in [Role -> {"idle", "ready", "running", "parked", "ended"}]
      /\ \A x \in Role : (stage'[x] = "ended" <=> stage[x] = "ended") /\ (Ending(x)' => Ending(x))
  <2>1. NORM # END
    BY DEF NORM, END, Gate!NORM, Gate!END
  <2> QED BY <1>1, <1>3, <2>1, RaiseEffect
<1>5. /\ rung' \in [Role -> BOOLEAN] /\ ~rung'[r]
      /\ DOMAIN hand' = Role /\ hand'[r] = Tail(hand[r])
      /\ \A y \in Role : y # r => rung'[y] = rung[y] /\ hand'[y] = hand[y]
  BY <1>1 DEF NodeTypes
<1>6. NodeTypes'
  BY <1>1, <1>4, <1>5 DEF NodeTypes
<1>7. Hands'
  BY <1>1, <1>2, <1>4, <1>5 DEF Hands
<1>8. Chain'
  <2>1. \A y \in Role : Told(y) => Told(y)'
    BY <1>1, <1>2, <1>5 DEF Told
  <2>2. Held' = Held /\ Freed' = Freed
    BY <1>1 DEF Held, Freed
  <2> QED BY <1>1, <1>4, <2>1, <2>2 DEF Chain
<1> QED BY <1>6, <1>7, <1>8

(* procTask is called, takes what was queued, or returns. *)
LEMMA KeptByTurn ==
  ASSUME NodeInv, NEW r \in Role, Begin(r) \/ Splice(r) \/ Leave(r)
  PROVE  NodeInv'
<1> USE DEF NodeInv
<1>1. /\ hand[r] = <<>> /\ pc[r] # "gone"
      /\ \E l \in Label \ {"gone"} : pc' = [pc EXCEPT ![r] = l]
      /\ hand' = [hand EXCEPT ![r] = <<>>]
      /\ UNCHANGED <<rung, status>>
  BY DEF Begin, Splice, Leave, At, Goto, fdVars, Label
<1>2. /\ pc' \in [Role -> Label] /\ pc'[r] # "gone"
      /\ DOMAIN hand' = Role /\ hand'[r] = <<>>
      /\ \A x \in Role : x # r => pc'[x] = pc[x] /\ hand'[x] = hand[x]
  BY <1>1 DEF NodeTypes
<1>3. /\ req' \in [Role -> SUBSET {NORM, END, "READ", "WRITE", "ERROR"}]
      /\ stage' \in [Role -> {"idle", "ready", "running", "parked", "ended"}]
      /\ stage[r] = "ended" => r = "wr"
      /\ stage'[r] = "ended" => r = "wr"
      /\ \A x \in Role : x # r => stage'[x] = stage[x]
      /\ \A x \in Role : Ending(x)' => Ending(x)
  <2>0. stage[r] = "ended" => r = "wr"
    BY <1>1 DEF Hands
  <2>1. CASE Begin(r)
    <3>1. Gate!Begin(r)
      BY <2>1 DEF Begin
    <3> QED BY <3>1, EnterEffect, <2>0 DEF Ending
  <2>2. CASE Splice(r)
    <3>1. UNCHANGED <<req, stage>>
      BY <2>2 DEF Splice, gateVars
    <3> QED BY <2>0, <3>1 DEF NodeTypes, Ending
  <2>3. CASE Leave(r)
    BY <2>0, <2>3, LeaveEffect DEF NodeTypes
  <2> QED BY <2>1, <2>2, <2>3
<1>4. /\ DOMAIN tmp' = Chan /\ tmp'["cmd"] \in Seq(Cmd)
      /\ DOMAIN que' = Chan /\ que'["cmd"] \in Seq(Cmd)
      /\ Held' = Held
  <2>1. CASE Begin(r) \/ Leave(r)
    BY <2>1 DEF Begin, Leave, queVars, NodeTypes, Held
  <2>2. CASE Splice(r) /\ r = "dir"
    <3>1. /\ tmp' = [tmp EXCEPT !["cmd"] = <<>>] /\ que' = [que EXCEPT !["cmd"] = @ \o tmp["cmd"]]
      BY <2>2 DEF Splice
    <3>2. /\ DOMAIN tmp' = Chan /\ tmp'["cmd"] = <<>>
          /\ DOMAIN que' = Chan /\ que'["cmd"] = que["cmd"] \o tmp["cmd"]
      BY <3>1 DEF NodeTypes, Chan
    <3>3. /\ que["cmd"] \o tmp["cmd"] \in Seq(Cmd) /\ <<>> \in Seq(Cmd) /\ ToSet(<<>>) = {}
          /\ ToSet(que["cmd"] \o tmp["cmd"]) = ToSet(que["cmd"]) \cup ToSet(tmp["cmd"])
      BY ConcatElems, EmptySeq, EmptyElems DEF NodeTypes
    <3> QED BY <3>2, <3>3 DEF Held
  <2>3. CASE Splice(r) /\ r # "dir"
    <3>1. /\ tmp' = [tmp EXCEPT ![r] = <<>>] /\ que' = [que EXCEPT ![r] = @ \o tmp[r]]
          /\ r # "cmd"
      BY <2>3 DEF Splice, Role
    <3> QED BY <3>1 DEF NodeTypes, Held
  <2> QED BY <2>1, <2>2, <2>3
<1>5. NodeTypes'
  BY <1>1, <1>2, <1>3, <1>4 DEF NodeTypes
<1>6. Hands'
  <2>1. ~rung[r]
    BY <1>1 DEF Hands
  <2> QED BY <1>1, <1>2, <1>3, <2>1, EmptySeq DEF Hands
<1>7. Chain'
  <2>1. \A x \in Role : Told(x) => Told(x)'
    BY <1>1, <1>2 DEF Told
  <2>2. Freed' = Freed /\ (pc["dir"] = "gone" => pc'["dir"] = "gone")
    BY <1>1, <1>2 DEF Freed, Role
  <2> QED BY <1>3, <1>4, <2>1, <2>2 DEF Chain
<1> QED BY <1>5, <1>6, <1>7

(* The director acts on a command: it ends a task only when the one before   *)
(* it in the chain has ended.                                                *)
LEMMA KeptByOrder == ASSUME NodeInv, NEW c \in Cmd, Obeys(c) PROVE NodeInv'
<1> USE DEF NodeInv
<1>1. PICK h \in Seq(Plain) : hand' = [hand EXCEPT !["dir"] = h]
  BY DEF Obeys
<1>2. /\ hand["dir"] = <<>> /\ pc["dir"] # "gone" /\ UNCHANGED <<pc, rung, tmp>>
      /\ DOMAIN hand' = Role /\ hand'["dir"] \in Seq(Plain) /\ "dir" \in Role
      /\ \A x \in Role : x # "dir" => hand'[x] = hand[x]
      /\ Freed' => Freed
  BY <1>1 DEF Obeys, NodeTypes, Freed, Role
<1>3. /\ c \in Held /\ DOMAIN que' = Chan /\ que'["cmd"] \in Seq(Cmd) /\ Held' \subseteq Held
  <2>1. /\ que["cmd"] # <<>> /\ c = Head(que["cmd"])
        /\ DOMAIN que' = Chan /\ que'["cmd"] = Tail(que["cmd"])
    BY DEF Obeys, NodeTypes, Chan
  <2>2. /\ Tail(que["cmd"]) \in Seq(Cmd)
        /\ ToSet(que["cmd"]) = {Head(que["cmd"])} \cup ToSet(Tail(que["cmd"]))
    BY <2>1, HeadTailElems DEF NodeTypes
  <2> QED BY <1>2, <2>1, <2>2 DEF Held
<1>4. /\ req' \in [Role -> SUBSET {NORM, END, "READ", "WRITE", "ERROR"}]
      /\ stage' \in [Role -> {"idle", "ready", "running", "parked", "ended"}]
      /\ \A x \in Role : stage'[x] = "ended" <=> stage[x] = "ended"
      /\ \A x \in Role : Ending(x)' => \/ Ending(x) \/ x = "rd"
                                       \/ \E r \in Role : Stages(c, r, x)
  <2>1. CASE UNCHANGED <<req, stage>>
    BY <2>1 DEF NodeTypes, Ending
  <2>2. ASSUME NEW t \in Role, Raise(t, END),
               t = "rd" \/ \E r \in Role : Stages(c, r, t)
        PROVE  <1>4!1 /\ <1>4!2 /\ <1>4!3 /\ <1>4!4
    BY <2>2, RaiseEffect
  <2> QED BY <2>1, <2>2 DEF Obeys
<1>5. NodeTypes'
  BY <1>2, <1>3, <1>4 DEF NodeTypes
<1>6. Hands'
  <2>1. ~rung["dir"]
    BY <1>2 DEF Hands
  <2> QED BY <1>2, <1>4, <2>1 DEF Hands
<1>7. Chain'
  <2>1. \A x \in Role : Told(x) => Told(x)'
    BY <1>2 DEF Told
  <2>2. ASSUME NEW d \in Cmd, NEW r \in Role, NEW t \in Role, Stages(d, r, t),
               d \in Held' \/ Ending(t)'
        PROVE  Told(r)'
    <3>1. CASE d \in Held \/ Ending(t)
      BY <2>1, <2>2, <3>1 DEF Chain
    <3>2. CASE \E x \in Role : Stages(c, x, t)
      <4>1. Stages(c, r, t)
        BY <2>2, <3>2, StagesApart
      <4> QED BY <1>3, <2>1, <4>1 DEF Chain
    <3>3. t # "rd"
      BY <2>2, StagesApart
    <3> QED BY <1>3, <1>4, <2>2, <3>1, <3>2, <3>3
  <2> QED BY <1>2, <2>2 DEF Chain
<1> QED BY <1>5, <1>6, <1>7

(* A task ends, and says so to the director; the director's frees the node. *)
LEMMA KeptByParting == ASSUME NodeInv, NEW r \in Role, Parts(r) PROVE NodeInv'
<1> USE DEF NodeInv
<1>1. /\ hand[r] = <<>> /\ pc[r] # "gone" /\ UNCHANGED rung /\ ~rung[r]
  BY DEF Parts, Hands
<1>2. /\ req' \in [Role -> SUBSET {NORM, END, "READ", "WRITE", "ERROR"}]
      /\ stage' \in [Role -> {"idle", "ready", "running", "parked", "ended"}]
      /\ stage'[r] = "ended" /\ Ending(r)
      /\ \A x \in Role : x # r => stage'[x] = stage[x]
      /\ \A x \in Role : Ending(x)' => Ending(x)
  <2>1. CASE Gate!Finish(r)
    <3>1. END \in req[r]
      BY <2>1 DEF Gate!Finish, END
    <3> QED BY <2>1, <3>1, EnterEffect DEF Ending
  <2>2. CASE stage[r] = "ended" /\ UNCHANGED <<req, stage>>
    BY <2>2 DEF NodeTypes, Ending
  <2> QED BY <2>1, <2>2 DEF Parts
<1>3. /\ pc' \in [Role -> Label] /\ DOMAIN hand' = Role
      /\ \A x \in Role : x # r => pc'[x] = pc[x] /\ hand'[x] = hand[x]
      /\ \/ /\ pc'[r] = "gone" /\ UNCHANGED <<tmp, que, status>>
            /\ \E c \in Cmd, t \in Role : Stages(c, r, t) /\ hand'[r] = <<c>>
         \/ /\ r = "wr" /\ pc'[r] = "splice" /\ hand'[r] = <<>> /\ UNCHANGED <<tmp, que, status>>
         \/ /\ r = "dir" /\ pc'[r] = "gone" /\ hand'[r] = <<>>
            /\ tmp' = [c \in Chan |-> <<>>] /\ que' = [c \in Chan |-> <<>>]
  BY DEF Parts, NodeTypes, Label
<1>4. /\ DOMAIN tmp' = Chan /\ tmp'["cmd"] \in Seq(Cmd)
      /\ DOMAIN que' = Chan /\ que'["cmd"] \in Seq(Cmd)
      /\ Held' \subseteq Held
  <2>1. CASE UNCHANGED <<tmp, que>>
    BY <2>1 DEF NodeTypes, Held
  <2>2. CASE tmp' = [c \in Chan |-> <<>>] /\ que' = [c \in Chan |-> <<>>]
    BY <2>2, EmptySeq, EmptyElems DEF Held, Chan
  <2> QED BY <1>3, <2>1, <2>2
<1>5. NodeTypes'
  BY <1>1, <1>2, <1>3, <1>4 DEF NodeTypes
<1>6. Hands'
  <2>1. /\ hand'[r] = <<>> => ~rung'[r]
        /\ pc'[r] # "gone" => hand'[r] \in Seq(Plain)
        /\ pc'[r] = "gone" => hand'[r] = <<>> \/ \E c \in Cmd, t \in Role :
                                                   Stages(c, r, t) /\ hand'[r] = <<c>>
        /\ pc'[r] = "gone" \/ r = "wr"
    BY <1>1, <1>3, EmptySeq
  <2> QED BY <1>1, <1>2, <1>3, <2>1 DEF Hands
<1>7. Chain'
  <2>1. \A x \in Role : Told(x) => Told(x)'
    BY <1>1, <1>3 DEF Told
  <2>2. Freed' => pc'["dir"] = "gone"
    BY <1>1, <1>3 DEF Chain, Freed, Role
  <2> QED BY <1>2, <1>4, <2>1, <2>2 DEF Chain
<1> QED BY <1>5, <1>6, <1>7

(* epoll's reports end no task, and the rest is not about the chain. *)
LEMMA KeptByPoll == ASSUME NodeInv, Polls \/ Sleeps PROVE NodeInv'
<1> USE DEF NodeInv
<1>1. UNCHANGED <<pc, hand, rung, tmp, que, status>>
  BY DEF Polls, Sleeps, Stands
<1>2. /\ req' \in [Role -> SUBSET {NORM, END, "READ", "WRITE", "ERROR"}]
      /\ stage' \in [Role -> {"idle", "ready", "running", "parked", "ended"}]
      /\ \A x \in Role : (stage'[x] = "ended" <=> stage[x] = "ended") /\ (Ending(x)' => Ending(x))
  <2>1. CASE Polls
    <3>1. "READ" # END /\ "WRITE" # END /\ "rd" \in Role /\ "wr" \in Role
      BY DEF END, Gate!END, Role
    <3> QED BY <2>1, <3>1, RaiseEffect DEF Polls
  <2>2. CASE Sleeps
    BY <2>2 DEF Sleeps, NodeTypes, Ending
  <2> QED BY <2>1, <2>2
<1>3. NodeTypes' /\ Hands'
  BY <1>1, <1>2 DEF NodeTypes, Hands
<1>4. Chain'
  <2>1. \A x \in Role : Told(x)' = Told(x)
    BY <1>1 DEF Told
  <2>2. Held' = Held /\ Freed' = Freed
    BY <1>1 DEF Held, Freed
  <2> QED BY <1>1, <1>2, <2>1, <2>2 DEF Chain
<1> QED BY <1>3, <1>4

(* Every step keeps the chain in order. *)
LEMMA NodeStep == NodeInv /\ [Next]_vars => NodeInv'
<1> SUFFICES ASSUME NodeInv, [Next]_vars PROVE NodeInv'
  OBVIOUS
<1>1. Shape
  BY NextShapes DEF NodeInv
<1> QED BY <1>1, KeptByWork, KeptByQueue, KeptByRing, KeptByTurn, KeptByOrder,
           KeptByParting, KeptByPoll DEF Shape

(* The chain is in order on every behaviour of the node. *)
THEOREM ChainKept == Spec => []NodeInv
<1> QED BY NodeInit, NodeStep, PTL DEF Spec

-----------------------------------------------------------------------------
(* What the chain is for *)

(* The four tasks end one after the other, each when the task before it has  *)
(* ended for good.                                                          *)
THEOREM TasksEndInOrder == Spec => []EndsInOrder
<1>1. ASSUME NodeInv PROVE EndsInOrder
  <2>1. \A c \in Cmd, r \in Role, t \in Role : Stages(c, r, t) /\ Ending(t) => pc[r] = "gone"
    BY <1>1 DEF NodeInv, Chain, Told
  <2>2. /\ Ending("wr") => pc["rd"] = "gone"
        /\ Ending("deal") => pc["wr"] = "gone"
        /\ Ending("dir") => pc["deal"] = "gone"
    BY <2>1 DEF Stages, Role, Cmd, CloseStatus
  <2>3. pc["rd"] = "gone" => stage["rd"] = "ended"
    BY <1>1 DEF NodeInv, Hands, Role
  <2> QED BY <2>2, <2>3 DEF EndsInOrder, Ending
<1> QED BY <1>1, ChainKept, PTL

(* When the chain is in order and the node is freed, all four tasks have      *)
(* ended, and at most a late addTask is still to come.                       *)
LEMMA QuietMeans == ASSUME NodeInv PROVE QuietWhenFreed
<1> SUFFICES ASSUME Freed, NEW r \in Role
             PROVE  /\ stage[r] = "ended" /\ pc[r] = "gone"
                    /\ hand[r] # <<>> => rung[r] /\ Len(hand[r]) = 1
  BY DEF QuietWhenFreed
<1>1. \A x \in Role : pc[x] = "gone" => stage[x] = "ended" /\ Ending(x)
  BY DEF NodeInv, Hands, Ending
<1>2. pc["dir"] = "gone"
  BY DEF NodeInv, Chain
<1>3. Told("deal") /\ Told("wr") /\ Told("rd")
  <2>1. \A c \in Cmd, x \in Role, t \in Role :
          Stages(c, x, t) /\ pc[t] = "gone" => Told(x)
    BY <1>1 DEF NodeInv, Chain
  <2>2. Told("deal") /\ (Told("deal") => Told("wr")) /\ (Told("wr") => Told("rd"))
    BY <1>2, <2>1 DEF Stages, Role, Cmd, CloseStatus, Told
  <2> QED BY <2>2
<1>4. pc[r] = "gone" /\ (r # "dir" => hand[r] = <<>> \/ rung[r])
  BY <1>2, <1>3 DEF Told, Role
<1>5. hand[r] = <<>> \/ \E c \in Cmd, t \in Role : Stages(c, r, t) /\ hand[r] = <<c>>
  BY <1>4 DEF NodeInv, Hands
<1> QED BY <1>1, <1>4, <1>5, StagesApart

(* So it is on every behaviour of the node. *)
THEOREM FreedQuietly == Spec => []QuietWhenFreed
BY QuietMeans, ChainKept, PTL

(* The receiver's task is ended only by the first CLOSING, which takes the    *)
(* socket out of epoll.                                                      *)
LEMMA ClosingUnregisters ==
  ASSUME NodeInv, Shape, Closing'
  PROVE  Closing \/ ev' = {}
<1> USE DEF NodeInv
<1>0. /\ "rd" \in Role /\ (Closing <=> Ending("rd")) /\ (Closing' <=> Ending("rd")')
      /\ NORM # END /\ "READ" # END /\ "WRITE" # END
  BY DEF Closing, Ending, Role, NORM, END, Gate!NORM, Gate!END
<1>1. ASSUME NEW t \in Role, NEW e \in {NORM, END, "READ", "WRITE"}, Raise(t, e), t # "rd" \/ e # END
      PROVE  Closing
  BY <1>0, <1>1, RaiseEffect
<1>2. ASSUME UNCHANGED <<req, stage>> PROVE Closing
  BY <1>2 DEF Closing
<1>3. ASSUME NEW r \in Role, Queue(r) \/ Splice(r) \/ Works(r) PROVE Closing
  <2>1. UNCHANGED <<req, stage>>
    BY <1>3 DEF Queue, Splice, Works, gateVars
  <2> QED BY <1>2, <2>1
<1>4. ASSUME NEW r \in Role, Ring(r) PROVE Closing
  <2>1. Raise(ServerOf(ChanOf(Head(hand[r]))), NORM) /\ hand[r] # <<>>
    BY <1>4 DEF Ring
  <2>2. ServerOf(ChanOf(Head(hand[r]))) \in Role
    BY <2>1, HandHead DEF ServerOf, ChanOf, Role, MsgChan
  <2> QED BY <1>0, <1>1, <2>1, <2>2
<1>5. ASSUME NEW r \in Role, Begin(r) \/ Leave(r) PROVE Closing
  <2>1. CASE Begin(r)
    BY <1>0, <2>1, EnterEffect DEF Begin, Ending
  <2>2. CASE Leave(r)
    BY <1>0, <2>2, LeaveEffect
  <2> QED BY <1>5, <2>1, <2>2
<1>6. ASSUME NEW r \in Role, Parts(r) PROVE Closing
  <2>1. CASE Gate!Finish(r)
    <3>1. END \in req[r]
      BY <2>1 DEF Gate!Finish, END
    <3> QED BY <1>0, <2>1, <3>1, EnterEffect DEF Ending
  <2>2. CASE UNCHANGED <<req, stage>>
    BY <1>2, <2>2
  <2> QED BY <1>6, <2>1, <2>2 DEF Parts
<1>7. ASSUME NEW c \in Cmd, Obeys(c) PROVE Closing \/ ev' = {}
  <2>1. ASSUME NEW t \in Role, Raise(t, END), NEW r \in Role, Stages(c, r, t)
        PROVE  Closing
    BY <1>1, <2>1, StagesApart
  <2> QED BY <1>2, <1>7, <2>1 DEF Obeys
<1>8. CASE Polls \/ Sleeps
  BY <1>0, <1>1, <1>2, <1>8 DEF Polls, Sleeps, Role
<1> QED BY <1>3, <1>4, <1>5, <1>6, <1>7, <1>8 DEF Shape

(* Only a connector is registered once more. *)
LEMMA AcceptedOnce ==
  ASSUME [Next]_vars, kind = "SOCK"
  PROVE  kind' = "SOCK" /\ ev' \in {ev, {}}
<1>1. CASE Receiver \/ Sender \/ Dealer
  BY <1>1 DEF Receiver, Sender, Dealer, ReadNothing, ReadSome, ReadError, RdChange, EndRead,
       CheckConnect, WriteError, EndWrite, EndWritten, Write, Discard, DealDone, EndDeal,
       Process, DealNext, fdVars
<1>2. CASE Commands
  BY <1>2 DEF Commands, CmdClosing, CmdClose, SetStatus, CmdFailed, CmdIgnored, CmdDone,
       EndNode, CmdConnected, fdVars
<1>3. CASE \E r \in Role : Common(r)
  BY <1>3 DEF Common, Queue, Ring, Begin, Splice, Check, Leave, fdVars
<1>4. CASE Break \/ Over \/ UNCHANGED vars \/ \E d \in Side : EpollReady(d) \/ EpollFail(d)
  BY <1>4 DEF Break, Over, vars, EpollReady, EpollFail, fdVars
<1> QED BY <1>1, <1>2, <1>3, <1>4 DEF Next

(* An accepted socket stays out of epoll once its close has begun. *)
THEOREM AcceptedUnregistered == Spec /\ kind = "SOCK" => []Unregistered
<1> DEFINE Inv == NodeInv /\ kind = "SOCK" /\ Unregistered
<1>1. Init /\ kind = "SOCK" => Inv
  <2>1. Init => ~Closing
    BY DEF Init, Gate!Init, Closing, Role
  <2> QED BY <2>1, NodeInit DEF Unregistered
<1>2. Inv /\ [Next]_vars => Inv'
  <2> SUFFICES ASSUME Inv, [Next]_vars PROVE Inv'
    OBVIOUS
  <2>1. Shape /\ NodeInv'
    BY NextShapes, NodeStep DEF NodeInv
  <2>2. kind' = "SOCK" /\ ev' \in {ev, {}}
    BY AcceptedOnce
  <2>3. Unregistered'
    BY <2>1, <2>2, ClosingUnregisters DEF Unregistered
  <2> QED BY <2>1, <2>2, <2>3
<1>3. Inv => Unregistered
  OBVIOUS
<1> QED BY <1>1, <1>2, <1>3, PTL DEF Spec

-----------------------------------------------------------------------------
(* Nothing is left behind in the locked half of a queue *)

(* Someone is about to call the task that serves channel c, or it has been   *)
(* called, is on its way to the splice, or has ended.                        *)
RungFor(c) == \E r \in Role : rung[r] /\ ChanOf(Head(hand[r])) = c
Called(t) == \/ req[t] \cap {NORM, END} # {}
             \/ stage[t] = "running" /\ pc[t] = "splice"
             \/ stage[t] = "ended"
Served(c) == tmp[c] # <<>> => RungFor(c) \/ Called(ServerOf(c))

(* That says the same as NoStranded. *)
LEMMA StrandedMeans == NoStranded <=> \A c \in Chan : Served(c)
BY DEF NoStranded, Served, RungFor, Called

(* A step that hurries nobody: who was about to call still is, and a task     *)
(* that was called still is.                                                 *)
LEMMA ServedStays ==
  ASSUME NodeInv, NoStranded,
         \A r \in Role : rung[r] => rung'[r] /\ hand'[r] = hand[r],
         \A t \in Role : Called(t) => Called(t)',
         \A c \in Chan : tmp'[c] = tmp[c] \/ tmp'[c] = <<>>
  PROVE  NoStranded'
<1>1. \A c \in Chan : ServerOf(c) \in Role
  BY DEF Chan, Role, ServerOf
<1>2. \A c \in Chan : Served(c)
  BY StrandedMeans
<1>3. \A c \in Chan : RungFor(c) => RungFor(c)'
  BY DEF RungFor, ChanOf
<1>4. \A c \in Chan : Served(c)'
  BY <1>1, <1>2, <1>3 DEF Served, ServerOf
<1> QED BY <1>4 DEF NoStranded, Served, RungFor, Called

(* Every push is followed by a call of the task that serves the queue, every  *)
(* call by a splice: no message and no command is left behind.               *)
LEMMA StrandedStep == NodeInv /\ NoStranded /\ Shape => NoStranded'
<1> SUFFICES ASSUME NodeInv, NoStranded, Shape PROVE NoStranded'
  OBVIOUS
<1> USE DEF NodeInv
<1>1. ASSUME NEW r \in Role, Works(r) PROVE NoStranded'
  <2>1. \A x \in Role : rung[x] => rung'[x] /\ hand'[x] = hand[x]
    BY <1>1 DEF Works, Hands, NodeTypes
  <2>2. \A t \in Role : Called(t) => Called(t)'
    BY <1>1 DEF Works, Called, NodeTypes
  <2> QED BY <1>1, <2>1, <2>2, ServedStays DEF Works
<1>2. ASSUME NEW r \in Role, Parts(r) PROVE NoStranded'
  <2>1. \A x \in Role : rung[x] => rung'[x] /\ hand'[x] = hand[x]
    BY <1>2 DEF Parts, Hands, NodeTypes
  <2>2. /\ stage'[r] = "ended"
        /\ \A x \in Role : x # r => req'[x] = req[x] /\ stage'[x] = stage[x] /\ pc'[x] = pc[x]
    <3>1. \A x \in Role : x # r => pc'[x] = pc[x]
      BY <1>2 DEF Parts, NodeTypes
    <3>2. Gate!Finish(r) => END \in req[r]
      BY DEF Gate!Finish, END
    <3> QED BY <1>2, <3>1, <3>2, EnterEffect DEF Parts
  <2>3. \A t \in Role : Called(t) => Called(t)'
    BY <2>2 DEF Called
  <2>4. \A c \in Chan : tmp'[c] = tmp[c] \/ tmp'[c] = <<>>
    BY <1>2 DEF Parts
  <2> QED BY <2>1, <2>3, <2>4, ServedStays
<1>3. ASSUME NEW t \in Role, NEW e \in {NORM, END, "READ", "WRITE"}, Raise(t, e), pc' = pc
      PROVE  \A x \in Role : Called(x) => Called(x)'
  BY <1>3, RaiseEffect DEF Called
<1>4. ASSUME NEW c \in Cmd, Obeys(c) PROVE NoStranded'
  <2>1. \A x \in Role : rung[x] => rung'[x] /\ hand'[x] = hand[x]
    BY <1>4 DEF Obeys, Hands, NodeTypes, Role
  <2>2. \A t \in Role : Called(t) => Called(t)'
    <3>1. CASE UNCHANGED <<req, stage>>
      BY <1>4, <3>1 DEF Obeys, Called
    <3> QED BY <1>3, <1>4, <3>1 DEF Obeys
  <2> QED BY <1>4, <2>1, <2>2, ServedStays DEF Obeys
<1>5. CASE Polls \/ Sleeps
  <2>1. UNCHANGED <<rung, hand, tmp, pc>>
    BY <1>5 DEF Polls, Sleeps, Stands
  <2>2. \A t \in Role : Called(t) => Called(t)'
    <3>1. CASE UNCHANGED <<req, stage>>
      BY <2>1, <3>1 DEF Called
    <3> QED BY <1>3, <1>5, <2>1, <3>1 DEF Polls, Sleeps, Role
  <2> QED BY <2>1, <2>2, ServedStays
<1>6. ASSUME NEW r \in Role, Begin(r) PROVE NoStranded'
  <2>1. /\ hand[r] = <<>> /\ pc[r] = "idle" /\ UNCHANGED <<rung, tmp>>
        /\ pc' = [pc EXCEPT ![r] = IF r = "rd" THEN "check" ELSE "splice"]
        /\ hand' = [hand EXCEPT ![r] = <<>>] /\ Gate!Begin(r)
    BY <1>6 DEF Begin, At, Goto, queVars
  <2>2. \A x \in Role : rung[x] => rung'[x] /\ hand'[x] = hand[x]
    BY <2>1 DEF Hands, NodeTypes
  <2>3. /\ stage'[r] = "running" /\ pc'[r] = IF r = "rd" THEN "check" ELSE "splice"
        /\ \A x \in Role : x # r => req'[x] = req[x] /\ stage'[x] = stage[x] /\ pc'[x] = pc[x]
    <3>1. /\ pc'[r] = IF r = "rd" THEN "check" ELSE "splice"
          /\ \A x \in Role : x # r => pc'[x] = pc[x]
      BY <2>1 DEF NodeTypes
    <3> QED BY <2>1, <3>1, EnterEffect
  <2>4. \A c \in Chan : RungFor(c) => RungFor(c)'
    BY <2>2 DEF RungFor, ChanOf
  <2>5. \A t \in Role : t # "rd" /\ Called(t) => Called(t)'
    BY <2>3 DEF Called
  <2>6. \A c \in Chan : ServerOf(c) \in Role /\ ServerOf(c) # "rd"
    BY DEF Chan, Role, ServerOf
  <2>7. \A c \in Chan : Served(c)'
    BY <2>1, <2>4, <2>5, <2>6, StrandedMeans DEF Served, ServerOf
  <2> QED BY <2>7 DEF NoStranded, Served, RungFor, Called
<1>7. ASSUME NEW r \in Role, Splice(r) PROVE NoStranded'
  <2>1. /\ hand[r] = <<>> /\ pc[r] = "splice" /\ UNCHANGED <<rung, req, stage>>
        /\ \A x \in Role : x # r => pc'[x] = pc[x]
        /\ hand' = [hand EXCEPT ![r] = <<>>]
        /\ tmp' = [tmp EXCEPT ![IF r = "dir" THEN "cmd" ELSE r] = <<>>]
    BY <1>7 DEF Splice, At, Goto, gateVars, NodeTypes
  <2>2. \A x \in Role : rung[x] => rung'[x] /\ hand'[x] = hand[x]
    BY <2>1 DEF Hands, NodeTypes
  <2>3. \A c \in Chan : RungFor(c) => RungFor(c)'
    BY <2>2 DEF RungFor, ChanOf
  <2>4. \A t \in Role : t # r /\ Called(t) => Called(t)'
    BY <2>1 DEF Called
  <2>5. \A c \in Chan : /\ ServerOf(c) \in Role
                        /\ ServerOf(c) = r => tmp'[c] = <<>>
                        /\ tmp'[c] = tmp[c] \/ tmp'[c] = <<>>
    BY <2>1 DEF Chan, Role, ServerOf, NodeTypes
  <2>6. \A c \in Chan : Served(c)'
    BY <2>3, <2>4, <2>5, StrandedMeans DEF Served, ServerOf
  <2> QED BY <2>6 DEF NoStranded, Served, RungFor, Called
<1>8. ASSUME NEW r \in Role, Leave(r) PROVE NoStranded'
  <2>1. /\ hand[r] = <<>> /\ pc[r] = "leave" /\ UNCHANGED <<rung, tmp>>
        /\ pc' = [pc EXCEPT ![r] = "idle"] /\ hand' = [hand EXCEPT ![r] = <<>>]
    BY <1>8 DEF Leave, At, Goto, queVars
  <2>2. \A x \in Role : rung[x] => rung'[x] /\ hand'[x] = hand[x]
    BY <2>1 DEF Hands, NodeTypes
  <2>3. \A t \in Role : Called(t) => Called(t)'
    <3>1. \A x \in Role : x # r => pc'[x] = pc[x]
      BY <2>1 DEF NodeTypes
    <3> QED BY <1>8, <2>1, <3>1, LeaveEffect DEF Called
  <2>4. tmp' = tmp
    BY <2>1
  <2> QED BY <2>2, <2>3, <2>4, ServedStays
<1>9. ASSUME NEW r \in Role, Queue(r) PROVE NoStranded'
  <2> DEFINE d == ChanOf(Head(hand[r]))
  <2>1. /\ ~rung[r] /\ rung' = [rung EXCEPT ![r] = TRUE]
        /\ UNCHANGED <<hand, req, stage, pc>>
        /\ \E q : tmp' = [tmp EXCEPT ![d] = q]
    BY <1>9 DEF Queue, gateVars
  <2>2. \A x \in Role : (rung[x] => rung'[x]) /\ (x = r => rung'[x])
    BY <2>1 DEF NodeTypes
  <2>3. \A c \in Chan : (RungFor(c) => RungFor(c)') /\ (c = d => RungFor(c)')
    BY <2>1, <2>2 DEF RungFor, ChanOf
  <2>4. \A t \in Role : Called(t) => Called(t)'
    BY <2>1 DEF Called
  <2>5. \A c \in Chan : ServerOf(c) \in Role /\ (c # d => tmp'[c] = tmp[c])
    BY <2>1 DEF Chan, Role, ServerOf, NodeTypes
  <2>6. \A c \in Chan : Served(c)'
    BY <2>3, <2>4, <2>5, StrandedMeans DEF Served, ServerOf
  <2> QED BY <2>6 DEF NoStranded, Served, RungFor, Called
<1>10. ASSUME NEW r \in Role, Ring(r) PROVE NoStranded'
  <2> DEFINE d == ChanOf(Head(hand[r]))
  <2>1. /\ rung[r] /\ rung' = [rung EXCEPT ![r] = FALSE]
        /\ hand[r] # <<>> /\ hand' = [hand EXCEPT ![r] = Tail(@)]
        /\ UNCHANGED <<pc, tmp>> /\ Raise(ServerOf(d), NORM)
    BY <1>10 DEF Ring, queVars
  <2>2. \A x \in Role : x # r => rung'[x] = rung[x] /\ hand'[x] = hand[x]
    BY <2>1 DEF NodeTypes
  <2>3. \A c \in Chan : RungFor(c) => c = d \/ RungFor(c)'
    BY <2>2 DEF RungFor, ChanOf
  <2>4. \A c \in Chan : ServerOf(c) \in Role
    BY DEF Chan, Role, ServerOf
  <2>5. d \in Chan
    BY <2>1, HandHead DEF ChanOf, Chan, MsgChan
  <2> HIDE DEF d
  <2>6. \A t \in Role : (Called(t) => Called(t)') /\ (t = ServerOf(d) => Called(t)')
    <3>1. PICK s \in Role : s = ServerOf(d) /\ Raise(s, NORM)
      BY <2>1, <2>4, <2>5
    <3>2. /\ stage'[s] = "ended" <=> stage[s] = "ended"
          /\ stage[s] # "ended" => req'[s] \cap {NORM, END} # {}
      BY <3>1, RaiseEffect
    <3>3. Called(s)'
      BY <3>2 DEF Called
    <3>4. \A t \in Role : Called(t) => Called(t)'
      BY <1>3, <2>1, <3>1
    <3> QED BY <3>1, <3>3, <3>4
  <2>7. \A c \in Chan : Served(c)'
    BY <2>1, <2>3, <2>4, <2>5, <2>6, StrandedMeans DEF Served, ServerOf
  <2> QED BY <2>7 DEF NoStranded, Served, RungFor, Called
<1> QED BY <1>1, <1>2, <1>4, <1>5, <1>6, <1>7, <1>8, <1>9, <1>10 DEF Shape

(* What was appended to a locked half is never left behind.                  *)
THEOREM NoneStranded == Spec => []NoStranded
<1>1. Init => NoStranded
  BY DEF Init, NoStranded
<1>2. NodeInv /\ NoStranded /\ [Next]_vars => NoStranded'
  BY NextShapes, StrandedStep DEF NodeInv
<1> QED BY <1>1, <1>2, ChainKept, PTL DEF Spec

-----------------------------------------------------------------------------
(* What the application sees of one socket *)

(* s numbers the messages that come after the first n. *)
Run(s, n) == \A i \in 1..Len(s) : s[i] = n + i

Typed(c) == /\ tmp[c] \in Seq(Nat) /\ que[c] \in Seq(Nat)
            /\ made[c] \in Nat /\ taken[c] \in Nat

QueTypes == /\ DOMAIN made = MsgChan /\ DOMAIN taken = MsgChan
            /\ \A c \in MsgChan : Typed(c)

Numbered(c) == /\ Run(que[c], taken[c])
               /\ Run(tmp[c], taken[c] + Len(que[c]))
               /\ made[c] = taken[c] + Len(que[c]) + Len(tmp[c])

MsgInv == QueTypes /\ (~Freed => \A c \in MsgChan : Numbered(c))

(* What each of the four threads may have to push at a time. *)
LastWord(r) == IF r = "rd" THEN "CLOSE_RD" ELSE IF r = "wr" THEN "CLOSE_WR"
               ELSE IF r = "deal" THEN "CLOSE_DEALER" ELSE "CLOSING"
Quiet(r) == {<<>>, <<"CLOSING">>, <<LastWord(r)>>}
Reading  == {<<"deal">>, <<"deal", "CLOSING">>}
Sending  == {<<"wr">>, <<"wr", "CLOSING">>}
Telling  == {<<"CONN_OK">>, <<"CONN_FAIL">>}
Word(r)  == Quiet(r) \cup IF r = "rd" THEN Reading ELSE IF r = "wr" THEN Telling ELSE Sending

Words == \A r \in Role : hand[r] \in Word(r)

(* Messages come to a node only when it is open, MaxMsg at most, and are      *)
(* given to the application one by one until it refuses one.                 *)
Reads == hand["rd"] \in Reading

Delivery ==
  /\ err \in [{"rd", "wr", "deal"} -> BOOLEAN]
  /\ Reads \/ made["deal"] > 0 => kind = "SOCK"
  /\ Reads /\ ~rung["rd"] => made["deal"] < MaxMsg
  /\ made["deal"] <= MaxMsg
  /\ ~err["deal"] => delivered = taken["deal"]

(* After a failed connect the sender never reports a success. *)
Settled(s) == \A i, j \in 1..Len(s) : i < j /\ s[i] = "CONN_FAIL" => s[j] # "CONN_OK"
Reports == hand["wr"] = <<"CONN_OK">> /\ ~rung["wr"]
Failed  == view = "failed" \/ "CONN_FAIL" \in Held

Outcomes ==
  /\ Settled(que["cmd"]) /\ Settled(tmp["cmd"])
  /\ "CONN_FAIL" \in ToSet(que["cmd"]) => "CONN_OK" \notin ToSet(tmp["cmd"])
  /\ Failed \/ hand["wr"] = <<"CONN_FAIL">> => broken
  /\ Failed => ~Reports
  /\ view = "failed" => "CONN_OK" \notin Held

Seen ==
  /\ kind \in {"SOCK", "CONNECTOR"}
  /\ ~Freed => view \in IF kind = "SOCK" THEN {"open"} ELSE {"connecting", "failed"}
  /\ Freed => view \in {"closed", "dropped"}

ViewInv == Words /\ Delivery /\ Outcomes /\ Seen

-----------------------------------------------------------------------------
(* Numbered queues *)

(* An empty queue holds nothing out of order. *)
LEMMA RunEmpty == \A n \in Nat : Run(<<>>, n)
BY DEF Run

(* list_add_back of the next message. *)
LEMMA RunAppend ==
  ASSUME NEW n \in Nat, NEW s \in Seq(Nat), Run(s, n)
  PROVE  LET a == Append(s, n + Len(s) + 1)
         IN  a \in Seq(Nat) /\ Len(a) = Len(s) + 1 /\ Run(a, n)
<1> DEFINE e == n + Len(s) + 1
           a == Append(s, e)
<1>1. Len(s) \in Nat /\ e \in Nat
  BY LenProperties
<1>2. /\ a \in Seq(Nat) /\ Len(a) = Len(s) + 1
      /\ \A i \in 1..Len(s) : a[i] = s[i]
      /\ a[Len(s) + 1] = e
  BY <1>1, AppendProperties
<1> HIDE DEF a
<1>3. ASSUME NEW i \in 1..Len(a) PROVE a[i] = n + i
  <2>1. CASE i \in 1..Len(s)
    BY <1>2, <2>1 DEF Run
  <2>2. CASE i = Len(s) + 1
    BY <1>1, <1>2, <2>2
  <2> QED BY <1>1, <1>2, <2>1, <2>2
<1>4. Run(a, n)
  BY <1>3 DEF Run
<1> QED BY <1>2, <1>4 DEF a

(* list_splice_back of what was pushed since. *)
LEMMA RunConcat ==
  ASSUME NEW n \in Nat, NEW s \in Seq(Nat), NEW t \in Seq(Nat), Run(s, n), Run(t, n + Len(s))
  PROVE  s \o t \in Seq(Nat) /\ Len(s \o t) = Len(s) + Len(t) /\ Run(s \o t, n)
<1> DEFINE c == s \o t
<1>1. Len(s) \in Nat /\ Len(t) \in Nat
  BY LenProperties
<1>2. /\ c \in Seq(Nat) /\ Len(c) = Len(s) + Len(t)
      /\ \A i \in 1..(Len(s) + Len(t)) : c[i] = IF i <= Len(s) THEN s[i] ELSE t[i - Len(s)]
  BY ConcatProperties
<1> HIDE DEF c
<1>3. ASSUME NEW i \in 1..Len(c) PROVE c[i] = n + i
  <2>1. CASE i <= Len(s)
    <3>1. i \in 1..Len(s) /\ c[i] = s[i]
      BY <1>1, <1>2, <2>1
    <3> QED BY <3>1 DEF Run
  <2>2. CASE i > Len(s)
    <3> DEFINE k == i - Len(s)
    <3>1. k \in 1..Len(t) /\ k + Len(s) = i
      BY <1>1, <1>2, <2>2
    <3>2. c[i] = t[k]
      BY <1>1, <1>2, <2>2
    <3> HIDE DEF k
    <3> QED BY <1>1, <3>1, <3>2 DEF Run
  <2> QED BY <1>1, <1>2, <2>1, <2>2
<1>4. Run(c, n)
  BY <1>3 DEF Run
<1> QED BY <1>2, <1>4 DEF c

(* The first k messages are taken off. *)
LEMMA RunDrop ==
  ASSUME NEW n \in Nat, NEW s \in Seq(Nat), NEW k \in 0..Len(s), Run(s, n)
  PROVE  LET d == SubSeq(s, k + 1, Len(s))
         IN  /\ d \in Seq(Nat) /\ Len(d) = Len(s) - k /\ Run(d, n + k)
             /\ k > 0 => s[k] = n + k
<1> DEFINE d == SubSeq(s, k + 1, Len(s))
<1>1. Len(s) \in Nat /\ \A i \in 1..Len(s) : s[i] \in Nat
  BY LenProperties, ElementOfSeq
<1>2. /\ d \in Seq(Nat) /\ Len(d) = IF k + 1 <= Len(s) THEN Len(s) - (k + 1) + 1 ELSE 0
      /\ \A i \in 1..(Len(s) - (k + 1) + 1) : d[i] = s[k + 1 + i - 1]
  BY <1>1, SubSeqProperties
<1> HIDE DEF d
<1>3. Len(d) = Len(s) - k
  BY <1>1, <1>2
<1>4. ASSUME NEW i \in 1..Len(d) PROVE d[i] = n + k + i
  <2>1. k + i \in 1..Len(s) /\ k + 1 + i - 1 = k + i
    BY <1>1, <1>3
  <2>2. d[i] = s[k + i]
    BY <1>1, <1>2, <1>3, <2>1
  <2> QED BY <2>1, <2>2 DEF Run
<1>5. Run(d, n + k) /\ (k > 0 => s[k] = n + k)
  BY <1>1, <1>4 DEF Run
<1> QED BY <1>2, <1>3, <1>5 DEF d

(* The first message is taken off. *)
LEMMA RunTail ==
  ASSUME NEW n \in Nat, NEW s \in Seq(Nat), s # <<>>, Run(s, n)
  PROVE  /\ Tail(s) \in Seq(Nat) /\ Len(Tail(s)) = Len(s) - 1 /\ Len(s) \in Nat
         /\ Head(s) = n + 1 /\ Run(Tail(s), n + 1)
<1> DEFINE t == Tail(s)
<1>1. /\ t \in Seq(Nat) /\ Len(t) = Len(s) - 1 /\ Len(s) \in Nat /\ Len(s) > 0
      /\ \A i \in 1..Len(t) : t[i] = s[i + 1]
      /\ Head(s) = s[1]
  BY HeadTailProperties, LenProperties, EmptySeq
<1> HIDE DEF t
<1>2. Head(s) = n + 1
  BY <1>1 DEF Run
<1>3. ASSUME NEW i \in 1..Len(t) PROVE t[i] = n + 1 + i
  BY <1>1, <1>3 DEF Run
<1>4. Run(t, n + 1)
  BY <1>3 DEF Run
<1> QED BY <1>1, <1>2, <1>4 DEF t

-----------------------------------------------------------------------------
(* First in, first out *)

(* A step that touches no message queue, and delNode. *)
Idles == UNCHANGED <<made, taken>> /\ \A c \in MsgChan : tmp'[c] = tmp[c] /\ que'[c] = que[c]

Empties == UNCHANGED <<made, taken>> /\ \A c \in MsgChan : tmp'[c] = <<>> /\ que'[c] = <<>>

(* Which steps touch a message queue, and that a freed node stays freed. *)
LEMMA FlowShapes ==
  ASSUME NodeInv, [Next]_vars
  PROVE  /\ Freed => Freed'
         /\ \/ Idles
            \/ \E r \in Role : Queue(r) \/ Splice(r)
            \/ DealNext \/ \E n \in 0..MaxSend : Write(n)
            \/ Freed' /\ Empties
<1> USE DEF NodeInv
<1>1. Freed => ~At("dir", "loop") /\ ~At("dir", "idle")
  BY DEF Chain, At
<1>2. ASSUME UNCHANGED <<status, queVars>> PROVE (Freed => Freed') /\ Idles
  BY <1>2 DEF Freed, Idles, queVars
<1>3. CASE ReadNothing \/ EndRead \/ (\E n \in 0..1 : ReadSome(n) \/ ReadError(n))
  BY <1>2, <1>3 DEF ReadNothing, EndRead, ReadSome, ReadError, RdChange, fdVars
<1>4. CASE CheckConnect \/ WriteError \/ EndWrite \/ EndWritten
  BY <1>2, <1>4 DEF CheckConnect, WriteError, EndWrite, EndWritten, RdChange, fdVars
<1>5. CASE \E n \in 0..MaxSend : Write(n)
  BY <1>5 DEF Write, fdVars, Freed
<1>6. CASE Discard \/ \E n \in 0..1, ok \in Answers : Process(n, ok)
  BY <1>6 DEF Discard, Process, DealNext, fdVars, Freed
<1>7. CASE DealDone \/ EndDeal \/ CmdDone \/ Break \/ Over \/ UNCHANGED vars
  BY <1>2, <1>7 DEF DealDone, EndDeal, CmdDone, Break, Over, vars, fdVars
<1>8. CASE \E d \in Side : EpollReady(d) \/ EpollFail(d)
  BY <1>2, <1>8 DEF EpollReady, EpollFail, fdVars
<1>9. ASSUME NEW c \in Cmd, NextCmd(c) PROVE (Freed => Freed') /\ Idles
  BY <1>1, <1>9 DEF NextCmd, Idles, MsgChan, NodeTypes
<1>10. CASE \/ CmdClosing \/ CmdClose("CLOSE_RD", "wr") \/ CmdClose("CLOSE_WR", "deal")
            \/ CmdClose("CLOSE_DEALER", "dir") \/ CmdFailed \/ CmdIgnored
            \/ \E n \in 0..1, ok \in Answers : CmdConnected(n, ok)
  <2>1. \E c \in Cmd : NextCmd(c)
    BY <1>10 DEF CmdClosing, CmdClose, CmdFailed, CmdIgnored, CmdConnected, Cmd, CloseStatus
  <2> QED BY <1>9, <2>1
<1>11. CASE EndNode
  BY <1>11 DEF EndNode, Freed, Empties, MsgChan, Chan
<1>12. CASE \E r \in Role : Common(r)
  <2>1. ASSUME NEW r \in Role, Queue(r) \/ Splice(r)
        PROVE  Freed => Freed'
    BY <2>1 DEF Queue, Splice, fdVars, Freed
  <2>2. ASSUME NEW r \in Role, Ring(r) \/ Begin(r) \/ Check(r) \/ Leave(r)
        PROVE  (Freed => Freed') /\ Idles
    <3>1. UNCHANGED <<status, queVars>>
      BY <2>2 DEF Ring, Begin, Check, Leave, fdVars
    <3> QED BY <1>2, <3>1
  <2> QED BY <1>12, <2>1, <2>2 DEF Common
<1> QED BY <1>3, <1>4, <1>5, <1>6, <1>7, <1>8, <1>10, <1>11, <1>12
        DEF Next, Receiver, Sender, Dealer, Commands

(* One channel is numbered still. *)
Keeps(c) == Typed(c)' /\ (Numbered(c) => Numbered(c)')

(* A push appends the next number. *)
LEMMA ChannelPushed ==
  ASSUME NEW c, Typed(c),
         tmp'[c] = Append(tmp[c], made[c] + 1), made'[c] = made[c] + 1,
         que'[c] = que[c], taken'[c] = taken[c]
  PROVE  Keeps(c)
<1> DEFINE s == tmp[c]
           n == taken[c] + Len(que[c])
<1>1. /\ s \in Seq(Nat) /\ que[c] \in Seq(Nat) /\ made[c] \in Nat /\ taken[c] \in Nat
      /\ Len(s) \in Nat /\ Len(que[c]) \in Nat /\ n \in Nat
  BY LenProperties DEF Typed
<1>2. Typed(c)'
  <2>1. made[c] + 1 \in Nat
    BY <1>1
  <2> QED BY <1>1, <2>1, AppendProperties DEF Typed
<1>3. ASSUME Numbered(c) PROVE Numbered(c)'
  <2>1. made[c] = n + Len(s) /\ Run(s, n) /\ Run(que[c], taken[c])
    BY <1>3 DEF Numbered
  <2> HIDE DEF s, n
  <2>2. /\ Append(s, made[c] + 1) \in Seq(Nat) /\ Len(Append(s, made[c] + 1)) = Len(s) + 1
        /\ Run(Append(s, made[c] + 1), n)
    BY <1>1, <2>1, RunAppend
  <2>3. /\ tmp'[c] = Append(s, made[c] + 1) /\ taken'[c] + Len(que'[c]) = n
        /\ taken'[c] \in Nat /\ Len(que'[c]) \in Nat
    BY <1>1 DEF s, n
  <2>4. made'[c] = taken'[c] + Len(que'[c]) + Len(tmp'[c])
    <3>1. made'[c] = n + Len(s) + 1
      BY <2>1
    <3>2. Len(tmp'[c]) = Len(s) + 1
      BY <2>2, <2>3
    <3> QED BY <1>1, <2>3, <3>1, <3>2
  <2> QED BY <2>1, <2>2, <2>3, <2>4 DEF Numbered
<1> QED BY <1>2, <1>3 DEF Keeps

(* A splice keeps the order. *)
LEMMA ChannelSpliced ==
  ASSUME NEW c, Typed(c),
         tmp'[c] = <<>>, que'[c] = que[c] \o tmp[c],
         made'[c] = made[c], taken'[c] = taken[c]
  PROVE  Keeps(c)
<1> DEFINE q == que[c]
           t == tmp[c]
           n == taken[c]
<1>1. /\ q \in Seq(Nat) /\ t \in Seq(Nat) /\ made[c] \in Nat /\ n \in Nat
      /\ Len(q) \in Nat /\ Len(t) \in Nat
  BY LenProperties DEF Typed
<1>2. Typed(c)'
  BY <1>1, ConcatProperties, EmptySeq DEF Typed
<1>3. ASSUME Numbered(c) PROVE Numbered(c)'
  <2>1. Run(q, n) /\ Run(t, n + Len(q)) /\ made[c] = n + Len(q) + Len(t)
    BY <1>3 DEF Numbered
  <2> HIDE DEF q, t, n
  <2>2. Len(q \o t) = Len(q) + Len(t) /\ Run(q \o t, n)
    BY <1>1, <2>1, RunConcat
  <2>3. n + Len(q \o t) \in Nat /\ Len(<<>>) = 0
    BY <1>1, <2>2
  <2>4. Run(<<>>, n + Len(q \o t))
    BY <2>3, RunEmpty
  <2>5. made[c] = n + Len(q \o t) + Len(<<>>)
    BY <1>1, <2>1, <2>2, <2>3
  <2> QED BY <2>2, <2>4, <2>5 DEF Numbered, q, t, n
<1> QED BY <1>2, <1>3 DEF Keeps

(* What is taken off is the oldest. *)
LEMMA ChannelTaken ==
  ASSUME NEW c, Typed(c), NEW k \in 0..Len(que[c]),
         que'[c] = SubSeq(que[c], k + 1, Len(que[c])),
         taken'[c] = (IF k = 0 THEN taken[c] ELSE que[c][k]),
         tmp'[c] = tmp[c], made'[c] = made[c]
  PROVE  Keeps(c)
<1> DEFINE q == que[c]
           t == tmp[c]
           n == taken[c]
           d == SubSeq(q, k + 1, Len(q))
<1>1. /\ q \in Seq(Nat) /\ t \in Seq(Nat) /\ made[c] \in Nat /\ n \in Nat
      /\ Len(q) \in Nat /\ Len(t) \in Nat /\ \A i \in 1..Len(q) : q[i] \in Nat
  BY LenProperties, ElementOfSeq DEF Typed
<1>2. d \in Seq(Nat)
  BY <1>1, SubSeqProperties
<1>3. Typed(c)'
  BY <1>1, <1>2 DEF Typed
<1>4. ASSUME Numbered(c) PROVE Numbered(c)'
  <2>1. Run(q, n) /\ Run(t, n + Len(q)) /\ made[c] = n + Len(q) + Len(t)
    BY <1>4 DEF Numbered
  <2> HIDE DEF q, t, n
  <2>2. Len(d) = Len(q) - k /\ Run(d, n + k) /\ (k > 0 => q[k] = n + k)
    BY <1>1, <2>1, RunDrop DEF q
  <2>3. que'[c] = d /\ tmp'[c] = t /\ made'[c] = made[c]
        /\ taken'[c] = IF k = 0 THEN n ELSE q[k]
    BY DEF q, t, n
  <2> HIDE DEF d
  <2>4. k \in Nat
    BY <1>1 DEF q
  <2>5. taken'[c] = n + k
    BY <1>1, <2>2, <2>3, <2>4
  <2>6. n + k + Len(d) = n + Len(q)
    BY <1>1, <2>2, <2>4
  <2> QED BY <2>1, <2>2, <2>3, <2>5, <2>6 DEF Numbered
<1> QED BY <1>3, <1>4 DEF Keeps

(* The queues of a node stay numbered until it is freed. *)
LEMMA MsgStep == NodeInv /\ MsgInv /\ [Next]_vars => MsgInv'
<1> SUFFICES ASSUME NodeInv, MsgInv, [Next]_vars PROVE MsgInv'
  OBVIOUS
<1>1. \A c \in MsgChan : Typed(c) /\ c \in Chan
  BY DEF MsgInv, QueTypes, Typed, MsgChan, Chan
<1>2. DOMAIN tmp = Chan /\ DOMAIN que = Chan /\ DOMAIN made = MsgChan /\ DOMAIN taken = MsgChan
  BY DEF NodeInv, NodeTypes, MsgInv, QueTypes
<1>3. ASSUME NEW c \in MsgChan, tmp'[c] = tmp[c], que'[c] = que[c],
             made'[c] = made[c], taken'[c] = taken[c]
      PROVE  Keeps(c)
  BY <1>1, <1>3 DEF Keeps, Typed, Numbered
<1>4. ASSUME DOMAIN made' = MsgChan, DOMAIN taken' = MsgChan, \A c \in MsgChan : Keeps(c)
      PROVE  MsgInv'
  BY <1>4, FlowShapes DEF MsgInv, QueTypes, Keeps
<1>5. CASE Idles
  BY <1>2, <1>3, <1>4, <1>5 DEF Idles
<1>6. CASE Freed' /\ Empties
  <2>1. \A c \in MsgChan : Typed(c)'
    BY <1>1, <1>6, EmptySeq DEF Empties, Typed
  <2> QED BY <1>2, <1>6, <2>1 DEF MsgInv, QueTypes, Empties
<1>7. ASSUME NEW r \in Role, Queue(r) PROVE MsgInv'
  <2> DEFINE x == Head(hand[r])
  <2>1. x \in Cmd \cup MsgChan /\ UNCHANGED <<que, taken>>
    BY <1>7, HandHead DEF Queue
  <2>2. CASE x \in Cmd
    <3>1. made' = made /\ \E q : tmp' = [tmp EXCEPT !["cmd"] = q]
      BY <1>7, <2>2 DEF Queue, ChanOf
    <3>2. Idles
      BY <1>2, <2>1, <3>1 DEF Idles, MsgChan
    <3> QED BY <1>5, <3>2
  <2>3. CASE x \notin Cmd
    <3>1. ChanOf(x) = x /\ x \in MsgChan /\ x # "cmd"
      BY <2>1, <2>3 DEF ChanOf, MsgChan
    <3>2. /\ tmp' = [tmp EXCEPT ![x] = Append(@, made[x] + 1)]
          /\ made' = [made EXCEPT ![x] = @ + 1]
      BY <1>7, <3>1 DEF Queue
    <3> HIDE DEF x
    <3>3. /\ tmp'[x] = Append(tmp[x], made[x] + 1) /\ made'[x] = made[x] + 1
          /\ DOMAIN made' = MsgChan
          /\ \A c \in MsgChan : c # x => tmp'[c] = tmp[c] /\ made'[c] = made[c]
      BY <1>1, <1>2, <3>1, <3>2
    <3>4. Keeps(x)
      BY <1>1, <2>1, <3>1, <3>3, ChannelPushed
    <3>5. \A c \in MsgChan : c # x => Keeps(c)
      BY <1>3, <2>1, <3>3
    <3> QED BY <1>2, <1>4, <2>1, <3>3, <3>4, <3>5
  <2> QED BY <2>2, <2>3
<1>8. ASSUME NEW r \in Role, Splice(r) PROVE MsgInv'
  <2>1. made' = made /\ taken' = taken
    BY <1>8 DEF Splice
  <2>2. CASE r \in {"rd", "dir"}
    <3>1. /\ \E c \in {"rd", "cmd"} : /\ \E q : tmp' = [tmp EXCEPT ![c] = q]
                                      /\ \E q : que' = [que EXCEPT ![c] = q]
      BY <1>8, <2>2 DEF Splice
    <3>2. Idles
      BY <1>2, <2>1, <3>1 DEF Idles, MsgChan
    <3> QED BY <1>5, <3>2
  <2>3. CASE r \in MsgChan
    <3>1. /\ tmp' = [tmp EXCEPT ![r] = <<>>] /\ que' = [que EXCEPT ![r] = @ \o tmp[r]]
      BY <1>8, <2>3 DEF Splice, MsgChan
    <3>2. /\ tmp'[r] = <<>> /\ que'[r] = que[r] \o tmp[r]
          /\ \A c \in MsgChan : c # r => tmp'[c] = tmp[c] /\ que'[c] = que[c]
      BY <1>1, <1>2, <2>3, <3>1
    <3>3. Keeps(r)
      BY <1>1, <2>1, <2>3, <3>2, ChannelSpliced
    <3>4. \A c \in MsgChan : c # r => Keeps(c)
      BY <1>3, <2>1, <3>2
    <3> QED BY <1>2, <1>4, <2>1, <3>3, <3>4
  <2> QED BY <2>2, <2>3 DEF Role, MsgChan
<1>9. ASSUME NEW c \in MsgChan, NEW k \in 0..Len(que[c]), DOMAIN taken' = MsgChan,
             que'[c] = SubSeq(que[c], k + 1, Len(que[c])),
             taken'[c] = (IF k = 0 THEN taken[c] ELSE que[c][k]),
             \A d \in MsgChan : d # c => que'[d] = que[d] /\ taken'[d] = taken[d],
             UNCHANGED <<tmp, made>>
      PROVE  MsgInv'
  <2>1. Keeps(c)
    BY <1>1, <1>9, ChannelTaken
  <2>2. \A d \in MsgChan : d # c => Keeps(d)
    BY <1>3, <1>9
  <2> QED BY <1>2, <1>4, <1>9, <2>1, <2>2
<1>10. ASSUME NEW n \in 0..MaxSend, Write(n) PROVE MsgInv'
  <2>1. /\ que' = [que EXCEPT !["wr"] = SubSeq(@, n + 1, Len(@))] /\ n <= Len(que["wr"])
        /\ taken' = [taken EXCEPT !["wr"] = IF n = 0 THEN @ ELSE que["wr"][n]]
        /\ UNCHANGED <<tmp, made>> /\ "wr" \in MsgChan
    BY <1>10 DEF Write, MsgChan
  <2>2. n \in 0..Len(que["wr"])
    BY <1>1, <2>1, LenProperties, LifeAssumption DEF Typed
  <2>3. /\ que'["wr"] = SubSeq(que["wr"], n + 1, Len(que["wr"]))
        /\ taken'["wr"] = (IF n = 0 THEN taken["wr"] ELSE que["wr"][n])
        /\ \A d \in MsgChan : d # "wr" => que'[d] = que[d] /\ taken'[d] = taken[d]
        /\ DOMAIN taken' = MsgChan
    BY <1>1, <1>2, <2>1
  <2> QED BY <1>9, <2>1, <2>2, <2>3
<1>11. CASE DealNext
  <2> DEFINE q == que["deal"]
  <2>1. /\ que' = [que EXCEPT !["deal"] = Tail(q)] /\ q # <<>>
        /\ taken' = [taken EXCEPT !["deal"] = Head(q)]
        /\ UNCHANGED <<tmp, made>> /\ "deal" \in MsgChan
    BY <1>11 DEF DealNext, MsgChan
  <2>2. q \in Seq(Nat)
    BY <1>1, <2>1 DEF Typed
  <2>3. PICK k \in 0..Len(q) : k = 1
    BY <2>1, <2>2, LenProperties, EmptySeq
  <2>4. Tail(q) = SubSeq(q, k + 1, Len(q)) /\ Head(q) = q[k] /\ k # 0
    BY <2>1, <2>2, <2>3, TailIsSubSeq
  <2>5. /\ que'["deal"] = Tail(q) /\ taken'["deal"] = Head(q) /\ DOMAIN taken' = MsgChan
        /\ \A d \in MsgChan : d # "deal" => que'[d] = que[d] /\ taken'[d] = taken[d]
    BY <1>1, <1>2, <2>1
  <2>6. /\ que'["deal"] = SubSeq(que["deal"], k + 1, Len(que["deal"]))
        /\ taken'["deal"] = (IF k = 0 THEN taken["deal"] ELSE que["deal"][k])
    BY <2>4, <2>5
  <2>7. k \in 0..Len(que["deal"])
    BY <2>3
  <2> QED BY <1>9, <2>1, <2>5, <2>6, <2>7
<1> QED BY <1>5, <1>6, <1>7, <1>8, <1>10, <1>11, FlowShapes

(* A node starts with empty queues. *)
LEMMA MsgInit == Init => MsgInv
<1>1. ASSUME Init, NEW c \in MsgChan PROVE Typed(c) /\ Numbered(c)
  <2>1. tmp[c] = <<>> /\ que[c] = <<>> /\ made[c] = 0 /\ taken[c] = 0
    BY <1>1 DEF Init, MsgChan, Chan
  <2>2. Len(<<>>) = 0 /\ <<>> \in Seq(Nat) /\ Run(<<>>, 0)
    BY EmptySeq, RunEmpty
  <2> QED BY <2>1, <2>2 DEF Typed, Numbered
<1> QED BY <1>1 DEF Init, MsgInv, QueTypes

(* Each message queue is first in, first out across its two halves, as long  *)
(* as the node lives.                                                       *)
THEOREM MessagesInOrder == Spec => []InOrder
<1>1. ASSUME MsgInv PROVE InOrder
  <2> SUFFICES ASSUME ~Freed, NEW c \in MsgChan
               PROVE  que[c] \o tmp[c] = [i \in 1..(made[c] - taken[c]) |-> taken[c] + i]
    BY DEF InOrder
  <2> DEFINE q == que[c]
             t == tmp[c]
             n == taken[c]
             m == made[c]
             all == q \o t
  <2>1. /\ q \in Seq(Nat) /\ t \in Seq(Nat) /\ n \in Nat /\ Len(q) \in Nat /\ Len(t) \in Nat
        /\ Run(q, n) /\ Run(t, n + Len(q)) /\ m = n + Len(q) + Len(t)
    BY <1>1, LenProperties DEF MsgInv, QueTypes, Typed, Numbered
  <2> HIDE DEF q, t, n, m
  <2>2. all \in Seq(Nat) /\ Len(all) = Len(q) + Len(t) /\ Run(all, n)
    BY <2>1, RunConcat
  <2> HIDE DEF all
  <2>3. Len(all) = m - n
    BY <2>1, <2>2
  <2>4. all = [i \in 1..Len(all) |-> all[i]]
    BY <2>2, LenProperties
  <2>5. \A i \in 1..(m - n) : all[i] = n + i
    BY <2>2, <2>3 DEF Run
  <2>6. all = [i \in 1..(m - n) |-> n + i]
    BY <2>3, <2>4, <2>5
  <2> QED BY <2>6 DEF all, q, t, n, m
<1> QED BY <1>1, MsgInit, ChainKept, MsgStep, PTL DEF Spec

-----------------------------------------------------------------------------
(* The shapes of the steps, as far as the callbacks go *)

Says(r, h) == hand[r] = <<>> /\ hand' = [hand EXCEPT ![r] = h] /\ UNCHANGED rung

(* Neither the messages and the commands nor the callbacks are touched. *)
Alike == /\ UNCHANGED <<made, kind, view, delivered, status>>
         /\ tmp'["cmd"] = tmp["cmd"] /\ que'["cmd"] = que["cmd"]
         /\ taken'["deal"] = taken["deal"] /\ (broken => broken')
         /\ err' \in [{"rd", "wr", "deal"} -> BOOLEAN] /\ err'["deal"] = err["deal"]

Mutters(r) == Alike /\ \E h \in Quiet(r) : Says(r, h)
Still      == Alike /\ UNCHANGED <<hand, rung>>

(* The receiver has read a message. *)
Receives == /\ Alike /\ kind = "SOCK" /\ made["deal"] < MaxMsg
            /\ \E h \in Reading : Says("rd", h)

(* The dealer takes a message off, and process sees it unless one was refused. *)
Takes == /\ \E h \in Quiet("deal") \cup Sending : Says("deal", h)
         /\ pc["deal"] # "gone"
         /\ que["deal"] # <<>> /\ taken'["deal"] = Head(que["deal"])
         /\ IF err["deal"] THEN err' = err /\ delivered' = delivered
            ELSE /\ err' \in [{"rd", "wr", "deal"} -> BOOLEAN]
                 /\ delivered' = Head(que["deal"])
         /\ UNCHANGED <<made, kind, view, status, broken>>
         /\ tmp'["cmd"] = tmp["cmd"] /\ que'["cmd"] = que["cmd"]

(* The director takes a command, which may be the outcome of a connect. *)
Hears == /\ \E h \in Quiet("dir") \cup Sending : Says("dir", h)
         /\ pc["dir"] # "gone" /\ status' # "END"
         /\ que["cmd"] # <<>> /\ que'["cmd"] = Tail(que["cmd"])
         /\ \/ UNCHANGED <<kind, view>>
            \/ /\ kind = "CONNECTOR" /\ Head(que["cmd"]) = "CONN_OK"
               /\ kind' = "SOCK" /\ view' = "open"
            \/ /\ kind = "CONNECTOR" /\ Head(que["cmd"]) = "CONN_FAIL"
               /\ kind' = kind /\ view' = "failed"
         /\ UNCHANGED <<made, taken, err, broken, delivered>> /\ tmp'["cmd"] = tmp["cmd"]

Tells == Alike /\ Says("wr", IF broken THEN <<"CONN_FAIL">> ELSE <<"CONN_OK">>)

ViewShape == \/ \E r \in Role : Queue(r) \/ Ring(r) \/ Splice(r) \/ Mutters(r)
             \/ Still \/ Receives \/ Takes \/ Hears \/ Tells \/ EndNode

(* Two pushes. *)
LEMMA TwoWords == ASSUME NEW x, NEW y
                  PROVE  Append(<<x>>, y) = <<x, y>> /\ <<x>> \o <<y>> = <<x, y>>
<1>1. ASSUME NEW a \in Seq({x, y}), Len(a) = 2, a[1] = x, a[2] = y
      PROVE  a = <<x, y>>
  <2>1. /\ <<x, y>> \in Seq({x, y}) /\ Len(<<x, y>>) = 2
        /\ <<x, y>>[1] = x /\ <<x, y>>[2] = y
    OBVIOUS
  <2> QED BY <1>1, <2>1, SeqEqual
<1>2. /\ <<x>> \in Seq({x, y}) /\ Len(<<x>>) = 1 /\ <<x>>[1] = x
      /\ <<y>> \in Seq({x, y}) /\ Len(<<y>>) = 1 /\ <<y>>[1] = y
  OBVIOUS
<1>3. Append(<<x>>, y) = <<x, y>>
  <2> DEFINE a == Append(<<x>>, y)
  <2>1. a \in Seq({x, y}) /\ Len(a) = 2 /\ a[1] = x /\ a[2] = y
    BY <1>2, AppendProperties
  <2> QED BY <1>1, <2>1
<1>4. <<x>> \o <<y>> = <<x, y>>
  <2> DEFINE a == <<x>> \o <<y>>
  <2>1. a \in Seq({x, y}) /\ Len(a) = 2 /\ a[1] = x /\ a[2] = y
    BY <1>2, ConcatProperties
  <2> QED BY <1>1, <2>1
<1> QED BY <1>3, <1>4

(* What the pushes of procTask and of the callbacks come to. *)
LEMMA WordsMade ==
  /\ Repeat("deal", 0) = <<>> /\ Append(Repeat("deal", 0), "CLOSING") = <<"CLOSING">>
  /\ \A n \in 0..1 : n # 0 => /\ Repeat("deal", n) \in Reading
                             /\ Append(Repeat("deal", n), "CLOSING") \in Reading
  /\ \A n \in 0..1, h \in {<<>>, <<"CLOSING">>} :
       Repeat("wr", n) \o h \in {<<>>, <<"CLOSING">>} \cup Sending
  /\ \A r \in Role : <<>> \in Quiet(r) /\ <<"CLOSING">> \in Quiet(r)
                      /\ <<LastWord(r)>> \in Quiet(r)
  /\ \A r \in Role : Quiet(r) \subseteq Word(r)
<1>1. ASSUME NEW x PROVE Repeat(x, 0) = <<>> /\ Repeat(x, 1) = <<x>>
  BY DEF Repeat
<1>2. \A n \in 0..1 : n = 0 \/ n = 1
  OBVIOUS
<1>3. Append(Repeat("deal", 0), "CLOSING") = <<"CLOSING">>
  <2>1. Append(<<>>, "CLOSING") = <<"CLOSING">>
    OBVIOUS
  <2> QED BY <1>1, <2>1
<1>4. ASSUME NEW n \in 0..1, n # 0
      PROVE  Repeat("deal", n) \in Reading /\ Append(Repeat("deal", n), "CLOSING") \in Reading
  <2>1. Repeat("deal", n) = <<"deal">>
    BY <1>1, <1>2, <1>4
  <2>2. Append(<<"deal">>, "CLOSING") = <<"deal", "CLOSING">>
    BY TwoWords
  <2> QED BY <2>1, <2>2 DEF Reading
<1>5. ASSUME NEW n \in 0..1, NEW h \in {<<>>, <<"CLOSING">>}
      PROVE  Repeat("wr", n) \o h \in {<<>>, <<"CLOSING">>} \cup Sending
  <2>1. /\ <<>> \o <<>> = <<>> /\ <<>> \o <<"CLOSING">> = <<"CLOSING">>
        /\ <<"wr">> \o <<>> = <<"wr">>
    OBVIOUS
  <2>2. <<"wr">> \o <<"CLOSING">> = <<"wr", "CLOSING">>
    BY TwoWords
  <2> QED BY <1>1, <1>2, <2>1, <2>2 DEF Sending
<1>6. /\ \A r \in Role : <<>> \in Quiet(r) /\ <<"CLOSING">> \in Quiet(r)
                          /\ <<LastWord(r)>> \in Quiet(r)
      /\ \A r \in Role : Quiet(r) \subseteq Word(r)
  BY DEF Quiet, Word, LastWord
<1> QED BY <1>1, <1>3, <1>4, <1>5, <1>6

(* The receiver's, the sender's and the dealer's steps have these shapes. *)
LEMMA SpeakShapes ==
  ASSUME NodeInv, MsgInv, ViewInv,
         Receiver \/ Sender \/ Dealer \/ \E r \in Role : Check(r) \/ Begin(r) \/ Leave(r)
  PROVE  ViewShape
<1> USE WordsMade DEF NodeInv, NodeTypes, ViewInv, Delivery, fdVars, queVars, viewVars, netVars
<1>1. {"rd", "wr", "deal", "dir"} = Role /\ "deal" \in MsgChan
  BY DEF Role, MsgChan
<1>2. ASSUME NEW r \in Role, NEW h \in Quiet(r), hand[r] = <<>>, NEW l, Goto(r, l, h), Alike
      PROVE  ViewShape
  BY <1>2 DEF Goto, ViewShape, Mutters, Says
<1>3. ASSUME UNCHANGED <<queVars, fdVars, err, netVars, viewVars>> PROVE Alike
  BY <1>3 DEF Alike
<1>4. ASSUME NEW r \in Role, Check(r) \/ Begin(r) \/ Leave(r) PROVE ViewShape
  BY <1>2, <1>3, <1>4 DEF Check, Begin, Leave, Return, At
<1>5. CASE ReadNothing \/ EndRead
  BY <1>1, <1>2, <1>3, <1>5 DEF ReadNothing, EndRead, Return, At, RdChange, LastWord
<1>6. CASE EndWrite \/ EndWritten
  BY <1>1, <1>2, <1>3, <1>6 DEF EndWrite, EndWritten, At, LastWord
<1>7. CASE EndDeal \/ DealDone
  BY <1>1, <1>2, <1>3, <1>7 DEF EndDeal, DealDone, Return, At, LastWord
<1>8. ASSUME NEW n \in 0..1, ReadSome(n) \/ ReadError(n) PROVE ViewShape
  <2>1. /\ hand["rd"] = <<>> /\ kind = "SOCK" /\ made["deal"] + n <= MaxMsg
        /\ UNCHANGED <<queVars, fdVars, netVars, viewVars>>
        /\ err' = err \/ err' = [err EXCEPT !["rd"] = TRUE]
    BY <1>8 DEF ReadSome, ReadError, RdChange, At
  <2>2. Alike
    BY <2>1 DEF Alike
  <2>3. CASE n = 0
    <3>1. Goto("rd", "leave", <<>>) \/ Goto("rd", "leave", <<"CLOSING">>)
      BY <1>8, <2>3 DEF ReadSome, ReadError, Return
    <3> QED BY <1>1, <1>2, <2>1, <2>2, <3>1
  <2>4. CASE n # 0
    <3>1. \E h \in Reading : Says("rd", h)
      BY <1>8, <2>1, <2>4 DEF ReadSome, ReadError, Return, Goto, Says
    <3>2. made["deal"] \in Nat
      BY <1>1 DEF MsgInv, QueTypes, Typed
    <3>3. made["deal"] < MaxMsg
      BY <2>1, <2>4, <3>2, LifeAssumption
    <3> QED BY <2>1, <2>2, <3>1, <3>3 DEF Receives, ViewShape
  <2> QED BY <2>3, <2>4
<1>9. ASSUME NEW n \in 0..MaxSend, WriteError \/ Write(n) PROVE ViewShape
  <2>1. /\ hand["wr"] = <<>> /\ UNCHANGED <<tmp, made, fdVars, viewVars, broken>>
        /\ que'["cmd"] = que["cmd"] /\ taken'["deal"] = taken["deal"]
        /\ err' = err \/ err' = [err EXCEPT !["wr"] = TRUE]
    BY <1>1, <1>9 DEF WriteError, Write, RdChange, At, MsgInv, QueTypes, Chan
  <2>2. Alike
    BY <2>1 DEF Alike
  <2>3. Goto("wr", "leave", <<>>) \/ Goto("wr", "leave", <<"CLOSING">>)
    BY <1>9 DEF WriteError, Write, Return
  <2> QED BY <1>1, <1>2, <2>1, <2>2, <2>3
<1>10. CASE CheckConnect
  <2>1. /\ UNCHANGED <<queVars, fdVars, netVars, viewVars>>
        /\ err' = err \/ err' = [err EXCEPT !["wr"] = TRUE]
        /\ Says("wr", IF broken THEN <<"CONN_FAIL">> ELSE <<"CONN_OK">>)
    BY <1>10 DEF CheckConnect, RdChange, At, Return, Goto, Says
  <2>2. Alike
    BY <2>1 DEF Alike
  <2> QED BY <2>1, <2>2 DEF Tells, ViewShape
<1>11. ASSUME DealNext, \E h \in Quiet("deal") \cup Sending : Goto("deal", "loop", h),
              IF err["deal"] THEN err' = err /\ delivered' = delivered
              ELSE \E x \in BOOLEAN : /\ err' = [err EXCEPT !["deal"] = x]
                                      /\ delivered' = Head(que["deal"])
       PROVE  ViewShape
  <2>1. /\ hand["deal"] = <<>> /\ pc["deal"] # "gone" /\ que["deal"] # <<>>
        /\ UNCHANGED <<made, kind, view, status, broken, tmp>>
        /\ taken'["deal"] = Head(que["deal"]) /\ que'["cmd"] = que["cmd"]
    BY <1>1, <1>11 DEF DealNext, At, MsgInv, QueTypes, Chan
  <2>2. \E h \in Quiet("deal") \cup Sending : Says("deal", h)
    BY <1>11, <2>1 DEF Goto, Says
  <2>3. IF err["deal"] THEN err' = err /\ delivered' = delivered
        ELSE /\ err' \in [{"rd", "wr", "deal"} -> BOOLEAN]
             /\ delivered' = Head(que["deal"])
    BY <1>11
  <2> QED BY <2>1, <2>2, <2>3 DEF Takes, ViewShape
<1>12. CASE Discard
  <2>1. DealNext /\ Goto("deal", "loop", <<>>) /\ err["deal"] /\ UNCHANGED <<err, delivered>>
    BY <1>12 DEF Discard
  <2> QED BY <1>1, <1>11, <2>1
<1>13. ASSUME NEW n \in 0..1, NEW ok \in Answers, Process(n, ok) PROVE ViewShape
  <2>1. ok \in BOOLEAN
    BY DEF Answers
  <2>2. DealNext /\ ~err["deal"] /\ delivered' = Head(que["deal"])
        /\ err' = [err EXCEPT !["deal"] = ~ok]
    BY <1>13 DEF Process
  <2>3. \E h \in Quiet("deal") \cup Sending : Goto("deal", "loop", h)
    <3>1. PICK h \in {<<>>, <<"CLOSING">>} : h = IF ok THEN <<>> ELSE <<"CLOSING">>
      OBVIOUS
    <3>2. Goto("deal", "loop", Repeat("wr", n) \o h)
      BY <1>13, <3>1 DEF Process
    <3>3. Repeat("wr", n) \o h \in {<<>>, <<"CLOSING">>} \cup Sending
      BY <3>1
    <3>4. PICK w \in {<<>>, <<"CLOSING">>} \cup Sending : Goto("deal", "loop", w)
      BY <3>2, <3>3
    <3>5. w \in Quiet("deal") \cup Sending
      BY DEF Quiet
    <3> QED BY <3>4, <3>5
  <2>4. \E x \in BOOLEAN : err' = [err EXCEPT !["deal"] = x]
    BY <2>1, <2>2
  <2> QED BY <1>11, <2>2, <2>3, <2>4
<1>14. 0 \in 0..MaxSend
  BY LifeAssumption
<1> QED BY <1>4, <1>5, <1>6, <1>7, <1>8, <1>9, <1>10, <1>12, <1>13, <1>14
        DEF Receiver, Sender, Dealer

(* So do the director's, epoll's and all the others. *)
LEMMA ViewShapes == ASSUME NodeInv, MsgInv, ViewInv, [Next]_vars PROVE ViewShape
<1> USE WordsMade DEF NodeInv, NodeTypes, ViewInv, Delivery, fdVars, queVars, viewVars, netVars
<1>1. "dir" \in Role /\ "cmd" \in Chan
  BY DEF Role, Chan
<1>2. CASE Receiver \/ Sender \/ Dealer \/ \E r \in Role : Common(r)
  BY <1>2, SpeakShapes DEF Common, ViewShape
<1>3. CASE CmdDone \/ \E d \in Side : EpollFail(d)
  <2>1. \E h \in Quiet("dir") : Says("dir", h)
    BY <1>1, <1>3 DEF CmdDone, EpollFail, At, Return, Goto, Says
  <2>2. /\ UNCHANGED <<queVars, fdVars, viewVars, broken>>
        /\ err' = err \/ err' = [err EXCEPT !["rd"] = TRUE, !["wr"] = TRUE]
    BY <1>3 DEF CmdDone, EpollFail
  <2>3. Alike
    BY <2>2 DEF Alike
  <2> QED BY <1>1, <2>1, <2>3 DEF Mutters, ViewShape
<1>4. ASSUME NEW c \in Cmd, NextCmd(c), NEW h, Goto("dir", "loop", h),
             h \in Quiet("dir") \cup Sending, status' # "END" \/ status' = status,
             \/ UNCHANGED <<kind, view>>
             \/ kind = "CONNECTOR" /\ c = "CONN_OK" /\ kind' = "SOCK" /\ view' = "open"
             \/ kind = "CONNECTOR" /\ c = "CONN_FAIL" /\ kind' = kind /\ view' = "failed"
      PROVE  ViewShape
  <2>1. /\ Says("dir", h) /\ pc["dir"] = "loop"
        /\ que["cmd"] # <<>> /\ que'["cmd"] = Tail(que["cmd"]) /\ Head(que["cmd"]) = c
        /\ UNCHANGED <<made, taken, err, broken, delivered>> /\ tmp'["cmd"] = tmp["cmd"]
    BY <1>1, <1>4 DEF NextCmd, At, Goto, Says
  <2>2. ~Freed
    BY <2>1 DEF Chain
  <2>3. pc["dir"] # "gone" /\ status' # "END"
    BY <1>4, <2>1, <2>2 DEF Freed
  <2> QED BY <1>4, <2>1, <2>3 DEF Hears, ViewShape
<1>5. CASE CmdClosing
  BY <1>1, <1>4, <1>5 DEF CmdClosing, Stay, Cmd, CloseStatus
<1>6. CASE \/ CmdClose("CLOSE_RD", "wr") \/ CmdClose("CLOSE_WR", "deal")
           \/ CmdClose("CLOSE_DEALER", "dir")
  BY <1>1, <1>4, <1>6 DEF CmdClose, SetStatus, Stay, Cmd, CloseStatus
<1>7. CASE CmdFailed \/ CmdIgnored
  BY <1>1, <1>4, <1>7 DEF CmdFailed, CmdIgnored, Stay, Cmd
<1>8. ASSUME NEW n \in 0..1, NEW ok \in Answers, CmdConnected(n, ok) PROVE ViewShape
  <2>1. PICK h \in {<<>>, <<"CLOSING">>} : h = IF ok THEN <<>> ELSE <<"CLOSING">>
    OBVIOUS
  <2>2. Goto("dir", "loop", Repeat("wr", n) \o h)
    BY <1>8, <2>1 DEF CmdConnected
  <2>3. Repeat("wr", n) \o h \in {<<>>, <<"CLOSING">>} \cup Sending
    BY <2>1
  <2>4. PICK w \in {<<>>, <<"CLOSING">>} \cup Sending : Goto("dir", "loop", w)
    BY <2>2, <2>3
  <2>5. w \in Quiet("dir") \cup Sending
    BY DEF Quiet
  <2> QED BY <1>4, <1>8, <2>4, <2>5 DEF CmdConnected, Cmd
<1>9. CASE EndNode
  BY <1>9 DEF ViewShape
<1>10. CASE Break \/ Over \/ UNCHANGED vars \/ \E d \in Side : EpollReady(d)
  <2>1. UNCHANGED <<queVars, fdVars, err, viewVars, hand, rung>> /\ (broken => broken')
    BY <1>10 DEF Break, Over, vars, EpollReady, thrVars
  <2>2. Alike
    BY <2>1 DEF Alike
  <2> QED BY <2>1, <2>2 DEF Still, ViewShape
<1> QED BY <1>2, <1>3, <1>5, <1>6, <1>7, <1>8, <1>9, <1>10 DEF Next, Commands

-----------------------------------------------------------------------------
(* The order of the outcomes of a connect *)

(* A success is appended only while no failure waits. *)
LEMMA SettledAppend ==
  ASSUME NEW s \in Seq(Cmd), NEW x \in Cmd, Settled(s),
         x = "CONN_OK" => "CONN_FAIL" \notin ToSet(s)
  PROVE  Settled(Append(s, x))
<1> DEFINE a == Append(s, x)
<1>1. /\ Len(a) = Len(s) + 1 /\ Len(s) \in Nat /\ DOMAIN s = 1..Len(s)
      /\ \A i \in 1..Len(s) : a[i] = s[i]
      /\ a[Len(s) + 1] = x
  BY AppendProperties, LenProperties
<1> HIDE DEF a
<1>2. ASSUME NEW i \in 1..Len(a), NEW j \in 1..Len(a), i < j, a[i] = "CONN_FAIL"
      PROVE  a[j] # "CONN_OK"
  <2>1. i \in 1..Len(s) /\ s[i] = "CONN_FAIL"
    BY <1>1, <1>2
  <2>2. CASE j \in 1..Len(s)
    BY <1>1, <1>2, <2>1, <2>2 DEF Settled
  <2>3. CASE j = Len(s) + 1
    BY <1>1, <2>1, <2>3 DEF ToSet
  <2> QED BY <1>1, <2>2, <2>3
<1> QED BY <1>2 DEF Settled, a

(* A splice keeps the outcomes in order. *)
LEMMA SettledConcat ==
  ASSUME NEW s \in Seq(Cmd), NEW t \in Seq(Cmd), Settled(s), Settled(t),
         "CONN_FAIL" \in ToSet(s) => "CONN_OK" \notin ToSet(t)
  PROVE  Settled(s \o t)
<1> DEFINE a == s \o t
<1>1. /\ Len(a) = Len(s) + Len(t) /\ Len(s) \in Nat /\ Len(t) \in Nat
      /\ DOMAIN s = 1..Len(s) /\ DOMAIN t = 1..Len(t)
      /\ \A i \in 1..(Len(s) + Len(t)) : a[i] = IF i <= Len(s) THEN s[i] ELSE t[i - Len(s)]
  BY ConcatProperties, LenProperties
<1> HIDE DEF a
<1>2. ASSUME NEW i \in 1..Len(a), NEW j \in 1..Len(a), i < j, a[i] = "CONN_FAIL"
      PROVE  a[j] # "CONN_OK"
  <2>1. CASE j <= Len(s)
    <3>1. i \in 1..Len(s) /\ j \in 1..Len(s) /\ a[i] = s[i] /\ a[j] = s[j]
      BY <1>1, <1>2, <2>1
    <3> QED BY <1>2, <3>1 DEF Settled
  <2>2. CASE i > Len(s)
    <3>1. /\ i - Len(s) \in 1..Len(t) /\ j - Len(s) \in 1..Len(t)
          /\ a[i] = t[i - Len(s)] /\ a[j] = t[j - Len(s)] /\ i - Len(s) < j - Len(s)
      BY <1>1, <1>2, <2>2
    <3> QED BY <1>2, <3>1 DEF Settled
  <2>3. CASE i <= Len(s) /\ j > Len(s)
    <3>1. /\ i \in DOMAIN s /\ j - Len(s) \in DOMAIN t
          /\ a[i] = s[i] /\ a[j] = t[j - Len(s)]
      BY <1>1, <1>2, <2>3
    <3>2. "CONN_FAIL" \in ToSet(s)
      BY <1>2, <3>1 DEF ToSet
    <3>3. t[j - Len(s)] \in ToSet(t)
      BY <3>1 DEF ToSet
    <3> QED BY <3>1, <3>2, <3>3
  <2> QED BY <1>1, <2>1, <2>2, <2>3
<1> QED BY <1>2 DEF Settled, a

(* After a failure was taken off no success follows. *)
LEMMA SettledTail ==
  ASSUME NEW s \in Seq(Cmd), s # <<>>, Settled(s)
  PROVE  Settled(Tail(s)) /\ (Head(s) = "CONN_FAIL" => "CONN_OK" \notin ToSet(Tail(s)))
<1> DEFINE t == Tail(s)
<1>1. /\ t \in Seq(Cmd) /\ Len(t) = Len(s) - 1 /\ Len(s) \in Nat /\ Len(s) > 0
      /\ \A i \in 1..Len(t) : t[i] = s[i + 1]
      /\ Head(s) = s[1] /\ DOMAIN t = 1..Len(t)
  BY HeadTailProperties, LenProperties, EmptySeq
<1> HIDE DEF t
<1>2. \A i \in 1..Len(t) : i + 1 \in 1..Len(s) /\ 1 < i + 1
  BY <1>1
<1>3. Settled(t)
  BY <1>1, <1>2 DEF Settled
<1>4. ASSUME Head(s) = "CONN_FAIL", NEW i \in 1..Len(t) PROVE t[i] # "CONN_OK"
  <2>1. 1 \in 1..Len(s)
    BY <1>1
  <2> QED BY <1>1, <1>2, <1>4, <2>1 DEF Settled
<1>5. Head(s) = "CONN_FAIL" => "CONN_OK" \notin ToSet(t)
  BY <1>1, <1>4 DEF ToSet
<1> QED BY <1>3, <1>5 DEF t

-----------------------------------------------------------------------------
(* The four parts of the invariant are kept *)

(* Which push comes first, and what is left after it. *)
LEMMA FirstWord ==
  ASSUME NEW r \in Role, NEW w \in Word(r), w # <<>>
  PROVE  /\ Head(w) = "deal" <=> w \in Reading
         /\ Head(w) = "CONN_OK" <=> w = <<"CONN_OK">>
         /\ Head(w) = "CONN_FAIL" <=> w = <<"CONN_FAIL">>
         /\ Tail(w) \in {<<>>, <<"CLOSING">>}
         /\ w \in Reading => r = "rd"
         /\ w \in Telling => r = "wr"
<1>1. ASSUME NEW x PROVE Head(<<x>>) = x /\ Tail(<<x>>) = <<>>
  OBVIOUS
<1>2. ASSUME NEW x, NEW y PROVE Head(<<x, y>>) = x /\ Tail(<<x, y>>) = <<y>>
  OBVIOUS
<1> DEFINE Single == {"CLOSING", "CLOSE_RD", "CLOSE_WR", "CLOSE_DEALER", "wr", "deal",
                      "CONN_OK", "CONN_FAIL"}
<1>3. \/ \E x \in Single : /\ w = <<x>> /\ (x = "deal" => r = "rd")
                           /\ (x \in {"CONN_OK", "CONN_FAIL"} => r = "wr")
      \/ \E x \in {"wr", "deal"} : w = <<x, "CLOSING">> /\ (x = "deal" => r = "rd")
  BY DEF Word, Quiet, LastWord, Reading, Telling, Sending
<1>4. ASSUME NEW x \in Single, w = <<x>>, x = "deal" => r = "rd",
             x \in {"CONN_OK", "CONN_FAIL"} => r = "wr"
      PROVE  /\ Head(w) = x /\ Tail(w) = <<>> /\ (w \in Reading <=> x = "deal")
             /\ (w = <<"CONN_OK">> <=> x = "CONN_OK")
             /\ (w = <<"CONN_FAIL">> <=> x = "CONN_FAIL")
  BY <1>1, <1>4 DEF Reading
<1>5. ASSUME NEW x \in {"wr", "deal"}, w = <<x, "CLOSING">>, x = "deal" => r = "rd"
      PROVE  /\ Head(w) = x /\ Tail(w) = <<"CLOSING">> /\ (w \in Reading <=> x = "deal")
             /\ w # <<"CONN_OK">> /\ w # <<"CONN_FAIL">>
  <2>1. Len(w) = 2 /\ w[1] = x
    BY <1>5
  <2>2. Len(<<"CONN_OK">>) = 1 /\ Len(<<"CONN_FAIL">>) = 1 /\ Len(<<"deal">>) = 1
        /\ <<"deal", "CLOSING">>[1] = "deal"
    OBVIOUS
  <2>3. w \in Reading <=> x = "deal"
    BY <1>5, <2>1, <2>2 DEF Reading
  <2> QED BY <1>2, <1>5, <2>1, <2>2, <2>3
<1>6. CASE \E x \in {"wr", "deal"} : w = <<x, "CLOSING">> /\ (x = "deal" => r = "rd")
  <2>1. w # <<"CONN_OK">> /\ w # <<"CONN_FAIL">> /\ w \notin Telling
    BY <1>5, <1>6 DEF Telling
  <2> QED BY <1>5, <1>6, <2>1
<1> HIDE DEF Single
<1>7. ASSUME NEW x \in Single, w = <<x>>, x = "deal" => r = "rd",
             x \in {"CONN_OK", "CONN_FAIL"} => r = "wr"
      PROVE  /\ Head(w) = "deal" <=> w \in Reading
             /\ Head(w) = "CONN_OK" <=> w = <<"CONN_OK">>
             /\ Head(w) = "CONN_FAIL" <=> w = <<"CONN_FAIL">>
             /\ Tail(w) \in {<<>>, <<"CLOSING">>}
             /\ w \in Reading => r = "rd"
             /\ w \in Telling => r = "wr"
  <2>2. /\ Head(w) = x /\ Tail(w) = <<>> /\ (w \in Reading <=> x = "deal")
        /\ (w = <<"CONN_OK">> <=> x = "CONN_OK")
        /\ (w = <<"CONN_FAIL">> <=> x = "CONN_FAIL")
    BY <1>4, <1>7
  <2>3. w \in Telling <=> x \in {"CONN_OK", "CONN_FAIL"}
    BY <2>2 DEF Telling
  <2> QED BY <1>7, <2>2, <2>3
<1> QED BY <1>3, <1>6, <1>7

(* Each thread pushes only what it has the words for. *)
LEMMA WordsKept == ASSUME NodeInv, Words, ViewShape PROVE Words'
<1>1. ASSUME NEW r \in Role, NEW h \in Word(r), hand' = [hand EXCEPT ![r] = h]
      PROVE  Words'
  BY <1>1 DEF NodeInv, NodeTypes, Words
<1>2. ASSUME UNCHANGED hand PROVE Words'
  BY <1>2 DEF Words
<1>3. ASSUME NEW r \in Role, Ring(r) PROVE Words'
  <2>1. hand[r] # <<>> /\ hand' = [hand EXCEPT ![r] = Tail(hand[r])] /\ hand[r] \in Word(r)
    BY <1>3 DEF Ring, Words
  <2>2. Tail(hand[r]) \in Word(r)
    BY <2>1, FirstWord DEF Word, Quiet
  <2> QED BY <1>1, <2>1, <2>2
<1>4. ASSUME NEW r \in Role, NEW h \in Word(r), Says(r, h) PROVE Words'
  BY <1>1, <1>4 DEF Says
<1>5. ASSUME NEW r \in Role, Splice(r) \/ (r = "dir" /\ EndNode) PROVE Words'
  BY <1>1, <1>5, WordsMade DEF Splice, EndNode, Goto
<1>6. ASSUME NEW r \in Role, Mutters(r) PROVE Words'
  BY <1>4, <1>6, WordsMade DEF Mutters
<1>7. CASE Receives \/ Takes \/ Hears \/ Tells
  <2>1. /\ {"rd", "deal", "dir", "wr"} = Role /\ Reading \subseteq Word("rd")
        /\ Quiet("deal") \cup Sending = Word("deal") /\ Quiet("dir") \cup Sending = Word("dir")
        /\ <<"CONN_OK">> \in Word("wr") /\ <<"CONN_FAIL">> \in Word("wr")
    BY DEF Role, Word, Telling
  <2>2. CASE Receives \/ Takes \/ Hears
    BY <1>4, <1>7, <2>1, <2>2 DEF Receives, Takes, Hears
  <2>3. CASE Tells
    BY <1>4, <2>1, <2>3 DEF Tells
  <2> QED BY <1>7, <2>2, <2>3
<1> QED BY <1>2, <1>3, <1>5, <1>6, <1>7 DEF ViewShape, Still, Queue, Role

(* Messages come to an open node only, and reach the application in order. *)
LEMMA DeliveryKept ==
  ASSUME NodeInv, MsgInv, Words, Delivery, ViewShape PROVE Delivery'
<1> USE DEF NodeInv, NodeTypes
<1>1. /\ {"rd", "wr", "deal", "dir"} = Role /\ {"deal", "wr"} = MsgChan
      /\ made["deal"] \in Nat /\ DOMAIN made = MsgChan
  BY DEF Role, MsgChan, MsgInv, QueTypes, Typed
<1>2. \A r \in Role : /\ r # "rd" => Word(r) \cap Reading = {}
                      /\ Quiet(r) \cap Reading = {} /\ <<>> \in Quiet(r)
  <2>1. /\ <<>> \notin Reading /\ Sending \cap Reading = {} /\ Telling \cap Reading = {}
        /\ \A x \in {"CLOSING", "CLOSE_RD", "CLOSE_WR", "CLOSE_DEALER"} : <<x>> \notin Reading
    BY DEF Reading, Sending, Telling
  <2> QED BY <2>1 DEF Word, Quiet, LastWord
<1>3. ASSUME kind' = kind \/ kind' = "SOCK", made'["deal"] = made["deal"],
             Reads' => Reads /\ (rung["rd"] => rung'["rd"]),
             err' \in [{"rd", "wr", "deal"} -> BOOLEAN], err'["deal"] = err["deal"],
             delivered' = delivered, taken'["deal"] = taken["deal"]
      PROVE  Delivery'
  BY <1>3 DEF Delivery
<1>4. ASSUME NEW r \in Role, NEW h, h \notin Reading, hand' = [hand EXCEPT ![r] = h],
             r # "rd" => rung'["rd"] = rung["rd"]
      PROVE  Reads' => Reads /\ (rung["rd"] => rung'["rd"])
  BY <1>1, <1>4 DEF Reads
<1>5. ASSUME NEW r \in Role, Mutters(r) PROVE Delivery'
  <2>1. PICK h \in Quiet(r) : Says(r, h)
    BY <1>5 DEF Mutters
  <2>2. h \notin Reading
    BY <1>2
  <2> QED BY <1>1, <1>3, <1>4, <1>5, <2>1, <2>2 DEF Mutters, Alike, Says
<1>6. CASE Still
  BY <1>1, <1>3, <1>6 DEF Still, Alike, Reads
<1>7. ASSUME NEW r \in Role, Splice(r) \/ (r = "dir" /\ EndNode) PROVE Delivery'
  <2>1. /\ hand' = [hand EXCEPT ![r] = <<>>] /\ UNCHANGED <<rung, made, taken, kind, err, delivered>>
    BY <1>7 DEF Splice, EndNode, Goto, fdVars, viewVars
  <2> QED BY <1>1, <1>2, <1>3, <1>4, <2>1 DEF Delivery
<1>8. ASSUME NEW r \in Role, Ring(r) PROVE Delivery'
  <2>1. /\ hand' = [hand EXCEPT ![r] = Tail(hand[r])] /\ hand[r] # <<>> /\ hand[r] \in Word(r)
        /\ rung' = [rung EXCEPT ![r] = FALSE]
        /\ UNCHANGED <<made, taken, kind, err, delivered>>
    BY <1>8 DEF Ring, Words, queVars, fdVars, viewVars
  <2>2. Tail(hand[r]) \in {<<>>, <<"CLOSING">>}
    BY <2>1, FirstWord
  <2>3. Tail(hand[r]) \notin Reading
    BY <1>2, <2>2 DEF Quiet
  <2>4. r # "rd" => rung'["rd"] = rung["rd"]
    BY <1>1, <2>1
  <2> QED BY <1>1, <1>3, <1>4, <2>1, <2>3, <2>4 DEF Delivery
<1>9. CASE Hears \/ Tells
  <2>1. \E r \in {"dir", "wr"} : \E h \in Word(r) : Says(r, h)
    BY <1>9 DEF Hears, Tells, Word, Telling
  <2>2. /\ UNCHANGED <<made, rung, delivered>> /\ (kind' = kind \/ kind' = "SOCK")
        /\ taken'["deal"] = taken["deal"]
        /\ err' \in [{"rd", "wr", "deal"} -> BOOLEAN] /\ err'["deal"] = err["deal"]
    BY <1>9 DEF Hears, Tells, Alike, Says, Delivery
  <2>3. PICK r \in {"dir", "wr"} : \E h \in Word(r) : Says(r, h)
    BY <2>1
  <2>4. PICK h \in Word(r) : Says(r, h)
    BY <2>3
  <2>5. r \in Role /\ h \notin Reading
    BY <1>1, <1>2
  <2> QED BY <1>1, <1>3, <1>4, <2>2, <2>4, <2>5 DEF Says
<1>10. CASE Takes
  <2>1. PICK h \in Word("deal") : Says("deal", h)
    BY <1>10 DEF Takes, Word
  <2>2. Reads' => Reads /\ (rung["rd"] => rung'["rd"])
    BY <1>1, <1>2, <1>4, <2>1 DEF Says
  <2>3. UNCHANGED <<made, kind>>
    BY <1>10 DEF Takes
  <2>4. CASE err["deal"]
    BY <1>10, <2>2, <2>3, <2>4 DEF Takes, Delivery
  <2>5. CASE ~err["deal"]
    BY <1>10, <2>2, <2>3, <2>5 DEF Takes, Delivery
  <2> QED BY <2>4, <2>5
<1>11. CASE Receives
  BY <1>1, <1>11 DEF Receives, Alike, Says, Delivery
<1>12. ASSUME NEW r \in Role, Queue(r) PROVE Delivery'
  <2> DEFINE x == Head(hand[r])
  <2>1. /\ hand[r] # <<>> /\ hand[r] \in Word(r) /\ ~rung[r] /\ rung' = [rung EXCEPT ![r] = TRUE]
        /\ UNCHANGED <<hand, taken, kind, err, delivered>>
        /\ IF ChanOf(x) = "cmd" THEN UNCHANGED made
           ELSE made' = [made EXCEPT ![ChanOf(x)] = @ + 1]
    BY <1>12 DEF Queue, Words, fdVars, viewVars
  <2>2. (rung["rd"] => rung'["rd"]) /\ (r = "rd" => rung'["rd"])
    BY <1>1, <2>1
  <2>3. CASE x = "deal"
    <3>1. r = "rd" /\ Reads
      BY <2>1, <2>3, FirstWord DEF Reads
    <3>2. made'["deal"] = made["deal"] + 1
      BY <1>1, <2>1, <2>3 DEF ChanOf, Cmd, CloseStatus
    <3> QED BY <1>1, <2>1, <2>2, <3>1, <3>2, LifeAssumption DEF Delivery, Reads
  <2>4. CASE x # "deal"
    <3>1. made'["deal"] = made["deal"]
      BY <1>1, <2>1, <2>4 DEF ChanOf
    <3> QED BY <1>3, <2>1, <2>2, <3>1 DEF Delivery, Reads
  <2> QED BY <2>3, <2>4
<1> QED BY <1>1, <1>5, <1>6, <1>7, <1>8, <1>9, <1>10, <1>11, <1>12 DEF ViewShape

(* Once a connect has failed no success is reported any more. *)
LEMMA OutcomesKept ==
  ASSUME NodeInv, Words, Outcomes, ViewShape PROVE Outcomes'
<1> USE DEF NodeInv, NodeTypes
<1>1. /\ {"rd", "wr", "deal", "dir"} = Role /\ "cmd" \in Chan /\ "cmd" \notin MsgChan
      /\ "cmd" \notin Role /\ {"CONN_OK", "CONN_FAIL"} \subseteq Cmd
  BY DEF Role, MsgChan, Chan, Cmd
<1>2. ASSUME tmp'["cmd"] = tmp["cmd"], que'["cmd"] = que["cmd"],
             view' = "failed" => view = "failed", broken => broken',
             hand'["wr"] = <<"CONN_FAIL">> => hand["wr"] = <<"CONN_FAIL">>, Reports' => Reports
      PROVE  Outcomes'
  BY <1>2 DEF Outcomes, Failed, Held
<1>3. ASSUME NEW r \in Role, NEW h, hand' = [hand EXCEPT ![r] = h], h \notin Telling \/ r # "wr",
             r # "wr" => rung'["wr"] = rung["wr"]
      PROVE  /\ hand'["wr"] = <<"CONN_FAIL">> => hand["wr"] = <<"CONN_FAIL">>
             /\ Reports' => Reports
  BY <1>1, <1>3 DEF Reports, Telling
<1>4. \A r \in Role : (Quiet(r) \cup Sending \cup Reading) \cap Telling = {}
  <2>1. /\ <<>> \notin Telling /\ Sending \cap Telling = {} /\ Reading \cap Telling = {}
        /\ \A x \in {"CLOSING", "CLOSE_RD", "CLOSE_WR", "CLOSE_DEALER"} : <<x>> \notin Telling
    BY DEF Reading, Sending, Telling
  <2> QED BY <2>1 DEF Quiet, LastWord
<1>5. CASE Receives \/ Takes \/ \E r \in Role : Mutters(r)
  <2>1. PICK r \in Role : \E h \in Quiet(r) \cup Sending \cup Reading : Says(r, h)
    BY <1>1, <1>5 DEF Mutters, Receives, Takes
  <2>2. PICK h \in Quiet(r) \cup Sending \cup Reading : Says(r, h)
    BY <2>1
  <2>3. h \notin Telling
    BY <1>4
  <2>4. /\ hand'["wr"] = <<"CONN_FAIL">> => hand["wr"] = <<"CONN_FAIL">>
        /\ Reports' => Reports
    BY <1>3, <2>2, <2>3 DEF Says
  <2> QED BY <1>2, <1>5, <2>4 DEF Mutters, Receives, Takes, Alike
<1>6. CASE Still
  BY <1>2, <1>6 DEF Still, Alike, Reports
<1>7. ASSUME NEW r \in Role, Ring(r) PROVE Outcomes'
  <2>1. /\ hand' = [hand EXCEPT ![r] = Tail(hand[r])] /\ hand[r] # <<>> /\ hand[r] \in Word(r)
        /\ rung' = [rung EXCEPT ![r] = FALSE]
        /\ UNCHANGED <<tmp, que, view, broken>>
    BY <1>7 DEF Ring, Words, queVars, netVars, viewVars
  <2>2. Tail(hand[r]) \in Quiet(r)
    BY <2>1, FirstWord DEF Quiet
  <2>3. Tail(hand[r]) \notin Telling /\ (r # "wr" => rung'["wr"] = rung["wr"])
    BY <1>1, <1>4, <2>1, <2>2
  <2> QED BY <1>2, <1>3, <2>1, <2>3
<1>8. ASSUME NEW r \in Role, Splice(r) PROVE Outcomes'
  <2>1. /\ hand' = [hand EXCEPT ![r] = <<>>] /\ UNCHANGED <<rung, view, broken>>
    BY <1>8 DEF Splice, Goto, netVars, viewVars
  <2>2. <<>> \notin Telling
    BY DEF Telling
  <2>3. /\ hand'["wr"] = <<"CONN_FAIL">> => hand["wr"] = <<"CONN_FAIL">>
        /\ Reports' => Reports
    BY <1>3, <2>1, <2>2
  <2>4. CASE r # "dir"
    <3>1. tmp'["cmd"] = tmp["cmd"] /\ que'["cmd"] = que["cmd"]
      BY <1>1, <1>8, <2>4 DEF Splice
    <3> QED BY <1>2, <2>1, <2>3, <3>1
  <2>5. CASE r = "dir"
    <3>1. tmp'["cmd"] = <<>> /\ que'["cmd"] = que["cmd"] \o tmp["cmd"]
      BY <1>1, <1>8, <2>5 DEF Splice
    <3>2. ToSet(que'["cmd"]) = Held /\ ToSet(tmp'["cmd"]) = {}
      BY <3>1, ConcatElems, EmptyElems DEF Held
    <3>3. Held' = Held
      BY <3>2 DEF Held
    <3>4. Settled(que["cmd"] \o tmp["cmd"])
      BY SettledConcat DEF Outcomes
    <3>5. Settled(<<>>)
      BY DEF Settled
    <3> QED BY <2>1, <2>3, <3>1, <3>2, <3>3, <3>4, <3>5 DEF Outcomes, Failed
  <2> QED BY <2>4, <2>5
<1>9. CASE EndNode
  <2>1. /\ hand' = [hand EXCEPT !["dir"] = <<>>] /\ UNCHANGED <<rung, broken>>
        /\ tmp'["cmd"] = <<>> /\ que'["cmd"] = <<>> /\ view' \in {"closed", "dropped"}
    BY <1>1, <1>9 DEF EndNode, Goto, netVars
  <2>2. Held' = {} /\ Settled(<<>>)
    BY <2>1, EmptyElems DEF Held, Settled
  <2>3. /\ hand'["wr"] = <<"CONN_FAIL">> => hand["wr"] = <<"CONN_FAIL">>
    BY <1>1, <1>3, <2>1
  <2> QED BY <2>1, <2>2, <2>3, EmptyElems DEF Outcomes, Failed
<1>10. CASE Tells
  <2>1. hand'["wr"] = IF broken THEN <<"CONN_FAIL">> ELSE <<"CONN_OK">>
    BY <1>1, <1>10 DEF Tells, Says
  <2>2. <<"CONN_FAIL">> # <<"CONN_OK">>
    OBVIOUS
  <2>3. /\ tmp'["cmd"] = tmp["cmd"] /\ que'["cmd"] = que["cmd"] /\ view' = view
        /\ broken => broken'
    BY <1>10 DEF Tells, Alike
  <2>4. (Failed' <=> Failed) /\ Held' = Held /\ (Failed => broken)
    BY <2>3 DEF Failed, Held, Outcomes
  <2> QED BY <2>1, <2>2, <2>3, <2>4 DEF Outcomes, Reports
<1>11. CASE Hears
  <2> DEFINE q == que["cmd"]
             t == tmp["cmd"]
  <2>1. PICK h \in Quiet("dir") \cup Sending : Says("dir", h)
    BY <1>11 DEF Hears
  <2>2. /\ hand'["wr"] = hand["wr"] /\ (Reports' <=> Reports)
    BY <1>1, <2>1 DEF Says, Reports
  <2>3. /\ q # <<>> /\ que'["cmd"] = Tail(q) /\ tmp'["cmd"] = t /\ broken' = broken
        /\ q \in Seq(Cmd) /\ (view' = "failed" => view = "failed" \/ Head(q) = "CONN_FAIL")
    BY <1>11 DEF Hears
  <2>4. ToSet(q) = {Head(q)} \cup ToSet(Tail(q))
    BY <2>3, HeadTailElems
  <2>5. Settled(Tail(q)) /\ (Head(q) = "CONN_FAIL" => "CONN_OK" \notin ToSet(Tail(q)))
    BY <2>3, SettledTail DEF Outcomes
  <2>6. Held = ToSet(q) \cup ToSet(t) /\ Held' = ToSet(Tail(q)) \cup ToSet(t)
    BY <2>3 DEF Held
  <2>7. Failed' => Failed
    BY <2>3, <2>4, <2>6 DEF Failed
  <2>8. view' = "failed" => "CONN_OK" \notin Held'
    BY <2>3, <2>4, <2>5, <2>6 DEF Outcomes
  <2> QED BY <2>2, <2>3, <2>4, <2>5, <2>7, <2>8 DEF Outcomes
<1>12. ASSUME NEW r \in Role, Queue(r) PROVE Outcomes'
  <2> DEFINE x == Head(hand[r])
             t == tmp["cmd"]
  <2>1. /\ hand[r] # <<>> /\ hand[r] \in Word(r) /\ ~rung[r] /\ rung' = [rung EXCEPT ![r] = TRUE]
        /\ UNCHANGED <<hand, que, view, broken>> /\ x \in Cmd \cup MsgChan
    BY <1>12, HandHead DEF Queue, Words, netVars, viewVars
  <2>2. (Reports' => Reports) /\ (r = "wr" => ~Reports')
    BY <1>1, <2>1 DEF Reports
  <2>3. CASE x \notin Cmd
    <3>1. tmp'["cmd"] = tmp["cmd"]
      BY <1>1, <1>12, <2>1, <2>3 DEF Queue, ChanOf
    <3> QED BY <1>2, <2>1, <2>2, <3>1
  <2>4. CASE x \in Cmd
    <3>1. tmp'["cmd"] = Append(t, x) /\ t \in Seq(Cmd)
      BY <1>1, <1>12, <2>4 DEF Queue, ChanOf
    <3>2. ToSet(tmp'["cmd"]) = ToSet(t) \cup {x} /\ Held' = Held \cup {x}
      BY <2>1, <2>4, <3>1, AppendElems DEF Held
    <3>3. x = "CONN_OK" => r = "wr" /\ Reports /\ ~Failed
      <4>1. x = "CONN_OK" => hand[r] = <<"CONN_OK">> /\ r = "wr"
        BY <2>1, FirstWord DEF Telling
      <4> QED BY <2>1, <4>1 DEF Reports, Outcomes
    <3>4. x = "CONN_FAIL" => r = "wr" /\ hand["wr"] = <<"CONN_FAIL">> /\ broken
      <4>1. x = "CONN_FAIL" => hand[r] = <<"CONN_FAIL">> /\ r = "wr"
        BY <2>1, FirstWord DEF Telling
      <4> QED BY <4>1 DEF Outcomes
    <3>5. Settled(Append(t, x))
      BY <2>4, <3>1, <3>3, SettledAppend DEF Outcomes, Failed, Held
    <3>6. "CONN_FAIL" \in ToSet(que["cmd"]) => "CONN_OK" \notin ToSet(tmp'["cmd"])
      BY <3>2, <3>3 DEF Outcomes, Failed, Held
    <3>7. Failed' => Failed \/ x = "CONN_FAIL"
      BY <2>1, <3>2 DEF Failed
    <3>8. Failed' \/ hand'["wr"] = <<"CONN_FAIL">> => broken'
      BY <2>1, <3>4, <3>7 DEF Outcomes
    <3>9. Failed' => ~Reports'
      BY <2>2, <3>4, <3>7 DEF Outcomes
    <3>10. view' = "failed" => "CONN_OK" \notin Held'
      BY <2>1, <3>2, <3>3 DEF Outcomes, Failed
    <3> QED BY <2>1, <3>1, <3>5, <3>6, <3>8, <3>9, <3>10 DEF Outcomes
  <2> QED BY <2>3, <2>4
<1> QED BY <1>5, <1>6, <1>7, <1>8, <1>9, <1>10, <1>11, <1>12 DEF ViewShape

(* The node's type, and whether it was freed, are what the application saw. *)
LEMMA SeenKept == ASSUME NodeInv, Seen, ViewShape PROVE Seen'
<1>1. ASSUME UNCHANGED <<kind, view, status>> PROVE Seen'
  BY <1>1 DEF Seen, Freed
<1>2. CASE Still \/ Receives \/ Takes \/ Tells \/ \E r \in Role : Mutters(r)
  BY <1>1, <1>2 DEF Still, Receives, Takes, Tells, Mutters, Alike
<1>3. CASE \E r \in Role : Queue(r) \/ Ring(r) \/ Splice(r)
  BY <1>1, <1>3 DEF Queue, Ring, Splice, fdVars, viewVars
<1>4. CASE Hears
  <2>1. ~Freed /\ ~Freed'
    BY <1>4 DEF Hears, Freed, NodeInv, Chain
  <2> QED BY <1>4, <2>1 DEF Hears, Seen
<1>5. CASE EndNode
  BY <1>5 DEF EndNode, Seen, Freed
<1> QED BY <1>2, <1>3, <1>4, <1>5 DEF ViewShape

(* All parts together. *)
LEMMA ViewStep == NodeInv /\ MsgInv /\ ViewInv /\ [Next]_vars => ViewInv'
BY ViewShapes, WordsKept, DeliveryKept, OutcomesKept, SeenKept DEF ViewInv

(* A node starts silent, with the view its type gives it. *)
LEMMA ViewInit == Init => ViewInv
<1> SUFFICES ASSUME Init PROVE ViewInv
  OBVIOUS
<1>1. /\ hand = [r \in Role |-> <<>>] /\ rung = [r \in Role |-> FALSE]
      /\ tmp = [c \in Chan |-> <<>>] /\ que = [c \in Chan |-> <<>>]
      /\ made = [c \in MsgChan |-> 0] /\ taken = [c \in MsgChan |-> 0]
      /\ kind \in {"SOCK", "CONNECTOR"} /\ ~Freed /\ delivered = 0
      /\ view = IF kind = "SOCK" THEN "open" ELSE "connecting"
      /\ err = [d \in {"rd", "wr", "deal"} |-> FALSE]
  BY LifeAssumption DEF Init, Freed
<1>2. {"rd", "wr", "deal", "dir"} = Role /\ "cmd" \in Chan /\ "deal" \in MsgChan
  BY DEF Role, Chan, MsgChan
<1>3. Words
  BY <1>1, WordsMade DEF Words
<1>4. Delivery
  <2>1. <<>> \notin Reading
    BY DEF Reading
  <2>2. made["deal"] = 0 /\ taken["deal"] = 0 /\ hand["rd"] = <<>>
    BY <1>1, <1>2
  <2> QED BY <1>1, <2>1, <2>2, LifeAssumption DEF Delivery, Reads
<1>5. Outcomes
  <2>1. /\ tmp["cmd"] = <<>> /\ que["cmd"] = <<>> /\ hand["wr"] = <<>>
        /\ view # "failed" /\ Settled(<<>>)
    BY <1>1, <1>2 DEF Settled
  <2>2. Held = {}
    BY <2>1, EmptyElems DEF Held
  <2>3. ToSet(que["cmd"]) = {}
    BY <2>1, EmptyElems
  <2>4. hand["wr"] # <<"CONN_FAIL">>
    BY <2>1
  <2> QED BY <2>1, <2>2, <2>3, <2>4 DEF Outcomes, Failed
<1>6. Seen
  BY <1>1 DEF Seen
<1> QED BY <1>3, <1>4, <1>5, <1>6 DEF ViewInv

-----------------------------------------------------------------------------
(* The callbacks follow NodeView *)

(* Each step of the node is a callback of NodeView or none. *)
LEMMA CallbackStep ==
  NodeInv /\ MsgInv /\ ViewInv /\ [Next]_vars => [View!Next]_(View!viewVars)
<1> SUFFICES ASSUME NodeInv, MsgInv, ViewInv, [Next]_vars
             PROVE  View!Next \/ UNCHANGED <<view, delivered>>
  BY DEF View!viewVars
<1>1. ViewShape
  BY ViewShapes
<1>2. CASE Still \/ Receives \/ Tells \/ \E r \in Role : Mutters(r)
  BY <1>2 DEF Still, Receives, Tells, Mutters, Alike
<1>3. CASE \E r \in Role : Queue(r) \/ Ring(r) \/ Splice(r)
  BY <1>3 DEF Queue, Ring, Splice, viewVars
<1>4. CASE Takes
  <2>1. ~Freed
    BY <1>4, QuietMeans DEF Takes, QuietWhenFreed, Role
  <2> DEFINE q == que["deal"]
  <2>2. /\ q \in Seq(Nat) /\ tmp["deal"] \in Seq(Nat) /\ q # <<>>
        /\ made["deal"] \in Nat /\ taken["deal"] \in Nat
        /\ made["deal"] = taken["deal"] + Len(q) + Len(tmp["deal"]) /\ Run(q, taken["deal"])
    BY <1>4, <2>1 DEF Takes, MsgInv, QueTypes, Typed, Numbered, MsgChan
  <2> HIDE DEF q
  <2>3. Len(q) \in Nat \ {0} /\ Len(tmp["deal"]) \in Nat /\ Head(q) = taken["deal"] + 1
    BY <2>2, EmptySeq, LenProperties, RunTail
  <2>4. taken["deal"] < made["deal"] /\ made["deal"] > 0
    BY <2>2, <2>3
  <2>5. view = "open" /\ taken["deal"] < MaxMsg
    BY <2>1, <2>2, <2>4, LifeAssumption DEF ViewInv, Delivery, Seen
  <2>6. CASE err["deal"]
    BY <1>4, <2>6 DEF Takes
  <2>7. CASE ~err["deal"]
    <3>1. delivered = taken["deal"] /\ delivered' = Head(q) /\ view' = view
      BY <1>4, <2>7 DEF Takes, ViewInv, Delivery, q
    <3>2. View!Process
      BY <2>3, <2>5, <3>1 DEF View!Process
    <3> QED BY <3>2 DEF View!Next
  <2> QED BY <2>6, <2>7
<1>5. CASE Hears
  <2>1. ~Freed /\ delivered' = delivered /\ que["cmd"] # <<>> /\ que["cmd"] \in Seq(Cmd)
    BY <1>5 DEF Hears, NodeInv, NodeTypes, Chain
  <2>2. Head(que["cmd"]) \in Held
    BY <2>1, HeadTailElems DEF Held
  <2>3. kind = "CONNECTOR" => view \in {"connecting", "failed"}
    BY <2>1 DEF ViewInv, Seen
  <2>4. CASE kind = "CONNECTOR" /\ Head(que["cmd"]) = "CONN_OK" /\ view' = "open"
    <3>1. view = "connecting"
      BY <2>2, <2>3, <2>4 DEF ViewInv, Outcomes
    <3>2. View!OnConnected
      BY <2>1, <2>4, <3>1 DEF View!OnConnected, View!Become
    <3> QED BY <3>2 DEF View!Next
  <2>5. CASE kind = "CONNECTOR" /\ view' = "failed"
    <3>1. CASE view = "connecting"
      <4>1. View!OnFailConnect
        BY <2>1, <2>5, <3>1 DEF View!OnFailConnect, View!Become
      <4> QED BY <4>1 DEF View!Next
    <3> QED BY <2>1, <2>3, <2>5, <3>1
  <2> QED BY <1>5, <2>1, <2>4, <2>5 DEF Hears
<1>6. CASE EndNode
  <2>1. ~Freed
    BY <1>6 DEF EndNode, At, NodeInv, Chain
  <2>2. /\ view' = IF kind = "SOCK" THEN "closed" ELSE "dropped"
        /\ delivered' = delivered
    BY <1>6 DEF EndNode
  <2>3. View!OnClosed \/ View!Drop
    BY <2>1, <2>2 DEF ViewInv, Seen, View!OnClosed, View!Drop, View!Become
  <2> QED BY <2>3 DEF View!Next
<1> QED BY <1>1, <1>2, <1>3, <1>4, <1>5, <1>6 DEF ViewShape

(* Whatever the four threads, the peer and the network do, the application's  *)
(* callbacks are a behaviour of NodeView: one opening, messages in order       *)
(* without gaps, one onClosed and silence.                                   *)
THEOREM CallbacksFollowView == Spec => ViewSpec
<1>1. Init => View!Init
  BY LifeAssumption DEF Init, View!Init
<1> QED BY <1>1, MsgInit, ViewInit, ChainKept, MsgStep, ViewStep, CallbackStep, PTL
        DEF Spec, ViewSpec, View!Spec

===============================================================================
