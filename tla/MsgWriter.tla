------------------------------ MODULE MsgWriter ------------------------------
(***************************************************************************)
(* MsgWriter of sockobj.cpp: sending the messages of a node's m_wr_que over *)
(* its socket.  One sendmsg takes the bytes of the first messages of the    *)
(* queue, at most VecSize messages and no further message once SendMax      *)
(* bytes are gathered; the kernel accepts any first part of them.           *)
(*                                                                         *)
(* The socket's write side is registered edge triggered: epoll reports it   *)
(* once on registration and then once after each send that was refused for  *)
(* want of room, as soon as there is room.                                 *)
(***************************************************************************)
EXTENDS Naturals, Sequences, SequencesExt

CONSTANTS VecSize,  \* DEF_VEC_SIZE
          SendMax,  \* DEF_TCP_SEND_BUF_SIZE
          Window    \* bytes the connection holds between the two programs

VARIABLES
  que,    \* m_wr_que: of each message the bytes from m_pos to m_size
  snd,    \* the sender's task: at rest, ready to run, waiting for WRITE, or ended
  owed,   \* epoll will report the socket writable when it next is
  wire    \* the bytes sent and not yet received

Init == que = <<>> /\ snd = "rest" /\ owed = TRUE /\ wire = <<>>

Least(a, b) == IF a < b THEN a ELSE b
Greatest(S) == CHOOSE x \in S : \A y \in S : y <= x

(* the bytes of the first k messages of q *)
FirstBytes(q, k) == FlattenSeq(SubSeq(q, 1, k))
Total(q, k)      == Len(FirstBytes(q, k))

(* the messages sendQue puts in m_vec *)
Gathered ==
  Greatest({k \in 0..Least(Len(que), VecSize) : k > 0 => Total(que, k - 1) < SendMax})

Room == Window - Len(wire)

\* as a fault: a message that was sent in part is kept from its beginning
PruneWhole(q, n) ==
  LET k == Greatest({i \in 0..Len(q) : Total(q, i) <= n}) IN SubSeq(q, k + 1, Len(q))
(* what prune leaves of q when n bytes were sent *)
Prune(q, n) ==
  LET k    == Greatest({i \in 0..Len(q) : Total(q, i) <= n})
      rest == SubSeq(q, k + 1, Len(q))
      skip == n - Total(q, k)
  IN IF rest = <<>> THEN <<>>
     ELSE <<SubSeq(Head(rest), skip + 1, Len(Head(rest)))>> \o Tail(rest)

(* a message m is queued, and the sender told *)
Add(m) ==
  /\ que' = Append(que, m)
  /\ snd' = IF snd = "rest" THEN "ready" ELSE snd
  /\ UNCHANGED <<owed, wire>>

\* as a fault: a partial send is taken for a refused one
SendOnce(n) ==
  /\ snd = "ready" /\ n <= Total(que, Gathered) /\ n <= Room
  /\ wire' = wire \o SubSeq(FlattenSeq(que), 1, n)
  /\ que' = Prune(que, n)
  /\ snd' = IF que' = <<>> THEN "rest" ELSE "blocked"
  /\ UNCHANGED owed

(* sendmsg took n bytes; when anything is left the task stays queued *)
Send(n) ==
  /\ snd = "ready" /\ n <= Total(que, Gathered) /\ n <= Room
  /\ wire' = wire \o SubSeq(FlattenSeq(que), 1, n)
  /\ que' = Prune(que, n)
  /\ snd' = IF que' = <<>> THEN "rest" ELSE "ready"
  /\ UNCHANGED owed

(* sendmsg took nothing *)
Block ==
  /\ snd = "ready" /\ que # <<>> /\ Room = 0
  /\ snd' = "blocked" /\ owed' = TRUE
  /\ UNCHANGED <<que, wire>>

SendNothing ==
  /\ snd = "ready" /\ que = <<>>
  /\ snd' = "rest"
  /\ UNCHANGED <<que, owed, wire>>

(* procTaskEnd, in whatever state the task is: one more write; then the node *)
(* is freed with what it left of the queue                                   *)
Close(n) ==
  /\ snd # "ended" /\ n <= Total(que, Gathered) /\ n <= Room
  /\ wire' = wire \o SubSeq(FlattenSeq(que), 1, n)
  /\ que' = <<>> /\ snd' = "ended" /\ owed' = FALSE

(* addWriteable *)
Writable ==
  /\ owed /\ Room > 0
  /\ owed' = FALSE /\ snd' = "ready"
  /\ UNCHANGED <<que, wire>>
=============================================================================
