--------------------------------- MODULE Clock ---------------------------------
(***************************************************************************)
(* How the ticks reach the timing wheels of the four threads (timerobj.cpp, *)
(* director.cpp): the receiver reads the timerfd, whose value is the number *)
(* of expirations since the last read, sends it to the director, the sender *)
(* and the dealer through the timer node's queues, and ticks its own wheel. *)
(* A wheel advances one tick for each value and m_time by the value.       *)
(***************************************************************************)
EXTENDS Naturals, Sequences, SequencesExt

CONSTANT MaxExpire  \* bound: expirations of the timerfd

Thread == {"receiver", "director", "sender", "dealer"}

VARIABLES
  expired,  \* how often the timer has expired
  due,      \* the timerfd's counter: expirations since it was read
  came,     \* epoll has yet to report the timerfd readable
  ready,    \* the timer node's receiver task has a READ event
  reading,  \* its procTask was entered and has not read yet
  value,    \* what it read
  todo,     \* the threads it has still to give the value to
  que,      \* the values on the way to each thread
  tick,     \* m_tick and m_time of each thread's wheel
  time

vars == <<expired, due, came, ready, reading, value, todo, que, tick, time>>

Init ==
  /\ expired = 0 /\ due = 0 /\ came = FALSE /\ ready = FALSE
  /\ reading = FALSE /\ value = 0 /\ todo = <<>>
  /\ que = [t \in Thread |-> <<>>]
  /\ tick = [t \in Thread |-> 0] /\ time = [t \in Thread |-> 0]

Expire ==
  /\ expired < MaxExpire
  /\ expired' = expired + 1 /\ due' = due + 1 /\ came' = TRUE
  /\ UNCHANGED <<ready, reading, value, todo, que, tick, time>>

(* addReadable *)
Report ==
  /\ came
  /\ came' = FALSE /\ ready' = TRUE
  /\ UNCHANGED <<expired, due, reading, value, todo, que, tick, time>>

Begin ==
  /\ ready /\ ~reading /\ todo = <<>>
  /\ ready' = FALSE /\ reading' = TRUE
  /\ UNCHANGED <<expired, due, came, value, todo, que, tick, time>>

\* as a fault: the dealer is forgotten
OrderBut == <<"director", "sender", "receiver">>
(* the threads in the order TimerObj::readNode serves them, itself the last *)
Order == <<"director", "sender", "dealer", "receiver">>

(* readEvent: nothing happens when an earlier read got everything *)
Read ==
  /\ reading
  /\ reading' = FALSE /\ value' = due /\ due' = 0
  /\ todo' = IF due = 0 THEN <<>> ELSE Order
  /\ UNCHANGED <<expired, came, ready, que, tick, time>>

\* as a fault: the two counters are taken for each other
TurnSwapped(t, cnt) == /\ tick' = [tick EXCEPT ![t] = @ + cnt]
                       /\ time' = [time EXCEPT ![t] = @ + 1]

(* TickTimer::tick(cnt) in thread t *)
Turn(t, cnt) == /\ tick' = [tick EXCEPT ![t] = @ + 1]
                /\ time' = [time EXCEPT ![t] = @ + cnt]

Notify ==
  /\ todo # <<>> /\ Head(todo) # "receiver"
  /\ que' = [que EXCEPT ![Head(todo)] = Append(@, value)]
  /\ todo' = Tail(todo)
  /\ UNCHANGED <<expired, due, came, ready, reading, value, tick, time>>

TickOwn ==
  /\ todo # <<>> /\ Head(todo) = "receiver"
  /\ Turn("receiver", value)
  /\ todo' = Tail(todo)
  /\ UNCHANGED <<expired, due, came, ready, reading, value, que>>

(* procTickTimer in one of the other threads *)
TickMsg(t) ==
  /\ que[t] # <<>>
  /\ Turn(t, Head(que[t]))
  /\ que' = [que EXCEPT ![t] = Tail(@)]
  /\ UNCHANGED <<expired, due, came, ready, reading, value, todo>>

Receiver == Begin \/ Read \/ Notify \/ TickOwn

Next == Expire \/ Report \/ Receiver \/ \E t \in Thread : TickMsg(t)

Spec == /\ Init /\ [][Next]_vars
        /\ WF_vars(Report) /\ WF_vars(Receiver) /\ \A t \in Thread : WF_vars(TickMsg(t))

-----------------------------------------------------------------------------
(* Properties *)

Pending(t) == (IF t \in ToSet(todo) THEN value ELSE 0) + FoldSeq(+, 0, que[t])

(* No expiration is lost or counted twice in any thread: what its wheel has  *)
(* counted, what is on the way to it, and what is still in the timerfd make  *)
(* up all of them (timerobj.cpp:8-52).                                       *)
TimeConserved == \A t \in Thread : time[t] + Pending(t) + due = expired

(* The four threads' clocks catch up with every expiration. *)
CatchUp ==
  \A n \in 1..MaxExpire : (expired >= n) ~> (\A t \in Thread : time[t] >= n)
=============================================================================
