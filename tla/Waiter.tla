-------------------------------- MODULE Waiter --------------------------------
(***************************************************************************)
(* What a pool's thread sleeps in, and what alarm does to it: the `signal'  *)
(* of TaskPool in its three forms.                                         *)
(*                                                                         *)
(* event  EventWaiter: poll and read of an eventfd (dealer, sender and      *)
(*        receiver).                                                       *)
(* epoll  the director's own alarm, wait and check: an eventfd registered   *)
(*        edge triggered, which the receiver reads on the director's behalf *)
(*        (EventObj::readNode).                                            *)
(* sig    SigWaiter: SIGUSR1, which the program has to block (maskSig), and *)
(*        sigsuspend.                                                      *)
(*                                                                         *)
(* MutexWaiter loses an alarm that comes before the wait; its header says   *)
(* so, and no pool is made with it.                                        *)
(***************************************************************************)
EXTENDS Naturals

Kind == {"event", "epoll", "sig"}

CONSTANT MaxCount  \* bound: the counter of the eventfd

VARIABLES
  kind,   \* which form this thread has
  place,  \* of the thread: new, busy, waiting, polled
  count,  \* the eventfd's counter; for sig, the pending signal
  edge,   \* epoll's list of ready files has the eventfd
  reader, \* the receiver's task of the event node has a READ event
  rung    \* history: an alarm was made, and no wait has ended since

vars == <<kind, place, count, edge, reader, rung>>

(* creatEventFd starts at 1; registering a readable file makes an edge *)
Init ==
  /\ kind \in Kind
  /\ place = "new"
  /\ count = IF kind = "sig" THEN 0 ELSE 1
  /\ edge = (kind = "epoll")
  /\ reader = FALSE /\ rung = FALSE

(* setup, with prepare: from here on alarm has a thread to call; and         *)
(* m_running, without which nobody calls it                                  *)
Run == /\ place = "new" /\ place' = "busy"
       /\ UNCHANGED <<kind, count, edge, reader, rung>>

(* alarm, by any thread that was first at the door, and by stopRun *)
Alarm ==
  /\ place # "new" /\ rung' = TRUE
  /\ count' = IF kind = "sig" THEN 1 ELSE IF count < MaxCount THEN count + 1 ELSE count
  /\ edge' = (edge \/ kind = "epoll")
  /\ UNCHANGED <<kind, place, reader>>

(* the call of wait *)
Wait == /\ place = "busy" /\ place' = "waiting"
        /\ UNCHANGED <<kind, count, edge, reader, rung>>

(* the call returns, and the thread goes on to lock the door and look at     *)
(* the tasks                                                                 *)
Return == place' = "busy" /\ rung' = FALSE /\ UNCHANGED kind

-----------------------------------------------------------------------------
(* waitEvent of sockutil.cpp *)
Polled ==
  /\ kind = "event" /\ place = "waiting" /\ count > 0
  /\ place' = "polled"
  /\ UNCHANGED <<kind, count, edge, reader, rung>>

ReadEvent ==
  /\ place = "polled" /\ Return
  /\ count' = 0
  /\ UNCHANGED <<edge, reader>>

(* sigsuspend unblocks the signal and waits in one step *)
Suspend ==
  /\ kind = "sig" /\ place = "waiting" /\ count > 0 /\ Return
  /\ count' = 0
  /\ UNCHANGED <<edge, reader>>

(* epoll_wait takes the eventfd off its list of ready files and looks at it  *)
(* again: it is reported, and handed to the receiver, only if it can still   *)
(* be read                                                                   *)
Look ==
  /\ kind = "epoll" /\ edge
  /\ edge' = FALSE /\ reader' = (reader \/ count > 0)
  /\ UNCHANGED count

WaitEvent == place = "waiting" /\ count > 0 /\ Look /\ Return

WaitOn == /\ place = "waiting" /\ count = 0 /\ Look
          /\ UNCHANGED <<kind, place, rung>>

(* check: waitEvent(0) *)
Check == place = "busy" /\ Look /\ Return

\* as a fault: the director waits for an event for as long as it takes
NoTimeout == FALSE /\ UNCHANGED vars
(* DEF_EPOLL_WAIT_MILI_SEC have passed *)
Timeout == /\ kind = "epoll" /\ place = "waiting" /\ Return
           /\ UNCHANGED <<count, edge, reader>>

(* a signal of another kind, a timer or a socket ends the wait *)
WakeEarly == /\ place = "waiting" /\ Return
             /\ UNCHANGED <<count, edge, reader>>

(* EventObj::readNode, on the receiver's thread *)
ReadNode ==
  /\ reader /\ reader' = FALSE
  /\ count' = 0
  /\ UNCHANGED <<kind, place, edge, rung>>

-----------------------------------------------------------------------------
Thread == Polled \/ ReadEvent \/ Suspend \/ WaitEvent \/ WaitOn \/ Timeout

Next == Run \/ Alarm \/ Wait \/ Check \/ Thread \/ WakeEarly \/ ReadNode

Spec == Init /\ [][Next]_vars /\ WF_vars(Thread)

-----------------------------------------------------------------------------
(* Properties *)

(* An alarm, whenever it is made, ends the thread's wait or the next one:    *)
(* between the decision to wait and the wait, between poll and read, and     *)
(* even when the receiver, answering an earlier alarm, reads the director's  *)
(* eventfd before epoll_wait has looked at it, which only the timeout makes  *)
(* good (taskpool.cpp:58-113, director.cpp:450-460, timerobj.cpp:77-83).     *)
WaitEnds == (rung /\ place = "waiting") ~> place = "busy"
=============================================================================
