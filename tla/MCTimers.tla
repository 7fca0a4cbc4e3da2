------------------------------ MODULE MCTimers ------------------------------
(* A thread's timing wheel (TickTimer) and the clock that ticks the wheels of *)
(* all threads (Clock), each with an instance of its own.  The wheel counts   *)
(* ticks and not time, so the two are independent: a behaviour runs one of    *)
(* them and leaves the other alone.                                          *)
EXTENDS TickTimer

CONSTANT MaxExpire

VARIABLES part, expired, unread, came, ready, reading, value, todo, que, ticks, time

clockVars == <<expired, unread, came, ready, reading, value, todo, que, ticks, time>>
timerVars == <<part, vars, clockVars>>

Time == INSTANCE Clock WITH due <- unread, tick <- ticks

\* wheels small enough for the counter to wrap, timeouts at their bounds
MCTimeout == {0, 1, Size1, 2 * Size1 + 1, Size1 * Size2}

OffClock == UNCHANGED <<part, clockVars>>
OffWheel == UNCHANGED <<part, vars>>

TimersInit == /\ part \in {"wheel", "clock"}
              /\ Init /\ Time!Init

TimersNext == \/ part = "wheel" /\ Next /\ OffClock
              \/ part = "clock" /\ Time!Next /\ OffWheel

TimersSpec ==
  /\ TimersInit /\ [][TimersNext]_timerVars
  /\ WF_timerVars(part = "wheel" /\ Walk /\ OffClock)
  /\ WF_timerVars(part = "clock" /\ Time!Report /\ OffWheel)
  /\ WF_timerVars(part = "clock" /\ Time!Receiver /\ OffWheel)
  /\ \A t \in Time!Thread : WF_timerVars(part = "clock" /\ Time!TickMsg(t) /\ OffWheel)

(* Every expiration is counted once by every thread (Clock). *)
TimeConserved == Time!TimeConserved

(* Every thread catches up with every expiration (Clock). *)
CatchUp == Time!CatchUp
=============================================================================
