------------------------------- MODULE TickTimer -------------------------------
(***************************************************************************)
(* TickTimer of ticktimer.cpp: a timing wheel of two levels, one in each    *)
(* thread.  A timeout below the size of the first wheel is put in the slot  *)
(* of its tick; a longer one in the second wheel, and cascaded to the first *)
(* when the first begins its turn.  The tick counter wraps.                 *)
(*                                                                         *)
(* A tick is several steps, for doTimeout runs in the middle of it: it may  *)
(* call updateTimer on the timer that went off, as test_timer's does.  A    *)
(* slot is a set: SlotList shows that its hash list is one.  m_time and      *)
(* m_size, which the wheel writes and does not read, are left out.          *)
(***************************************************************************)
EXTENDS Integers

CONSTANTS Timer,
          Size1,    \* TV_1_SIZE
          Size2,    \* TV_2_SIZE
          Wrap,     \* 2^32, the values of a Uint32
          Timeout   \* the timeouts in use

ASSUME WheelAssumption ==
  /\ Size1 \in Nat \ {0} /\ Size2 \in Nat \ {0}
  /\ \E n \in 2..Wrap : Wrap = n * Size1 * Size2
  /\ Timeout \subseteq 0..(Size1 * Size2)

VARIABLES
  tick,      \* m_tick
  place,     \* where each timer is linked: a wheel and a slot of it
  expires,   \* m_expires
  interval   \* m_interval

vars == <<tick, place, expires, interval>>

None   == <<0, 0>>         \* hlist_unhashed
Firing == <<3, 0>>         \* in the local list of tick
Slot1(x) == <<1, x % Size1>>
Slot2(x) == <<2, (x \div Size1) % Size2>>

Fired == {t \in Timer : place[t] = Firing}
Idle  == Fired = {}        \* no tick is at work

Init ==
  /\ tick = 0
  /\ place = [t \in Timer |-> None]
  /\ expires = [t \in Timer |-> 0] /\ interval = [t \in Timer |-> 0]

(* modTimer: out of the slot it is in, into the slot of its tick *)
Put(t, d) ==
  LET e == (tick + d) % Wrap IN
  /\ place' = [place EXCEPT ![t] = IF d < Size1 THEN Slot1(e) ELSE Slot2(e)]
  /\ expires' = [expires EXCEPT ![t] = e]
  /\ interval' = [interval EXCEPT ![t] = d]
  /\ UNCHANGED tick

(* addTimer, modTimer *)
ModTimer(t, d) == Idle /\ Put(t, d)

DelTimer(t) ==
  /\ Idle
  /\ place' = [place EXCEPT ![t] = None]
  /\ UNCHANGED <<tick, expires, interval>>

Stop ==
  /\ Idle
  /\ place' = [t \in Timer |-> None]
  /\ UNCHANGED <<tick, expires, interval>>

\* as a fault: the second wheel is cascaded at the end of a turn
CascadedLate(now, t) ==
  IF now % Size1 = Size1 - 1 /\ place[t] = Slot2(now) THEN Slot1(expires[t]) ELSE place[t]
(* where t is once the second wheel was cascaded *)
Cascaded(now, t) ==
  IF now % Size1 = 0 /\ place[t] = Slot2(now) THEN Slot1(expires[t]) ELSE place[t]

(* tick, until it walks its local list *)
Tick ==
  /\ Idle
  /\ tick' = (tick + 1) % Wrap
  /\ place' = [t \in Timer |-> IF Cascaded(tick', t) = Slot1(tick')
                               THEN Firing ELSE Cascaded(tick', t)]
  /\ UNCHANGED <<expires, interval>>

(* one turn of that walk, with a doTimeout that does nothing *)
GoOff(t) ==
  /\ place[t] = Firing
  /\ place' = [place EXCEPT ![t] = None]
  /\ UNCHANGED <<tick, expires, interval>>

(* or with one that calls updateTimer *)
GoOffAgain(t) ==
  /\ place[t] = Firing
  /\ Put(t, interval[t])

Walk == \E t \in Timer : GoOff(t) \/ GoOffAgain(t)

Next == \/ Tick \/ Walk \/ Stop
        \/ \E t \in Timer : DelTimer(t) \/ \E d \in Timeout : ModTimer(t, d)

Spec == Init /\ [][Next]_vars /\ WF_vars(Walk)

-----------------------------------------------------------------------------
(* Properties *)

(* ticks to go, seen from the wheels *)
ToGo(t) ==
  CASE place[t] \in {None, Firing} -> 0
    [] place[t][1] = 1 -> LET d == (place[t][2] + Size1 - (tick % Size1)) % Size1
                          IN IF d = 0 THEN Size1 ELSE d
    [] place[t][1] = 2 -> (expires[t] + Wrap - tick) % Wrap

Plan == INSTANCE Timeouts WITH Turn <- Size1, due <- Fired,
                               left <- [t \in Timer |-> ToGo(t)]

(* Every timer goes off exactly at its tick, whichever wheel it starts in,   *)
(* across the cascade and the wrap of the tick counter.                      *)
TimeoutSpec == Plan!Spec
=============================================================================
