----------------------------- MODULE TimersProofs -----------------------------
(***************************************************************************)
(* The timing wheel implements exact timeouts, for any timers, any sizes of *)
(* the two wheels, and any timeouts up to one turn of both: a timer goes off *)
(* at its tick, neither early nor late, through the cascade of the second    *)
(* wheel and the wrap of the tick counter.  And the clock that ticks the     *)
(* wheels of the four threads counts every expiration once in each.         *)
(***************************************************************************)
EXTENDS MCTimers, QueueLemmas

Both == Size1 * Size2    \* the ticks of one turn of both wheels

(* A timer of the first wheel is in the slot of its tick. *)
InFirst(t) == place[t] = Slot1(expires[t])

(* One of the second wheel is due in a later turn of the first, and in the   *)
(* first such turn that the slot it is in comes up.                          *)
InSecond(t) ==
  /\ place[t] = Slot2(expires[t])
  /\ \E d \in 1..Both : /\ expires[t] = (tick + d) % Wrap
                        /\ (tick % Size1) + d \in Size1..(Both + Size1 - 1)

WheelInv ==
  /\ tick \in 0..(Wrap - 1)
  /\ place \in [Timer -> {None, Firing} \cup ({1, 2} \X Nat)]
  /\ expires \in [Timer -> 0..(Wrap - 1)]
  /\ interval \in [Timer -> Timeout \cup {0}]
  /\ \A t \in Timer :
       /\ place[t] # None => interval[t] \in Timeout
       /\ place[t] \in {None, Firing} \/ InFirst(t) \/ InSecond(t)

-----------------------------------------------------------------------------
(* Division and remainder *)

(* A number is made of its quotient and its remainder, in one way only. *)
LEMMA Parts ==
  ASSUME NEW x \in Nat, NEW s \in Nat \ {0}
  PROVE  x \div s \in Nat /\ x % s \in 0..(s - 1) /\ x = s * (x \div s) + (x % s)
OBVIOUS

LEMMA PartsOf ==
  ASSUME NEW s \in Nat \ {0}, NEW q \in Nat, NEW r \in 0..(s - 1)
  PROVE  (s * q + r) \div s = q /\ (s * q + r) % s = r
OBVIOUS

(* Whole turns do not change a remainder. *)
LEMMA Turned ==
  ASSUME NEW x \in Nat, NEW s \in Nat \ {0}, NEW k \in Nat
  PROVE  (x + s * k) % s = x % s
<1>1. x \div s \in Nat /\ x % s \in 0..(s - 1) /\ x = s * (x \div s) + (x % s)
  BY Parts
<1>2. x + s * k = s * ((x \div s) + k) + (x % s)
  BY <1>1
<1>3. (x \div s) + k \in Nat
  BY <1>1
<1> DEFINE q == (x \div s) + k
           r == x % s
<1>4. q \in Nat /\ r \in 0..(s - 1) /\ x + s * k = s * q + r
  BY <1>1, <1>2, <1>3
<1> HIDE DEF q, r
<1>5. (s * q + r) % s = r
  BY <1>4, PartsOf
<1> QED BY <1>4, <1>5 DEF r

(* Less than a turn does. *)
LEMMA Apart ==
  ASSUME NEW x \in Nat, NEW s \in Nat \ {0}, NEW k \in 1..(s - 1)
  PROVE  (x + k) % s # x % s
<1> DEFINE z == x + k
           p == x \div s
           q == z \div s
<1>1. p \in Nat /\ x % s \in 0..(s - 1) /\ x = s * p + (x % s)
  BY Parts
<1>2. z \in Nat
  OBVIOUS
<1> HIDE DEF z
<1>3. q \in Nat /\ z % s \in 0..(s - 1) /\ z = s * q + (z % s)
  BY <1>2, Parts
<1> HIDE DEF p, q
<1>4. ASSUME z % s = x % s PROVE FALSE
  <2>1. k = s * (q - p)
    BY <1>1, <1>3, <1>4 DEF z
  <2>2. s * (q - p) >= s \/ s * (q - p) <= 0
    BY <1>1, <1>3
  <2> QED BY <2>1, <2>2
<1> QED BY <1>4 DEF z

(* Where a tick that is d ticks away lies on the two wheels. *)
LEMMA Later ==
  ASSUME NEW x \in 0..(Wrap - 1), NEW d \in 0..Both
  PROVE  LET e == (x + d) % Wrap
             c == ((x % Size1) + d) \div Size1
         IN  /\ e \in 0..(Wrap - 1) /\ (e + Wrap - x) % Wrap = d
             /\ e % Size1 = ((x % Size1) + d) % Size1
             /\ (e \div Size1) % Size2 = ((x \div Size1) + c) % Size2
<1> DEFINE a == x \div Size1
           i == x % Size1
           c == (i + d) \div Size1
           j == (i + d) % Size1
           e == (x + d) % Wrap
<1>1. PICK n \in 2..Wrap : Wrap = n * Both /\ Both \in Nat \ {0} /\ n \in Nat
  BY WheelAssumption DEF Both
<1>2. x \in Nat /\ d \in Nat /\ Wrap \in Nat \ {0} /\ d < Wrap /\ Size1 \in Nat \ {0} /\ Size2 \in Nat \ {0}
  BY <1>1, WheelAssumption
<1>3. a \in Nat /\ i \in 0..(Size1 - 1) /\ x = Size1 * a + i
  BY <1>2, Parts
<1>4. c \in Nat /\ j \in 0..(Size1 - 1) /\ i + d = Size1 * c + j
  <2> DEFINE y == i + d
  <2>1. y \in Nat /\ c = y \div Size1 /\ j = y % Size1
    BY <1>2, <1>3
  <2> HIDE DEF y, c, j
  <2>2. y \div Size1 \in Nat /\ y % Size1 \in 0..(Size1 - 1)
        /\ y = Size1 * (y \div Size1) + (y % Size1)
    BY <2>1, <1>2, Parts
  <2> QED BY <2>1, <2>2 DEF y
<1>5. x + d = Size1 * (a + c) + j
  BY <1>2, <1>3, <1>4
<1>6. e = x + d \/ (e = x + d - Wrap /\ x + d >= Wrap)
  BY <1>2
<1>7. e \in 0..(Wrap - 1) /\ (e + Wrap - x) % Wrap = d
  BY <1>2, <1>6
<1> HIDE DEF a, i, c, j, e
<1>8. CASE e = x + d
  <2>1. e \div Size1 = a + c /\ e % Size1 = j
    <3> DEFINE q == a + c
    <3>1. q \in Nat /\ e = Size1 * q + j
      BY <1>2, <1>3, <1>4, <1>5, <1>8
    <3> HIDE DEF q
    <3>2. e \div Size1 = q /\ e % Size1 = j
      BY <1>2, <1>4, <3>1, PartsOf
    <3> QED BY <3>2 DEF q
  <2> QED BY <2>1, <1>7 DEF a, c, e, i, j
<1>9. CASE e = x + d - Wrap /\ x + d >= Wrap
  <2> DEFINE k == n * Size2
             q == a + c - k
  <2>1. k \in Nat /\ Wrap = Size1 * k
    BY <1>1, <1>2 DEF Both
  <2>2. q \in Int /\ e = Size1 * q + j /\ e \in Nat
    BY <1>2, <1>3, <1>4, <1>5, <1>7, <1>9, <2>1
  <2> HIDE DEF k
  <2>3. q \in Nat /\ q + k = a + c
    BY <2>1, <2>2, <1>2, <1>3, <1>4
  <2> HIDE DEF q
  <2>4. e \div Size1 = q /\ e % Size1 = j
    BY <1>2, <1>4, <2>2, <2>3, PartsOf
  <2>5. (q + Size2 * n) % Size2 = q % Size2
    BY <2>3, <1>1, <1>2, Turned
  <2>6. q + Size2 * n = a + c
    BY <2>3, <1>1, <1>2 DEF k
  <2> QED BY <2>4, <2>5, <2>6, <1>7 DEF a, c, e, i, j
<1> QED BY <1>6, <1>8, <1>9 DEF e, c, i, a

(* A tick further on, the same tick is one tick nearer. *)
LEMMA Nearer ==
  ASSUME NEW x \in 0..(Wrap - 1), NEW d \in 1..Both
  PROVE  (((x + 1) % Wrap) + (d - 1)) % Wrap = (x + d) % Wrap
<1>1. x \in Nat /\ d \in Nat /\ d - 1 \in Nat /\ Wrap \in Nat \ {0}
  BY WheelAssumption DEF Both
<1> DEFINE y == (x + 1) % Wrap
           q == (x + 1) \div Wrap
           z == x + 1
<1>2. z \in Nat /\ y = z % Wrap /\ q = z \div Wrap
  BY <1>1
<1> HIDE DEF z, y, q
<1>3. y \in Nat /\ q \in Nat /\ z = Wrap * q + y
  <2>1. z \div Wrap \in Nat /\ z % Wrap \in 0..(Wrap - 1)
        /\ z = Wrap * (z \div Wrap) + (z % Wrap)
    BY <1>1, <1>2, Parts
  <2> QED BY <2>1, <1>2
<1> HIDE DEF y, q
<1>4. (y + (d - 1)) + Wrap * q = x + d /\ y + (d - 1) \in Nat
  BY <1>1, <1>3 DEF z
<1>5. ((y + (d - 1)) + Wrap * q) % Wrap = (y + (d - 1)) % Wrap
  BY <1>1, <1>3, <1>4, Turned
<1> QED BY <1>4, <1>5 DEF y

-----------------------------------------------------------------------------
(* Putting a timer on the wheels *)

(* What TickTimer counts on the sizes. *)
LEMMA Sizes ==
  /\ Size1 \in Nat \ {0} /\ Size2 \in Nat \ {0} /\ Both \in Nat \ {0}
  /\ Size1 <= Both /\ Both < Wrap /\ Wrap \in Nat
  /\ \A d \in Timeout : d \in 0..Both
<1>1. PICK n \in 2..Wrap : Wrap = n * Both /\ Both \in Nat \ {0} /\ n \in Nat
  BY WheelAssumption DEF Both
<1>2. Size1 <= Both
  BY WheelAssumption DEF Both
<1> QED BY <1>1, <1>2, WheelAssumption DEF Both

(* modTimer puts a timer where it goes off after its timeout. *)
LEMMA PutWaits ==
  ASSUME WheelInv, NEW t \in Timer, NEW d \in Timeout, Put(t, d)
  PROVE  WheelInv' /\ ToGo(t)' = Plan!Wait(d) /\ place'[t] \notin {None, Firing}
<1> DEFINE e == (tick + d) % Wrap
           i == tick % Size1
<1>1. /\ tick' = tick /\ tick \in 0..(Wrap - 1) /\ d \in 0..Both /\ d \in Timeout
      /\ place' = [place EXCEPT ![t] = IF d < Size1 THEN Slot1(e) ELSE Slot2(e)]
      /\ expires' = [expires EXCEPT ![t] = e]
      /\ interval' = [interval EXCEPT ![t] = d]
  BY Sizes DEF Put, WheelInv
<1>2. /\ e \in 0..(Wrap - 1) /\ (e + Wrap - tick) % Wrap = d
      /\ e % Size1 = (i + d) % Size1 /\ i \in 0..(Size1 - 1)
  <2>1. i \in 0..(Size1 - 1)
    BY <1>1, Sizes
  <2> QED BY <1>1, <2>1, Later
<1>3. e % Size1 \in Nat /\ (e \div Size1) % Size2 \in Nat
  BY <1>2, Sizes
<1> HIDE DEF e
<1>4. /\ expires'[t] = e /\ interval'[t] = d
      /\ place'[t] = IF d < Size1 THEN Slot1(e) ELSE Slot2(e)
      /\ \A x \in Timer : x # t => /\ place'[x] = place[x] /\ expires'[x] = expires[x]
                                  /\ interval'[x] = interval[x]
  BY <1>1 DEF WheelInv
<1>5. ToGo(t)' = Plan!Wait(d) /\ place'[t] \notin {None, Firing}
  <2>1. CASE d < Size1
    <3> DEFINE j == e % Size1
    <3>1. j = i + d \/ j = i + d - Size1
      BY <2>1, <1>1, <1>2, Sizes
    <3>2. (j + Size1 - i) % Size1 = d
      BY <3>1, <2>1, <1>1, <1>2, Sizes
    <3> HIDE DEF j
    <3>3. place'[t] = <<1, j>>
      BY <2>1, <1>4 DEF Slot1, j
    <3> QED BY <3>2, <3>3, <2>1, <1>1 DEF ToGo, None, Firing, Plan!Wait
  <2>2. CASE d >= Size1
    BY <2>2, <1>1, <1>2, <1>4, Sizes DEF ToGo, Slot2, None, Firing, Plan!Wait
  <2> QED BY <2>1, <2>2, <1>1, Sizes
<1>6. InFirst(t)' \/ InSecond(t)'
  <2>1. CASE d < Size1
    BY <2>1, <1>4 DEF InFirst
  <2>2. CASE d >= Size1
    <3>1. d \in 1..Both /\ i + d \in Size1..(Both + Size1 - 1)
      BY <2>2, <1>1, <1>2, Sizes
    <3> QED BY <3>1, <2>2, <1>1, <1>4, Sizes DEF InSecond, e
  <2> QED BY <2>1, <2>2, <1>1, Sizes
<1>7. \A x \in Timer :
        /\ place'[x] # None => interval'[x] \in Timeout
        /\ place'[x] \in {None, Firing} \/ InFirst(x)' \/ InSecond(x)'
  BY <1>1, <1>4, <1>6 DEF WheelInv, InFirst, InSecond
<1>8. /\ place' \in [Timer -> {None, Firing} \cup ({1, 2} \X Nat)]
      /\ expires' \in [Timer -> 0..(Wrap - 1)]
      /\ interval' \in [Timer -> Timeout \cup {0}]
  BY <1>1, <1>2, <1>3 DEF WheelInv, Slot1, Slot2
<1> QED BY <1>1, <1>5, <1>7, <1>8 DEF WheelInv

-----------------------------------------------------------------------------
(* A tick *)

(* m_tick on the two wheels, one tick further on. *)
LEMMA TickTurns ==
  ASSUME NEW x \in 0..(Wrap - 1)
  PROVE  LET y == (x + 1) % Wrap
             i == x % Size1
         IN  /\ y \in 0..(Wrap - 1)
             /\ \/ i + 1 < Size1 /\ y % Size1 = i + 1
                \/ /\ i + 1 = Size1 /\ y % Size1 = 0
                   /\ (y \div Size1) % Size2 = ((x \div Size1) + 1) % Size2
<1> DEFINE y == (x + 1) % Wrap
           i == x % Size1
           c == (i + 1) \div Size1
<1>1. /\ y \in 0..(Wrap - 1) /\ y % Size1 = (i + 1) % Size1
      /\ (y \div Size1) % Size2 = ((x \div Size1) + c) % Size2
  <2>1. 1 \in 0..Both
    BY Sizes
  <2> QED BY <2>1, Later
<1>2. i \in 0..(Size1 - 1)
  BY Sizes
<1>3. CASE i + 1 < Size1
  BY <1>3, <1>1, <1>2, Sizes
<1>4. CASE i + 1 = Size1
  <2>1. c = 1 /\ (i + 1) % Size1 = 0
    BY <1>4, Sizes
  <2> QED BY <2>1, <1>1, <1>4
<1> QED BY <1>2, <1>3, <1>4, Sizes

(* A timer of the first wheel, one tick further on. *)
LEMMA FirstTicks ==
  ASSUME WheelInv, Tick, NEW t \in Timer, InFirst(t)
  PROVE  /\ place'[t] = Firing \/ InFirst(t)'
         /\ ToGo(t) > 0 /\ ToGo(t)' = ToGo(t) - 1
         /\ place'[t] = Firing <=> ToGo(t) = 1
<1> DEFINE i == tick % Size1
           y == tick'
           j == expires[t] % Size1
<1>1. /\ tick \in 0..(Wrap - 1) /\ y = (tick + 1) % Wrap /\ expires' = expires
      /\ place[t] = <<1, j>> /\ i \in 0..(Size1 - 1) /\ j \in 0..(Size1 - 1)
      /\ place'[t] = IF Cascaded(y, t) = Slot1(y) THEN Firing ELSE Cascaded(y, t)
  BY Sizes DEF WheelInv, Tick, InFirst, Slot1
<1>2. Cascaded(y, t) = <<1, j>>
  BY <1>1 DEF Cascaded, Slot2
<1>3. \/ i + 1 < Size1 /\ y % Size1 = i + 1
      \/ i + 1 = Size1 /\ y % Size1 = 0
  BY <1>1, TickTurns
<1> DEFINE k == y % Size1
<1>4. place'[t] = IF j = k THEN Firing ELSE <<1, j>>
  BY <1>1, <1>2 DEF Slot1
<1> HIDE DEF y, k, i, j
<1>5. ToGo(t) = IF j > i THEN j - i ELSE Size1 + j - i
  BY <1>1, Sizes DEF ToGo, None, Firing, i
<1>6. CASE j = k
  BY <1>6, <1>4, <1>5, <1>1, <1>3, Sizes DEF ToGo, Firing, k, y
<1>7. CASE j # k
  <2>1. place'[t] = <<1, j>> /\ place'[t] # Firing /\ k \in 0..(Size1 - 1)
    BY <1>7, <1>4, <1>1, <1>3, Sizes DEF Firing, k
  <2>2. ToGo(t)' = IF j > k THEN j - k ELSE Size1 + j - k
    BY <2>1, <1>7, <1>1, Sizes DEF ToGo, None, Firing, k, y
  <2>3. ToGo(t) > 0 /\ ToGo(t)' = ToGo(t) - 1 /\ ToGo(t) # 1
    BY <2>1, <2>2, <1>7, <1>5, <1>3, <1>1, Sizes DEF k
  <2> QED BY <2>1, <2>3, <1>1 DEF InFirst, Slot1, j
<1> QED BY <1>6, <1>7

(* A timer of the second wheel that stays in its slot. *)
LEMMA SecondStays ==
  ASSUME WheelInv, Tick, NEW t \in Timer, place'[t] = Slot2(expires[t]),
         NEW d \in 2..Both, expires[t] = (tick + d) % Wrap,
         (tick' % Size1) + (d - 1) \in Size1..(Both + Size1 - 1)
  PROVE  InSecond(t)' /\ ToGo(t)' = d - 1 /\ place'[t] # Firing
<1>1. /\ tick \in 0..(Wrap - 1) /\ tick' = (tick + 1) % Wrap /\ expires' = expires
      /\ d \in 1..Both /\ d - 1 \in 1..Both /\ d - 1 \in 0..Both
  BY Sizes DEF WheelInv, Tick
<1>2. tick' \in 0..(Wrap - 1)
  BY <1>1, Sizes
<1>3. expires'[t] = (tick' + (d - 1)) % Wrap
  BY <1>1, Nearer
<1>4. (expires'[t] + Wrap - tick') % Wrap = d - 1
  BY <1>1, <1>2, <1>3, Later
<1>5. place'[t] = Slot2(expires'[t]) /\ place'[t] # Firing /\ place'[t] # None
  BY <1>1 DEF Slot2, Firing, None
<1>6. ToGo(t)' = d - 1
  BY <1>4, <1>5 DEF ToGo, Slot2
<1> QED BY <1>1, <1>3, <1>5, <1>6 DEF InSecond

(* A timer of the second wheel, one tick further on. *)
LEMMA SecondTicks ==
  ASSUME WheelInv, Tick, NEW t \in Timer, InSecond(t)
  PROVE  /\ place'[t] = Firing \/ InFirst(t)' \/ InSecond(t)'
         /\ ToGo(t) > 0 /\ ToGo(t)' = ToGo(t) - 1
         /\ place'[t] = Firing <=> ToGo(t) = 1
<1>1. PICK d \in 1..Both : /\ expires[t] = (tick + d) % Wrap
                           /\ (tick % Size1) + d \in Size1..(Both + Size1 - 1)
  BY DEF InSecond
<1> DEFINE a == tick \div Size1
           i == tick % Size1
           y == tick'
           e == expires[t]
           j == e % Size1
           z == i + d
           c == z \div Size1
<1>2. /\ tick \in 0..(Wrap - 1) /\ tick \in Nat /\ y = (tick + 1) % Wrap /\ expires' = expires
      /\ place[t] = <<2, (e \div Size1) % Size2>> /\ d \in 0..Both /\ d \in Nat
      /\ e = (tick + d) % Wrap /\ z \in Size1..(Both + Size1 - 1)
      /\ place'[t] = IF Cascaded(y, t) = Slot1(y) THEN Firing ELSE Cascaded(y, t)
  BY <1>1, Sizes DEF WheelInv, Tick, InSecond, Slot2
<1>3. a \in Nat /\ i \in 0..(Size1 - 1)
  BY <1>2, Parts, Sizes
<1>4. /\ (e + Wrap - tick) % Wrap = d /\ j = z % Size1
      /\ (e \div Size1) % Size2 = (a + c) % Size2
  BY <1>2, Later
<1>5. ToGo(t) = d
  BY <1>2, <1>4 DEF ToGo, None, Firing
<1>6. /\ \/ i + 1 < Size1 /\ y % Size1 = i + 1
         \/ i + 1 = Size1 /\ y % Size1 = 0 /\ (y \div Size1) % Size2 = (a + 1) % Size2
  BY <1>2, TickTurns
<1> HIDE DEF a, i, y, e, j
<1>7. z \in Nat /\ z = i + d
  BY <1>2, <1>3
<1> HIDE DEF z
<1>8. c \in Nat /\ j \in 0..(Size1 - 1) /\ z = Size1 * c + j
  <2>1. z \div Size1 \in Nat /\ z % Size1 \in 0..(Size1 - 1)
        /\ z = Size1 * (z \div Size1) + (z % Size1)
    BY <1>7, Sizes, Parts
  <2> QED BY <2>1, <1>4
<1> HIDE DEF c
<1>9. c \in 1..Size2
  BY <1>2, <1>8, Sizes DEF Both
<1>10. CASE i + 1 < Size1
  <2>1. /\ place'[t] = place[t] /\ d \in 2..Both
        /\ (y % Size1) + (d - 1) \in Size1..(Both + Size1 - 1)
    BY <1>10, <1>2, <1>3, <1>6, <1>7, Sizes DEF Cascaded, Slot1
  <2>2. place'[t] = Slot2(expires[t])
    BY <2>1, <1>2 DEF Slot2, e
  <2>3. InSecond(t)' /\ ToGo(t)' = d - 1 /\ place'[t] # Firing
    BY <2>1, <2>2, <1>1, SecondStays DEF y
  <2> QED BY <2>1, <2>3, <1>5
<1>11. CASE i + 1 = Size1 /\ c = 1
  <2>1. place[t] = Slot2(y) /\ y % Size1 = 0
    BY <1>11, <1>2, <1>3, <1>4, <1>6, Sizes DEF Slot2
  <2>2. Cascaded(y, t) = <<1, j>> /\ Slot1(y) = <<1, 0>>
    BY <2>1 DEF Cascaded, Slot1, j, e
  <2>3. d = j + 1
    BY <1>11, <1>7, <1>8, <1>3, Sizes
  <2>4. CASE j = 0
    BY <2>2, <2>3, <2>4, <1>2, <1>5 DEF ToGo, Firing
  <2>5. CASE j # 0
    <3>1. place'[t] = <<1, j>> /\ place'[t] # Firing
      BY <2>2, <2>5, <1>2 DEF Firing
    <3>2. ToGo(t)' = j
      BY <3>1, <2>1, <2>5, <1>8, Sizes DEF ToGo, None, Firing, y
    <3>3. InFirst(t)'
      BY <3>1, <1>2 DEF InFirst, Slot1, j, e
    <3> QED BY <3>1, <3>2, <3>3, <2>3, <2>5, <1>5, <1>8, Sizes
  <2> QED BY <2>4, <2>5
<1>12. CASE i + 1 = Size1 /\ c > 1
  <2>1. (a + c) % Size2 # (a + 1) % Size2
    <3> DEFINE x == a + 1
               k == c - 1
    <3>1. x \in Nat /\ k \in 1..(Size2 - 1) /\ a + c = x + k
      BY <1>3, <1>9, <1>12, Sizes
    <3> HIDE DEF x, k
    <3>2. (x + k) % Size2 # x % Size2
      BY <3>1, Apart, Sizes
    <3> QED BY <3>1, <3>2 DEF x
  <2>2. place[t] # Slot2(y)
    BY <2>1, <1>12, <1>2, <1>3, <1>4, <1>6, Sizes DEF Slot2
  <2>3. place'[t] = place[t]
    BY <2>2, <1>2 DEF Cascaded, Slot1
  <2>4. d \in 2..Both /\ (y % Size1) + (d - 1) \in Size1..(Both + Size1 - 1)
    <3>1. d - 1 = Size1 * (c - 1) + j
      BY <1>12, <1>7, <1>8, <1>3, Sizes
    <3>2. Size1 * (c - 1) >= Size1
      BY <1>12, <1>9, Sizes
    <3> QED BY <3>1, <3>2, <1>1, <1>6, <1>8, <1>12, Sizes
  <2>5. place'[t] = Slot2(expires[t])
    BY <2>3, <1>2 DEF Slot2, e
  <2>6. InSecond(t)' /\ ToGo(t)' = d - 1 /\ place'[t] # Firing
    BY <2>4, <2>5, <1>1, SecondStays DEF y
  <2> QED BY <2>4, <2>6, <1>5
<1> QED BY <1>3, <1>9, <1>10, <1>11, <1>12, Sizes

(* Every timer on the wheels is one tick nearer, and goes off when it had one *)
(* left.                                                                    *)
LEMMA TickKeeps == ASSUME WheelInv, Tick PROVE WheelInv' /\ Plan!Tick
<1>1. /\ tick' = (tick + 1) % Wrap /\ tick \in 0..(Wrap - 1) /\ Fired = {}
      /\ expires' = expires /\ interval' = interval
      /\ DOMAIN place' = Timer
  BY DEF Tick, Idle, WheelInv
<1>2. tick' \in 0..(Wrap - 1)
  BY <1>1, Sizes
<1>3. ASSUME NEW t \in Timer
      PROVE  /\ place'[t] \in {None, Firing} \cup ({1, 2} \X Nat)
             /\ place'[t] # None => place[t] # None
             /\ place'[t] \in {None, Firing} \/ InFirst(t)' \/ InSecond(t)'
             /\ ToGo(t)' = IF ToGo(t) = 0 THEN 0 ELSE ToGo(t) - 1
             /\ place'[t] = Firing <=> ToGo(t) = 1
  <2>1. place[t] # Firing /\ expires[t] \in Nat
    BY <1>1, Sizes DEF Fired, WheelInv
  <2>2. CASE place[t] = None
    <3>1. place'[t] = None
      BY <2>2 DEF Tick, Cascaded, None, Slot1, Slot2
    <3> QED BY <3>1, <2>2 DEF ToGo, None, Firing
  <2>3. CASE InFirst(t) \/ InSecond(t)
    <3>1. place[t] # None
      BY <2>3 DEF InFirst, InSecond, Slot1, Slot2, None
    <3>2. /\ place'[t] = Firing \/ InFirst(t)' \/ InSecond(t)'
          /\ ToGo(t) > 0 /\ ToGo(t)' = ToGo(t) - 1
          /\ place'[t] = Firing <=> ToGo(t) = 1
      BY <2>3, FirstTicks, SecondTicks
    <3>3. place'[t] \in {None, Firing} \cup ({1, 2} \X Nat)
      <4>1. expires[t] % Size1 \in Nat /\ (expires[t] \div Size1) % Size2 \in Nat
        BY <2>1, Sizes
      <4>2. \/ place'[t] = Firing
            \/ place'[t] = <<1, expires[t] % Size1>>
            \/ place'[t] = <<2, (expires[t] \div Size1) % Size2>>
        BY <3>2, <1>1 DEF InFirst, InSecond, Slot1, Slot2
      <4> QED BY <4>1, <4>2
    <3>4. ToGo(t) # 0
      BY <3>2
    <3> QED BY <3>1, <3>2, <3>3, <3>4
  <2> QED BY <2>1, <2>2, <2>3 DEF WheelInv
<1>4. WheelInv'
  <2>1. place' \in [Timer -> {None, Firing} \cup ({1, 2} \X Nat)]
    BY <1>3 DEF Tick
  <2> QED BY <1>1, <1>2, <1>3, <2>1 DEF WheelInv
<1>5. Fired' = {t \in Timer : ToGo(t) = 1}
  BY <1>3 DEF Fired
<1> QED BY <1>1, <1>3, <1>4, <1>5 DEF Plan!Tick

-----------------------------------------------------------------------------
(* The other steps *)

(* A timer that is taken off, by delTimer, stop or the walk of a tick, has    *)
(* nothing to go.                                                           *)
LEMMA OffKeeps ==
  ASSUME WheelInv, NEW T \in SUBSET Timer,
         place' = [t \in Timer |-> IF t \in T THEN None ELSE place[t]],
         UNCHANGED <<tick, expires, interval>>
  PROVE  /\ WheelInv' /\ Fired' = Fired \ T
         /\ \A t \in Timer : ToGo(t)' = IF t \in T THEN 0 ELSE ToGo(t)
<1>1. /\ \A t \in Timer : place'[t] = IF t \in T THEN None ELSE place[t]
      /\ tick' = tick /\ expires' = expires /\ interval' = interval
  OBVIOUS
<1>2. place' \in [Timer -> {None, Firing} \cup ({1, 2} \X Nat)]
  BY DEF WheelInv
<1>3. WheelInv'
  BY <1>1, <1>2 DEF WheelInv, InFirst, InSecond
<1>4. Fired' = Fired \ T
  BY <1>1 DEF Fired, None, Firing
<1>5. \A t \in Timer : ToGo(t)' = IF t \in T THEN 0 ELSE ToGo(t)
  <2> TAKE t \in Timer
  <2>1. CASE t \in T
    BY <2>1, <1>1 DEF ToGo, None, Firing
  <2>2. CASE t \notin T
    <3>1. place'[t] = place[t] /\ expires'[t] = expires[t] /\ tick' = tick
      BY <2>2, <1>1
    <3>2. ToGo(t)' = ToGo(t)
      BY <3>1 DEF ToGo
    <3> QED BY <3>2, <2>2
  <2> QED BY <2>1, <2>2
<1> QED BY <1>3, <1>4, <1>5

(* addTimer and modTimer between two ticks, and updateTimer in a callback. *)
LEMMA PutKeeps ==
  ASSUME WheelInv, NEW t \in Timer, NEW d \in Timeout, Put(t, d)
  PROVE  /\ WheelInv' /\ Fired' = Fired \ {t}
         /\ [x \in Timer |-> ToGo(x)]' = [[x \in Timer |-> ToGo(x)] EXCEPT ![t] = Plan!Wait(d)]
<1>1. WheelInv' /\ ToGo(t)' = Plan!Wait(d) /\ place'[t] \notin {None, Firing}
  BY PutWaits
<1>2. \A x \in Timer : x # t => place'[x] = place[x] /\ expires'[x] = expires[x] /\ tick' = tick
  BY DEF Put, WheelInv
<1>3. \A x \in Timer : x # t => ToGo(x)' = ToGo(x)
  BY <1>2 DEF ToGo
<1>4. Fired' = Fired \ {t}
  BY <1>1, <1>2 DEF Fired
<1> QED BY <1>1, <1>3, <1>4

(* Each step of the wheel is a step of Timeouts or none. *)
LEMMA WheelStep == WheelInv /\ [Next]_vars => WheelInv' /\ [Plan!Next]_(Plan!vars)
<1> SUFFICES ASSUME WheelInv, [Next]_vars PROVE WheelInv' /\ [Plan!Next]_(Plan!vars)
  OBVIOUS
<1> DEFINE left == [x \in Timer |-> ToGo(x)]
<1>1. CASE Tick
  BY <1>1, TickKeeps DEF Plan!Next
<1>2. CASE Stop
  <2>1. place' = [t \in Timer |-> IF t \in Timer THEN None ELSE place[t]]
        /\ UNCHANGED <<tick, expires, interval>> /\ Fired = {}
    BY <1>2 DEF Stop, Idle
  <2>2. WheelInv' /\ Fired' = {} /\ \A t \in Timer : ToGo(t)' = 0
    BY <2>1, OffKeeps
  <2>3. Plan!Disarm(Timer)
    BY <2>1, <2>2 DEF Plan!Disarm
  <2> QED BY <2>2, <2>3 DEF Plan!Next
<1>3. ASSUME NEW t \in Timer, DelTimer(t) PROVE WheelInv' /\ [Plan!Next]_(Plan!vars)
  <2>1. place' = [x \in Timer |-> IF x \in {t} THEN None ELSE place[x]]
        /\ UNCHANGED <<tick, expires, interval>> /\ Fired = {}
    BY <1>3 DEF DelTimer, Idle, WheelInv
  <2>2. /\ WheelInv' /\ Fired' = {}
        /\ \A x \in Timer : ToGo(x)' = IF x \in {t} THEN 0 ELSE ToGo(x)
    BY <2>1, OffKeeps
  <2>3. Plan!Disarm({t})
    BY <2>1, <2>2 DEF Plan!Disarm
  <2> QED BY <2>2, <2>3 DEF Plan!Next
<1>4. ASSUME NEW t \in Timer, NEW d \in Timeout, ModTimer(t, d)
      PROVE  WheelInv' /\ [Plan!Next]_(Plan!vars)
  <2>1. Fired = {} /\ Put(t, d)
    BY <1>4 DEF ModTimer, Idle
  <2>2. WheelInv' /\ Fired' = {} /\ left' = [left EXCEPT ![t] = Plan!Wait(d)]
    BY <2>1, PutKeeps
  <2>3. Plan!Arm(t, d)
    BY <2>1, <2>2 DEF Plan!Arm
  <2> QED BY <2>2, <2>3 DEF Plan!Next
<1>5. ASSUME NEW t \in Timer, GoOff(t) PROVE WheelInv' /\ [Plan!Next]_(Plan!vars)
  <2>1. place' = [x \in Timer |-> IF x \in {t} THEN None ELSE place[x]]
        /\ UNCHANGED <<tick, expires, interval>> /\ place[t] = Firing
    BY <1>5 DEF GoOff, WheelInv
  <2>2. /\ WheelInv' /\ Fired' = Fired \ {t}
        /\ \A x \in Timer : ToGo(x)' = IF x \in {t} THEN 0 ELSE ToGo(x)
    BY <2>1, OffKeeps
  <2>3. t \in Fired /\ ToGo(t) = 0
    BY <2>1 DEF Fired, ToGo, None, Firing
  <2>4. Plan!GoOff(t)
    BY <2>2, <2>3 DEF Plan!GoOff
  <2> QED BY <2>2, <2>4 DEF Plan!Next
<1>6. ASSUME NEW t \in Timer, GoOffAgain(t) PROVE WheelInv' /\ [Plan!Next]_(Plan!vars)
  <2>1. place[t] = Firing /\ Put(t, interval[t]) /\ interval[t] \in Timeout
    BY <1>6 DEF GoOffAgain, WheelInv, None, Firing
  <2>2. /\ WheelInv' /\ Fired' = Fired \ {t}
        /\ left' = [left EXCEPT ![t] = Plan!Wait(interval[t])]
    BY <2>1, PutKeeps
  <2>3. t \in Fired
    BY <2>1 DEF Fired
  <2>4. Plan!GoOff(t)
    BY <2>1, <2>2, <2>3 DEF Plan!GoOff
  <2> QED BY <2>2, <2>4 DEF Plan!Next
<1>7. CASE UNCHANGED vars
  BY <1>7 DEF vars, WheelInv, InFirst, InSecond, Plan!vars, Fired, ToGo
<1> QED BY <1>1, <1>2, <1>3, <1>4, <1>5, <1>6, <1>7 DEF Next, Walk

(* A wheel starts empty, at tick 0. *)
LEMMA WheelInit == Init => WheelInv /\ Plan!Init
  BY Sizes DEF Init, WheelInv, Plan!Init, Fired, ToGo, None, Firing

(* The invariant of the wheel, in every state of it. *)
THEOREM WheelKept == Spec => []WheelInv
<1>1. Init => WheelInv
  BY WheelInit
<1>2. WheelInv /\ [Next]_vars => WheelInv'
  BY WheelStep
<1> QED BY <1>1, <1>2, PTL DEF Spec

(* Whatever is armed, re-armed and deleted, between two ticks or in a         *)
(* callback, each timer goes off at the tick it was armed for: the safety     *)
(* part of TimeoutSpec.                                                     *)
THEOREM OnTime == Spec => Plan!Init /\ [][Plan!Next]_(Plan!vars)
<1>1. Init => Plan!Init
  BY WheelInit
<1>2. WheelInv /\ [Next]_vars => [Plan!Next]_(Plan!vars)
  BY WheelStep
<1> QED BY <1>1, <1>2, WheelKept, PTL DEF Spec

-----------------------------------------------------------------------------
(* The clock *)

(* Each value read is given to each thread once, and all of it before the    *)
(* next is read.                                                            *)
ClockInv ==
  /\ expired \in Nat /\ unread \in Nat /\ value \in Nat
  /\ todo \in Seq(Time!Thread) /\ IsInjective(todo)
  /\ reading => todo = <<>>
  /\ que \in [Time!Thread -> Seq(Nat)] /\ time \in [Time!Thread -> Nat]
  /\ TimeConserved

(* The fold of Clock is the sum of QueueLemmas. *)
LEMMA SameSum == \A q : Time!FoldSeq(+, 0, q) = SumOf(q) /\ Time!ToSet(q) = ToSet(q)
BY DEF SumOf, Time!ToSet, ToSet, Time!FoldSeq, FoldSeq, Time!FoldFunction, FoldFunction,
       Time!FoldFunctionOnSet, FoldFunctionOnSet, Time!MapThenFoldSet, MapThenFoldSet

Coming(t) == (IF t \in ToSet(todo) THEN value ELSE 0) + SumOf(que[t])

(* What is on the way to a thread. *)
LEMMA PendingIs == \A t \in Time!Thread : Time!Pending(t) = Coming(t)
<1> SUFFICES ASSUME NEW t \in Time!Thread PROVE Time!Pending(t) = Coming(t)
  OBVIOUS
<1> QED BY SameSum DEF Time!Pending, Coming

(* Each thread is served once. *)
LEMMA OrderIs ==
  /\ Time!Order \in Seq(Time!Thread) /\ IsInjective(Time!Order)
  /\ ToSet(Time!Order) = Time!Thread
<1>1. /\ Time!Order \in Seq(Time!Thread) /\ DOMAIN Time!Order = 1..4
      /\ Time!Order[1] = "director" /\ Time!Order[2] = "sender"
      /\ Time!Order[3] = "dealer" /\ Time!Order[4] = "receiver"
  BY DEF Time!Order, Time!Thread
<1>2. 1..4 = {1, 2, 3, 4}
  OBVIOUS
<1>3. IsInjective(Time!Order)
  BY <1>1, <1>2 DEF IsInjective
<1>4. ToSet(Time!Order) = Time!Thread
  BY <1>1, <1>2 DEF ToSet, Time!Thread
<1> QED BY <1>1, <1>3, <1>4

(* No step of the clock loses an expiration or counts one twice. *)
LEMMA ClockStep == ClockInv /\ [Time!Next]_clockVars => ClockInv'
<1> SUFFICES ASSUME ClockInv, [Time!Next]_clockVars PROVE ClockInv'
  OBVIOUS
<1> DEFINE S(t) == SumOf(que[t])
           Due(t) == IF t \in ToSet(todo) THEN value ELSE 0
<1>1. /\ expired \in Nat /\ unread \in Nat /\ value \in Nat
      /\ todo \in Seq(Time!Thread) /\ IsInjective(todo)
      /\ reading => todo = <<>>
      /\ que \in [Time!Thread -> Seq(Nat)] /\ time \in [Time!Thread -> Nat]
  BY DEF ClockInv
<1>2. \A t \in Time!Thread : S(t) \in Nat /\ Due(t) \in Nat /\ time[t] + (Due(t) + S(t)) + unread = expired
  <2> SUFFICES ASSUME NEW t \in Time!Thread
               PROVE  S(t) \in Nat /\ Due(t) \in Nat /\ time[t] + (Due(t) + S(t)) + unread = expired
    OBVIOUS
  <2>1. S(t) \in Nat
    <3>1. que[t] \in Seq(Nat)
      BY <1>1
    <3> QED BY <3>1, 0 \in Nat, SumAppend
  <2>2. time[t] + Time!Pending(t) + unread = expired
    BY DEF ClockInv, TimeConserved, Time!TimeConserved
  <2>3. Time!Pending(t) = Due(t) + S(t)
    BY PendingIs DEF Coming
  <2> QED BY <2>1, <2>2, <2>3, <1>1
<1>3. ASSUME \A t \in Time!Thread : time'[t] + (Due(t)' + S(t)') + unread' = expired'
      PROVE  TimeConserved'
  <2>1. (\A t \in Time!Thread : Time!Pending(t) = Coming(t))'
    BY PendingIs, PTL
  <2>2. \A t \in Time!Thread : Time!Pending(t)' = Due(t)' + S(t)'
    BY <2>1 DEF Coming
  <2> QED BY <1>3, <2>2 DEF TimeConserved, Time!TimeConserved
<1>4. CASE Time!Expire
  <2>1. /\ expired' = expired + 1 /\ unread' = unread + 1
        /\ UNCHANGED <<reading, value, todo, que, time>>
    BY <1>4 DEF Time!Expire
  <2>2. \A t \in Time!Thread : time'[t] + (Due(t)' + S(t)') + unread' = expired'
    <3>1. \A t \in Time!Thread : S(t)' = S(t) /\ Due(t)' = Due(t) /\ time[t] \in Nat
      BY <2>1, <1>1
    <3> HIDE DEF S, Due
    <3> QED BY <2>1, <3>1, <1>1, <1>2
  <2>3. TimeConserved'
    BY <2>2, <1>3
  <2> QED BY <2>1, <2>3, <1>1 DEF ClockInv
<1>5. CASE Time!Report \/ Time!Begin \/ UNCHANGED clockVars
  <2>1. /\ UNCHANGED <<expired, unread, value, todo, que, time>>
        /\ reading' => todo = <<>>
    BY <1>5, <1>1 DEF Time!Report, Time!Begin, clockVars
  <2>2. \A t \in Time!Thread : time'[t] + (Due(t)' + S(t)') + unread' = expired'
    BY <2>1, <1>2
  <2>3. TimeConserved'
    BY <2>2, <1>3
  <2> QED BY <2>1, <2>3, <1>1 DEF ClockInv
<1>6. CASE Time!Read
  <2>1. /\ reading /\ ~ reading' /\ value' = unread /\ unread' = 0
        /\ todo' = IF unread = 0 THEN <<>> ELSE Time!Order
        /\ UNCHANGED <<expired, que, time>>
    BY <1>6 DEF Time!Read
  <2>2. todo = <<>> /\ ToSet(<<>>) = {} /\ IsInjective(<<>>) /\ <<>> \in Seq(Time!Thread)
    BY <2>1, <1>1, EmptyElems, EmptySeq
  <2>3. todo' \in Seq(Time!Thread) /\ IsInjective(todo')
    BY <2>1, <2>2, OrderIs
  <2>4. \A t \in Time!Thread : Due(t) = 0 /\ Due(t)' = unread
    BY <2>1, <2>2, OrderIs
  <2>5. \A t \in Time!Thread : time'[t] + (Due(t)' + S(t)') + unread' = expired'
    <3>1. \A t \in Time!Thread : S(t)' = S(t) /\ time'[t] = time[t]
      BY <2>1
    <3> HIDE DEF S, Due
    <3> QED BY <2>1, <2>4, <3>1, <1>1, <1>2
  <2>6. TimeConserved'
    BY <2>5, <1>3
  <2> QED BY <2>1, <2>3, <2>6, <1>1 DEF ClockInv
<1>7. ASSUME NEW h, h = Head(todo), todo # <<>>, todo' = Tail(todo),
             UNCHANGED <<expired, unread, reading, value>>
      PROVE  /\ h \in Time!Thread /\ todo' \in Seq(Time!Thread) /\ IsInjective(todo')
             /\ ~ reading
             /\ Due(h) = value /\ Due(h)' = 0
             /\ \A t : t # h => Due(t)' = Due(t)
  <2>1. /\ h \in Time!Thread /\ todo' \in Seq(Time!Thread) /\ IsInjective(todo')
        /\ ToSet(todo) = {h} \cup ToSet(todo') /\ h \notin ToSet(todo')
    BY <1>1, <1>7, HeadTailElems
  <2>2. ToSet(todo)' = ToSet(todo')
    OBVIOUS
  <2> QED BY <2>1, <2>2, <1>1, <1>7
<1>8. CASE Time!Notify
  <2>0. PICK h : h = Head(todo)
    OBVIOUS
  <2>1. /\ todo # <<>> /\ todo' = Tail(todo)
        /\ que' = [que EXCEPT ![h] = Append(que[h], value)]
        /\ UNCHANGED <<expired, unread, reading, value, time>>
    BY <1>8, <2>0 DEF Time!Notify
  <2>2. /\ h \in Time!Thread /\ todo' \in Seq(Time!Thread) /\ IsInjective(todo')
        /\ ~ reading /\ Due(h) = value /\ Due(h)' = 0
        /\ \A t : t # h => Due(t)' = Due(t)
    BY <2>0, <2>1, <1>7
  <2>3. que[h] \in Seq(Nat) /\ Append(que[h], value) \in Seq(Nat)
    BY <2>2, <1>1, AppendProperties
  <2>4. /\ que' \in [Time!Thread -> Seq(Nat)] /\ que'[h] = Append(que[h], value)
        /\ \A t \in Time!Thread : t # h => que'[t] = que[t]
    BY <2>1, <2>2, <2>3, <1>1
  <2>5. SumOf(que'[h]) = SumOf(que[h]) + value
    BY <2>3, <2>4, <1>1, SumAppend
  <2>6. \A t \in Time!Thread : time'[t] + (Due(t)' + S(t)') + unread' = expired'
    <3>2. ASSUME NEW t \in Time!Thread, t = h PROVE time'[t] + (Due(t)' + S(t)') + unread' = expired'
      <4>1. S(t)' = S(t) + value
        BY <2>5, <3>2
      <4>2. time[t] \in Nat
        BY <1>1
      <4> HIDE DEF S
      <4> QED BY <4>1, <4>2, <3>2, <2>1, <2>2, <1>1, <1>2
    <3>3. ASSUME NEW t \in Time!Thread, t # h PROVE time'[t] + (Due(t)' + S(t)') + unread' = expired'
      <4>1. S(t)' = S(t)
        BY <2>4, <3>3
      <4> HIDE DEF S
      <4> QED BY <4>1, <3>3, <2>1, <2>2, <1>1, <1>2
    <3> QED BY <3>2, <3>3
  <2>7. TimeConserved'
    BY <2>6, <1>3
  <2> QED BY <2>1, <2>2, <2>4, <2>7, <1>1 DEF ClockInv
<1>9. CASE Time!TickOwn
  <2>0. PICK h : h = Head(todo)
    OBVIOUS
  <2>1. /\ todo # <<>> /\ todo' = Tail(todo)
        /\ time' = [time EXCEPT ![h] = time[h] + value]
        /\ UNCHANGED <<expired, unread, reading, value, que>>
    BY <1>9, <2>0 DEF Time!TickOwn, Time!Turn
  <2>2. /\ h \in Time!Thread /\ todo' \in Seq(Time!Thread) /\ IsInjective(todo')
        /\ ~ reading /\ Due(h) = value /\ Due(h)' = 0
        /\ \A t : t # h => Due(t)' = Due(t)
    BY <2>0, <2>1, <1>7
  <2>3. /\ time' \in [Time!Thread -> Nat] /\ time'[h] = time[h] + value
        /\ \A t \in Time!Thread : t # h => time'[t] = time[t]
    BY <2>1, <2>2, <1>1
  <2>4. \A t \in Time!Thread : time'[t] + (Due(t)' + S(t)') + unread' = expired'
    <3>1. \A t \in Time!Thread : S(t)' = S(t) /\ time[t] \in Nat
      BY <2>1, <1>1
    <3>2. \A t \in Time!Thread : time'[t] + Due(t)' = time[t] + Due(t)
      BY <3>1, <2>1, <2>2, <2>3, <1>1
    <3>3. \A t \in Time!Thread : Due(t)' \in Nat /\ time'[t] \in Nat
      BY <2>1, <2>3, <1>1
    <3> HIDE DEF S, Due
    <3>4. SUFFICES ASSUME NEW t \in Time!Thread
                   PROVE  time'[t] + (Due(t)' + S(t)') + unread' = expired'
      OBVIOUS
    <3>5. time'[t] + (Due(t)' + S(t)') = time[t] + (Due(t) + S(t))
      <4>1. S(t) \in Nat /\ Due(t) \in Nat
        BY <1>2
      <4> QED BY <4>1, <3>1, <3>2, <3>3
    <3> QED BY <3>5, <2>1, <1>2
  <2>5. TimeConserved'
    BY <2>4, <1>3
  <2> QED BY <2>1, <2>2, <2>3, <2>5, <1>1 DEF ClockInv
<1>10. ASSUME NEW h \in Time!Thread, Time!TickMsg(h) PROVE ClockInv'
  <2> DEFINE c == Head(que[h])
  <2>1. /\ que[h] # <<>> /\ que' = [que EXCEPT ![h] = Tail(que[h])]
        /\ time' = [time EXCEPT ![h] = time[h] + c]
        /\ UNCHANGED <<expired, unread, reading, value, todo>>
    BY <1>10 DEF Time!TickMsg, Time!Turn
  <2>2. /\ c \in Nat /\ Tail(que[h]) \in Seq(Nat)
        /\ SumOf(que[h]) = c + SumOf(Tail(que[h])) /\ SumOf(Tail(que[h])) \in Nat
    BY <2>1, <1>1, SumTail
  <2> HIDE DEF c
  <2>3. /\ time' \in [Time!Thread -> Nat] /\ time'[h] = time[h] + c
        /\ \A t \in Time!Thread : t # h => time'[t] = time[t]
    BY <2>1, <2>2, <1>1
  <2>4. /\ que' \in [Time!Thread -> Seq(Nat)] /\ que'[h] = Tail(que[h])
        /\ \A t \in Time!Thread : t # h => que'[t] = que[t]
    BY <2>1, <2>2, <1>1
  <2>5. \A t \in Time!Thread : time'[t] + (Due(t)' + S(t)') + unread' = expired'
    <3>1. S(h) = c + SumOf(que'[h]) /\ \A t \in Time!Thread : t # h => SumOf(que'[t]) = S(t)
      BY <2>2, <2>4
    <3>2. \A t \in Time!Thread : S(t)' = SumOf(que'[t]) /\ Due(t)' = Due(t) /\ time[t] \in Nat
      BY <2>1, <1>1
    <3>3. SumOf(que'[h]) \in Nat
      BY <2>2, <2>4
    <3> HIDE DEF S, Due
    <3>4. SUFFICES ASSUME NEW t \in Time!Thread
                   PROVE  time'[t] + (Due(t)' + S(t)') + unread' = expired'
      OBVIOUS
    <3>5. S(t)' \in Nat /\ time'[t] \in Nat /\ S(t) \in Nat /\ Due(t) \in Nat
      BY <3>1, <3>2, <3>3, <2>3, <1>2
    <3>6. time'[t] + S(t)' = time[t] + S(t)
      <4>1. CASE t = h
        BY <4>1, <3>1, <3>2, <3>3, <2>2, <2>3
      <4>2. CASE t # h
        BY <4>2, <3>1, <3>2, <2>3
      <4> QED BY <4>1, <4>2
    <3>7. time'[t] + (Due(t)' + S(t)') = time[t] + (Due(t) + S(t))
      BY <3>2, <3>5, <3>6
    <3> QED BY <3>7, <2>1, <1>2
  <2>6. TimeConserved'
    BY <2>5, <1>3
  <2> QED BY <2>1, <2>3, <2>4, <2>6, <1>1 DEF ClockInv
<1> QED BY <1>4, <1>5, <1>6, <1>8, <1>9, <1>10 DEF Time!Next, Time!Receiver

(* A server starts with no expiration, and nothing on the way. *)
LEMMA ClockInit == Time!Init => ClockInv
<1> SUFFICES ASSUME Time!Init PROVE ClockInv
  OBVIOUS
<1>1. /\ expired = 0 /\ unread = 0 /\ value = 0 /\ todo = <<>> /\ reading = FALSE
      /\ que = [t \in Time!Thread |-> <<>>] /\ time = [t \in Time!Thread |-> 0]
  BY DEF Time!Init
<1>2. ToSet(<<>>) = {} /\ IsInjective(<<>>) /\ SumOf(<<>>) = 0
  BY EmptyElems, SumEmpty
<1>3. ASSUME NEW t \in Time!Thread PROVE Time!Pending(t) = 0 /\ time[t] = 0
  <2>1. Time!Pending(t) = Coming(t)
    BY PendingIs
  <2> QED BY <2>1, <1>1, <1>2 DEF Coming
<1>4. TimeConserved
  BY <1>1, <1>3 DEF TimeConserved, Time!TimeConserved
<1> QED BY <1>1, <1>2, <1>4, EmptySeq DEF ClockInv

(* No expiration of the timerfd is lost or counted twice in any of the four  *)
(* threads, whatever their order and however many come at once.             *)
THEOREM TimeKept == TimersSpec => []TimeConserved
<1>1. TimersInit => ClockInv
  BY ClockInit DEF TimersInit
<1>2. ClockInv /\ [TimersNext]_timerVars => ClockInv'
  <2>1. [TimersNext]_timerVars => [Time!Next]_clockVars
    BY DEF TimersNext, OffClock, timerVars
  <2> QED BY <2>1, ClockStep
<1>3. ClockInv => TimeConserved
  BY DEF ClockInv
<1> QED BY <1>1, <1>2, <1>3, PTL DEF TimersSpec
===============================================================================
