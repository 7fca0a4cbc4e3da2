---------------------------- MODULE ShutdownProofs ----------------------------
(***************************************************************************)
(* The end of the server, for any number of signals and whether or not      *)
(* pthread_create may fail: main frees what is in it when it is alone, and   *)
(* what a handler may then still find missing.                              *)
(***************************************************************************)
EXTENDS Shutdown, QueueLemmas

Active == {p \in Pool : life[p] \in {"created", "running"}}

Freeing == {"free", "clear"} \X Object
Calls   == ({"create", "stop", "join"} \X Pool) \cup Freeing

(* Whatever main creates it joins later on. *)
JoinsFollow(s) ==
  \A i \in 1..Len(s) : s[i][1] = "create" =>
    \A p \in Pool : \E j \in (i + 1)..Len(s) : s[j] = <<"join", p>>

(* Once main frees it does nothing else. *)
FreesLast(s) ==
  \A i \in 1..Len(s) : s[i] \in Freeing => \A j \in i..Len(s) : s[j] \in Freeing

(* What a handler on main has found on its way is there until it returns. *)
Found(h) == /\ h > 1 => memory["server"] # "null"
            /\ h > 2 => memory["director"] # "null"
            /\ h > 3 => \A x \in Object : memory[x] = "live"

(* A thread that is at work is still to be joined, only threads at work and  *)
(* main run handlers, and only when nothing is left but to free is anything  *)
(* freed.                                                                    *)
ShutdownInv ==
  /\ plan \in Seq(Calls) /\ JoinsFollow(plan) /\ FreesLast(plan)
  /\ life \in [Pool -> {"none", "created", "running", "ended"}]
  /\ running \in [Pool -> BOOLEAN]
  /\ memory \in [Object -> {"live", "freed", "null"}]
  /\ handlers \in [Thread -> Seq(1..7)]
  /\ \A p \in Pool : running[p] => p \in Active
  /\ \A p \in Active : <<"join", p>> \in ToSet(plan)
  /\ \A p \in Pool : handlers[p] # <<>> => p \in Active
  /\ (\E x \in Object : memory[x] # "live") => ToSet(plan) \subseteq Freeing
  /\ \A h \in ToSet(handlers["main"]) : Found(h)

-----------------------------------------------------------------------------
(* What main has to do *)

(* Calls put before a plan that joins every thread, or before one that        *)
(* creates none, leave it so.                                                *)
LEMMA JoinsStay ==
  ASSUME NEW a \in Seq(Calls), NEW b \in Seq(Calls), JoinsFollow(b),
         \/ \A p \in Pool : <<"join", p>> \in ToSet(b)
         \/ \A c \in ToSet(a) : c[1] # "create"
  PROVE  JoinsFollow(a \o b)
<1> DEFINE s == a \o b
           m == Len(a)
           n == Len(b)
<1>1. /\ m \in Nat /\ n \in Nat /\ Len(s) = m + n
      /\ \A i \in 1..m : s[i] = a[i] /\ a[i] \in ToSet(a)
      /\ \A i \in 1..n : s[m + i] = b[i]
      /\ \A i \in (m + 1)..(m + n) : i - m \in 1..n /\ s[i] = b[i - m]
  <2>1. /\ m \in Nat /\ n \in Nat /\ Len(s) = m + n
        /\ \A i \in 1..m : s[i] = a[i]
        /\ \A i \in 1..n : s[m + i] = b[i]
    BY LenProperties, ConcatProperties
  <2>2. \A i \in 1..m : a[i] \in ToSet(a)
    BY LenProperties DEF ToSet
  <2> HIDE DEF s, m, n
  <2>3. ASSUME NEW i \in (m + 1)..(m + n) PROVE i - m \in 1..n /\ s[i] = b[i - m]
    <3> DEFINE k == i - m
    <3>1. k \in 1..n /\ m + k = i
      BY <2>1
    <3> HIDE DEF k
    <3>2. s[i] = b[k]
      BY <2>1, <3>1
    <3> QED BY <3>1, <3>2 DEF k
  <2> QED BY <2>1, <2>2, <2>3
<1> SUFFICES ASSUME NEW i \in 1..Len(s), s[i][1] = "create", NEW p \in Pool
             PROVE  \E j \in (i + 1)..Len(s) : s[j] = <<"join", p>>
  BY DEF JoinsFollow
<1> HIDE DEF s, m, n
<1>2. CASE i > m
  <2>1. i - m \in 1..n /\ b[i - m][1] = "create"
    BY <1>1, <1>2
  <2>2. PICK j \in ((i - m) + 1)..n : b[j] = <<"join", p>>
    BY <2>1 DEF JoinsFollow, n
  <2>3. j \in 1..n /\ m + j \in (i + 1)..Len(s)
    BY <1>1, <1>2, <2>2
  <2> QED BY <1>1, <2>2, <2>3
<1>3. CASE i <= m
  <2>0. i \in 1..m
    BY <1>1, <1>3
  <2>1. i \in 1..m /\ s[i] \in ToSet(a)
    BY <1>1, <2>0, Zenon
  <2>2. <<"join", p>> \in ToSet(b)
    BY <2>1
  <2>3. PICK j \in 1..n : b[j] = <<"join", p>>
    BY <2>2, LenProperties DEF ToSet, n
  <2>4. m + j \in (i + 1)..Len(s)
    BY <1>1, <1>3, <2>1
  <2> QED BY <1>1, <2>3, <2>4
<1> QED BY <1>1, <1>2, <1>3

(* Calls that free nothing, put before a plan that frees last, leave it so. *)
LEMMA FreesStay ==
  ASSUME NEW a \in Seq(Calls), NEW b \in Seq(Calls), FreesLast(b),
         \A c \in ToSet(a) : c \notin Freeing
  PROVE  FreesLast(a \o b)
<1> DEFINE s == a \o b
           m == Len(a)
           n == Len(b)
<1>1. /\ m \in Nat /\ n \in Nat /\ Len(s) = m + n
      /\ \A i \in 1..m : s[i] = a[i] /\ a[i] \in ToSet(a)
      /\ \A i \in 1..n : s[m + i] = b[i]
  <2>1. /\ m \in Nat /\ n \in Nat /\ Len(s) = m + n
        /\ \A i \in 1..m : s[i] = a[i]
        /\ \A i \in 1..n : s[m + i] = b[i]
    BY LenProperties, ConcatProperties
  <2>2. \A i \in 1..m : a[i] \in ToSet(a)
    BY LenProperties DEF ToSet
  <2> QED BY <2>1, <2>2
<1> SUFFICES ASSUME NEW i \in 1..Len(s), s[i] \in Freeing, NEW j \in i..Len(s)
             PROVE  s[j] \in Freeing
  BY DEF FreesLast
<1> HIDE DEF s, m, n
<1>2. i > m
  BY <1>1
<1> DEFINE k == i - m
           l == j - m
<1>3. k \in 1..n /\ l \in k..n /\ l \in 1..n /\ m + k = i /\ m + l = j
  BY <1>1, <1>2
<1> HIDE DEF k, l
<1>4. s[i] = b[k] /\ s[j] = b[l]
  BY <1>1, <1>3
<1> QED BY <1>3, <1>4 DEF FreesLast, n

(* Director::start, join and finish call what there is to call, join what    *)
(* was created, and free last.                                               *)
LEMMA PlansFollow ==
  /\ Frees \in Seq(Calls) /\ JoinsFollow(Frees) /\ FreesLast(Frees)
  /\ Ending \in Seq(Calls) /\ JoinsFollow(Ending) /\ FreesLast(Ending)
  /\ \A p \in Pool : <<"join", p>> \in ToSet(Ending)
  /\ Starts \o Ending \in Seq(Calls) /\ JoinsFollow(Starts \o Ending) /\ FreesLast(Starts \o Ending)
<1>1. Starts \in Seq(Calls) /\ Joins \in Seq(Calls) /\ Frees \in Seq(Freeing) /\ Frees \in Seq(Calls)
  BY DEF Starts, Joins, Frees, Calls, Freeing, Pool, Object
<1>2. /\ \A c \in ToSet(Frees) : c[1] # "create" /\ c \in Freeing
      /\ FreesLast(Frees) /\ JoinsFollow(Frees)
  <2>1. ToSet(Frees) \subseteq Freeing
    BY <1>1, SeqElems
  <2>2. \A i \in 1..Len(Frees) : Frees[i] \in Freeing /\ Frees[i][1] # "create"
    BY <1>1, ElementOfSeq DEF Freeing
  <2>3. FreesLast(Frees)
    BY <1>1, <2>2, LenProperties DEF FreesLast
  <2> QED BY <2>1, <2>2, <2>3 DEF JoinsFollow, Freeing
<1>3. /\ \A c \in ToSet(Joins) : c[1] # "create" /\ c \notin Freeing
      /\ \A p \in Pool : <<"join", p>> \in ToSet(Joins)
  <2>1. /\ DOMAIN Joins = 1..7
        /\ \A i \in 1..7 : Joins[i][1] \in {"join", "stop"}
        /\ Joins[1] = <<"join", "director">> /\ Joins[5] = <<"join", "dealer">>
        /\ Joins[6] = <<"join", "sender">> /\ Joins[7] = <<"join", "receiver">>
    BY DEF Joins
  <2> QED BY <2>1 DEF ToSet, Pool, Freeing
<1>4. /\ Ending \in Seq(Calls) /\ ToSet(Ending) = ToSet(Joins) \cup ToSet(Frees)
      /\ JoinsFollow(Ending) /\ FreesLast(Ending)
  BY <1>1, <1>2, <1>3, ConcatElems, JoinsStay, FreesStay DEF Ending
<1>5. \A c \in ToSet(Starts) : c \notin Freeing
  <2>1. DOMAIN Starts = 1..4 /\ \A i \in 1..4 : Starts[i][1] = "create"
    BY DEF Starts
  <2> QED BY <2>1 DEF ToSet, Freeing
<1>6. /\ Starts \o Ending \in Seq(Calls)
      /\ JoinsFollow(Starts \o Ending) /\ FreesLast(Starts \o Ending)
  BY <1>1, <1>3, <1>4, <1>5, ConcatElems, JoinsStay, FreesStay
<1> QED BY <1>1, <1>2, <1>3, <1>4, <1>6

(* Every call of main leaves the rest of the plan in order. *)
LEMMA PlanGoesOn ==
  ASSUME ShutdownInv, plan # <<>>
  PROVE  /\ Head(plan) \in Calls /\ Tail(plan) \in Seq(Calls)
         /\ JoinsFollow(Tail(plan)) /\ FreesLast(Tail(plan))
         /\ ToSet(plan) = {Head(plan)} \cup ToSet(Tail(plan))
         /\ Head(plan)[1] = "create" => \A p \in Pool : <<"join", p>> \in ToSet(Tail(plan))
         /\ Head(plan) \in Freeing => ToSet(plan) \subseteq Freeing
<1> DEFINE q == plan
           r == Tail(plan)
<1>1. /\ q \in Seq(Calls) /\ r \in Seq(Calls) /\ Head(q) \in Calls
      /\ ToSet(q) = {Head(q)} \cup ToSet(r)
  BY HeadTailElems DEF ShutdownInv
<1>2. /\ Len(q) \in Nat /\ Len(q) > 0 /\ Len(r) = Len(q) - 1 /\ Head(q) = q[1]
      /\ \A i \in 1..Len(r) : r[i] = q[i + 1]
      /\ DOMAIN r = 1..Len(r)
  BY <1>1, HeadTailProperties, EmptySeq, LenProperties DEF ShutdownInv
<1>3. JoinsFollow(q) /\ FreesLast(q)
  BY DEF ShutdownInv
<1>4. ASSUME NEW i \in 1..Len(q), q[i][1] = "create", NEW p \in Pool
      PROVE  \E j \in i..Len(r) : r[j] = <<"join", p>>
  <2>1. PICK j \in (i + 1)..Len(q) : q[j] = <<"join", p>>
    BY <1>3, <1>4 DEF JoinsFollow
  <2> DEFINE k == j - 1
  <2>2. k \in i..Len(r) /\ k + 1 = j /\ k \in 1..Len(r)
    BY <1>2
  <2> HIDE DEF k
  <2>3. r[k] = <<"join", p>>
    BY <1>2, <2>1, <2>2
  <2> QED BY <2>2, <2>3
<1> HIDE DEF q, r
<1>5. JoinsFollow(r)
  <2> SUFFICES ASSUME NEW i \in 1..Len(r), r[i][1] = "create", NEW p \in Pool
               PROVE  \E j \in (i + 1)..Len(r) : r[j] = <<"join", p>>
    BY DEF JoinsFollow
  <2>1. i + 1 \in 1..Len(q) /\ q[i + 1][1] = "create"
    BY <1>2
  <2> QED BY <1>4, <2>1
<1>6. Head(q)[1] = "create" => \A p \in Pool : <<"join", p>> \in ToSet(r)
  <2> SUFFICES ASSUME Head(q)[1] = "create", NEW p \in Pool
               PROVE  <<"join", p>> \in ToSet(r)
    OBVIOUS
  <2>1. 1 \in 1..Len(q) /\ q[1][1] = "create"
    BY <1>2
  <2>2. \E j \in 1..Len(r) : r[j] = <<"join", p>>
    BY <1>4, <2>1
  <2> QED BY <1>2, <2>2 DEF ToSet
<1>7. FreesLast(r)
  <2> SUFFICES ASSUME NEW i \in 1..Len(r), r[i] \in Freeing, NEW j \in i..Len(r)
               PROVE  r[j] \in Freeing
    BY DEF FreesLast
  <2>1. /\ i + 1 \in 1..Len(q) /\ q[i + 1] \in Freeing
        /\ j \in 1..Len(r) /\ j + 1 \in (i + 1)..Len(q)
    BY <1>2
  <2>2. q[j + 1] \in Freeing
    BY <1>3, <2>1 DEF FreesLast
  <2> QED BY <1>2, <2>1, <2>2
<1>8. Head(q) \in Freeing => ToSet(q) \subseteq Freeing
  <2> SUFFICES ASSUME Head(q) \in Freeing, NEW i \in DOMAIN q
               PROVE  q[i] \in Freeing
    BY DEF ToSet
  <2>1. 1 \in 1..Len(q) /\ i \in 1..Len(q) /\ q[1] \in Freeing
    BY <1>1, <1>2, LenProperties
  <2> QED BY <1>3, <2>1 DEF FreesLast
<1> QED BY <1>1, <1>5, <1>6, <1>7, <1>8 DEF q, r

-----------------------------------------------------------------------------
(* The steps *)

(* The server starts with nothing running. *)
LEMMA ShutdownInit == Init => ShutdownInv
<1> SUFFICES ASSUME Init PROVE ShutdownInv
  OBVIOUS
<1>1. plan \in Seq(Calls) /\ JoinsFollow(plan) /\ FreesLast(plan)
  BY PlansFollow DEF Init
<1>2. handlers \in [Thread -> Seq(1..7)] /\ \A t \in Thread : handlers[t] = <<>>
  BY EmptySeq DEF Init
<1>3. ToSet(handlers["main"]) = {}
  BY <1>2, EmptyElems DEF Thread
<1> QED BY <1>1, <1>2, <1>3 DEF Init, ShutdownInv, Active, Thread, Pool, Object

(* main starts, stops and joins the threads, and frees the server. *)
LEMMA MainKeeps == ASSUME ShutdownInv, MainStep PROVE ShutdownInv'
<1> USE DEF ShutdownInv, Active
<1>1. PICK op, x : Main(op, x)
  BY DEF MainStep, Create, CreateFails, Join, StopPool, Free, Clear
<1>2. /\ plan # <<>> /\ Head(plan) = <<op, x>> /\ handlers["main"] = <<>>
      /\ Head(plan) \in Calls /\ Tail(plan) \in Seq(Calls)
      /\ JoinsFollow(Tail(plan)) /\ FreesLast(Tail(plan))
      /\ ToSet(plan) = {Head(plan)} \cup ToSet(Tail(plan))
      /\ op = "create" => \A p \in Pool : <<"join", p>> \in ToSet(Tail(plan))
      /\ Head(plan) \in Freeing => ToSet(plan) \subseteq Freeing
  BY <1>1, PlanGoesOn DEF Main
<1>3. ToSet(handlers["main"]) = {}
  BY <1>2, EmptyElems
<1>4. CASE \E p \in Pool : Create(p)
  BY <1>2, <1>3, <1>4 DEF Create, Main, Done
<1>5. CASE \E p \in Pool : CreateFails(p)
  <2>1. op = "create" /\ <<op, x>> \notin Freeing
    BY <1>2, <1>5 DEF CreateFails, Main, Freeing
  <2>2. \A y \in Object : memory[y] = "live"
    BY <1>2, <2>1
  <2> QED BY <1>2, <1>3, <1>5, <2>2, PlansFollow DEF CreateFails
<1>6. CASE \E p \in Pool : Join(p)
  BY <1>2, <1>3, <1>6 DEF Join, Main, Done
<1>7. CASE \E p \in Pool : StopPool(p)
  BY <1>2, <1>3, <1>7 DEF StopPool, StopRun, Main, Done
<1>8. CASE \E y \in Object : Free(y) \/ Clear(y)
  <2>1. /\ UNCHANGED <<life, running, handlers>> /\ plan' = Tail(plan)
        /\ memory' \in [Object -> {"live", "freed", "null"}]
        /\ Head(plan) \in Freeing
    BY <1>8 DEF Free, Clear, Main, Done, Freeing
  <2>2. ToSet(plan) \subseteq Freeing
    BY <1>2, <2>1
  <2>3. \A p \in Pool : <<"join", p>> \notin ToSet(plan)
    BY <2>2 DEF Freeing
  <2> QED BY <1>2, <1>3, <2>1, <2>2, <2>3
<1> QED BY <1>4, <1>5, <1>6, <1>7, <1>8 DEF MainStep

(* As long as a thread is at work everything is there. *)
LEMMA AllThere ==
  ASSUME ShutdownInv, NEW p \in Active
  PROVE  \A x \in Object : memory[x] = "live"
<1>1. <<"join", p>> \in ToSet(plan) /\ <<"join", p>> \notin Freeing
  BY DEF ShutdownInv, Freeing
<1> QED BY <1>1 DEF ShutdownInv

(* A handler goes on when it has found what it reads next. *)
LEMMA HandlerKeeps ==
  ASSUME ShutdownInv, NEW t \in Thread, HandlerStep(t) PROVE ShutdownInv'
<1> DEFINE s == handlers[t]
           h == Head(s)
<1>1. /\ s \in Seq(1..7) /\ s # <<>> /\ h \in 1..7 /\ Tail(s) \in Seq(1..7)
      /\ ToSet(s) = {h} \cup ToSet(Tail(s))
  BY HeadTailElems DEF ShutdownInv, HandlerStep, Handle, Stray
<1>2. /\ UNCHANGED <<plan, life, memory>>
      /\ running' \in [Pool -> BOOLEAN]
      /\ \A p \in Pool : running'[p] => running[p]
  BY DEF ShutdownInv, HandlerStep, Handle, Stray, StopRun
<1>3. \/ handlers' = [handlers EXCEPT ![t] = Tail(s)]
      \/ handlers' = handlers
      \/ /\ handlers' = [handlers EXCEPT ![t] = <<h + 1>> \o Tail(s)]
         /\ ~Returns(Handler[h])
  BY DEF HandlerStep, Handle, Stray, Return, Call
<1>4. handlers' \in [Thread -> Seq(1..7)] /\ \A u \in Thread : u # t => handlers'[u] = handlers[u]
  <2>1. ~Returns(Handler[h]) => h + 1 \in 1..7
    BY <1>1 DEF Returns, Handler
  <2>2. ~Returns(Handler[h]) => <<h + 1>> \o Tail(s) \in Seq(1..7)
    BY <1>1, <2>1, ConcatElems
  <2> QED BY <1>1, <1>3, <2>2 DEF ShutdownInv
<1>5. ASSUME t = "main", NEW k \in ToSet(handlers'["main"]) PROVE Found(k)
  <2>1. \A i \in ToSet(s) : Found(i)
    BY <1>5 DEF ShutdownInv
  <2>2. CASE k \in ToSet(s)
    BY <2>1, <2>2
  <2>3. CASE k \notin ToSet(s)
    <3>1. ~Returns(Handler[h]) /\ k = h + 1
      <4>1. handlers'[t] = <<h + 1>> \o Tail(s) /\ ~Returns(Handler[h])
        BY <1>1, <1>3, <1>5, <2>3 DEF ShutdownInv
      <4> DEFINE one == <<h + 1>>
                 r == Tail(s)
      <4>2. one \in Seq(Nat) /\ r \in Seq(Nat) /\ ToSet(one) = {h + 1}
        BY <1>1 DEF ToSet
      <4> HIDE DEF one, r
      <4>3. ToSet(one \o r) = {h + 1} \cup ToSet(r)
        BY <4>2, ConcatElems
      <4>4. ToSet(handlers'[t]) = {h + 1} \cup ToSet(Tail(s))
        BY <4>1, <4>3 DEF one, r
      <4> QED BY <1>1, <1>5, <2>3, <4>1, <4>4
    <3>2. Found(h)
      BY <1>1, <2>1
    <3>3. CASE h = 1
      BY <3>1, <3>3 DEF Found, Returns, Handler
    <3>4. CASE h = 2
      BY <3>1, <3>2, <3>4 DEF Found, Returns, Handler
    <3>5. CASE h = 3
      <4>1. "director" \in Active
        BY <3>1, <3>5 DEF Returns, Handler, ShutdownInv, Active, Pool
      <4>2. \A x \in Object : memory[x] = "live"
        BY <4>1, AllThere
      <4> QED BY <3>1, <3>5, <4>2 DEF Found, Object, Pool
    <3>6. CASE h > 3
      BY <1>1, <3>1, <3>2, <3>6 DEF Found
    <3> QED BY <1>1, <3>3, <3>4, <3>5, <3>6
  <2> QED BY <2>2, <2>3
<1>6. \A k \in ToSet(handlers'["main"]) : Found(k)
  BY <1>4, <1>5 DEF ShutdownInv, Thread
<1>7. \A k \in ToSet(handlers'["main"]) : Found(k)'
  BY <1>2, <1>6 DEF Found
<1>8. \A p \in Pool : handlers'[p] # <<>> => handlers[p] # <<>>
  BY <1>1, <1>4 DEF Thread
<1> QED BY <1>2, <1>4, <1>7, <1>8 DEF ShutdownInv, Active

(* A thread comes to life, ends, or is interrupted. *)
LEMMA ThreadKeeps ==
  ASSUME ShutdownInv,
         (\E p \in Pool : PoolStep(p)) \/ \E t \in Thread : Signal(t)
  PROVE  ShutdownInv'
<1>1. ASSUME NEW p \in Pool, Setup(p) PROVE ShutdownInv'
  BY <1>1 DEF Setup, ShutdownInv, Active, Found
<1>2. ASSUME NEW p \in Pool, Leave(p) PROVE ShutdownInv'
  BY <1>2 DEF Leave, ShutdownInv, Active, Found
<1>3. ASSUME NEW t \in Thread, Signal(t) PROVE ShutdownInv'
  <2> DEFINE s == handlers[t]
             r == <<1>> \o s
  <2>1. /\ UNCHANGED <<plan, life, running, memory>>
        /\ handlers' = [handlers EXCEPT ![t] = r]
        /\ t \in Pool => t \in Active
    BY <1>3 DEF Signal, Alive, Active, Pool
  <2> DEFINE one == <<1>>
  <2>2. one \in Seq(1..7) /\ ToSet(one) = {1} /\ s \in Seq(1..7)
    BY DEF ToSet, ShutdownInv
  <2> HIDE DEF one, s
  <2>3. one \o s \in Seq(1..7) /\ ToSet(one \o s) = {1} \cup ToSet(s)
    BY <2>2, ConcatElems
  <2>4. r \in Seq(1..7) /\ ToSet(r) = {1} \cup ToSet(s)
    BY <2>3 DEF one
  <2> USE DEF s
  <2> HIDE DEF r
  <2>5. Found(1)
    BY DEF Found
  <2>6. /\ handlers' \in [Thread -> Seq(1..7)]
        /\ \A k \in ToSet(handlers'["main"]) : Found(k)
        /\ \A p \in Pool : handlers'[p] # <<>> => p \in Active
    BY <2>1, <2>4, <2>5 DEF ShutdownInv, Thread
  <2> QED BY <2>1, <2>6 DEF ShutdownInv, Active, Found
<1> QED BY <1>1, <1>2, <1>3 DEF PoolStep

(* Every step keeps it so. *)
LEMMA ShutdownStep == ShutdownInv /\ [Next]_vars => ShutdownInv'
<1> SUFFICES ASSUME ShutdownInv, [Next]_vars PROVE ShutdownInv'
  OBVIOUS
<1>1. CASE UNCHANGED vars
  BY <1>1 DEF vars, ShutdownInv, Active, Found
<1> QED BY <1>1, MainKeeps, ThreadKeeps, HandlerKeeps DEF Next

(* main has a thread to join as long as it is at work, frees only when it    *)
(* has none, and a handler on main that is past a test of a pointer or of    *)
(* isRunning has what it tested.                                             *)
THEOREM JoinsAwaited == Spec => []ShutdownInv
<1> QED BY ShutdownInit, ShutdownStep, PTL DEF Spec

(* Whatever is freed is freed when no pool's thread is at work and no        *)
(* handler runs on one; a handler on main misses nothing it reads but the    *)
(* director or the server between delete and NULL (sysoper.h:42).            *)
THEOREM FreedInPeace == Spec => []FreedAlone
<1>1. ShutdownInv => FreedAlone
  <2> SUFFICES ASSUME ShutdownInv PROVE FreedAlone
    OBVIOUS
  <2>1. ASSUME NEW x \in Object, memory[x] # "live", NEW p \in Pool
        PROVE  life[p] \in {"none", "ended"} /\ handlers[p] = <<>>
    <3>1. p \notin Active
      BY <2>1, AllThere
    <3> QED BY <3>1 DEF ShutdownInv, Active
  <2>2. ASSUME NEW t \in Thread, handlers[t] # <<>>, NEW x \in Gone(t)
        PROVE  t = "main" /\ x \in {"director", "server"} /\ memory[x] = "freed"
    <3> DEFINE h == Head(handlers[t])
    <3>1. h \in 1..7 /\ h \in ToSet(handlers[t])
      BY <2>2, HeadTailElems DEF ShutdownInv
    <3>2. x \in Reads(Handler[h]) /\ memory[x] # "live"
      BY <2>2 DEF Gone, Call
    <3> HIDE DEF h
    <3>3. x \in Object
      BY <3>1, <3>2 DEF Reads, Handler, Object, Pool
    <3>4. t = "main"
      BY <2>1, <2>2, <3>2, <3>3 DEF Thread
    <3>5. Found(h)
      BY <3>1, <3>4 DEF ShutdownInv
    <3>6. memory[x] \in {"freed", "null"}
      BY <3>2, <3>3 DEF ShutdownInv
    <3>7. h = 2 \/ h = 3
      <4>1. h # 1
        BY <3>2 DEF Reads, Handler
      <4>2. ~(h > 3)
        BY <3>2, <3>3, <3>5 DEF Found
      <4> QED BY <3>1, <4>1, <4>2
    <3>8. CASE h = 2
      BY <3>2, <3>4, <3>5, <3>6, <3>8 DEF Found, Reads, Handler
    <3>9. CASE h = 3
      BY <3>2, <3>4, <3>5, <3>6, <3>9 DEF Found, Reads, Handler
    <3> QED BY <3>7, <3>8, <3>9
  <2> QED BY <2>1, <2>2 DEF FreedAlone
<1> QED BY <1>1, JoinsAwaited, PTL
===============================================================================
