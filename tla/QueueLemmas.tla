----------------------------- MODULE QueueLemmas -----------------------------
(***************************************************************************)
(* What the queue operations of listnode.h (push, splice, take the first)   *)
(* do to the set of queued elements, and that they keep a queue free of     *)
(* duplicates.  Lemmas for the proofs about the modules that hold queues.   *)
(***************************************************************************)
EXTENDS SequencesExt, SequenceTheorems, FiniteSetTheorems,
        WellFoundedInduction, TLAPS

(* An empty queue holds nothing. *)
LEMMA EmptyElems == ToSet(<<>>) = {} /\ IsInjective(<<>>)
  BY EmptySeq DEF ToSet, IsInjective

(* What is queued is of the kind that is queued. *)
LEMMA SeqElems == ASSUME NEW S, NEW s \in Seq(S) PROVE ToSet(s) \subseteq S
  BY LenProperties, ElementOfSeq DEF ToSet

(* A push puts one task into a queue that did not hold it. *)
LEMMA AppendElems ==
  ASSUME NEW S, NEW s \in Seq(S), NEW x \in S
  PROVE  /\ Append(s, x) \in Seq(S)
         /\ ToSet(Append(s, x)) = ToSet(s) \cup {x}
         /\ (IsInjective(s) /\ x \notin ToSet(s)) => IsInjective(Append(s, x))
<1> DEFINE a == Append(s, x)
<1>1. /\ a \in Seq(S) /\ Len(a) = Len(s) + 1 /\ Len(s) \in Nat
      /\ DOMAIN s = 1..Len(s) /\ DOMAIN a = 1..(Len(s) + 1)
      /\ \A i \in 1..Len(s) : a[i] = s[i]
      /\ a[Len(s) + 1] = x
  BY AppendProperties, LenProperties
<1> HIDE DEF a
<1>2. ToSet(a) = ToSet(s) \cup {x}
  <2>1. ToSet(a) \subseteq ToSet(s) \cup {x}
    BY <1>1, SMT DEF ToSet
  <2>2. ToSet(s) \subseteq ToSet(a)
    BY <1>1, SMT DEF ToSet
  <2>3. x \in ToSet(a)
    BY <1>1, SMT DEF ToSet
  <2> QED BY <2>1, <2>2, <2>3
<1>3. ASSUME IsInjective(s), x \notin ToSet(s) PROVE IsInjective(a)
  BY <1>1, <1>3, SMT DEF IsInjective, ToSet
<1> QED BY <1>1, <1>2, <1>3 DEF a

(* A splice joins two queues that share no task. *)
LEMMA ConcatElems ==
  ASSUME NEW S, NEW s \in Seq(S), NEW r \in Seq(S)
  PROVE  /\ s \o r \in Seq(S)
         /\ ToSet(s \o r) = ToSet(s) \cup ToSet(r)
         /\ (IsInjective(s) /\ IsInjective(r) /\ ToSet(s) \cap ToSet(r) = {}) => IsInjective(s \o r)
<1> DEFINE c == s \o r
<1>1. /\ c \in Seq(S) /\ Len(s) \in Nat /\ Len(r) \in Nat
      /\ DOMAIN s = 1..Len(s) /\ DOMAIN r = 1..Len(r)
      /\ DOMAIN c = 1..(Len(s) + Len(r))
      /\ \A i \in 1..Len(s) : c[i] = s[i]
      /\ \A i \in 1..Len(r) : c[Len(s) + i] = r[i]
      /\ \A i \in 1..(Len(s) + Len(r)) : i > Len(s) => c[i] = r[i - Len(s)]
  BY ConcatProperties, LenProperties, SMT
<1> HIDE DEF c
<1>2. ToSet(c) = ToSet(s) \cup ToSet(r)
  <2>1. ToSet(c) \subseteq ToSet(s) \cup ToSet(r)
    <3> SUFFICES ASSUME NEW i \in DOMAIN c PROVE c[i] \in ToSet(s) \cup ToSet(r)
      BY DEF ToSet
    <3>1. CASE i <= Len(s)
      BY <1>1, <3>1, SMT DEF ToSet
    <3>2. CASE i > Len(s)
      <4>1. i - Len(s) \in DOMAIN r /\ c[i] = r[i - Len(s)]
        BY <1>1, <3>2, SMT
      <4> QED BY <4>1 DEF ToSet
    <3> QED BY <1>1, <3>1, <3>2, SMT
  <2>2. ToSet(s) \subseteq ToSet(c)
    BY <1>1, SMT DEF ToSet
  <2>3. ToSet(r) \subseteq ToSet(c)
    <3> SUFFICES ASSUME NEW i \in DOMAIN r PROVE r[i] \in ToSet(c)
      BY DEF ToSet
    <3>1. Len(s) + i \in DOMAIN c /\ c[Len(s) + i] = r[i]
      BY <1>1, SMT
    <3> QED BY <3>1 DEF ToSet
  <2> QED BY <2>1, <2>2, <2>3
<1>3. ASSUME IsInjective(s), IsInjective(r), ToSet(s) \cap ToSet(r) = {} PROVE IsInjective(c)
  <2> SUFFICES ASSUME NEW i \in DOMAIN c, NEW j \in DOMAIN c, c[i] = c[j]
               PROVE i = j
    BY DEF IsInjective
  <2>1. CASE i <= Len(s) /\ j <= Len(s)
    BY <1>1, <1>3, <2>1, SMT DEF IsInjective
  <2>2. CASE i > Len(s) /\ j > Len(s)
    <3>1. i - Len(s) \in DOMAIN r /\ j - Len(s) \in DOMAIN r
      BY <1>1, <2>2, SMT
    <3>2. r[i - Len(s)] = r[j - Len(s)]
      BY <1>1, <2>2, SMT
    <3> QED BY <1>1, <1>3, <3>1, <3>2, SMT DEF IsInjective
  <2>3. CASE i <= Len(s) /\ j > Len(s)
    <3>1. i \in DOMAIN s /\ j - Len(s) \in DOMAIN r /\ s[i] = r[j - Len(s)]
      BY <1>1, <2>3, SMT
    <3> QED BY <1>3, <3>1 DEF ToSet
  <2>4. CASE i > Len(s) /\ j <= Len(s)
    <3>1. j \in DOMAIN s /\ i - Len(s) \in DOMAIN r /\ s[j] = r[i - Len(s)]
      BY <1>1, <2>4, SMT
    <3> QED BY <1>3, <3>1 DEF ToSet
  <2> QED BY <1>1, <2>1, <2>2, <2>3, <2>4, SMT
<1> QED BY <1>1, <1>2, <1>3 DEF c

(* The walk takes the first task off the list. *)
LEMMA HeadTailElems ==
  ASSUME NEW S, NEW s \in Seq(S), s # <<>>
  PROVE  /\ Head(s) \in S /\ Tail(s) \in Seq(S)
         /\ ToSet(s) = {Head(s)} \cup ToSet(Tail(s))
         /\ IsInjective(s) => IsInjective(Tail(s)) /\ Head(s) \notin ToSet(Tail(s))
<1> DEFINE h == Head(s)
           r == Tail(s)
<1>1. /\ h \in S /\ r \in Seq(S) /\ Len(s) \in Nat /\ Len(s) >= 1
      /\ DOMAIN s = 1..Len(s) /\ DOMAIN r = 1..(Len(s) - 1)
      /\ h = s[1]
      /\ \A i \in 1..(Len(s) - 1) : r[i] = s[i + 1]
  BY HeadTailProperties, LenProperties, EmptySeq, SMT
<1> HIDE DEF h, r
<1>2. ToSet(s) = {h} \cup ToSet(r)
  <2>1. \A i \in DOMAIN s : s[i] \in {h} \cup ToSet(r)
    <3> SUFFICES ASSUME NEW i \in DOMAIN s, i # 1 PROVE s[i] \in ToSet(r)
      BY <1>1
    <3>1. i - 1 \in DOMAIN r /\ r[i - 1] = s[i]
      BY <1>1, SMT
    <3> QED BY <3>1 DEF ToSet
  <2>2. \A i \in DOMAIN r : r[i] \in ToSet(s)
    BY <1>1, SMT DEF ToSet
  <2>3. h \in ToSet(s)
    BY <1>1, SMT DEF ToSet
  <2> QED BY <2>1, <2>2, <2>3 DEF ToSet
<1>3. ASSUME IsInjective(s) PROVE IsInjective(r) /\ h \notin ToSet(r)
  <2>1. ASSUME NEW i \in DOMAIN r, NEW j \in DOMAIN r, r[i] = r[j] PROVE i = j
    <3>1. i + 1 \in DOMAIN s /\ j + 1 \in DOMAIN s /\ s[i + 1] = s[j + 1]
      BY <1>1, <2>1, SMT
    <3>2. i + 1 = j + 1
      BY <1>3, <3>1 DEF IsInjective
    <3> QED BY <1>1, <3>2, SMT
  <2>2. ASSUME NEW i \in DOMAIN r, r[i] = h PROVE FALSE
    <3>1. i + 1 \in DOMAIN s /\ 1 \in DOMAIN s /\ s[i + 1] = s[1]
      BY <1>1, <2>2, SMT
    <3>2. i + 1 = 1
      BY <1>3, <3>1 DEF IsInjective
    <3> QED BY <1>1, <3>2, SMT
  <2> QED BY <2>1, <2>2 DEF IsInjective, ToSet
<1> QED BY <1>1, <1>2, <1>3 DEF h, r

-----------------------------------------------------------------------------
(* Induction *)

(* A set of natural numbers has a smallest one. *)
LEMMA SmallestOf == ASSUME NEW S \in SUBSET Nat, S # {}
  PROVE \E n \in S : \A m \in S : n <= m
<1> DEFINE R == OpToRel(<, Nat)
<1>1. IsWellFoundedOn(R, Nat)
  BY NatLessThanWellFounded
<1>2. \A x, y \in Nat : x < y => <<x, y>> \in R
  BY DEF OpToRel
<1> HIDE DEF R
<1>3. \E n \in S : \A m \in S : ~ (<<m, n>> \in R)
  BY <1>1, WFMin
<1>4. PICK n \in S : \A m \in S : ~ (<<m, n>> \in R)
  BY <1>3
<1>5. \A m \in S : n <= m
  <2> TAKE m \in S
  <2>1. m \in Nat /\ n \in Nat /\ ~ (m < n)
    BY <1>2, <1>4
  <2> QED BY <2>1
<1> QED BY <1>5

(* Induction, with the property as the set of the numbers that have it: the   *)
(* induction theorems of the library take an operator, which no prover can    *)
(* give them.                                                                *)
LEMMA Induct == ASSUME NEW S, 0 \in S, \A n \in Nat : n \in S => n + 1 \in S
  PROVE \A n \in Nat : n \in S
<1> DEFINE T == Nat \ S
<1> SUFFICES ASSUME T # {} PROVE FALSE
  OBVIOUS
<1>1. PICK n \in T : \A m \in T : n <= m
  BY SmallestOf
<1>2. n # 0 /\ n - 1 \in Nat /\ n - 1 \notin T
  BY <1>1
<1> QED BY <1>2, <1>1

-----------------------------------------------------------------------------
(* The bytes of a queue of messages, one after the other *)

(* h[i] is what the first i sequences of q make one after the other. *)
Flattens(q, h) ==
  h = [i \in 1..Len(q) |-> IF i = 1 THEN q[i] ELSE h[i - 1] \o q[i]]

(* The recursion FlattenSeq is defined by has a solution. *)
LEMMA FlattenExists ==
  ASSUME NEW S, NEW q \in Seq(Seq(S))
  PROVE  \E h \in [1..Len(q) -> Seq(S)] : Flattens(q, h)
<1> DEFINE n == Len(q)
           Good(h, k) ==
             \A i \in 1..n : i <= k => h[i] = IF i = 1 THEN q[i] ELSE h[i - 1] \o q[i]
           T == {k \in Nat : \E h \in [1..n -> Seq(S)] : Good(h, k)}
<1>1. n \in Nat /\ \A i \in 1..n : q[i] \in Seq(S)
  BY LenProperties, ElementOfSeq
<1>2. 0 \in T
  <2> DEFINE h == [i \in 1..n |-> q[i]]
  <2>1. h \in [1..n -> Seq(S)] /\ Good(h, 0)
    BY <1>1
  <2> QED BY <2>1
<1>3. ASSUME NEW k \in Nat, k \in T PROVE k + 1 \in T
  <2>1. PICK h \in [1..n -> Seq(S)] : Good(h, k)
    BY <1>3
  <2> DEFINE g == [i \in 1..n |-> IF i <= k THEN h[i]
                                  ELSE IF i = 1 THEN q[i] ELSE h[i - 1] \o q[i]]
  <2>2. \A i \in 1..n : i # 1 => i - 1 \in 1..n
    BY <1>1
  <2>3. g \in [1..n -> Seq(S)]
    BY <1>1, <2>1, <2>2, ConcatProperties
  <2>4. ASSUME NEW i \in 1..n, i <= k + 1
        PROVE  g[i] = IF i = 1 THEN q[i] ELSE g[i - 1] \o q[i]
    <3>1. CASE i <= k
      <4>1. i # 1 => i - 1 <= k
        BY <3>1, <1>1
      <4> QED BY <2>1, <2>2, <3>1, <4>1
    <3>2. CASE i = k + 1
      <4>1. ~(i <= k) /\ (i # 1 => i - 1 <= k)
        BY <3>2
      <4> QED BY <2>1, <2>2, <4>1
    <3> QED BY <3>1, <3>2, <2>4
  <2>5. Good(g, k + 1)
    BY <2>4
  <2> HIDE DEF g, Good
  <2> QED BY <2>3, <2>5
<1> HIDE DEF T
<1>4. n \in T
  BY <1>1, <1>2, <1>3, Induct
<1>5. PICK h \in [1..n -> Seq(S)] : Good(h, n)
  BY <1>4 DEF T
<1>6. ASSUME NEW i \in 1..n PROVE h[i] = IF i = 1 THEN q[i] ELSE h[i - 1] \o q[i]
  <2>1. i <= n
    BY <1>1
  <2> QED BY <2>1, <1>5
<1> QED BY <1>6 DEF Flattens

(* So FlattenSeq is that solution. *)
LEMMA FlattenMeans ==
  ASSUME NEW S, NEW q \in Seq(Seq(S))
  PROVE  /\ Len(q) = 0 => FlattenSeq(q) = <<>>
         /\ Len(q) # 0 => \E h : /\ FlattenSeq(q) = h[Len(q)]
                                 /\ \A i \in 1..Len(q) :
                                      h[i] = IF i = 1 THEN q[i] ELSE h[i - 1] \o q[i]
<1> DEFINE h == CHOOSE g : Flattens(q, g)
<1>1. Flattens(q, h)
  BY FlattenExists
<1>2. Len(q) # 0 => FlattenSeq(q) = h[Len(q)]
  BY DEF FlattenSeq, Flattens
<1>3. Len(q) = 0 => FlattenSeq(q) = <<>>
  BY EmptySeq DEF FlattenSeq
<1> HIDE DEF h
<1>4. \A i \in 1..Len(q) : h[i] = IF i = 1 THEN q[i] ELSE h[i - 1] \o q[i]
  BY <1>1 DEF Flattens
<1> QED BY <1>2, <1>3, <1>4

(* Another sequence goes behind. *)
LEMMA FlattenAppend ==
  ASSUME NEW S, NEW q \in Seq(Seq(S)), NEW x \in Seq(S)
  PROVE  FlattenSeq(Append(q, x)) = FlattenSeq(q) \o x
<1> DEFINE a == Append(q, x)
           n == Len(q)
<1>1. /\ n \in Nat /\ a \in Seq(Seq(S)) /\ Len(a) = n + 1 /\ n + 1 # 0
      /\ a[n + 1] = x /\ \A i \in 1..n : a[i] = q[i]
  BY LenProperties, AppendProperties
<1> HIDE DEF a
<1>2. PICK g : /\ FlattenSeq(a) = g[n + 1]
               /\ \A i \in 1..(n + 1) : g[i] = IF i = 1 THEN a[i] ELSE g[i - 1] \o a[i]
  <2>1. \E g : /\ FlattenSeq(a) = g[Len(a)]
               /\ \A i \in 1..Len(a) : g[i] = IF i = 1 THEN a[i] ELSE g[i - 1] \o a[i]
    <3>1. Len(a) # 0
      BY <1>1
    <3> QED BY <3>1, <1>1, FlattenMeans
  <2> QED BY <2>1, <1>1
<1>3. CASE n = 0
  <2>1. FlattenSeq(q) = <<>> /\ FlattenSeq(a) = x
    <3>1. FlattenSeq(q) = <<>>
      BY <1>3, FlattenMeans
    <3>2. g[1] = a[1] /\ n + 1 = 1
      BY <1>2, <1>3, <1>1
    <3> QED BY <3>1, <3>2, <1>1, <1>2
  <2> QED BY <2>1, ConcatEmptySeq DEF a
<1>4. CASE n # 0
  <2>1. PICK h : /\ FlattenSeq(q) = h[n]
                 /\ \A i \in 1..n : h[i] = IF i = 1 THEN q[i] ELSE h[i - 1] \o q[i]
    BY <1>4, FlattenMeans
  <2> DEFINE T == {i \in Nat : i \in 1..n => g[i] = h[i]}
  <2>2. 0 \in T
    OBVIOUS
  <2>3. ASSUME NEW i \in Nat, i \in T PROVE i + 1 \in T
    <3>1. i + 1 \in 1..n => (i + 1 = 1 \/ i \in 1..n)
      BY <1>1
    <3>2. i + 1 \in 1..n => i + 1 \in 1..(n + 1) /\ a[i + 1] = q[i + 1] /\ (i + 1) - 1 = i
      BY <1>1
    <3>3. CASE i + 1 = 1
      BY <3>3, <3>2, <1>2, <2>1
    <3>4. CASE i \in 1..n /\ i + 1 # 1
      <4>1. g[i] = h[i]
        BY <3>4, <2>3
      <4>2. i + 1 \in 1..n => g[i + 1] = g[i] \o a[i + 1]
        BY <3>4, <3>2, <1>2
      <4>3. i + 1 \in 1..n => h[i + 1] = h[i] \o q[i + 1]
        BY <3>4, <3>2, <2>1
      <4>4. i + 1 \in 1..n => g[i + 1] = h[i + 1]
        BY <4>1, <4>2, <4>3, <3>2
      <4> QED BY <4>4
    <3> QED BY <3>1, <3>3, <3>4
  <2>4. n \in T
    <3> HIDE DEF T
    <3> QED BY <2>2, <2>3, <1>1, Induct
  <2>5. g[n] = h[n]
    BY <2>4, <1>1, <1>4
  <2>6. g[n + 1] = g[n] \o x
    <3>1. n + 1 \in 1..(n + 1) /\ n + 1 # 1 /\ (n + 1) - 1 = n
      BY <1>1, <1>4
    <3> QED BY <3>1, <1>1, <1>2
  <2> QED BY <1>2, <2>1, <2>5, <2>6 DEF a
<1> QED BY <1>3, <1>4

(* What is made of bytes is bytes. *)
LEMMA FlattenType ==
  ASSUME NEW S, NEW q \in Seq(Seq(S))
  PROVE  FlattenSeq(q) \in Seq(S)
<1>1. Len(q) \in Nat /\ \A i \in 1..Len(q) : q[i] \in Seq(S)
  BY LenProperties, ElementOfSeq
<1>2. CASE Len(q) = 0
  <2>1. FlattenSeq(q) = <<>>
    BY <1>2, FlattenMeans
  <2> QED BY <2>1, EmptySeq
<1>3. CASE Len(q) # 0
  <2>1. PICK h : /\ FlattenSeq(q) = h[Len(q)]
                 /\ \A i \in 1..Len(q) : h[i] = IF i = 1 THEN q[i] ELSE h[i - 1] \o q[i]
    BY <1>3, FlattenMeans
  <2> DEFINE T == {i \in Nat : i \in 1..Len(q) => h[i] \in Seq(S)}
  <2>2. 0 \in T
    OBVIOUS
  <2>3. ASSUME NEW i \in Nat, i \in T PROVE i + 1 \in T
    <3>1. (i + 1) - 1 = i /\ (i + 1 \in 1..Len(q) => i + 1 = 1 \/ i \in 1..Len(q))
      BY <1>1
    <3>2. ASSUME i + 1 \in 1..Len(q) PROVE h[i + 1] \in Seq(S)
      <4>1. CASE i + 1 = 1
        BY <4>1, <3>2, <2>1, <1>1
      <4>2. CASE i + 1 # 1
        <5>1. h[i + 1] = h[i] \o q[i + 1] /\ h[i] \in Seq(S)
          BY <4>2, <3>1, <3>2, <2>1, <2>3
        <5> QED BY <5>1, <3>2, <1>1, ConcatProperties
      <4> QED BY <4>1, <4>2
    <3> QED BY <3>2
  <2>4. Len(q) \in T
    <3> HIDE DEF T
    <3> QED BY <2>2, <2>3, <1>1, Induct
  <2> QED BY <2>1, <2>4, <1>1, <1>3
<1> QED BY <1>2, <1>3

(* Three in a row may be joined from either end (a name of its own, for the  *)
(* provers never stop regrouping an open one).                               *)
Grouped(a, b, c) == (a \o b) \o c = a \o (b \o c)

LEMMA Regrouped ==
  ASSUME NEW S, NEW a \in Seq(S), NEW b \in Seq(S), NEW c \in Seq(S)
  PROVE  Grouped(a, b, c)
BY ConcatAssociative DEF Grouped

(* What holds of two queues holds with one sequence more in the second. *)
LEMMA FlattenFurther ==
  ASSUME NEW S, NEW p \in Seq(Seq(S)), NEW r \in Seq(Seq(S)), NEW x \in Seq(S)
  PROVE  FlattenSeq(p \o r) = FlattenSeq(p) \o FlattenSeq(r)
         => FlattenSeq(p \o Append(r, x)) = FlattenSeq(p) \o FlattenSeq(Append(r, x))
<1> DEFINE e == <<x>>
           fp == FlattenSeq(p)
           fr == FlattenSeq(r)
<1>0. e \in Seq(Seq(S)) /\ fp \in Seq(S) /\ fr \in Seq(S)
  BY FlattenType
<1>1. /\ p \o r \in Seq(Seq(S))
      /\ Append(r, x) = r \o e /\ Append(p \o r, x) = (p \o r) \o e
  BY ConcatProperties, AppendIsConcat
<1>2. /\ FlattenSeq(Append(r, x)) = fr \o x
      /\ FlattenSeq(Append(p \o r, x)) = FlattenSeq(p \o r) \o x
  BY <1>1, FlattenAppend
<1> HIDE DEF e, fp, fr
<1>3. Grouped(p, r, e) /\ Grouped(fp, fr, x)
  BY <1>0, Regrouped
<1>4. (p \o r) \o e = p \o (r \o e) /\ (fp \o fr) \o x = fp \o (fr \o x)
  BY <1>3 DEF Grouped
<1> QED BY <1>1, <1>2, <1>4 DEF fp, fr

(* Two queues one behind the other. *)
LEMMA FlattenConcat ==
  ASSUME NEW S, NEW p \in Seq(Seq(S)), NEW q \in Seq(Seq(S))
  PROVE  FlattenSeq(p \o q) = FlattenSeq(p) \o FlattenSeq(q)
<1> DEFINE T == {n \in Nat : \A s \in Seq(Seq(S)) :
                   Len(s) = n => FlattenSeq(p \o s) = FlattenSeq(p) \o FlattenSeq(s)}
<1>1. 0 \in T
  <2> SUFFICES ASSUME NEW s \in Seq(Seq(S)), Len(s) = 0
               PROVE  FlattenSeq(p \o s) = FlattenSeq(p) \o FlattenSeq(s)
    OBVIOUS
  <2>1. s = <<>> /\ FlattenSeq(s) = <<>> /\ FlattenSeq(p) \in Seq(S)
    BY EmptySeq, FlattenMeans, FlattenType
  <2> QED BY <2>1, ConcatEmptySeq
<1>2. ASSUME NEW n \in Nat, n \in T PROVE n + 1 \in T
  <2> SUFFICES ASSUME NEW s \in Seq(Seq(S)), Len(s) = n + 1
               PROVE  FlattenSeq(p \o s) = FlattenSeq(p) \o FlattenSeq(s)
    OBVIOUS
  <2>1. PICK r \in Seq(Seq(S)), x \in Seq(S) : s = Append(r, x)
    <3>1. s # <<>>
      BY EmptySeq
    <3> QED BY <3>1, SequenceEmptyOrAppend
  <2>2. Len(r) = n
    BY <2>1, AppendProperties, LenProperties
  <2>3. FlattenSeq(p \o r) = FlattenSeq(p) \o FlattenSeq(r)
    BY <2>2, <1>2
  <2> QED BY <2>1, <2>3, FlattenFurther
<1> HIDE DEF T
<1>3. Len(q) \in T
  BY <1>1, <1>2, Induct, LenProperties
<1> QED BY <1>3 DEF T

(* A queue of one. *)
LEMMA FlattenOne ==
  ASSUME NEW S, NEW x \in Seq(S) PROVE FlattenSeq(<<x>>) = x
<1>1. <<>> \in Seq(Seq(S)) /\ <<x>> = Append(<<>>, x) /\ Len(<<>>) = 0
  BY EmptySeq
<1>2. FlattenSeq(<<>>) = <<>>
  BY <1>1, FlattenMeans
<1>3. \A e \in Seq(Seq(S)) : FlattenSeq(Append(e, x)) = FlattenSeq(e) \o x
  BY FlattenAppend
<1>4. FlattenSeq(<<x>>) = <<>> \o x
  BY <1>1, <1>2, <1>3
<1> QED BY <1>4, ConcatEmptySeq

-----------------------------------------------------------------------------
(* Sums *)

SumOf(q) == FoldSeq(+, 0, q)

(* h gives the sum of q over each set of its indices *)
Adds(q, h) == /\ h \in [SUBSET DOMAIN q -> Nat]
              /\ h[{}] = 0
              /\ \A s \in SUBSET DOMAIN q : \A i \in s : h[s] = q[i] + h[s \ {i}]

(* A set of indices is finite, and has one member fewer without one of them. *)
LEMMA Fewer ==
  ASSUME NEW n \in Nat, NEW s \in SUBSET (1..n)
  PROVE  /\ IsFiniteSet(s) /\ Cardinality(s) \in Nat /\ (Cardinality(s) = 0 <=> s = {})
         /\ \A i \in s : s \ {i} \in SUBSET (1..n) /\ Cardinality(s \ {i}) = Cardinality(s) - 1
<1>1. IsFiniteSet(1..n)
  BY FS_Interval
<1>2. IsFiniteSet(s)
  BY <1>1, FS_Subset
<1> QED BY <1>2, FS_CardinalityType, FS_EmptySet, FS_RemoveElement

(* Whichever index the fold takes first, it gives the sum. *)
LEMMA SumMeans ==
  ASSUME NEW q \in Seq(Nat), NEW h, Adds(q, h)
  PROVE  SumOf(q) = h[DOMAIN q]
<1> DEFINE D == DOMAIN q
           n == Len(q)
           Pick(s) == CHOOSE i \in s : TRUE
           Iter(g) == g = [s \in SUBSET D |-> IF s = {} THEN 0 ELSE q[Pick(s)] + g[s \ {Pick(s)}]]
           iter == CHOOSE g : Iter(g)
           T == {k \in Nat : \A s \in SUBSET D : Cardinality(s) = k => iter[s] = h[s]}
<1>1. n \in Nat /\ D = 1..n /\ \A i \in D : q[i] \in Nat
  BY LenProperties, ElementOfSeq
<1>2. \A s \in SUBSET D : s # {} => Pick(s) \in s /\ Pick(s) \in D /\ s \ {Pick(s)} \in SUBSET D
  OBVIOUS
<1>3. Iter(h)
  <2>1. h \in [SUBSET D -> Nat] /\ h[{}] = 0
    BY DEF Adds
  <2>2. \A s \in SUBSET D : s # {} => h[s] = q[Pick(s)] + h[s \ {Pick(s)}]
    BY <1>2 DEF Adds
  <2> HIDE DEF Pick, D
  <2> QED BY <2>1, <2>2
<1>4. SumOf(q) = iter[D]
  BY DEF SumOf, FoldSeq, FoldFunction, FoldFunctionOnSet, MapThenFoldSet
<1>5. Iter(iter)
  <2> HIDE DEF Iter
  <2> QED BY <1>3
<1> HIDE DEF iter
<1>6. /\ iter[{}] = 0
      /\ \A s \in SUBSET D : s # {} => iter[s] = q[Pick(s)] + iter[s \ {Pick(s)}]
  <2> HIDE DEF Pick, D
  <2>1. {} \in SUBSET D
    OBVIOUS
  <2> QED BY <2>1, <1>5
<1> HIDE DEF Pick
<1>7. 0 \in T
  BY <1>1, <1>6, Fewer DEF Adds
<1>8. ASSUME NEW k \in Nat, k \in T PROVE k + 1 \in T
  <2> SUFFICES ASSUME NEW s \in SUBSET D, Cardinality(s) = k + 1 PROVE iter[s] = h[s]
    OBVIOUS
  <2> DEFINE r == s \ {Pick(s)}
  <2>1. s # {}
    BY <1>1, Fewer
  <2>2. Pick(s) \in s /\ r \in SUBSET D
    BY <2>1, <1>2
  <2>3. Cardinality(r) = k
    <3>1. Cardinality(r) = Cardinality(s) - 1
      BY <2>2, <1>1, Fewer
    <3> QED BY <3>1
  <2> HIDE DEF r
  <2>4. iter[r] = h[r]
    BY <2>2, <2>3, <1>8
  <2>5. iter[s] = q[Pick(s)] + iter[r] /\ h[s] = q[Pick(s)] + h[r]
    BY <2>1, <2>2, <1>6 DEF r, Adds
  <2> QED BY <2>4, <2>5
<1>9. Cardinality(D) \in T /\ D \in SUBSET D
  <2>1. Cardinality(D) \in Nat
    BY <1>1, Fewer
  <2> HIDE DEF T
  <2>2. \A k \in Nat : k \in T
    BY <1>7, <1>8, Induct
  <2> QED BY <2>1, <2>2
<1> QED BY <1>4, <1>9

(* One element more. *)
LEMMA AddsAppend ==
  ASSUME NEW q \in Seq(Nat), NEW v \in Nat, NEW h, Adds(q, h)
  PROVE  \E g : /\ Adds(Append(q, v), g)
                /\ g[DOMAIN Append(q, v)] = h[DOMAIN q] + v
<1> DEFINE n == Len(q)
           a == Append(q, v)
           g == [s \in SUBSET (1..(n + 1)) |->
                   IF n + 1 \in s THEN v + h[s \ {n + 1}] ELSE h[s]]
<1>1. /\ n \in Nat /\ DOMAIN q = 1..n /\ DOMAIN a = 1..(n + 1)
      /\ \A i \in 1..n : a[i] = q[i] /\ q[i] \in Nat
      /\ a[n + 1] = v
  BY LenProperties, ElementOfSeq, AppendProperties
<1> HIDE DEF a
<1>2. /\ h \in [SUBSET (1..n) -> Nat] /\ h[{}] = 0
      /\ \A s \in SUBSET (1..n) : \A i \in s : h[s] = q[i] + h[s \ {i}]
  BY <1>1 DEF Adds
<1>3. \A s \in SUBSET (1..(n + 1)) :
        /\ s \ {n + 1} \in SUBSET (1..n)
        /\ n + 1 \notin s => s \in SUBSET (1..n)
  <2>1. \A i \in 1..(n + 1) : i # n + 1 => i \in 1..n
    BY <1>1
  <2> QED BY <2>1
<1>4. g \in [SUBSET (1..(n + 1)) -> Nat]
  BY <1>2, <1>3
<1>5. g[{}] = 0
  BY <1>2
<1>6. ASSUME NEW s \in SUBSET (1..(n + 1)), NEW i \in s PROVE g[s] = a[i] + g[s \ {i}]
  <2> DEFINE r == s \ {n + 1}
  <2>0. r \in SUBSET (1..n) /\ s \ {i} \in SUBSET (1..(n + 1))
    BY <1>3
  <2>1. CASE i = n + 1
    BY <2>0, <2>1, <1>1
  <2>2. CASE i # n + 1 /\ n + 1 \in s
    <3>1. i \in r /\ i \in 1..n
      BY <2>2, <1>1
    <3>2. h[r] = q[i] + h[r \ {i}] /\ r \ {i} \in SUBSET (1..n)
      BY <3>1, <2>0, <1>2
    <3>3. (s \ {i}) \ {n + 1} = r \ {i} /\ n + 1 \in s \ {i}
      BY <2>2
    <3>4. g[s] = v + h[r] /\ g[s \ {i}] = v + h[r \ {i}]
      BY <2>0, <2>2, <3>3
    <3>5. q[i] \in Nat /\ h[r \ {i}] \in Nat /\ a[i] = q[i]
      BY <3>1, <3>2, <1>1, <1>2
    <3> HIDE DEF g, r
    <3> QED BY <3>2, <3>4, <3>5
  <2>3. CASE n + 1 \notin s
    <3>1. s \in SUBSET (1..n) /\ n + 1 \notin s \ {i} /\ i \in 1..n
      BY <2>3, <1>3
    <3>2. g[s] = h[s] /\ g[s \ {i}] = h[s \ {i}]
      BY <2>0, <2>3, <3>1
    <3>3. h[s] = q[i] + h[s \ {i}] /\ a[i] = q[i]
      BY <3>1, <1>1, <1>2
    <3> QED BY <3>2, <3>3
  <2> QED BY <2>1, <2>2, <2>3
<1>7. g[1..(n + 1)] = h[1..n] + v
  <2>1. (1..(n + 1)) \ {n + 1} = 1..n /\ n + 1 \in 1..(n + 1)
    BY <1>1
  <2>2. g[1..(n + 1)] = v + h[1..n]
    BY <2>1
  <2>3. h[1..n] \in Nat
    BY <1>2
  <2> HIDE DEF g
  <2> QED BY <2>2, <2>3
<1> HIDE DEF g
<1>8. Adds(a, g)
  BY <1>1, <1>4, <1>5, <1>6 DEF Adds
<1> QED BY <1>1, <1>7, <1>8 DEF a

(* Every sequence of numbers has a sum. *)
LEMMA AddsExists ==
  ASSUME NEW q \in Seq(Nat)
  PROVE  \E h : Adds(q, h)
<1> DEFINE T == {n \in Nat : \A s \in Seq(Nat) : Len(s) = n => \E h : Adds(s, h)}
<1>1. 0 \in T
  <2> SUFFICES ASSUME NEW s \in Seq(Nat), Len(s) = 0 PROVE \E h : Adds(s, h)
    OBVIOUS
  <2> DEFINE h == [x \in SUBSET DOMAIN s |-> 0]
  <2>1. DOMAIN s = {}
    BY LenProperties
  <2>2. Adds(s, h)
    BY <2>1 DEF Adds
  <2> QED BY <2>2
<1>2. ASSUME NEW n \in Nat, n \in T PROVE n + 1 \in T
  <2> SUFFICES ASSUME NEW s \in Seq(Nat), Len(s) = n + 1 PROVE \E h : Adds(s, h)
    OBVIOUS
  <2> DEFINE p == SubSeq(s, 1, n)
  <2>1. \A i \in 1..(n + 1) : s[i] \in Nat
    BY ElementOfSeq
  <2>2. p \in Seq(Nat) /\ Len(p) = n /\ \A i \in 1..n : p[i] = s[i]
    BY <2>1, SubSeqProperties
  <2> HIDE DEF p
  <2>3. s = Append(p, s[n + 1])
    <3>1. /\ Append(p, s[n + 1]) \in Seq(Nat) /\ Len(Append(p, s[n + 1])) = n + 1
          /\ \A i \in 1..(n + 1) : Append(p, s[n + 1])[i] = s[i]
      BY <2>1, <2>2, AppendProperties
    <3> QED BY <3>1, SeqEqual
  <2>4. PICK h : Adds(p, h)
    BY <2>2, <1>2
  <2>5. s[n + 1] \in Nat
    BY <2>1
  <2> DEFINE v == s[n + 1]
  <2> HIDE DEF v
  <2>6. \E g : Adds(Append(p, v), g)
    BY <2>2, <2>4, <2>5, AddsAppend DEF v
  <2> QED BY <2>3, <2>6 DEF v
<1>3. Len(q) \in T
  <2> HIDE DEF T
  <2>1. Len(q) \in Nat
    BY LenProperties
  <2>2. \A n \in Nat : n \in T
    BY <1>1, <1>2, Induct
  <2> QED BY <2>1, <2>2
<1> QED BY <1>3

(* Nothing adds up to nothing. *)
LEMMA SumEmpty == SumOf(<<>>) = 0
<1>1. <<>> \in Seq(Nat) /\ DOMAIN <<>> = {}
  BY EmptySeq
<1>2. PICK h : Adds(<<>>, h)
  BY <1>1, AddsExists
<1> QED BY <1>1, <1>2, SumMeans DEF Adds

(* The sum of an append. *)
LEMMA SumAppend ==
  ASSUME NEW q \in Seq(Nat), NEW v \in Nat
  PROVE  SumOf(q) \in Nat /\ SumOf(Append(q, v)) = SumOf(q) + v
<1>1. PICK h : Adds(q, h)
  BY AddsExists
<1>2. PICK g : Adds(Append(q, v), g) /\ g[DOMAIN Append(q, v)] = h[DOMAIN q] + v
  BY <1>1, AddsAppend
<1>3. Append(q, v) \in Seq(Nat)
  BY AppendProperties
<1>4. SumOf(q) = h[DOMAIN q] /\ SumOf(Append(q, v)) = g[DOMAIN Append(q, v)]
  BY <1>1, <1>2, <1>3, SumMeans
<1>5. h[DOMAIN q] \in Nat
  BY <1>1 DEF Adds
<1> QED BY <1>2, <1>4, <1>5

(* The sum without the first element. *)
LEMMA SumTail ==
  ASSUME NEW q \in Seq(Nat), q # <<>>
  PROVE  /\ Head(q) \in Nat /\ Tail(q) \in Seq(Nat) /\ SumOf(Tail(q)) \in Nat
         /\ SumOf(q) = Head(q) + SumOf(Tail(q))
<1> DEFINE n == Len(q)
           t == Tail(q)
           Up(s) == {i + 1 : i \in s}
<1>1. PICK h : Adds(q, h)
  BY AddsExists
<1>2. /\ n \in Nat /\ n >= 1 /\ DOMAIN q = 1..n
      /\ t \in Seq(Nat) /\ DOMAIN t = 1..(n - 1)
      /\ Head(q) = q[1]
      /\ \A i \in 1..(n - 1) : t[i] = q[i + 1]
      /\ \A i \in 1..n : q[i] \in Nat
  BY HeadTailProperties, LenProperties, ElementOfSeq, EmptySeq
<1> HIDE DEF t
<1> DEFINE g == [s \in SUBSET (1..(n - 1)) |-> h[Up(s)]]
<1>3. /\ h \in [SUBSET (1..n) -> Nat] /\ h[{}] = 0
      /\ \A s \in SUBSET (1..n) : \A i \in s : h[s] = q[i] + h[s \ {i}]
  BY <1>1, <1>2 DEF Adds
<1>4. \A s \in SUBSET (1..(n - 1)) : Up(s) \in SUBSET (1..n)
  BY <1>2
<1>5. Adds(t, g)
  <2>1. g \in [SUBSET (1..(n - 1)) -> Nat]
    BY <1>3, <1>4
  <2>2. g[{}] = 0
    <3>1. Up({}) = {}
      OBVIOUS
    <3> QED BY <3>1, <1>3
  <2>3. ASSUME NEW s \in SUBSET (1..(n - 1)), NEW i \in s PROVE g[s] = t[i] + g[s \ {i}]
    <3>1. Up(s \ {i}) = Up(s) \ {i + 1}
      <4>1. \A j \in s : j \in Nat /\ (j + 1 = i + 1 => j = i)
        BY <1>2
      <4> QED BY <4>1
    <3>2. Up(s) \in SUBSET (1..n) /\ i + 1 \in Up(s)
      BY <1>4
    <3> HIDE DEF Up
    <3>3. h[Up(s)] = q[i + 1] + h[Up(s) \ {i + 1}]
      BY <3>2, <1>3
    <3> QED BY <3>1, <3>3, <1>2
  <2> HIDE DEF g
  <2> QED BY <2>1, <2>2, <2>3, <1>2 DEF Adds
<1>6. SumOf(t) = g[1..(n - 1)] /\ SumOf(q) = h[1..n]
  <2> HIDE DEF g
  <2> QED BY <1>1, <1>2, <1>5, SumMeans
<1>7. Up(1..(n - 1)) = (1..n) \ {1}
  <2>1. \A j \in (1..n) \ {1} : j - 1 \in 1..(n - 1) /\ (j - 1) + 1 = j
    BY <1>2
  <2>2. \A i \in 1..(n - 1) : i + 1 \in (1..n) \ {1}
    BY <1>2
  <2> QED BY <2>1, <2>2
<1>8. h[1..n] = q[1] + h[(1..n) \ {1}]
  <2>1. 1 \in 1..n /\ 1..n \in SUBSET (1..n)
    BY <1>2
  <2> QED BY <2>1, <1>3
<1>9. h[(1..n) \ {1}] \in Nat /\ g[1..(n - 1)] = h[(1..n) \ {1}]
  <2> HIDE DEF Up
  <2>1. (1..n) \ {1} \in SUBSET (1..n)
    OBVIOUS
  <2> QED BY <2>1, <1>3, <1>7
<1> HIDE DEF g
<1>10. q[1] \in Nat
  BY <1>2
<1> QED BY <1>2, <1>6, <1>8, <1>9, <1>10 DEF t
=============================================================================
