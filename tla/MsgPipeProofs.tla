---------------------------- MODULE MsgPipeProofs ----------------------------
(***************************************************************************)
(* A connection delivers the messages as they were sent, for any lengths,   *)
(* fragments, vectors and windows.  The stream of a connection is one       *)
(* sequence of bytes that never changes; what any part of either program,   *)
(* or the kernel, holds is a piece of it, and the invariant says which: the *)
(* pieces are adjacent, from the first byte after the delivered messages to *)
(* the last byte of the queued ones.                                       *)
(***************************************************************************)
EXTENDS MsgPipe, QueueLemmas

Byte == Nat \X Nat

(* all that the peer will ever send, and where its (k + 1)-th message begins *)
Whole  == Stream(Len(lens))
Off(k) == Len(Stream(k))

(* s is the piece of w behind its first o elements *)
At(w, s, o) == /\ o + Len(s) <= Len(w)
               /\ \A i \in 1..Len(s) : s[i] = w[o + i]

-----------------------------------------------------------------------------
(* Pieces of a sequence *)

(* A sequence is a function on its indices. *)
LEMMA SeqFacts ==
  ASSUME NEW S, NEW s \in Seq(S)
  PROVE  Len(s) \in Nat /\ DOMAIN s = 1..Len(s) /\ \A i \in 1..Len(s) : s[i] \in S
BY LenProperties, ElementOfSeq

(* Two adjacent pieces are one. *)
LEMMA AtConcat ==
  ASSUME NEW S, NEW w \in Seq(S), NEW s \in Seq(S), NEW t \in Seq(S), NEW o \in Nat
  PROVE  /\ s \o t \in Seq(S) /\ Len(s \o t) = Len(s) + Len(t)
         /\ At(w, s, o) /\ At(w, t, o + Len(s)) => At(w, s \o t, o)
<1> DEFINE c == s \o t
<1>1. /\ c \in Seq(S) /\ Len(s) \in Nat /\ Len(t) \in Nat /\ Len(w) \in Nat
      /\ Len(c) = Len(s) + Len(t)
      /\ \A i \in 1..Len(s) : c[i] = s[i]
      /\ \A i \in 1..Len(c) : i > Len(s) => c[i] = t[i - Len(s)]
  BY ConcatProperties, LenProperties
<1> HIDE DEF c
<1>2. ASSUME At(w, s, o), At(w, t, o + Len(s)) PROVE At(w, c, o)
  <2>1. o + Len(c) <= Len(w)
    BY <1>1, <1>2 DEF At
  <2>2. ASSUME NEW i \in 1..Len(c) PROVE c[i] = w[o + i]
    <3>1. CASE i <= Len(s)
      BY <3>1, <1>1, <1>2 DEF At
    <3>2. CASE i > Len(s)
      <4>1. i - Len(s) \in 1..Len(t) /\ c[i] = t[i - Len(s)]
        BY <3>2, <1>1
      <4>2. (o + Len(s)) + (i - Len(s)) = o + i
        BY <1>1
      <4>3. t[i - Len(s)] = w[(o + Len(s)) + (i - Len(s))]
        BY <4>1, <1>2 DEF At
      <4> QED BY <4>1, <4>2, <4>3
    <3> QED BY <3>1, <3>2, <1>1
  <2> QED BY <2>1, <2>2 DEF At
<1> QED BY <1>1, <1>2 DEF c

(* A piece of a piece. *)
LEMMA AtPart ==
  ASSUME NEW S, NEW w \in Seq(S), NEW s \in Seq(S), NEW o \in Nat,
         NEW m \in Nat, NEW n \in Nat, m <= n, n <= Len(s)
  PROVE  /\ SubSeq(s, m + 1, n) \in Seq(S) /\ Len(SubSeq(s, m + 1, n)) = n - m
         /\ At(w, s, o) => At(w, SubSeq(s, m + 1, n), o + m)
<1> DEFINE p == SubSeq(s, m + 1, n)
<1>1. Len(s) \in Nat /\ Len(w) \in Nat /\ \A i \in (m + 1)..n : s[i] \in S
  BY SeqFacts
<1>2. /\ p \in Seq(S) /\ Len(p) = n - m
      /\ \A i \in 1..(n - m) : p[i] = s[m + i]
  BY <1>1, SubSeqProperties
<1> HIDE DEF p
<1>3. ASSUME At(w, s, o) PROVE At(w, p, o + m)
  <2>1. \A i \in 1..(n - m) : m + i \in 1..Len(s) /\ o + (m + i) = (o + m) + i
    BY <1>1
  <2> QED BY <1>1, <1>2, <1>3, <2>1 DEF At
<1> QED BY <1>2, <1>3 DEF p

(* The two halves of a sequence. *)
LEMMA AtHalves ==
  ASSUME NEW S, NEW s \in Seq(S), NEW t \in Seq(S)
  PROVE  /\ s \o t \in Seq(S) /\ Len(s \o t) = Len(s) + Len(t)
         /\ At(s \o t, s, 0) /\ At(s \o t, t, Len(s))
<1> DEFINE c == s \o t
<1>1. /\ c \in Seq(S) /\ Len(s) \in Nat /\ Len(t) \in Nat /\ Len(c) = Len(s) + Len(t)
      /\ \A i \in 1..Len(s) : c[i] = s[i]
      /\ \A i \in 1..Len(c) : i > Len(s) => c[i] = t[i - Len(s)]
  BY ConcatProperties, LenProperties
<1> HIDE DEF c
<1>2. At(c, s, 0)
  BY <1>1 DEF At
<1>3. \A i \in 1..Len(t) : Len(s) + i \in 1..Len(c) /\ (Len(s) + i) - Len(s) = i /\ Len(s) + i > Len(s)
  BY <1>1
<1>4. At(c, t, Len(s))
  BY <1>1, <1>3 DEF At
<1> QED BY <1>1, <1>2, <1>4 DEF c

(* A piece of a piece is a piece. *)
LEMMA AtWithin ==
  ASSUME NEW S, NEW w \in Seq(S), NEW s \in Seq(S), NEW p \in Seq(S),
         NEW o \in Nat, NEW m \in Nat, At(w, s, o), At(s, p, m)
  PROVE  At(w, p, o + m)
<1>1. Len(w) \in Nat /\ Len(s) \in Nat /\ Len(p) \in Nat
  BY LenProperties
<1>2. \A i \in 1..Len(p) : m + i \in 1..Len(s) /\ o + (m + i) = (o + m) + i
  BY <1>1 DEF At
<1> QED BY <1>1, <1>2 DEF At

(* An empty piece is anywhere. *)
LEMMA AtEmpty ==
  ASSUME NEW S, NEW w \in Seq(S), NEW o \in Nat, o <= Len(w)
  PROVE  At(w, <<>>, o)
BY LenProperties DEF At

(* What stands in one place is the same, as far as it goes. *)
LEMMA AtSame ==
  ASSUME NEW S, NEW w \in Seq(S), NEW s \in Seq(S), NEW t \in Seq(S), NEW o \in Nat,
         At(w, s, o), At(w, t, o)
  PROVE  /\ Len(s) = Len(t) => s = t
         /\ Len(s) <= Len(t) => IsPrefix(s, t)
<1>1. Len(s) \in Nat /\ Len(t) \in Nat
  BY LenProperties
<1>2. ASSUME Len(s) = Len(t) PROVE s = t
  <2>1. \A i \in 1..Len(s) : s[i] = t[i]
    BY <1>2 DEF At
  <2> QED BY <1>2, <2>1, SeqEqual
<1>3. ASSUME Len(s) <= Len(t) PROVE SubSeq(s, 1, Len(s)) = SubSeq(t, 1, Len(s))
  <2> DEFINE a == SubSeq(s, 1, Len(s))
             b == SubSeq(t, 1, Len(s))
  <2>1. (\A i \in 1..Len(s) : s[i] \in S) /\ (\A i \in 1..Len(s) : t[i] \in S)
    BY <1>1, <1>3, SeqFacts
  <2>2. /\ a \in Seq(S) /\ Len(a) = Len(s) /\ \A i \in 1..Len(s) : a[i] = s[i]
        /\ b \in Seq(S) /\ Len(b) = Len(s) /\ \A i \in 1..Len(s) : b[i] = t[i]
    BY <1>1, <2>1, SubSeqProperties
  <2> HIDE DEF a, b
  <2>3. \A i \in 1..Len(s) : a[i] = b[i]
    BY <1>1, <1>3, <2>2 DEF At
  <2>4. a = b
    BY <2>2, <2>3, SeqEqual
  <2> QED BY <2>4 DEF a, b
<1> QED BY <1>2, <1>3 DEF IsPrefix

-----------------------------------------------------------------------------
(* The stream *)

(* The lengths a peer may send. *)
LEMMA LensFacts ==
  ASSUME lens \in Lengths
  PROVE  /\ Len(lens) \in Nat /\ DOMAIN lens = 1..Len(lens)
         /\ \A k \in 1..Len(lens) : lens[k] \in Nat /\ lens[k] >= HdrLen
         /\ HdrLen \in Nat /\ HdrLen >= 1 /\ MaxSize \in Nat
<1>1. lens \in Seq(Nat) /\ HdrLen \in Nat \ {0} /\ MaxSize \in Nat
  BY ReaderAssumption
<1>2. Len(lens) \in Nat /\ DOMAIN lens = 1..Len(lens) /\ \A k \in 1..Len(lens) : lens[k] \in Nat
  BY <1>1, SeqFacts
<1>3. \A k \in 1..Len(lens) : lens[k] >= HdrLen
  BY <1>2, ReaderAssumption
<1> QED BY <1>1, <1>2, <1>3

(* A message is a sequence of its bytes. *)
LEMMA BytesFacts ==
  ASSUME lens \in Lengths, NEW k \in 1..Len(lens)
  PROVE  /\ Bytes(k) \in Seq(Byte) /\ Len(Bytes(k)) = lens[k]
         /\ \A o \in 1..lens[k] : Bytes(k)[o] = <<k, o>>
<1>1. Len(lens) \in Nat /\ lens[k] \in Nat
  BY LensFacts
<1>2. k \in Nat /\ \A o \in 1..lens[k] : <<k, o>> \in Byte
  BY <1>1 DEF Byte
<1>3. Bytes(k) \in [1..lens[k] -> Byte]
  BY <1>2 DEF Bytes
<1> QED BY <1>1, <1>3 DEF Bytes

(* The stream grows by one message at a time. *)
LEMMA StreamNext ==
  ASSUME lens \in Lengths, NEW k \in 0..Len(lens)
  PROVE  /\ Stream(k) \in Seq(Byte)
         /\ Stream(0) = <<>>
         /\ k < Len(lens) => Stream(k + 1) = Stream(k) \o Bytes(k + 1)
<1> DEFINE Q(n) == [j \in 1..n |-> Bytes(j)]
<1>0. Len(lens) \in Nat /\ k \in Nat
  BY LensFacts
<1>1. \A n \in 0..Len(lens) : Q(n) \in Seq(Seq(Byte)) /\ Len(Q(n)) = n
  <2> SUFFICES ASSUME NEW n \in 0..Len(lens) PROVE Q(n) \in Seq(Seq(Byte)) /\ Len(Q(n)) = n
    OBVIOUS
  <2>1. n \in Nat /\ \A j \in 1..n : j \in 1..Len(lens)
    BY <1>0
  <2>2. \A j \in 1..n : Bytes(j) \in Seq(Byte)
    BY <2>1, BytesFacts
  <2>3. Q(n) \in [1..n -> Seq(Byte)]
    BY <2>2
  <2> QED BY <2>1, <2>3
<1>2. Q(k) \in Seq(Seq(Byte)) /\ Q(0) \in Seq(Seq(Byte)) /\ Len(Q(0)) = 0
  BY <1>1, <1>0
<1>3. Stream(k) \in Seq(Byte) /\ Stream(0) = <<>>
  <2> HIDE DEF Q
  <2>1. Stream(k) = FlattenSeq(Q(k)) /\ Stream(0) = FlattenSeq(Q(0))
    BY DEF Stream, Q
  <2> QED BY <2>1, <1>2, FlattenType, FlattenMeans
<1>4. ASSUME k < Len(lens) PROVE Stream(k + 1) = Stream(k) \o Bytes(k + 1)
  <2>1. k + 1 \in 1..Len(lens) /\ k + 1 \in 0..Len(lens)
    BY <1>0, <1>4
  <2>2. Bytes(k + 1) \in Seq(Byte)
    BY <2>1, BytesFacts
  <2>3. Q(k + 1) \in Seq(Seq(Byte)) /\ Len(Q(k + 1)) = k + 1 /\ Len(Q(k)) = k
    BY <1>1, <2>1
  <2>4. /\ Append(Q(k), Bytes(k + 1)) \in Seq(Seq(Byte))
        /\ Len(Append(Q(k), Bytes(k + 1))) = k + 1
        /\ \A j \in 1..k : Append(Q(k), Bytes(k + 1))[j] = Q(k)[j]
        /\ Append(Q(k), Bytes(k + 1))[k + 1] = Bytes(k + 1)
    BY <1>0, <1>2, <2>2, <2>3, AppendProperties
  <2>5. \A j \in 1..(k + 1) : Append(Q(k), Bytes(k + 1))[j] = Q(k + 1)[j]
    BY <1>0, <2>4
  <2> HIDE DEF Q
  <2>6. Q(k + 1) = Append(Q(k), Bytes(k + 1))
    BY <2>3, <2>4, <2>5, SeqEqual
  <2>7. Stream(k + 1) = FlattenSeq(Q(k + 1)) /\ Stream(k) = FlattenSeq(Q(k))
    BY DEF Stream, Q
  <2> QED BY <2>6, <2>7, <1>2, <2>2, FlattenAppend
<1> QED BY <1>3, <1>4

(* Where the messages begin. *)
LEMMA OffNext ==
  ASSUME lens \in Lengths, NEW k \in 0..Len(lens)
  PROVE  /\ Off(k) \in Nat /\ Off(0) = 0
         /\ k < Len(lens) => Off(k + 1) = Off(k) + lens[k + 1]
<1>0. Len(lens) \in Nat /\ k \in Nat
  BY LensFacts
<1>1. Stream(k) \in Seq(Byte) /\ Stream(0) = <<>>
  BY StreamNext
<1>2. Off(k) \in Nat /\ Off(0) = 0
  BY <1>1, LenProperties, EmptySeq DEF Off
<1>3. ASSUME k < Len(lens) PROVE Off(k + 1) = Off(k) + lens[k + 1]
  <2>1. k + 1 \in 1..Len(lens)
    BY <1>0, <1>3
  <2>2. Bytes(k + 1) \in Seq(Byte) /\ Len(Bytes(k + 1)) = lens[k + 1]
    BY <2>1, BytesFacts
  <2>3. Stream(k + 1) = Stream(k) \o Bytes(k + 1)
    BY <1>3, StreamNext
  <2> QED BY <1>1, <2>2, <2>3, ConcatProperties DEF Off
<1> QED BY <1>2, <1>3

(* A shorter stream is the beginning of a longer one. *)
LEMMA StreamAt ==
  ASSUME lens \in Lengths, NEW k \in 0..Len(lens), NEW m \in 0..Len(lens), k <= m
  PROVE  At(Stream(m), Stream(k), 0)
<1> DEFINE T == {d \in Nat : k + d <= Len(lens) => At(Stream(k + d), Stream(k), 0)}
<1>0. Len(lens) \in Nat /\ k \in Nat /\ m \in Nat
  BY LensFacts
<1>1. 0 \in T
  <2>1. Stream(k) \in Seq(Byte) /\ k + 0 = k
    BY <1>0, StreamNext
  <2> QED BY <2>1, LenProperties DEF At
<1>2. ASSUME NEW d \in Nat, d \in T PROVE d + 1 \in T
  <2> SUFFICES ASSUME k + (d + 1) <= Len(lens) PROVE At(Stream(k + (d + 1)), Stream(k), 0)
    OBVIOUS
  <2> DEFINE n == k + d
  <2>1. n \in 0..Len(lens) /\ n < Len(lens) /\ n + 1 = k + (d + 1) /\ n + 1 \in 1..Len(lens)
    BY <1>0
  <2>2. At(Stream(n), Stream(k), 0)
    BY <2>1, <1>2
  <2> HIDE DEF n
  <2>3. /\ Stream(n) \in Seq(Byte) /\ Stream(k) \in Seq(Byte)
        /\ Stream(n + 1) = Stream(n) \o Bytes(n + 1)
    BY <2>1, StreamNext
  <2>4. Bytes(n + 1) \in Seq(Byte)
    BY <2>1, BytesFacts
  <2>5. /\ Len(Stream(n)) \in Nat /\ Len(Stream(k)) \in Nat
        /\ Len(Stream(n + 1)) >= Len(Stream(n))
        /\ \A i \in 1..Len(Stream(n)) : Stream(n + 1)[i] = Stream(n)[i]
    BY <2>3, <2>4, ConcatProperties, LenProperties
  <2>6. At(Stream(n + 1), Stream(k), 0)
    BY <2>2, <2>5 DEF At
  <2> QED BY <2>6, <2>1
<1> HIDE DEF T
<1>3. m - k \in T /\ k + (m - k) = m
  <2>1. m - k \in Nat /\ k + (m - k) = m
    BY <1>0
  <2>2. \A d \in Nat : d \in T
    BY <1>1, <1>2, Induct
  <2> QED BY <2>1, <2>2
<1> QED BY <1>0, <1>3 DEF T

(* The bytes of the next message follow the stream. *)
LEMMA MessageAt ==
  ASSUME lens \in Lengths, NEW k \in 0..Len(lens), k < Len(lens)
  PROVE  /\ Whole \in Seq(Byte) /\ Off(k) \in Nat
         /\ At(Whole, Bytes(k + 1), Off(k))
         /\ \A o \in 1..lens[k + 1] : Whole[Off(k) + o] = <<k + 1, o>>
<1>0. /\ Len(lens) \in Nat /\ k \in Nat /\ k + 1 \in 1..Len(lens) /\ k + 1 \in 0..Len(lens)
      /\ Len(lens) \in 0..Len(lens) /\ k + 1 <= Len(lens)
  BY LensFacts
<1>1. At(Whole, Stream(k + 1), 0)
  BY <1>0, StreamAt DEF Whole
<1>2. /\ Stream(k) \in Seq(Byte) /\ Whole \in Seq(Byte) /\ Off(k) \in Nat
      /\ Stream(k + 1) = Stream(k) \o Bytes(k + 1)
  BY <1>0, StreamNext, OffNext DEF Whole
<1>3. /\ Bytes(k + 1) \in Seq(Byte) /\ Len(Bytes(k + 1)) = lens[k + 1] /\ lens[k + 1] \in Nat
      /\ \A o \in 1..lens[k + 1] : Bytes(k + 1)[o] = <<k + 1, o>>
  BY <1>0, BytesFacts, LensFacts
<1>4. /\ Len(Stream(k + 1)) = Off(k) + lens[k + 1]
      /\ \A o \in 1..lens[k + 1] : Stream(k + 1)[Off(k) + o] = Bytes(k + 1)[o]
  BY <1>2, <1>3, ConcatProperties DEF Off
<1>5. Len(Whole) \in Nat
  BY <1>2, LenProperties
<1>6. \A o \in 1..lens[k + 1] :
        /\ Off(k) + o \in 1..Len(Stream(k + 1))
        /\ 0 + (Off(k) + o) = Off(k) + o
  <2>1. /\ Off(k) \in Nat /\ lens[k + 1] \in Nat
        /\ Len(Stream(k + 1)) = Off(k) + lens[k + 1]
    BY <1>2, <1>3, <1>4
  <2> QED BY <2>1
<1>7. Off(k) + lens[k + 1] <= Len(Whole)
  BY <1>1, <1>2, <1>3, <1>4, <1>5 DEF At
<1>8. \A o \in 1..lens[k + 1] : Whole[Off(k) + o] = Bytes(k + 1)[o]
  BY <1>1, <1>4, <1>6 DEF At
<1> QED BY <1>2, <1>3, <1>7, <1>8 DEF At

(* A position before the end of the first m messages is in one of them. *)
LEMMA OffOrder ==
  ASSUME lens \in Lengths, NEW k \in 0..Len(lens), NEW m \in 0..Len(lens)
  PROVE  /\ k <= m => Off(k) <= Off(m)
         /\ Off(k) < Off(m) => k < m
         /\ Off(m) <= Len(Whole)
<1>0. /\ Len(lens) \in Nat /\ k \in Nat /\ m \in Nat /\ Len(lens) \in 0..Len(lens)
      /\ Off(k) \in Nat /\ Off(m) \in Nat
  BY LensFacts, OffNext
<1>1. \A a, b \in 0..Len(lens) : a <= b => Off(a) <= Off(b)
  <2> SUFFICES ASSUME NEW a \in 0..Len(lens), NEW b \in 0..Len(lens), a <= b
               PROVE  Off(a) <= Off(b)
    OBVIOUS
  <2>1. At(Stream(b), Stream(a), 0) /\ Len(Stream(a)) \in Nat
    BY StreamAt, StreamNext, LenProperties
  <2> QED BY <2>1 DEF At, Off
<1>2. Off(m) <= Len(Whole)
  BY <1>0, <1>1 DEF Off, Whole
<1>3. ASSUME Off(k) < Off(m) PROVE k < m
  <2> SUFFICES ASSUME m <= k PROVE FALSE
    BY <1>0
  <2>1. Off(m) <= Off(k)
    BY <1>1
  <2> QED BY <2>1, <1>3, <1>0
<1> QED BY <1>1, <1>2, <1>3

-----------------------------------------------------------------------------
(* The sender's queue *)

(* A bounded set of numbers has a greatest one. *)
LEMMA GreatestOf ==
  ASSUME NEW n \in Nat, NEW X \in SUBSET (0..n), X # {}
  PROVE  W!Greatest(X) \in X /\ \A y \in X : y <= W!Greatest(X)
<1> DEFINE Y == {n - x : x \in X}
<1>1. Y \in SUBSET Nat /\ Y # {}
  <2>1. \A x \in X : n - x \in Nat
    OBVIOUS
  <2> QED BY <2>1
<1> HIDE DEF Y
<1>2. PICK y \in Y : \A z \in Y : y <= z
  BY <1>1, SmallestOf
<1>3. PICK x \in X : y = n - x
  BY <1>2 DEF Y
<1>4. \A z \in X : n - z \in Y
  BY DEF Y
<1>5. \A z \in X : z <= x
  BY <1>2, <1>3, <1>4
<1> QED BY <1>5 DEF W!Greatest

(* The bytes of the first messages begin the bytes of the queue. *)
LEMMA FirstOf ==
  ASSUME NEW q \in Seq(Seq(Byte)), NEW k \in 0..Len(q)
  PROVE  /\ SubSeq(q, k + 1, Len(q)) \in Seq(Seq(Byte))
         /\ Len(SubSeq(q, k + 1, Len(q))) = Len(q) - k
         /\ W!FirstBytes(q, k) \in Seq(Byte) /\ W!Total(q, k) \in Nat
         /\ FlattenSeq(SubSeq(q, k + 1, Len(q))) \in Seq(Byte)
         /\ FlattenSeq(q) = W!FirstBytes(q, k) \o FlattenSeq(SubSeq(q, k + 1, Len(q)))
<1> DEFINE n == Len(q)
           a == SubSeq(q, 1, k)
           b == SubSeq(q, k + 1, n)
<1>1. /\ n \in Nat /\ k \in Nat /\ k <= n
      /\ \A i \in 1..n : q[i] \in Seq(Byte)
  BY SeqFacts
<1>2. /\ a \in Seq(Seq(Byte)) /\ Len(a) = k
      /\ \A i \in 1..k : a[i] = q[i]
  BY <1>1, SubSeqProperties
<1>3. /\ b \in Seq(Seq(Byte)) /\ Len(b) = n - k
      /\ \A i \in 1..(n - k) : b[i] = q[k + i]
  BY <1>1, SubSeqProperties
<1> HIDE DEF a, b
<1> DEFINE c == a \o b
<1>4. /\ c \in Seq(Seq(Byte)) /\ Len(c) = Len(a) + Len(b)
      /\ \A i \in 1..Len(a) : c[i] = a[i]
      /\ \A i \in 1..(Len(a) + Len(b)) : i > Len(a) => c[i] = b[i - Len(a)]
  <2>1. a \in Seq(Seq(Byte)) /\ b \in Seq(Seq(Byte))
    BY <1>2, <1>3
  <2> QED BY <2>1, ConcatProperties
<1> HIDE DEF c
<1>5. Len(c) = n /\ \A i \in 1..n : c[i] = q[i]
  <2> SUFFICES ASSUME NEW i \in 1..n PROVE Len(c) = n /\ c[i] = q[i]
    BY <1>1, <1>2, <1>3, <1>4
  <2>1. i > k => i - k \in 1..(n - k) /\ k + (i - k) = i
    BY <1>1
  <2>2. Len(a) = k /\ Len(b) = n - k /\ Len(c) = n
    BY <1>1, <1>2, <1>3, <1>4
  <2>3. CASE i <= k
    BY <2>2, <2>3, <1>1, <1>2, <1>4
  <2>4. CASE i > k
    <3>1. c[i] = b[i - k]
      BY <2>2, <2>4, <1>1, <1>4
    <3> QED BY <3>1, <2>1, <2>2, <2>4, <1>3
  <2> QED BY <2>3, <2>4, <1>1
<1>6. q = a \o b
  <2>1. q = c
    BY <1>4, <1>5, SeqEqual
  <2> QED BY <2>1 DEF c
<1>7. FlattenSeq(q) = FlattenSeq(a) \o FlattenSeq(b)
  BY <1>2, <1>3, <1>6, FlattenConcat
<1>8. FlattenSeq(a) \in Seq(Byte) /\ FlattenSeq(b) \in Seq(Byte)
  BY <1>2, <1>3, FlattenType
<1>9. Len(FlattenSeq(a)) \in Nat
  BY <1>8, LenProperties
<1>10. W!FirstBytes(q, k) = FlattenSeq(a) /\ W!Total(q, k) = Len(FlattenSeq(a))
  BY DEF a, W!FirstBytes, W!Total, W!FlattenSeq, FlattenSeq
<1> QED BY <1>3, <1>7, <1>8, <1>9, <1>10 DEF b

(* sendQue gathers bytes of the queue, and never more than there are. *)
LEMMA GatheredBytes ==
  ASSUME que \in Seq(Seq(Byte))
  PROVE  /\ W!Total(que, W!Gathered) \in Nat
         /\ W!Total(que, W!Gathered) <= Len(FlattenSeq(que))
<1> DEFINE X == {k \in 0..W!Least(Len(que), VecSize) :
                   k > 0 => W!Total(que, k - 1) < SendMax}
<1>1. Len(que) \in Nat /\ VecSize \in Nat
  BY PipeAssumption, LenProperties
<1>2. W!Least(Len(que), VecSize) \in 0..Len(que)
  BY <1>1 DEF W!Least
<1>3. X \in SUBSET (0..Len(que)) /\ 0 \in X
  BY <1>1, <1>2
<1> HIDE DEF X
<1>4. W!Greatest(X) \in 0..Len(que)
  BY <1>1, <1>3, GreatestOf
<1> DEFINE g == W!Gathered
           a == W!FirstBytes(que, g)
           b == FlattenSeq(SubSeq(que, g + 1, Len(que)))
<1>5. g \in 0..Len(que)
  BY <1>4 DEF X, W!Gathered
<1> HIDE DEF g
<1>6. a \in Seq(Byte) /\ b \in Seq(Byte) /\ FlattenSeq(que) = a \o b
  BY <1>5, FirstOf
<1> HIDE DEF a, b
<1>7. Len(a) \in Nat /\ Len(b) \in Nat /\ Len(FlattenSeq(que)) = Len(a) + Len(b)
  BY <1>6, ConcatProperties, LenProperties
<1> QED BY <1>7 DEF a, g, W!Total

(* prune takes exactly the bytes that were sent from the front of the queue. *)
LEMMA PruneLeaves ==
  ASSUME NEW q \in Seq(Seq(Byte)), NEW n \in Nat, n <= Len(FlattenSeq(q))
  PROVE  /\ W!Prune(q, n) \in Seq(Seq(Byte))
         /\ FlattenSeq(W!Prune(q, n)) = SubSeq(FlattenSeq(q), n + 1, Len(FlattenSeq(q)))
<1> DEFINE F == FlattenSeq(q)
           X == {i \in 0..Len(q) : W!Total(q, i) <= n}
           k == W!Greatest(X)
           first == W!FirstBytes(q, k)
           rest == SubSeq(q, k + 1, Len(q))
           skip == n - W!Total(q, k)
           cutHead == SubSeq(Head(rest), skip + 1, Len(Head(rest)))
           left == SubSeq(F, n + 1, Len(F))
<1>1. Len(q) \in Nat /\ F \in Seq(Byte) /\ Len(F) \in Nat
  BY FlattenType, LenProperties
<1>2. 0 \in X
  <2>1. SubSeq(q, 1, 0) = <<>>
    BY SubSeqEmpty
  <2>2. W!Total(q, 0) = 0
    BY <2>1, EmptySeq, FlattenMeans DEF W!Total, W!FirstBytes, W!FlattenSeq, FlattenSeq
  <2> QED BY <2>2, <1>1
<1>3. k \in X /\ \A i \in X : i <= k
  <2> HIDE DEF X
  <2>1. X \in SUBSET (0..Len(q))
    BY DEF X
  <2> QED BY <2>1, <1>1, <1>2, GreatestOf
<1>4. k \in 0..Len(q) /\ W!Total(q, k) <= n
  BY <1>3
<1>5. /\ rest \in Seq(Seq(Byte)) /\ Len(rest) = Len(q) - k
      /\ first \in Seq(Byte) /\ W!Total(q, k) \in Nat
      /\ FlattenSeq(rest) \in Seq(Byte)
      /\ F = first \o FlattenSeq(rest)
  <2> HIDE DEF k
  <2> QED BY <1>4, FirstOf
<1>6. Len(first) = W!Total(q, k) /\ skip \in Nat
  BY <1>4, <1>5 DEF W!Total
<1>7. left \in Seq(Byte) /\ Len(left) = Len(F) - n /\ At(F, left, n)
  <2> HIDE DEF F
  <2>1. At(F, F, 0) /\ 0 \in Nat /\ 0 + n = n
    BY <1>1 DEF At
  <2> QED BY <2>1, <1>1, AtPart DEF F
<1>8. W!Prune(q, n) = IF rest = <<>> THEN <<>> ELSE <<cutHead>> \o Tail(rest)
  BY DEF W!Prune
<1>9. CASE rest = <<>>
  <2>1. W!Prune(q, n) = <<>> /\ FlattenSeq(rest) = <<>>
    BY <1>5, <1>8, <1>9, FlattenMeans, EmptySeq
  <2>2. FlattenSeq(W!Prune(q, n)) = <<>> /\ W!Prune(q, n) \in Seq(Seq(Byte))
    BY <2>1, <1>5, <1>9
  <2>3. Len(F) <= n
    <3>1. F = first
      BY <2>1, <1>5, ConcatEmptySeq
    <3> QED BY <3>1, <1>4, <1>6
  <2>4. left = <<>>
    BY <2>3, <1>1, <1>7, EmptySeq
  <2> QED BY <2>2, <2>4
<1>10. CASE rest # <<>>
  <2> DEFINE h == Head(rest)
             tl == Tail(rest)
             ft == FlattenSeq(tl)
  <2>0. Len(rest) \in Nat /\ Len(rest) >= 1
    <3> HIDE DEF rest, k
    <3> QED BY <1>5, <1>10, LenProperties, EmptySeq
  <2>1. h \in Seq(Byte) /\ tl \in Seq(Seq(Byte)) /\ h = q[k + 1] /\ k + 1 \in 1..Len(q)
    <3>1. k \in Nat /\ k + 1 \in 1..Len(q)
      BY <2>0, <1>1, <1>4, <1>5
    <3>2. rest[1] = q[k + 1]
      <4> HIDE DEF k
      <4>1. \A i \in (k + 1)..Len(q) : q[i] \in Seq(Byte)
        BY <1>1, <3>1, SeqFacts
      <4> QED BY <4>1, <3>1, <1>1, SubSeqProperties
    <3> HIDE DEF rest, k
    <3> QED BY <3>1, <3>2, <1>5, <1>10, HeadTailProperties
  <2> HIDE DEF F, k, rest, left
  <2>2. rest = <<h>> \o tl
    <3> DEFINE e == <<h>>
               c == e \o tl
    <3>1. /\ e \in Seq(Seq(Byte)) /\ Len(e) = 1 /\ e[1] = rest[1]
      BY <2>1
    <3>2. /\ Len(tl) = Len(rest) - 1 /\ \A i \in 1..Len(tl) : tl[i] = rest[i + 1]
      BY <1>5, <1>10, HeadTailProperties
    <3> HIDE DEF e, h, tl
    <3>3. /\ c \in Seq(Seq(Byte)) /\ Len(c) = Len(e) + Len(tl)
          /\ \A i \in 1..(Len(e) + Len(tl)) : c[i] = IF i <= Len(e) THEN e[i] ELSE tl[i - Len(e)]
      BY <2>1, <3>1, ConcatProperties
    <3> HIDE DEF c
    <3>4. Len(c) = Len(rest) /\ \A i \in 1..Len(rest) : c[i] = rest[i]
      <4> SUFFICES ASSUME NEW i \in 1..Len(rest) PROVE Len(c) = Len(rest) /\ c[i] = rest[i]
        BY <2>0, <3>1, <3>2, <3>3
      <4>1. i > 1 => i - 1 \in 1..Len(tl) /\ (i - 1) + 1 = i
        BY <2>0, <3>2
      <4> QED BY <4>1, <2>0, <3>1, <3>2, <3>3
    <3>5. c = rest
      BY <3>3, <3>4, <1>5, SeqEqual
    <3> QED BY <3>5 DEF c, e
  <2> HIDE DEF h, tl
  <2>3. ft \in Seq(Byte) /\ FlattenSeq(rest) = h \o ft
    <3> DEFINE e == <<h>>
    <3>1. e \in Seq(Seq(Byte)) /\ FlattenSeq(e) = h
      BY <2>1, FlattenOne
    <3> HIDE DEF e
    <3>2. rest = e \o tl
      BY <2>2 DEF e
    <3> QED BY <2>1, <3>1, <3>2, FlattenConcat, FlattenType
  <2> HIDE DEF first, ft
  <2>4. skip \in 0..Len(h) /\ Len(h) \in Nat /\ n = Len(first) + skip
    <3>1. Len(h) \in Nat
      BY <2>1, LenProperties
    <3>2. W!Total(q, k + 1) = W!Total(q, k) + Len(h)
      <4> DEFINE p == SubSeq(q, 1, k)
      <4>1. p \in Seq(Seq(Byte)) /\ SubSeq(q, 1, k + 1) = Append(p, h)
        <5>1. SubSeq(q, 1, k + 1) = p \o <<q[k + 1]>>
          <6>1. 1 \in 1..Len(q) /\ k + 1 \in 1..Len(q) /\ (k + 1) - 1 = k
            BY <2>1, <1>1, <1>4
          <6> QED BY <6>1, SubSeqRecursiveSecond
        <5>2. p \in Seq(Seq(Byte))
          <6>1. \A i \in 1..k : q[i] \in Seq(Byte)
            BY <1>1, <1>4, SeqFacts
          <6> QED BY <6>1, <1>4, SubSeqProperties
        <5> HIDE DEF p
        <5> QED BY <5>1, <5>2, <2>1, AppendIsConcat
      <4>2. W!Total(q, k) = Len(FlattenSeq(p))
        BY DEF W!Total, W!FirstBytes, W!FlattenSeq, FlattenSeq
      <4> HIDE DEF p
      <4>3. W!Total(q, k + 1) = Len(FlattenSeq(Append(p, h)))
        <5>1. W!Total(q, k + 1) = Len(FlattenSeq(SubSeq(q, 1, k + 1)))
          BY DEF W!Total, W!FirstBytes, W!FlattenSeq, FlattenSeq
        <5> QED BY <5>1, <4>1
      <4>4. FlattenSeq(Append(p, h)) = FlattenSeq(p) \o h /\ FlattenSeq(p) \in Seq(Byte)
        BY <4>1, <2>1, FlattenAppend, FlattenType
      <4> QED BY <4>2, <4>3, <4>4, <2>1, ConcatProperties
    <3>3. ~ (W!Total(q, k + 1) <= n)
      <4>1. k + 1 \in 0..Len(q) /\ ~ (k + 1 <= k)
        BY <2>1, <1>1, <1>4
      <4>2. k + 1 \notin X
        BY <4>1, <1>3
      <4> QED BY <4>1, <4>2
    <3> QED BY <3>1, <3>2, <3>3, <1>5, <1>6
  <2> HIDE DEF X, skip, cutHead
  <2>5. /\ cutHead \in Seq(Byte) /\ Len(cutHead) = Len(h) - skip
        /\ At(h, cutHead, skip)
    <3>1. At(h, h, 0) /\ 0 + skip = skip
      BY <2>4 DEF At
    <3>2. cutHead = SubSeq(h, skip + 1, Len(h))
      BY DEF cutHead, h
    <3>3. /\ h \in Seq(Byte) /\ 0 \in Nat
          /\ skip \in Nat /\ Len(h) \in Nat /\ skip <= Len(h) /\ Len(h) <= Len(h)
      BY <2>1, <2>4
    <3> DEFINE l == Len(h)
               p == SubSeq(h, skip + 1, l)
    <3>4. p \in Seq(Byte) /\ Len(p) = l - skip /\ At(h, p, 0 + skip)
      <4> HIDE DEF l
      <4>1. l \in Nat /\ skip <= l /\ l <= Len(h)
        BY <3>3 DEF l
      <4> QED BY <4>1, <3>1, <3>3, AtPart
    <3> QED BY <3>1, <3>2, <3>4
  <2>6. FlattenSeq(W!Prune(q, n)) = cutHead \o ft /\ W!Prune(q, n) \in Seq(Seq(Byte))
    <3> DEFINE e == <<cutHead>>
    <3>1. e \in Seq(Seq(Byte)) /\ FlattenSeq(e) = cutHead
      BY <2>5, FlattenOne
    <3> HIDE DEF e
    <3>2. W!Prune(q, n) = e \o tl
      BY <1>8, <1>10 DEF e, tl
    <3>3. tl \in Seq(Seq(Byte)) /\ e \in Seq(Seq(Byte))
      BY <2>1, <3>1
    <3>4. e \o tl \in Seq(Seq(Byte))
      BY <3>3, ConcatProperties
    <3>5. FlattenSeq(e \o tl) = FlattenSeq(e) \o FlattenSeq(tl)
      BY <3>3, FlattenConcat
    <3> QED BY <3>1, <3>2, <3>4, <3>5 DEF ft
  <2>7. At(F, cutHead, n) /\ At(F, ft, n + Len(cutHead))
    <3> DEFINE fr == FlattenSeq(rest)
    <3>1. /\ fr \in Seq(Byte) /\ At(F, fr, Len(first)) /\ Len(first) \in Nat
      BY <1>5, AtHalves, LenProperties
    <3>2. At(fr, h, 0) /\ At(fr, ft, Len(h))
      BY <2>1, <2>3, AtHalves
    <3> HIDE DEF fr
    <3>3. At(F, h, Len(first) + 0) /\ At(F, ft, Len(first) + Len(h))
      BY <3>1, <3>2, <2>1, <2>3, <2>4, <1>1, AtWithin
    <3>4. At(F, cutHead, Len(first) + skip)
      <4>1. Len(first) + 0 = Len(first)
        BY <3>1
      <4>2. /\ F \in Seq(Byte) /\ h \in Seq(Byte) /\ cutHead \in Seq(Byte)
            /\ Len(first) \in Nat /\ skip \in Nat
            /\ At(F, h, Len(first)) /\ At(h, cutHead, skip)
        BY <4>1, <3>1, <3>3, <2>1, <2>4, <2>5, <1>1
      <4> QED BY <4>2, AtWithin
    <3>5. n + Len(cutHead) = Len(first) + Len(h)
      BY <3>1, <2>4, <2>5
    <3> QED BY <3>3, <3>4, <3>5, <2>4
  <2>8. /\ cutHead \o ft \in Seq(Byte) /\ Len(cutHead \o ft) = Len(cutHead) + Len(ft)
        /\ At(F, cutHead \o ft, n)
    <3>1. cutHead \in Seq(Byte) /\ ft \in Seq(Byte) /\ F \in Seq(Byte)
      BY <2>3, <2>5, <1>1
    <3> QED BY <3>1, <2>7, AtConcat
  <2>9. Len(cutHead \o ft) = Len(left)
    <3>1. Len(F) = Len(first) + Len(FlattenSeq(rest)) /\ Len(FlattenSeq(rest)) = Len(h) + Len(ft)
      BY <1>5, <2>1, <2>3, ConcatProperties
    <3>2. Len(first) \in Nat /\ Len(ft) \in Nat
      BY <1>5, <2>3, LenProperties
    <3> QED BY <3>1, <3>2, <2>4, <2>5, <2>8, <1>7
  <2>10. cutHead \o ft = left
    BY <2>8, <2>9, <1>1, <1>7, AtSame
  <2> QED BY <2>6, <2>10 DEF left, F
<1> QED BY <1>9, <1>10

-----------------------------------------------------------------------------
(* The invariant *)

PipeTypes ==
  /\ lens \in Lengths
  /\ pc \in {"recv", "parse", "body", "next", "failed"}
  /\ wire \in Seq(Byte) /\ buf \in Seq(Byte) /\ que \in Seq(Seq(Byte))
  /\ rdlen \in 0..HdrLen /\ hdr \in [1..HdrLen -> Byte]
  /\ dummy \in [cap : Nat, data : Seq(Byte)]
  /\ out \in Seq(Seq(Byte)) /\ sent \in 0..Len(lens)

(* a length that chkHeader lets pass *)
Proper(k) == k \in 1..Len(lens) /\ HdrLen < lens[k] /\ lens[k] < MaxSize

(* what was dispatched, and that nothing is queued after a close *)
Dispatched == /\ Len(out) \in 0..Len(lens)
              /\ \A k \in 1..Len(out) : out[k] = Bytes(k)

(* a message is allocated only below the maximal size, and never overrun *)
Fits == dummy # Null => dummy.cap < MaxSize /\ Len(dummy.data) <= dummy.cap

Closed == Cut => que = <<>> /\ ~owed

(* the message under construction is the next one, and is not complete *)
Reading ==
  /\ dummy = Null <=> rdlen < HdrLen
  /\ dummy # Null => /\ Proper(Len(out) + 1)
                     /\ dummy.cap = lens[Len(out) + 1]
                     /\ Len(dummy.data) < dummy.cap
  /\ pc = "recv" => buf = <<>>
  /\ pc = "body" => dummy # Null
  /\ pc = "next" => buf = <<>> \/ rdlen = 0

(* the bytes that the receiver, and then the connection, have taken *)
Received == Off(Len(out)) + Len(Partial) + Len(buf)
Carried  == Received + Len(wire)

Incoming == /\ At(Whole, Partial, Off(Len(out)))
            /\ At(Whole, buf, Off(Len(out)) + Len(Partial))

Outgoing == /\ At(Whole, wire, Received)
            /\ At(Whole, FlattenSeq(que), Carried)
            /\ IF Cut THEN Carried <= Off(sent)
                      ELSE Carried + Len(FlattenSeq(que)) = Off(sent)

(* once the stream is given up, only what was dispatched matters *)
PipeInv == /\ PipeTypes /\ Dispatched /\ Fits /\ Closed
           /\ pc # "failed" => Reading /\ Incoming /\ Outgoing

-----------------------------------------------------------------------------
(* The reader's operations *)

(* The stream does not change while it is read. *)
LEMMA StreamStays ==
  ASSUME lens' = lens
  PROVE  /\ Whole' = Whole
         /\ \A k : Off(k)' = Off(k) /\ Bytes(k)' = Bytes(k) /\ (Proper(k)' <=> Proper(k))
BY DEF Whole, Off, Stream, Bytes, Proper

(* The first HdrLen bytes of a message are accepted exactly when its length  *)
(* is within the bounds.                                                    *)
LEMMA HeaderMeans ==
  ASSUME lens \in Lengths, NEW k \in 0..Len(lens), NEW m \in 0..Len(lens),
         NEW h \in Seq(Byte), Len(h) = HdrLen, At(Whole, h, Off(k)),
         Off(k) + HdrLen <= Off(m)
  PROVE  k < m /\ h[1][1] = k + 1 /\ (ValidHeader(h) <=> Proper(k + 1))
<1>1. /\ HdrLen \in Nat /\ HdrLen >= 1 /\ Len(lens) \in Nat
      /\ Off(k) \in Nat /\ Off(m) \in Nat
  BY LensFacts, OffNext
<1>2. k < m /\ k < Len(lens) /\ k + 1 \in 1..Len(lens)
  <2>1. Off(k) < Off(m)
    BY <1>1
  <2>2. k < m
    BY <2>1, OffOrder
  <2> QED BY <2>2, <1>1
<1>3. lens[k + 1] \in Nat /\ HdrLen <= lens[k + 1]
  BY <1>2, LensFacts
<1>4. \A o \in 1..lens[k + 1] : Whole[Off(k) + o] = <<k + 1, o>>
  BY <1>2, MessageAt
<1>5. ASSUME NEW i \in 1..HdrLen PROVE h[i] = <<k + 1, i>>
  <2>1. i \in 1..Len(h) /\ i \in 1..lens[k + 1]
    BY <1>1, <1>3
  <2>2. h[i] = Whole[Off(k) + i]
    BY <2>1 DEF At
  <2> QED BY <2>1, <2>2, <1>4
<1>6. h[1][1] = k + 1
  <2>1. h[1] = <<k + 1, 1>>
    BY <1>1, <1>5
  <2> QED BY <2>1
<1> QED BY <1>2, <1>5, <1>6 DEF ValidHeader, Proper

(* A first part, and the rest. *)
LEMMA SplitOf ==
  ASSUME NEW s \in Seq(Byte), NEW n \in Nat, n <= Len(s)
  PROVE  /\ Prefix(s, n) \in Seq(Byte) /\ Len(Prefix(s, n)) = n
         /\ Rest(s, n) \in Seq(Byte) /\ Len(Rest(s, n)) = Len(s) - n
         /\ \A w \in Seq(Byte), o \in Nat :
              At(w, s, o) => At(w, Prefix(s, n), o) /\ At(w, Rest(s, n), o + n)
<1>1. Len(s) \in Nat
  BY LenProperties
<1>2. /\ Prefix(s, n) \in Seq(Byte) /\ Len(Prefix(s, n)) = n
      /\ \A i \in 1..n : Prefix(s, n)[i] = s[i]
  <2>1. \A i \in 1..n : s[i] \in Byte
    BY <1>1, SeqFacts
  <2> QED BY <2>1, SubSeqProperties DEF Prefix
<1>3. Rest(s, n) \in Seq(Byte) /\ Len(Rest(s, n)) = Len(s) - n
  BY <1>1, AtPart DEF Rest
<1>4. ASSUME NEW w \in Seq(Byte), NEW o \in Nat, At(w, s, o)
      PROVE  At(w, Prefix(s, n), o) /\ At(w, Rest(s, n), o + n)
  <2>1. At(w, Prefix(s, n), o)
    <3> DEFINE p == Prefix(s, n)
    <3>1. Len(p) = n /\ \A i \in 1..n : i \in 1..Len(s) /\ p[i] = s[i]
      BY <1>1, <1>2
    <3>2. Len(w) \in Nat
      BY LenProperties
    <3> HIDE DEF p
    <3>3. o + Len(p) <= Len(w)
      BY <3>1, <3>2, <1>1, <1>4 DEF At
    <3>4. \A i \in 1..Len(p) : p[i] = w[o + i]
      BY <3>1, <1>4 DEF At
    <3>5. At(w, p, o)
      BY <3>3, <3>4 DEF At
    <3> QED BY <3>5 DEF p
  <2>2. At(w, Rest(s, n), o + n)
    BY <1>1, <1>4, AtPart DEF Rest
  <2> QED BY <2>1, <2>2
<1> QED BY <1>2, <1>3, <1>4

(* The header's bytes so far, with the next ones behind them. *)
LEMMA OverlayIs ==
  ASSUME HdrLen \in Nat, NEW h \in [1..HdrLen -> Byte], NEW n \in Nat,
         NEW s \in Seq(Byte), n + Len(s) <= HdrLen
  PROVE  /\ Prefix(h, n) \in Seq(Byte) /\ Len(Prefix(h, n)) = n
         /\ Overlay(h, n, s) \in [1..HdrLen -> Byte]
         /\ Prefix(Overlay(h, n, s), n + Len(s)) = Prefix(h, n) \o s
<1> DEFINE g == Overlay(h, n, s)
           l == n + Len(s)
           p == Prefix(h, n)
           r == Prefix(g, l)
           c == p \o s
<1>1. Len(s) \in Nat /\ n <= HdrLen /\ \A i \in 1..Len(s) : s[i] \in Byte
  BY SeqFacts
<1>2. g \in [1..HdrLen -> Byte]
  BY <1>1 DEF Overlay
<1>3. \A i \in 1..l : g[i] = IF i <= n THEN h[i] ELSE s[i - n]
  BY <1>1 DEF Overlay
<1> HIDE DEF g
<1>4. p \in Seq(Byte) /\ Len(p) = n /\ \A i \in 1..n : p[i] = h[i]
  <2>1. \A i \in 1..n : h[i] \in Byte
    BY <1>1
  <2> QED BY <2>1, SubSeqProperties DEF Prefix
<1>5. r \in Seq(Byte) /\ Len(r) = l /\ \A i \in 1..l : r[i] = g[i]
  <2>1. l \in Nat /\ \A i \in 1..l : g[i] \in Byte
    BY <1>1, <1>2
  <2> HIDE DEF l
  <2> QED BY <2>1, SubSeqProperties DEF Prefix
<1> HIDE DEF p, r
<1>6. /\ c \in Seq(Byte) /\ Len(c) = l
      /\ \A i \in 1..l : c[i] = IF i <= n THEN p[i] ELSE s[i - n]
  BY <1>4, ConcatProperties
<1> HIDE DEF c
<1>7. ASSUME NEW i \in 1..l PROVE r[i] = c[i]
  <2>1. i \in Nat /\ i >= 1 /\ r[i] = g[i]
    BY <1>1, <1>5
  <2>2. CASE i <= n
    <3>1. p[i] = h[i] /\ g[i] = h[i] /\ c[i] = p[i]
      BY <2>1, <2>2, <1>3, <1>4, <1>6
    <3> QED BY <2>1, <3>1
  <2>3. CASE ~ (i <= n)
    BY <2>1, <2>3, <1>3, <1>6
  <2> QED BY <2>2, <2>3
<1>8. r = c
  <2>1. Len(r) = Len(c) /\ \A i \in 1..Len(r) : r[i] = c[i]
    BY <1>5, <1>6, <1>7
  <2> QED BY <2>1, <1>5, <1>6, SeqEqual
<1> QED BY <1>2, <1>4, <1>8 DEF g, p, r, c

(* What a step of parse or parseBody shows of the messages: nothing, one     *)
(* more that was dispatched, or the end.                                    *)
Passes ==
  \/ Len(out') = Len(out) /\ pc' # "failed"
  \/ /\ Len(out) < sent /\ Proper(Len(out) + 1)
     /\ Len(out') = Len(out) + 1 /\ pc' # "failed"
  \/ /\ Len(out) < sent /\ ~ Proper(Len(out) + 1)
     /\ Len(out') = Len(out) /\ pc' = "failed"

(* What such a step keeps. *)
ReaderTypes ==
  /\ pc \in {"recv", "parse", "body", "next", "failed"}
  /\ buf \in Seq(Byte) /\ rdlen \in 0..HdrLen /\ hdr \in [1..HdrLen -> Byte]
  /\ dummy \in [cap : Nat, data : Seq(Byte)] /\ out \in Seq(Seq(Byte))

ReaderKeeps ==
  /\ ReaderTypes' /\ Dispatched' /\ Fits'
  /\ pc' # "failed" => Reading' /\ Incoming' /\ Received' = Received

(* The step is one of a reader that has not given up. *)
ParseFrom(p) ==
  /\ PipeInv /\ Reading /\ Incoming /\ Outgoing
  /\ pc = p /\ UNCHANGED <<lens, wire, sndVars>>

(* The positions are numbers, and none is behind the end of the stream. *)
LEMMA Positions ==
  ASSUME PipeTypes, Dispatched
  PROVE  /\ HdrLen \in Nat /\ HdrLen >= 1 /\ Len(lens) \in Nat
         /\ Whole \in Seq(Byte) /\ Len(Whole) \in Nat
         /\ Len(out) \in 0..Len(lens) /\ Off(Len(out)) \in Nat
         /\ sent \in 0..Len(lens) /\ Off(sent) \in Nat
         /\ Off(sent) <= Len(Whole) /\ Off(Len(out)) <= Len(Whole)
         /\ Partial \in Seq(Byte) /\ Len(Partial) \in Nat
         /\ dummy = Null => Len(Partial) = rdlen
         /\ dummy # Null => Partial = dummy.data
         /\ dummy.data \in Seq(Byte) /\ Len(dummy.data) \in Nat /\ dummy.cap \in Nat
         /\ Len(buf) \in Nat /\ Len(wire) \in Nat
         /\ FlattenSeq(que) \in Seq(Byte) /\ Len(FlattenSeq(que)) \in Nat
         /\ Received \in Nat /\ Carried \in Nat
<1>1. /\ lens \in Lengths /\ sent \in 0..Len(lens) /\ Len(out) \in 0..Len(lens)
      /\ wire \in Seq(Byte) /\ buf \in Seq(Byte) /\ que \in Seq(Seq(Byte))
      /\ rdlen \in 0..HdrLen /\ hdr \in [1..HdrLen -> Byte]
      /\ dummy \in [cap : Nat, data : Seq(Byte)]
  BY DEF PipeTypes, Dispatched
<1>2. HdrLen \in Nat /\ HdrLen >= 1 /\ Len(lens) \in Nat /\ Len(lens) \in 0..Len(lens)
  BY <1>1, LensFacts
<1>3. /\ Whole \in Seq(Byte) /\ Len(Whole) \in Nat
      /\ Off(Len(out)) \in Nat /\ Off(sent) \in Nat
      /\ Off(sent) <= Len(Whole) /\ Off(Len(out)) <= Len(Whole)
  <2>1. Whole \in Seq(Byte)
    BY <1>1, <1>2, StreamNext DEF Whole
  <2>2. Len(Whole) \in Nat
    BY <2>1, LenProperties
  <2>3. Off(Len(out)) \in Nat /\ Off(sent) \in Nat
    BY <1>1, OffNext
  <2>4. Off(sent) <= Len(Whole) /\ Off(Len(out)) <= Len(Whole)
    BY <1>1, OffOrder
  <2> QED BY <2>1, <2>2, <2>3, <2>4
<1>4. dummy.data \in Seq(Byte) /\ dummy.cap \in Nat
  BY <1>1
<1>5. Len(dummy.data) \in Nat /\ Len(buf) \in Nat /\ Len(wire) \in Nat
  BY <1>1, <1>4, LenProperties
<1>6. /\ Partial \in Seq(Byte) /\ (dummy = Null => Len(Partial) = rdlen)
      /\ dummy # Null => Partial = dummy.data
  <2>1. \A i \in 1..rdlen : hdr[i] \in Byte
    BY <1>1, <1>2
  <2>2. Prefix(hdr, rdlen) \in Seq(Byte) /\ Len(Prefix(hdr, rdlen)) = rdlen
    BY <2>1, <1>1, <1>2, SubSeqProperties DEF Prefix
  <2> QED BY <2>2, <1>4 DEF Partial
<1>7. Len(Partial) \in Nat
  BY <1>6, LenProperties
<1>8. FlattenSeq(que) \in Seq(Byte)
  BY <1>1, FlattenType
<1>9. Len(FlattenSeq(que)) \in Nat
  BY <1>8, LenProperties
<1>10. Received \in Nat /\ Carried \in Nat
  BY <1>3, <1>5, <1>7 DEF Received, Carried
<1> QED BY <1>1, <1>2, <1>3, <1>4, <1>5, <1>6, <1>7, <1>8, <1>9, <1>10

(* Where the next message begins, as long as none is dispatched. *)
LEMMA PlaceStays ==
  ASSUME lens' = lens, out' = out
  PROVE  /\ Whole' = Whole /\ Off(Len(out))' = Off(Len(out))
         /\ Dispatched => Dispatched'
         /\ Proper(Len(out) + 1)' <=> Proper(Len(out) + 1)
BY StreamStays DEF Off, Stream, Bytes, Dispatched, Proper, Whole

(* All bytes at hand join those of the message under construction. *)
LEMMA AllJoin ==
  ASSUME PipeTypes, Dispatched, Incoming,
         lens' = lens, out' = out, buf' = <<>>, Partial' = Partial \o buf
  PROVE  Incoming' /\ Received' = Received
<1>1. /\ buf \in Seq(Byte) /\ Len(buf) \in Nat /\ Whole \in Seq(Byte) /\ Len(Whole) \in Nat
      /\ Off(Len(out)) \in Nat /\ Partial \in Seq(Byte) /\ Len(Partial) \in Nat
  BY Positions DEF PipeTypes
<1>2. /\ Partial' \in Seq(Byte) /\ Len(Partial') = Len(Partial) + Len(buf)
      /\ At(Whole, Partial', Off(Len(out)))
  BY <1>1, AtConcat DEF Incoming
<1>3. Whole' = Whole /\ Off(Len(out))' = Off(Len(out)) /\ Len(<<>>) = 0
  BY PlaceStays
<1>4. At(Whole, buf', Off(Len(out)) + Len(Partial'))
  <2>1. Off(Len(out)) + Len(Partial') <= Len(Whole) /\ Off(Len(out)) + Len(Partial') \in Nat
    BY <1>1, <1>2 DEF At
  <2> QED BY <2>1, <1>1, AtEmpty
<1>5. Incoming'
  BY <1>2, <1>3, <1>4 DEF Incoming
<1>6. Received' = Received
  BY <1>1, <1>2, <1>3 DEF Received
<1> QED BY <1>5, <1>6

(* The header is still incomplete: the bytes join those before them. *)
LEMMA ShortKeeps ==
  ASSUME ParseFrom("parse"), ParseShort
  PROVE  ReaderKeeps /\ Passes
<1>1. /\ PipeTypes /\ Dispatched /\ Reading /\ Incoming
      /\ lens' = lens /\ out' = out /\ dummy' = dummy /\ pc' = "recv" /\ buf' = <<>>
      /\ rdlen < HdrLen /\ Len(buf) < HdrLen - rdlen
      /\ hdr' = Overlay(hdr, rdlen, buf) /\ rdlen' = rdlen + Len(buf)
  BY DEF PipeInv, ParseShort, ParseFrom
<1>2. /\ buf \in Seq(Byte) /\ rdlen \in Nat /\ hdr \in [1..HdrLen -> Byte] /\ HdrLen \in Nat
      /\ dummy \in [cap : Nat, data : Seq(Byte)] /\ out \in Seq(Seq(Byte))
      /\ Len(buf) \in Nat
  BY <1>1, Positions DEF PipeTypes
<1>3. dummy = Null /\ Partial = Prefix(hdr, rdlen)
  BY <1>1 DEF Reading, Partial
<1>4. /\ hdr' \in [1..HdrLen -> Byte]
      /\ Prefix(hdr', rdlen') = Partial \o buf
  <2>1. rdlen + Len(buf) <= HdrLen
    BY <1>1, <1>2
  <2>2. /\ Overlay(hdr, rdlen, buf) \in [1..HdrLen -> Byte]
        /\ Prefix(Overlay(hdr, rdlen, buf), rdlen + Len(buf)) = Prefix(hdr, rdlen) \o buf
    BY <2>1, <1>2, OverlayIs
  <2> QED BY <2>2, <1>1, <1>3
<1>5. Partial' = Partial \o buf
  BY <1>1, <1>3, <1>4 DEF Partial
<1>6. Incoming' /\ Received' = Received /\ Dispatched'
  BY <1>1, <1>5, AllJoin, PlaceStays
<1>7. ReaderTypes' /\ Fits'
  <2>1. rdlen' \in 0..HdrLen
    BY <1>1, <1>2
  <2> QED BY <2>1, <1>1, <1>2, <1>3, <1>4 DEF ReaderTypes, Fits
<1>8. Reading'
  BY <1>1, <1>2, <1>3 DEF Reading, Null
<1>9. Passes
  BY <1>1 DEF Passes
<1> QED BY <1>6, <1>7, <1>8, <1>9 DEF ReaderKeeps

(* The message is still incomplete: the bytes join those before them. *)
LEMMA PartKeeps ==
  ASSUME ParseFrom("body"), BodyPart
  PROVE  ReaderKeeps /\ Passes
<1>1. /\ PipeTypes /\ Dispatched /\ Reading /\ Incoming /\ dummy # Null
      /\ lens' = lens /\ out' = out /\ hdr' = hdr /\ pc' = "recv" /\ buf' = <<>>
      /\ rdlen' = rdlen /\ Left > Len(buf) /\ Fits
      /\ dummy' = [dummy EXCEPT !.data = @ \o buf]
  BY DEF PipeInv, BodyPart, ParseFrom, Reading, Fits
<1>2. /\ buf \in Seq(Byte) /\ rdlen \in 0..HdrLen /\ hdr \in [1..HdrLen -> Byte] /\ HdrLen \in Nat
      /\ dummy \in [cap : Nat, data : Seq(Byte)] /\ out \in Seq(Seq(Byte))
      /\ dummy.cap \in Nat /\ dummy.data \in Seq(Byte) /\ Len(dummy.data) \in Nat
      /\ Len(buf) \in Nat /\ HdrLen >= 1 /\ Partial = dummy.data
  BY <1>1, Positions DEF PipeTypes
<1>3. /\ dummy.data \o buf \in Seq(Byte)
      /\ Len(dummy.data \o buf) = Len(dummy.data) + Len(buf)
  BY <1>2, ConcatProperties
<1>4. /\ dummy' \in [cap : Nat, data : Seq(Byte)]
      /\ dummy'.cap = dummy.cap /\ dummy'.data = dummy.data \o buf
  <2> DEFINE d == dummy.data \o buf
  <2> HIDE DEF d
  <2>1. dummy' = [dummy EXCEPT !.data = d]
    BY <1>1 DEF d
  <2>2. d \in Seq(Byte)
    BY <1>3 DEF d
  <2> QED BY <2>1, <2>2, <1>2 DEF d
<1>5. /\ rdlen >= HdrLen /\ Proper(Len(out) + 1) /\ dummy.cap = lens[Len(out) + 1]
      /\ dummy.cap > HdrLen
  BY <1>1, <1>2 DEF Reading, Proper
<1>6. dummy' # Null
  BY <1>2, <1>4, <1>5 DEF Null
<1>7. Partial' = Partial \o buf
  BY <1>2, <1>4, <1>6 DEF Partial
<1>8. Incoming' /\ Received' = Received /\ Dispatched' /\ Proper(Len(out) + 1)'
  BY <1>1, <1>5, <1>7, AllJoin, PlaceStays
<1>9. Len(dummy'.data) < dummy'.cap
  BY <1>1, <1>2, <1>3, <1>4 DEF Left
<1>10. ReaderTypes' /\ Fits'
  BY <1>1, <1>2, <1>4, <1>9 DEF ReaderTypes, Fits
<1>11. Reading'
  BY <1>1, <1>2, <1>4, <1>5, <1>6, <1>8, <1>9 DEF Reading
<1>12. Passes
  BY <1>1 DEF Passes
<1> QED BY <1>8, <1>10, <1>11, <1>12 DEF ReaderKeeps

(* A step that moves no byte. *)
LEMMA NoneMoves ==
  ASSUME PipeTypes, Dispatched, Fits, Incoming,
         UNCHANGED <<lens, buf, rdlen, hdr, dummy, out>>,
         pc' \in {"recv", "body"}, Reading'
  PROVE  ReaderKeeps /\ Passes
<1>1. Partial' = Partial /\ Len(buf') = Len(buf)
  BY DEF Partial
<1>2. Whole' = Whole /\ Off(Len(out))' = Off(Len(out)) /\ Dispatched'
  BY PlaceStays
<1>3. Incoming' /\ Received' = Received
  BY <1>1, <1>2 DEF Incoming, Received
<1>4. ReaderTypes' /\ Fits'
  BY DEF ReaderTypes, PipeTypes, Fits
<1> QED BY <1>2, <1>3, <1>4 DEF ReaderKeeps, Passes

(* On with the message under construction. *)
LEMMA OnKeeps ==
  ASSUME ParseFrom("parse"), ParseOn
  PROVE  ReaderKeeps /\ Passes
<1>1. /\ PipeTypes /\ Dispatched /\ Fits /\ Reading /\ Incoming
      /\ UNCHANGED <<lens, buf, rdlen, hdr, dummy, out>> /\ pc' = "body" /\ rdlen >= HdrLen
  BY DEF PipeInv, ParseOn, ParseFrom
<1>2. dummy # Null
  <2>1. HdrLen \in Nat /\ rdlen \in 0..HdrLen
    BY <1>1, Positions DEF PipeTypes
  <2> QED BY <2>1, <1>1 DEF Reading
<1>3. Reading'
  <2>1. Proper(Len(out) + 1)' <=> Proper(Len(out) + 1)
    BY <1>1, PlaceStays
  <2> QED BY <1>1, <1>2, <2>1 DEF Reading
<1> QED BY <1>1, <1>3, NoneMoves

(* Nothing is left of what was received. *)
LEMMA DoneKeeps ==
  ASSUME ParseFrom("next"), NextDone
  PROVE  ReaderKeeps /\ Passes
<1>1. /\ PipeTypes /\ Dispatched /\ Fits /\ Reading /\ Incoming
      /\ UNCHANGED <<lens, buf, rdlen, hdr, dummy, out>> /\ pc' = "recv" /\ buf = <<>>
  BY DEF PipeInv, NextDone, ParseFrom
<1>2. Reading'
  <2>1. Proper(Len(out) + 1)' <=> Proper(Len(out) + 1)
    BY <1>1, PlaceStays
  <2> QED BY <1>1, <2>1 DEF Reading
<1> QED BY <1>1, <1>2, NoneMoves

(* Between two messages nothing is kept. *)
LEMMA NextEmpty ==
  ASSUME ParseFrom("next"), buf # <<>>
  PROVE  rdlen = 0 /\ dummy = Null /\ Partial = <<>>
<1>1. PipeTypes /\ Dispatched /\ rdlen = 0
  BY DEF ParseFrom, PipeInv, Reading
<1>2. HdrLen \in Nat /\ HdrLen >= 1 /\ Partial \in Seq(Byte) /\ (dummy = Null => Len(Partial) = rdlen)
  BY <1>1, Positions
<1>3. dummy = Null
  BY <1>1, <1>2 DEF ParseFrom, Reading
<1> QED BY <1>1, <1>2, <1>3, EmptySeq

(* What is left begins a header. *)
LEMMA NextShortKeeps ==
  ASSUME ParseFrom("next"), NextShort
  PROVE  ReaderKeeps /\ Passes
<1>1. /\ PipeTypes /\ Dispatched /\ Fits /\ Reading /\ Incoming
      /\ lens' = lens /\ out' = out /\ dummy' = dummy /\ pc' = "next" /\ buf' = <<>>
      /\ buf # <<>> /\ Len(buf) < HdrLen
      /\ hdr' = Overlay(hdr, 0, buf) /\ rdlen' = Len(buf) /\ pc = "next"
  BY DEF PipeInv, NextShort, ParseFrom
<1>2. /\ buf \in Seq(Byte) /\ hdr \in [1..HdrLen -> Byte] /\ HdrLen \in Nat
      /\ dummy \in [cap : Nat, data : Seq(Byte)] /\ out \in Seq(Seq(Byte))
      /\ Len(buf) \in Nat /\ Partial \in Seq(Byte)
  BY <1>1, Positions DEF PipeTypes
<1>3. rdlen = 0 /\ dummy = Null /\ Partial = <<>>
  BY <1>1, NextEmpty
<1>4. hdr' \in [1..HdrLen -> Byte] /\ Prefix(hdr', rdlen') = buf
  <2>1. 0 + Len(buf) <= HdrLen /\ 0 + Len(buf) = Len(buf)
    BY <1>1, <1>2
  <2>2. /\ Overlay(hdr, 0, buf) \in [1..HdrLen -> Byte]
        /\ Prefix(Overlay(hdr, 0, buf), 0 + Len(buf)) = Prefix(hdr, 0) \o buf
        /\ Prefix(hdr, 0) \in Seq(Byte) /\ Len(Prefix(hdr, 0)) = 0
    BY <2>1, <1>2, OverlayIs
  <2>3. Prefix(hdr, 0) = <<>>
    BY <2>2, EmptySeq
  <2>4. <<>> \o buf = buf
    BY <1>2, ConcatEmptySeq
  <2> QED BY <2>1, <2>2, <2>3, <2>4, <1>1
<1>5. Partial' = Partial \o buf
  <2>1. <<>> \o buf = buf
    BY <1>2, ConcatEmptySeq
  <2> QED BY <2>1, <1>1, <1>3, <1>4 DEF Partial
<1>6. Incoming' /\ Received' = Received /\ Dispatched'
  BY <1>1, <1>5, AllJoin, PlaceStays
<1>7. ReaderTypes' /\ Fits'
  <2>1. rdlen' \in 0..HdrLen
    BY <1>1, <1>2
  <2> QED BY <2>1, <1>1, <1>2, <1>3, <1>4 DEF ReaderTypes, Fits
<1>8. Reading'
  BY <1>1, <1>2, <1>3 DEF Reading, Null
<1>9. Passes
  BY <1>1 DEF Passes
<1> QED BY <1>6, <1>7, <1>8, <1>9 DEF ReaderKeeps

(* What has been received is not more than what was queued. *)
LEMMA ReceivedSent ==
  ASSUME PipeTypes, Dispatched, Outgoing PROVE Received <= Off(sent)
<1>1. /\ Received \in Nat /\ Carried \in Nat /\ Len(wire) \in Nat
      /\ Len(FlattenSeq(que)) \in Nat /\ Off(sent) \in Nat
  BY Positions
<1> QED BY <1>1 DEF Outgoing, Carried

(* The next message is complete, and r is left. *)
LEMMA OneDispatched ==
  ASSUME PipeTypes, Dispatched, Outgoing, Proper(Len(out) + 1),
         NEW d \in Seq(Byte), NEW r \in Seq(Byte),
         Len(d) = lens[Len(out) + 1], At(Whole, d, Off(Len(out))),
         At(Whole, r, Off(Len(out)) + Len(d)),
         Received = Off(Len(out)) + Len(d) + Len(r),
         lens' = lens, hdr' = hdr, buf' = r, pc' = "next", Dispatch(d)
  PROVE  ReaderKeeps /\ Passes
<1> DEFINE k == Len(out)
<1>1. /\ out' = Append(out, d) /\ dummy' = Null /\ rdlen' = 0
      /\ out \in Seq(Seq(Byte)) /\ hdr \in [1..HdrLen -> Byte] /\ lens \in Lengths
  BY DEF Dispatch, PipeTypes
<1>2. /\ k \in 0..Len(lens) /\ k + 1 \in 1..Len(lens) /\ k < Len(lens) /\ k + 1 \in 0..Len(lens)
      /\ Len(lens) \in Nat /\ HdrLen \in Nat /\ HdrLen >= 1 /\ HdrLen < lens[k + 1]
      /\ lens[k + 1] \in Nat /\ Whole \in Seq(Byte) /\ Len(Whole) \in Nat
      /\ Off(k) \in Nat /\ sent \in 0..Len(lens) /\ Off(sent) \in Nat /\ Received \in Nat
      /\ Len(r) \in Nat /\ Len(d) \in Nat
  <2>1. k + 1 \in 1..Len(lens) /\ HdrLen < lens[k + 1]
    BY DEF Proper
  <2>2. /\ k \in 0..Len(lens) /\ Len(lens) \in Nat /\ HdrLen \in Nat /\ HdrLen >= 1
        /\ Whole \in Seq(Byte) /\ Len(Whole) \in Nat /\ Off(k) \in Nat
        /\ sent \in 0..Len(lens) /\ Off(sent) \in Nat /\ Received \in Nat
    BY Positions
  <2>3. lens[k + 1] \in Nat
    BY <2>1, <1>1, LensFacts
  <2>4. Len(r) \in Nat
    BY LenProperties
  <2> QED BY <2>1, <2>2, <2>3, <2>4
<1>3. d = Bytes(k + 1)
  <2>1. /\ Bytes(k + 1) \in Seq(Byte) /\ Len(Bytes(k + 1)) = lens[k + 1]
        /\ At(Whole, Bytes(k + 1), Off(k))
    BY <1>1, <1>2, BytesFacts, MessageAt
  <2> QED BY <2>1, <1>2, AtSame
<1>4. /\ out' \in Seq(Seq(Byte)) /\ Len(out') = k + 1 /\ out'[k + 1] = d
      /\ \A i \in 1..k : out'[i] = out[i]
  BY <1>1, <1>2, AppendProperties
<1>5. /\ Whole' = Whole /\ Off(Len(out))' = Off(k) + Len(d)
      /\ \A i : Bytes(i)' = Bytes(i)
  <2>1. Off(Len(out))' = Off(k + 1)
    BY <1>4 DEF Off, Stream, Bytes
  <2>2. Off(k + 1) = Off(k) + lens[k + 1]
    BY <1>1, <1>2, OffNext
  <2> QED BY <2>1, <2>2, StreamStays
<1>6. Dispatched'
  <2>0. k \in Nat
    BY <1>2
  <2>1. \A i \in 1..(k + 1) : i \in 1..k \/ i = k + 1
    BY <2>0
  <2>2. \A i \in 1..(k + 1) : out'[i] = Bytes(i)
    BY <2>1, <1>3, <1>4 DEF Dispatched
  <2>3. Len(out)' \in 0..Len(lens)'
    BY <1>2, <1>4
  <2>4. \A i \in 1..Len(out)' : out'[i] = Bytes(i)'
    BY <2>2, <1>4, <1>5
  <2> QED BY <2>3, <2>4 DEF Dispatched
<1>7. Partial' = <<>>
  <2>1. SubSeq(hdr, 1, 0) = <<>>
    BY SubSeqEmpty
  <2> QED BY <2>1, <1>1 DEF Partial, Prefix
<1>8. Incoming' /\ Received' = Received
  <2>0. Off(k) \in Nat /\ Len(d) \in Nat
    BY <1>2
  <2>1. Len(<<>>) = 0 /\ Off(k) + Len(d) \in Nat /\ Off(k) + Len(d) <= Len(Whole)
    BY <2>0, EmptySeq DEF At
  <2>2. At(Whole, <<>>, Off(k) + Len(d))
    BY <2>1, <1>2, AtEmpty
  <2>3. (Off(k) + Len(d)) + 0 = Off(k) + Len(d)
    BY <2>1
  <2>4. Incoming'
    BY <2>1, <2>2, <2>3, <1>5, <1>7 DEF Incoming
  <2>5. Received' = Received
    BY <2>1, <2>3, <1>2, <1>5, <1>7 DEF Received
  <2> QED BY <2>4, <2>5
<1>9. ReaderTypes' /\ Fits' /\ Reading'
  <2>1. Null \in [cap : Nat, data : Seq(Byte)]
    BY EmptySeq DEF Null
  <2>2. ReaderTypes'
    BY <2>1, <1>1, <1>2, <1>4 DEF ReaderTypes
  <2> QED BY <2>2, <1>1, <1>2 DEF Fits, Reading
<1>10. Passes
  <2>1. Off(k) < Off(sent)
    <3>1. Received <= Off(sent) /\ Received = Off(k) + Len(d) + Len(r)
      BY ReceivedSent
    <3>2. /\ Off(k) \in Nat /\ Len(d) \in Nat /\ Len(r) \in Nat /\ Off(sent) \in Nat
          /\ Len(d) >= 1
      BY <1>2
    <3> QED BY <3>1, <3>2
  <2>2. k < sent
    BY <2>1, <1>1, <1>2, OffOrder
  <2> QED BY <2>2, <1>4 DEF Passes
<1> QED BY <1>6, <1>8, <1>9, <1>10 DEF ReaderKeeps

(* The bytes finish the message under construction. *)
LEMMA BodyDoneKeeps ==
  ASSUME ParseFrom("body"), BodyDone
  PROVE  ReaderKeeps /\ Passes
<1> DEFINE d == dummy.data \o Prefix(buf, Left)
           r == Rest(buf, Left)
<1>1. /\ PipeTypes /\ Dispatched /\ Reading /\ Incoming /\ Outgoing /\ dummy # Null
      /\ lens' = lens /\ hdr' = hdr /\ pc' = "next" /\ buf' = r
      /\ Left <= Len(buf) /\ Dispatch(d)
  BY DEF PipeInv, BodyDone, ParseFrom, Reading
<1>2. /\ Proper(Len(out) + 1) /\ dummy.cap = lens[Len(out) + 1]
      /\ Len(dummy.data) < dummy.cap
  BY <1>1 DEF Reading
<1>3. /\ buf \in Seq(Byte) /\ Len(buf) \in Nat /\ Partial = dummy.data
      /\ dummy.data \in Seq(Byte) /\ Len(dummy.data) \in Nat /\ dummy.cap \in Nat
      /\ Whole \in Seq(Byte) /\ Off(Len(out)) \in Nat
  BY <1>1, Positions DEF PipeTypes
<1>4. Left \in Nat /\ Len(dummy.data) + Left = dummy.cap
  BY <1>2, <1>3 DEF Left
<1> DEFINE p == Prefix(buf, Left)
           o == Off(Len(out)) + Len(dummy.data)
<1>5. /\ p \in Seq(Byte) /\ Len(p) = Left
      /\ r \in Seq(Byte) /\ Len(r) = Len(buf) - Left
      /\ At(Whole, p, o) /\ At(Whole, r, o + Left)
  <2>1. At(Whole, buf, o) /\ o \in Nat
    BY <1>1, <1>3 DEF Incoming
  <2> HIDE DEF o
  <2> QED BY <2>1, <1>1, <1>3, <1>4, SplitOf
<1> HIDE DEF p, r
<1>6. d \in Seq(Byte) /\ Len(d) = Len(dummy.data) + Left /\ At(Whole, d, Off(Len(out)))
  <2> DEFINE a == dummy.data
             w == Whole
             x == Off(Len(out))
  <2>1. At(w, a, x) /\ d = a \o p
    BY <1>1, <1>3 DEF Incoming, p
  <2>2. At(w, p, x + Len(a))
    BY <1>5
  <2>3. w \in Seq(Byte) /\ a \in Seq(Byte) /\ p \in Seq(Byte) /\ x \in Nat /\ Len(p) = Left
    BY <1>3, <1>5
  <2> HIDE DEF a, w, x, d
  <2>4. a \o p \in Seq(Byte) /\ Len(a \o p) = Len(a) + Len(p)
    BY <2>3, ConcatProperties
  <2>5. At(w, a, x)
    BY <2>1
  <2>6. At(w, a \o p, x)
    BY <2>2, <2>3, <2>5, AtConcat
  <2>7. d \in Seq(Byte) /\ Len(d) = Len(a) + Left /\ At(w, d, x)
    BY <2>1, <2>3, <2>4, <2>6
  <2> QED BY <2>7 DEF a, w, x
<1> HIDE DEF d
<1>7. Len(d) = lens[Len(out) + 1]
  BY <1>2, <1>4, <1>6
<1>8. At(Whole, r, Off(Len(out)) + Len(d))
  <2>1. o + Left = Off(Len(out)) + Len(d)
    BY <1>3, <1>4, <1>6
  <2> QED BY <2>1, <1>5
<1>9. Received = Off(Len(out)) + Len(d) + Len(r)
  BY <1>3, <1>4, <1>5, <1>6 DEF Received
<1> QED BY <1>1, <1>2, <1>5, <1>6, <1>7, <1>8, <1>9, OneDispatched

(* A header is refused: the stream is given up. *)
LEMMA Refused ==
  ASSUME PipeTypes, Dispatched, Fits, Len(out) < sent, ~ Proper(Len(out) + 1),
         lens' = lens, hdr' \in [1..HdrLen -> Byte], Fail
  PROVE  ReaderKeeps /\ Passes
<1>1. pc' = "failed" /\ UNCHANGED <<buf, rdlen, dummy, out>>
  BY DEF Fail
<1>2. Dispatched'
  BY <1>1, PlaceStays
<1>3. ReaderTypes' /\ Fits'
  BY <1>1 DEF ReaderTypes, PipeTypes, Fits
<1> QED BY <1>1, <1>2, <1>3 DEF ReaderKeeps, Passes

(* The next message is begun with d, and r is left. *)
LEMMA OneBegun ==
  ASSUME PipeTypes, Dispatched, Proper(Len(out) + 1),
         NEW d \in Seq(Byte), NEW r \in Seq(Byte),
         At(Whole, d, Off(Len(out))), Len(d) < lens[Len(out) + 1],
         At(Whole, r, Off(Len(out)) + Len(d)),
         Received = Off(Len(out)) + Len(d) + Len(r),
         lens' = lens, out' = out, hdr' \in [1..HdrLen -> Byte], buf' = r,
         dummy' = [cap |-> lens[Len(out) + 1], data |-> d], rdlen' = HdrLen,
         pc' = "body" \/ (pc' = "next" /\ r = <<>>)
  PROVE  ReaderKeeps /\ Passes
<1>1. /\ Len(out) + 1 \in 1..Len(lens) /\ HdrLen < lens[Len(out) + 1]
      /\ lens[Len(out) + 1] < MaxSize /\ lens[Len(out) + 1] \in Nat
      /\ HdrLen \in Nat /\ HdrLen >= 1 /\ Len(d) \in Nat
  BY LensFacts, LenProperties DEF PipeTypes, Proper
<1>2. /\ dummy' \in [cap : Nat, data : Seq(Byte)]
      /\ dummy'.cap = lens[Len(out) + 1] /\ dummy'.data = d
  BY <1>1
<1>3. dummy' # Null
  BY <1>1, <1>2 DEF Null
<1>4. Partial' = d
  BY <1>2, <1>3 DEF Partial
<1>5. /\ Whole' = Whole /\ Off(Len(out))' = Off(Len(out)) /\ Dispatched'
      /\ Proper(Len(out) + 1)'
  BY PlaceStays
<1>6. Incoming' /\ Received' = Received
  BY <1>4, <1>5 DEF Incoming, Received
<1>7. ReaderTypes' /\ Fits'
  <2>1. rdlen' \in 0..HdrLen
    BY <1>1
  <2>2. dummy'.cap < MaxSize /\ Len(dummy'.data) <= dummy'.cap
    BY <1>1, <1>2
  <2>3. ReaderTypes'
    BY <2>1, <1>2 DEF ReaderTypes, PipeTypes
  <2> QED BY <2>2, <2>3 DEF Fits
<1>8. Reading'
  BY <1>1, <1>2, <1>3, <1>5 DEF Reading
<1>9. Passes
  BY DEF Passes
<1> QED BY <1>5, <1>6, <1>7, <1>8, <1>9 DEF ReaderKeeps

(* The bytes complete the header. *)
LEMMA HeaderKeeps ==
  ASSUME ParseFrom("parse"), ParseHeader
  PROVE  ReaderKeeps /\ Passes
<1> DEFINE n == HdrLen - rdlen
           p == Prefix(buf, n)
           r == Rest(buf, n)
           o == Off(Len(out))
<1>1. /\ PipeTypes /\ Dispatched /\ Fits /\ Reading /\ Incoming /\ Outgoing
      /\ lens' = lens /\ rdlen < HdrLen /\ Len(buf) >= n
      /\ hdr' = Overlay(hdr, rdlen, p)
      /\ \/ /\ ValidHeader(hdr') /\ dummy' = NewMsg(hdr', hdr') /\ buf' = r
            /\ rdlen' = HdrLen /\ pc' = "body" /\ out' = out
         \/ ~ ValidHeader(hdr') /\ Fail
  BY DEF PipeInv, ParseHeader, ParseFrom
<1>2. /\ buf \in Seq(Byte) /\ rdlen \in Nat /\ hdr \in [1..HdrLen -> Byte] /\ HdrLen \in Nat
      /\ Len(buf) \in Nat /\ Whole \in Seq(Byte) /\ o \in Nat /\ Len(out) \in 0..Len(lens)
      /\ sent \in 0..Len(lens) /\ Off(sent) \in Nat /\ lens \in Lengths
      /\ Partial \in Seq(Byte) /\ Received \in Nat
  BY <1>1, Positions DEF PipeTypes
<1>3. dummy = Null /\ Partial = Prefix(hdr, rdlen)
  BY <1>1 DEF Reading, Partial
<1>4. n \in Nat /\ n <= Len(buf) /\ rdlen + n = HdrLen
  BY <1>1, <1>2
<1> HIDE DEF n, o
<1>5. /\ p \in Seq(Byte) /\ Len(p) = n /\ r \in Seq(Byte) /\ Len(r) = Len(buf) - n
      /\ \A x \in Nat : At(Whole, buf, x) => At(Whole, p, x) /\ At(Whole, r, x + n)
  BY <1>2, <1>4, SplitOf
<1> HIDE DEF p, r
<1>6. /\ hdr' \in [1..HdrLen -> Byte] /\ hdr' \in Seq(Byte) /\ Len(hdr') = HdrLen
      /\ hdr' = Partial \o p /\ Len(Partial) = rdlen
  <2>1. rdlen + Len(p) = HdrLen
    BY <1>4, <1>5
  <2>2. /\ Overlay(hdr, rdlen, p) \in [1..HdrLen -> Byte]
        /\ Prefix(Overlay(hdr, rdlen, p), HdrLen) = Prefix(hdr, rdlen) \o p
        /\ Len(Prefix(hdr, rdlen)) = rdlen
    <3>1. rdlen + Len(p) <= HdrLen
      BY <2>1, <1>2
    <3>2. /\ Overlay(hdr, rdlen, p) \in [1..HdrLen -> Byte]
          /\ Prefix(Overlay(hdr, rdlen, p), rdlen + Len(p)) = Prefix(hdr, rdlen) \o p
          /\ Len(Prefix(hdr, rdlen)) = rdlen
      BY <3>1, <1>2, <1>5, OverlayIs
    <3> QED BY <3>2, <2>1
  <2>3. hdr' \in Seq(Byte) /\ Len(hdr') = HdrLen
    BY <2>2, <1>1, <1>2
  <2>4. Prefix(hdr', HdrLen) = hdr'
    BY <2>3, SubSeqFull DEF Prefix
  <2> QED BY <2>2, <2>3, <2>4, <1>1, <1>3
<1>7. At(Whole, hdr', o) /\ At(Whole, r, o + HdrLen)
  <2>1. At(Whole, Partial, o) /\ At(Whole, buf, o + rdlen) /\ o + rdlen \in Nat
    BY <1>1, <1>2, <1>6 DEF Incoming, o
  <2>2. At(Whole, p, o + rdlen) /\ At(Whole, r, (o + rdlen) + n)
    BY <2>1, <1>5
  <2>3. (o + rdlen) + n = o + HdrLen
    BY <1>2, <1>4
  <2> QED BY <2>1, <2>2, <2>3, <1>2, <1>5, <1>6, AtConcat
<1>8. Received = o + HdrLen + Len(r)
  <2>1. Len(buf) = n + Len(r) /\ Len(r) \in Nat
    BY <1>2, <1>4, <1>5, LenProperties
  <2>2. Received = o + rdlen + Len(buf)
    BY <1>6 DEF Received, o
  <2>3. o \in Nat /\ rdlen \in Nat /\ HdrLen \in Nat
    BY <1>2
  <2> QED BY <2>1, <2>2, <2>3, <1>4
<1>9. /\ Len(out) < sent /\ hdr'[1][1] = Len(out) + 1
      /\ ValidHeader(hdr') <=> Proper(Len(out) + 1)
  <2>1. o + HdrLen <= Off(sent)
    <3>1. Len(r) \in Nat
      BY <1>5, LenProperties
    <3> QED BY <3>1, <1>1, <1>2, <1>8, ReceivedSent
  <2> DEFINE h == hdr'
  <2>2. h \in Seq(Byte) /\ Len(h) = HdrLen /\ At(Whole, h, Off(Len(out)))
    BY <1>6, <1>7 DEF o
  <2> HIDE DEF h
  <2>3. Off(Len(out)) + HdrLen <= Off(sent)
    BY <2>1 DEF o
  <2>4. /\ Len(out) < sent /\ h[1][1] = Len(out) + 1
        /\ ValidHeader(h) <=> Proper(Len(out) + 1)
    BY <2>2, <2>3, <1>2, HeaderMeans
  <2> QED BY <2>4 DEF h
<1>10. CASE ~ ValidHeader(hdr') /\ Fail
  BY <1>1, <1>6, <1>9, <1>10, Refused
<1>11. CASE /\ ValidHeader(hdr') /\ dummy' = NewMsg(hdr', hdr') /\ buf' = r
            /\ rdlen' = HdrLen /\ pc' = "body" /\ out' = out
  <2>1. Proper(Len(out) + 1)
    BY <1>9, <1>11
  <2>2. dummy' = [cap |-> lens[Len(out) + 1], data |-> hdr']
    BY <1>9, <1>11 DEF NewMsg
  <2>3. Len(hdr') < lens[Len(out) + 1]
    BY <2>1, <1>6 DEF Proper
  <2> DEFINE d == hdr'
  <2>4. /\ d \in Seq(Byte) /\ Len(d) < lens[Len(out) + 1] /\ At(Whole, d, Off(Len(out)))
        /\ dummy' = [cap |-> lens[Len(out) + 1], data |-> d]
        /\ At(Whole, r, Off(Len(out)) + Len(d)) /\ Received = Off(Len(out)) + Len(d) + Len(r)
    BY <2>2, <2>3, <1>6, <1>7, <1>8 DEF o
  <2> HIDE DEF d
  <2> QED BY <2>1, <2>4, <1>1, <1>5, <1>6, <1>11, OneBegun
<1> QED BY <1>1, <1>10, <1>11

(* The next header is among what is left. *)
LEMMA NextWholeKeeps ==
  ASSUME ParseFrom("next"), NextWhole
  PROVE  ReaderKeeps /\ Passes
<1> DEFINE h == Prefix(buf, HdrLen)
           n == lens[h[1][1]]
           o == Off(Len(out))
<1>1. /\ PipeTypes /\ Dispatched /\ Fits /\ Reading /\ Incoming /\ Outgoing
      /\ lens' = lens /\ hdr' = hdr /\ pc = "next" /\ Len(buf) >= HdrLen
      /\ \/ ~ ValidHeader(h) /\ Fail
         \/ /\ ValidHeader(h) /\ n <= Len(buf) /\ Dispatch(Prefix(buf, n))
            /\ buf' = Rest(buf, n) /\ pc' = pc
         \/ /\ ValidHeader(h) /\ ~ (n <= Len(buf)) /\ dummy' = NewMsg(h, buf)
            /\ rdlen' = HdrLen /\ buf' = <<>> /\ pc' = pc /\ out' = out
  BY DEF PipeInv, NextWhole, ParseFrom
<1>2. /\ buf \in Seq(Byte) /\ hdr \in [1..HdrLen -> Byte] /\ HdrLen \in Nat /\ HdrLen >= 1
      /\ Len(buf) \in Nat /\ Whole \in Seq(Byte) /\ o \in Nat /\ Len(out) \in 0..Len(lens)
      /\ sent \in 0..Len(lens) /\ Off(sent) \in Nat /\ lens \in Lengths
      /\ Received \in Nat /\ Len(Whole) \in Nat
  BY <1>1, Positions DEF PipeTypes
<1>3. rdlen = 0 /\ dummy = Null /\ Partial = <<>> /\ Len(Partial) = 0
  <2>1. buf # <<>>
    BY <1>1, <1>2, EmptySeq
  <2> QED BY <2>1, NextEmpty, EmptySeq
<1>4. At(Whole, buf, o) /\ Received = o + Len(buf)
  <2>1. o + 0 = o
    BY <1>2
  <2> QED BY <2>1, <1>1, <1>3 DEF Incoming, Received
<1>5. h \in Seq(Byte) /\ Len(h) = HdrLen /\ At(Whole, h, o)
  <2> HIDE DEF o
  <2> QED BY <1>1, <1>2, <1>4, SplitOf
<1>6. /\ Len(out) < sent /\ h[1][1] = Len(out) + 1
      /\ ValidHeader(h) <=> Proper(Len(out) + 1)
  <2>1. o + HdrLen <= Off(sent)
    BY <1>1, <1>2, <1>4, ReceivedSent
  <2> HIDE DEF h
  <2> QED BY <2>1, <1>2, <1>5, HeaderMeans
<1>7. CASE ~ ValidHeader(h) /\ Fail
  <2>1. ~ Proper(Len(out) + 1) /\ hdr' \in [1..HdrLen -> Byte]
    BY <1>1, <1>2, <1>6, <1>7
  <2> QED BY <2>1, <1>1, <1>6, <1>7, Refused
<1> HIDE DEF h
<1>8. n = lens[Len(out) + 1]
  BY <1>6
<1>9. CASE /\ ValidHeader(h) /\ n <= Len(buf) /\ Dispatch(Prefix(buf, n))
           /\ buf' = Rest(buf, n) /\ pc' = pc
  <2> DEFINE d == Prefix(buf, n)
             r == Rest(buf, n)
  <2>1. Proper(Len(out) + 1) /\ n \in Nat
    <3>1. Proper(Len(out) + 1)
      BY <1>6, <1>9
    <3> QED BY <3>1, <1>2, <1>8, LensFacts DEF Proper
  <2> HIDE DEF n
  <2>2. /\ d \in Seq(Byte) /\ Len(d) = n /\ r \in Seq(Byte) /\ Len(r) = Len(buf) - n
        /\ At(Whole, d, o) /\ At(Whole, r, o + n)
    <3> HIDE DEF o
    <3> QED BY <2>1, <1>2, <1>4, <1>9, SplitOf
  <2>3. Dispatch(d) /\ buf' = r /\ pc' = "next"
    BY <1>1, <1>9
  <2> HIDE DEF d, r
  <2>4. Received = o + Len(d) + Len(r)
    BY <2>1, <2>2, <1>2, <1>4
  <2>5. /\ Len(d) = lens[Len(out) + 1] /\ At(Whole, d, Off(Len(out)))
        /\ At(Whole, r, Off(Len(out)) + Len(d))
        /\ Received = Off(Len(out)) + Len(d) + Len(r)
    BY <2>2, <2>4, <1>8
  <2> QED BY <2>1, <2>2, <2>3, <2>5, <1>1, OneDispatched
<1>10. CASE /\ ValidHeader(h) /\ ~ (n <= Len(buf)) /\ dummy' = NewMsg(h, buf)
            /\ rdlen' = HdrLen /\ buf' = <<>> /\ pc' = pc /\ out' = out
  <2> DEFINE r == <<>>
  <2>1. Proper(Len(out) + 1) /\ n \in Nat
    <3>1. Proper(Len(out) + 1)
      BY <1>6, <1>10
    <3> QED BY <3>1, <1>2, <1>8, LensFacts DEF Proper
  <2>2. Len(buf) < lens[Len(out) + 1]
    BY <2>1, <1>2, <1>8, <1>10
  <2>3. dummy' = [cap |-> lens[Len(out) + 1], data |-> buf]
    BY <1>8, <1>10 DEF NewMsg
  <2>4. r \in Seq(Byte) /\ Len(r) = 0
    BY EmptySeq
  <2>5. At(Whole, r, o + Len(buf)) /\ Received = o + Len(buf) + Len(r)
    <3>1. o + Len(buf) \in Nat /\ o + Len(buf) <= Len(Whole)
      BY <1>2, <1>4 DEF At
    <3> QED BY <3>1, <2>4, <1>2, <1>4, AtEmpty
  <2>6. buf' = r /\ pc' = "next" /\ hdr' \in [1..HdrLen -> Byte]
    BY <1>1, <1>2, <1>10
  <2>7. At(Whole, buf, Off(Len(out)))
    BY <1>4
  <2> HIDE DEF r
  <2>8. pc' = "next" /\ r = <<>>
    BY <2>6 DEF r
  <2> QED BY <2>1, <2>2, <2>3, <2>4, <2>5, <2>6, <2>7, <2>8, <1>1, <1>2, <1>10, OneBegun
<1> QED BY <1>1, <1>7, <1>9, <1>10

(* All of parse, parseBody and parseNextBody. *)
LEMMA ParseKeeps ==
  ASSUME PipeInv, ParseStep
  PROVE  PipeInv' /\ Passes
<1>1. UNCHANGED <<lens, wire, sndVars>> /\ pc \in {"parse", "body", "next"}
  BY DEF ParseStep, Parse, ParseShort, ParseHeader, ParseOn, BodyDone, BodyPart,
         NextDone, NextWhole, NextShort
<1>2. Reading /\ Incoming /\ Outgoing
  BY <1>1 DEF PipeInv
<1>3. ASSUME NEW p, pc = p PROVE ParseFrom(p)
  BY <1>1, <1>2, <1>3 DEF ParseFrom
<1>4. ReaderKeeps /\ Passes
  <2>1. CASE ParseShort
    BY <2>1, <1>3, ShortKeeps DEF ParseShort
  <2>2. CASE ParseHeader
    BY <2>2, <1>3, HeaderKeeps DEF ParseHeader
  <2>3. CASE ParseOn
    BY <2>3, <1>3, OnKeeps DEF ParseOn
  <2>4. CASE BodyDone
    BY <2>4, <1>3, BodyDoneKeeps DEF BodyDone
  <2>5. CASE BodyPart
    BY <2>5, <1>3, PartKeeps DEF BodyPart
  <2>6. CASE NextDone
    BY <2>6, <1>3, DoneKeeps DEF NextDone
  <2>7. CASE NextWhole
    BY <2>7, <1>3, NextWholeKeeps DEF NextWhole
  <2>8. CASE NextShort
    BY <2>8, <1>3, NextShortKeeps DEF NextShort
  <2> QED BY <2>1, <2>2, <2>3, <2>4, <2>5, <2>6, <2>7, <2>8 DEF ParseStep, Parse
<1>5. PipeTypes'
  BY <1>1, <1>4 DEF ReaderKeeps, ReaderTypes, PipeTypes, PipeInv, sndVars
<1>6. Closed'
  BY <1>1 DEF PipeInv, Closed, Cut, sndVars
<1>7. pc' # "failed" => Outgoing'
  <2>1. Whole' = Whole /\ Off(sent)' = Off(sent)
    BY <1>1, StreamStays DEF sndVars, Off, Stream, Bytes
  <2>2. UNCHANGED <<wire, que, Cut>>
    BY <1>1 DEF sndVars, Cut
  <2>3. pc' # "failed" => Received' = Received
    BY <1>4 DEF ReaderKeeps
  <2> QED BY <2>1, <2>2, <2>3, <1>2 DEF Outgoing, Carried
<1> QED BY <1>4, <1>5, <1>6, <1>7 DEF ReaderKeeps, PipeInv

-----------------------------------------------------------------------------
(* The other steps *)

(* The reader does nothing. *)
LEMMA ReaderRests ==
  ASSUME PipeInv, UNCHANGED <<lens, pc, buf, rdlen, hdr, dummy, out>>
  PROVE  /\ Whole' = Whole /\ Received' = Received /\ Dispatched' /\ Fits'
         /\ Incoming' <=> Incoming
         /\ Reading' <=> Reading
         /\ \A k : Off(k)' = Off(k)
<1>1. /\ Whole' = Whole /\ Off(Len(out))' = Off(Len(out)) /\ Dispatched'
      /\ Proper(Len(out) + 1)' <=> Proper(Len(out) + 1)
  BY PlaceStays DEF PipeInv
<1>2. Partial' = Partial
  BY DEF Partial
<1>3. \A k : Off(k)' = Off(k)
  BY StreamStays
<1>4. Fits'
  BY DEF PipeInv, Fits
<1>5. Received' = Received /\ (Incoming' <=> Incoming)
  BY <1>1, <1>2 DEF Received, Incoming
<1>6. Reading' <=> Reading
  BY <1>1 DEF Reading
<1> QED BY <1>1, <1>3, <1>4, <1>5, <1>6

(* recvTcp takes the first bytes off the connection. *)
LEMMA ReadKeeps ==
  ASSUME PipeInv, NEW n \in Nat, Read(n)
  PROVE  PipeInv' /\ Len(out') = Len(out) /\ pc' # "failed"
<1>1. /\ PipeTypes /\ Dispatched /\ Fits /\ Closed /\ Reading /\ Incoming /\ Outgoing
      /\ UNCHANGED <<lens, rdlen, hdr, dummy, out, que, snd, owed, sent>>
      /\ n <= Len(wire) /\ pc = "recv" /\ pc' = "parse"
      /\ buf' = Prefix(wire, n) /\ wire' = Rest(wire, n)
  BY DEF PipeInv, Read, Recv, sndVars
<1>2. /\ wire \in Seq(Byte) /\ Len(wire) \in Nat /\ Whole \in Seq(Byte) /\ Received \in Nat
      /\ buf = <<>> /\ Off(Len(out)) \in Nat /\ Len(Partial) \in Nat /\ Carried \in Nat
  BY <1>1, Positions DEF PipeTypes, Reading
<1>3. /\ buf' \in Seq(Byte) /\ Len(buf') = n
      /\ wire' \in Seq(Byte) /\ Len(wire') = Len(wire) - n
      /\ At(Whole, buf', Received) /\ At(Whole, wire', Received + n)
  BY <1>1, <1>2, SplitOf DEF Outgoing
<1>4. /\ Whole' = Whole /\ Off(Len(out))' = Off(Len(out)) /\ Dispatched' /\ Partial' = Partial
      /\ Proper(Len(out) + 1)' <=> Proper(Len(out) + 1)
      /\ Off(sent)' = Off(sent) /\ Cut' = Cut
  <2>1. Off(sent)' = Off(sent)
    BY <1>1 DEF Off, Stream, Bytes
  <2> QED BY <2>1, <1>1, PlaceStays DEF Partial, Cut
<1>5. Received = Off(Len(out)) + Len(Partial)
  BY <1>2, EmptySeq DEF Received
<1>6. Received' = Received + n /\ Carried' = Carried
  <2>1. Received' = Received + n
    BY <1>2, <1>3, <1>4, <1>5 DEF Received
  <2> QED BY <2>1, <1>2, <1>3 DEF Carried
<1>7. Incoming'
  BY <1>1, <1>3, <1>4, <1>5 DEF Incoming
<1>8. Outgoing'
  BY <1>1, <1>3, <1>4, <1>6 DEF Outgoing
<1>9. Reading'
  BY <1>1, <1>4 DEF Reading
<1>10. PipeTypes' /\ Fits' /\ Closed'
  BY <1>1, <1>3, <1>4 DEF PipeTypes, Fits, Closed
<1> QED BY <1>1, <1>4, <1>7, <1>8, <1>9, <1>10 DEF PipeInv

(* A message is queued behind the others. *)
LEMMA PutKeeps ==
  ASSUME PipeInv, Put
  PROVE  PipeInv'
<1> DEFINE m == Bytes(sent + 1)
           F == FlattenSeq(que)
<1>1. /\ PipeTypes /\ Dispatched /\ Closed
      /\ UNCHANGED <<lens, pc, buf, rdlen, hdr, dummy, out, wire, owed>>
      /\ sent < Len(lens) /\ ~ Cut /\ sent' = sent + 1 /\ que' = Append(que, m)
      /\ snd' = IF snd = "rest" THEN "ready" ELSE snd
  BY DEF PipeInv, Put, W!Add, rcvVars
<1>2. ~ Cut'
  BY <1>1 DEF Cut
<1>3. /\ que \in Seq(Seq(Byte)) /\ sent \in 0..Len(lens) /\ Len(lens) \in Nat
      /\ Whole \in Seq(Byte) /\ F \in Seq(Byte) /\ Len(F) \in Nat /\ Carried \in Nat
      /\ lens \in Lengths /\ Off(sent) \in Nat
  BY <1>1, Positions DEF PipeTypes
<1>4. sent + 1 \in 1..Len(lens) /\ sent + 1 \in 0..Len(lens)
  BY <1>1, <1>3
<1>5. /\ m \in Seq(Byte) /\ Len(m) = lens[sent + 1]
      /\ At(Whole, m, Off(sent)) /\ Off(sent + 1) = Off(sent) + Len(m)
  BY <1>1, <1>3, <1>4, BytesFacts, MessageAt, OffNext
<1> HIDE DEF m
<1>6. que' \in Seq(Seq(Byte)) /\ FlattenSeq(que') = F \o m
  BY <1>1, <1>3, <1>5, FlattenAppend, AppendProperties
<1>7. PipeTypes' /\ Closed'
  BY <1>1, <1>2, <1>4, <1>6 DEF PipeTypes, Closed
<1>8. /\ Whole' = Whole /\ Received' = Received /\ Dispatched' /\ Fits'
      /\ Incoming' <=> Incoming
      /\ Reading' <=> Reading
      /\ Off(sent)' = Off(sent + 1)
  <2>1. Off(sent)' = Off(sent + 1)
    BY <1>1 DEF Off, Stream, Bytes
  <2> QED BY <2>1, <1>1, ReaderRests
<1>9. Carried' = Carried
  BY <1>1, <1>8 DEF Carried
<1>10. ASSUME Outgoing PROVE Outgoing'
  <2>1. At(Whole, F, Carried) /\ Carried + Len(F) = Off(sent) /\ At(Whole, wire, Received)
    BY <1>1, <1>10 DEF Outgoing
  <2> HIDE DEF F
  <2>2. F \o m \in Seq(Byte) /\ Len(F \o m) = Len(F) + Len(m) /\ At(Whole, F \o m, Carried)
    <3>1. /\ Whole \in Seq(Byte) /\ F \in Seq(Byte) /\ m \in Seq(Byte) /\ Carried \in Nat
          /\ At(Whole, F, Carried) /\ At(Whole, m, Carried + Len(F))
      BY <2>1, <1>3, <1>5
    <3> QED BY <3>1, AtConcat
  <2>3. Carried + Len(F \o m) = Off(sent + 1)
    <3>1. Len(m) \in Nat
      BY <1>5, LenProperties
    <3>2. /\ Carried \in Nat /\ Len(F) \in Nat /\ Len(F \o m) = Len(F) + Len(m)
          /\ Carried + Len(F) = Off(sent) /\ Off(sent + 1) = Off(sent) + Len(m)
      BY <2>1, <2>2, <1>3, <1>5
    <3> QED BY <3>1, <3>2
  <2> QED BY <2>1, <2>2, <2>3, <1>1, <1>2, <1>6, <1>8, <1>9 DEF Outgoing
<1> QED BY <1>1, <1>7, <1>8, <1>10 DEF PipeInv

(* sendmsg takes the first bytes of the queue. *)
LEMMA SendKeeps ==
  ASSUME PipeInv, NEW n \in Nat, WriteSome(n)
  PROVE  PipeInv' /\ ~ Cut /\ ~ Cut'
<1> DEFINE F == FlattenSeq(que)
           b == SubSeq(F, 1, n)
           G == SubSeq(F, n + 1, Len(F))
<1>1. /\ PipeTypes /\ Dispatched
      /\ UNCHANGED <<lens, pc, buf, rdlen, hdr, dummy, out, sent, owed>>
      /\ snd = "ready" /\ n <= W!Total(que, W!Gathered)
      /\ wire' = wire \o b /\ que' = W!Prune(que, n) /\ snd' \in {"rest", "ready"}
  <2>1. FlattenSeq(que) = W!FlattenSeq(que)
    BY DEF FlattenSeq, W!FlattenSeq
  <2> QED BY <2>1 DEF PipeInv, WriteSome, W!Send, rcvVars
<1>2. ~ Cut /\ ~ Cut'
  BY <1>1 DEF Cut
<1>3. /\ que \in Seq(Seq(Byte)) /\ F \in Seq(Byte) /\ Len(F) \in Nat /\ wire \in Seq(Byte)
      /\ Whole \in Seq(Byte) /\ Carried \in Nat /\ Received \in Nat /\ Len(wire) \in Nat
  BY <1>1, Positions DEF PipeTypes
<1>4. n <= Len(F)
  <2>1. W!Total(que, W!Gathered) \in Nat /\ W!Total(que, W!Gathered) <= Len(F)
    BY <1>3, GatheredBytes
  <2> QED BY <2>1, <1>1, <1>3
<1>5. que' \in Seq(Seq(Byte)) /\ FlattenSeq(que') = G
  BY <1>1, <1>3, <1>4, PruneLeaves
<1> HIDE DEF F
<1>6. /\ b \in Seq(Byte) /\ Len(b) = n /\ G \in Seq(Byte) /\ Len(G) = Len(F) - n
      /\ \A o \in Nat : At(Whole, F, o) => At(Whole, b, o) /\ At(Whole, G, o + n)
  BY <1>3, <1>4, SplitOf DEF Prefix, Rest
<1> HIDE DEF b, G
<1>7. wire' \in Seq(Byte) /\ Len(wire') = Len(wire) + n
  BY <1>1, <1>3, <1>6, ConcatProperties
<1>8. /\ Whole' = Whole /\ Received' = Received /\ Dispatched' /\ Fits'
      /\ Incoming' <=> Incoming
      /\ Reading' <=> Reading
      /\ Off(sent)' = Off(sent)
  <2>1. Off(sent)' = Off(sent)
    BY <1>1 DEF Off, Stream, Bytes
  <2> QED BY <2>1, <1>1, ReaderRests
<1>9. Carried' = Carried + n
  BY <1>3, <1>7, <1>8 DEF Carried
<1>10. ASSUME Outgoing PROVE Outgoing'
  <2>1. At(Whole, F, Carried) /\ Carried + Len(F) = Off(sent) /\ At(Whole, wire, Received)
    BY <1>2, <1>10 DEF Outgoing, F
  <2>2. At(Whole, b, Carried) /\ At(Whole, G, Carried + n) /\ Carried = Received + Len(wire)
    BY <2>1, <1>3, <1>6 DEF Carried
  <2>3. At(Whole, wire \o b, Received)
    BY <2>1, <2>2, <1>3, <1>6, AtConcat
  <2>4. (Carried + n) + Len(G) = Off(sent)
    BY <2>1, <1>3, <1>6
  <2> QED BY <2>2, <2>3, <2>4, <1>1, <1>2, <1>5, <1>8, <1>9 DEF Outgoing
<1>11. PipeTypes' /\ Closed'
  BY <1>1, <1>2, <1>5, <1>7 DEF PipeTypes, Closed
<1> QED BY <1>1, <1>2, <1>8, <1>10, <1>11 DEF PipeInv

(* The sender's end takes some of the queue along, and drops the rest. *)
LEMMA CloseKeeps ==
  ASSUME PipeInv, NEW n \in Nat, Close(n)
  PROVE  PipeInv' /\ ~ Cut /\ Cut'
<1> DEFINE F == FlattenSeq(que)
           b == SubSeq(F, 1, n)
<1>1. /\ PipeTypes /\ Dispatched
      /\ UNCHANGED <<lens, pc, buf, rdlen, hdr, dummy, out, sent>>
      /\ snd # "ended" /\ n <= W!Total(que, W!Gathered)
      /\ wire' = wire \o b /\ que' = <<>> /\ snd' = "ended" /\ owed' = FALSE
  <2>1. FlattenSeq(que) = W!FlattenSeq(que)
    BY DEF FlattenSeq, W!FlattenSeq
  <2> QED BY <2>1 DEF PipeInv, Close, W!Close, rcvVars
<1>2. ~ Cut /\ Cut'
  BY <1>1 DEF Cut
<1>3. /\ que \in Seq(Seq(Byte)) /\ F \in Seq(Byte) /\ Len(F) \in Nat /\ wire \in Seq(Byte)
      /\ Whole \in Seq(Byte) /\ Carried \in Nat /\ Received \in Nat /\ Len(wire) \in Nat
      /\ Off(sent) \in Nat /\ Len(Whole) \in Nat /\ Off(sent) <= Len(Whole)
  BY <1>1, Positions DEF PipeTypes
<1>4. n <= Len(F)
  <2>1. W!Total(que, W!Gathered) \in Nat /\ W!Total(que, W!Gathered) <= Len(F)
    BY <1>3, GatheredBytes
  <2> QED BY <2>1, <1>1, <1>3
<1> HIDE DEF F
<1>5. /\ b \in Seq(Byte) /\ Len(b) = n
      /\ \A o \in Nat : At(Whole, F, o) => At(Whole, b, o)
  BY <1>3, <1>4, SplitOf DEF Prefix
<1> HIDE DEF b
<1>6. wire' \in Seq(Byte) /\ Len(wire') = Len(wire) + n
  BY <1>1, <1>3, <1>5, ConcatProperties
<1>7. que' \in Seq(Seq(Byte)) /\ FlattenSeq(que') = <<>> /\ Len(<<>>) = 0
  BY <1>1, EmptySeq, FlattenMeans
<1>8. /\ Whole' = Whole /\ Received' = Received /\ Dispatched' /\ Fits'
      /\ Incoming' <=> Incoming
      /\ Reading' <=> Reading
      /\ Off(sent)' = Off(sent)
  <2>1. Off(sent)' = Off(sent)
    BY <1>1 DEF Off, Stream, Bytes
  <2> QED BY <2>1, <1>1, ReaderRests
<1>9. Carried' = Carried + n
  BY <1>3, <1>6, <1>8 DEF Carried
<1>10. ASSUME Outgoing PROVE Outgoing'
  <2>1. At(Whole, F, Carried) /\ Carried + Len(F) = Off(sent) /\ At(Whole, wire, Received)
    BY <1>2, <1>10 DEF Outgoing, F
  <2>2. At(Whole, b, Carried) /\ Carried = Received + Len(wire)
    BY <2>1, <1>3, <1>5 DEF Carried
  <2>3. At(Whole, wire \o b, Received)
    BY <2>1, <2>2, <1>3, <1>5, AtConcat
  <2>4. Carried + n <= Off(sent)
    BY <2>1, <1>3, <1>4
  <2>5. At(Whole, <<>>, Carried + n)
    <3>1. Carried + n \in Nat /\ Carried + n <= Len(Whole)
      BY <2>4, <1>3
    <3> QED BY <3>1, <1>3, AtEmpty
  <2> QED BY <2>3, <2>4, <2>5, <1>1, <1>2, <1>7, <1>8, <1>9 DEF Outgoing
<1>11. PipeTypes' /\ Closed'
  BY <1>1, <1>6, <1>7 DEF PipeTypes, Closed
<1> QED BY <1>1, <1>2, <1>8, <1>10, <1>11 DEF PipeInv

(* A step that moves nothing and closes nothing. *)
LEMMA RestKeeps ==
  ASSUME PipeInv,
         UNCHANGED <<lens, buf, rdlen, hdr, dummy, out, wire, que, sent, Cut>>,
         pc' = pc \/ pc' = "failed", Closed'
  PROVE  PipeInv'
<1>1. /\ Whole' = Whole /\ Off(Len(out))' = Off(Len(out)) /\ Dispatched' /\ Partial' = Partial
      /\ Proper(Len(out) + 1)' <=> Proper(Len(out) + 1)
      /\ Off(sent)' = Off(sent)
  <2>1. Off(sent)' = Off(sent)
    BY DEF Off, Stream, Bytes
  <2> QED BY <2>1, PlaceStays DEF Partial, PipeInv
<1>2. PipeTypes' /\ Fits'
  BY DEF PipeInv, PipeTypes, Fits
<1>3. Received' = Received /\ Carried' = Carried
  BY <1>1 DEF Received, Carried
<1>4. ASSUME pc' # "failed" PROVE Reading' /\ Incoming' /\ Outgoing'
  <2>1. pc' = pc /\ Reading /\ Incoming /\ Outgoing
    BY <1>4 DEF PipeInv
  <2>2. Reading'
    BY <2>1, <1>1 DEF Reading
  <2>3. Incoming'
    BY <2>1, <1>1 DEF Incoming
  <2>4. Outgoing'
    BY <2>1, <1>1, <1>3 DEF Outgoing
  <2> QED BY <2>2, <2>3, <2>4
<1> QED BY <1>1, <1>2, <1>4 DEF PipeInv

-----------------------------------------------------------------------------
(* The theorems *)

(* At the start nothing is anywhere. *)
LEMMA PipeStart == PipeInit => PipeInv
<1> SUFFICES ASSUME PipeInit PROVE PipeInv
  OBVIOUS
<1>1. /\ lens \in Lengths /\ pc = "recv" /\ buf = <<>> /\ rdlen = 0
      /\ hdr = [i \in 1..HdrLen |-> <<0, 0>>] /\ dummy = Null /\ out = <<>>
      /\ que = <<>> /\ snd = "rest" /\ wire = <<>> /\ sent = 0
  BY DEF PipeInit, Fresh, W!Init
<1>2. /\ HdrLen \in Nat /\ HdrLen >= 1 /\ Len(lens) \in Nat /\ 0 \in 0..Len(lens)
      /\ Len(lens) \in 0..Len(lens) /\ Len(<<>>) = 0
  BY <1>1, LensFacts
<1>3. PipeTypes
  <2>1. hdr \in [1..HdrLen -> Byte]
    BY <1>1 DEF Byte
  <2>2. dummy \in [cap : Nat, data : Seq(Byte)]
    BY <1>1, EmptySeq DEF Null
  <2>3. <<>> \in Seq(Byte) /\ <<>> \in Seq(Seq(Byte))
    BY EmptySeq
  <2> QED BY <2>1, <2>2, <2>3, <1>1, <1>2 DEF PipeTypes
<1>4. Dispatched /\ Fits /\ Closed
  BY <1>1, <1>2 DEF Dispatched, Fits, Closed, Cut
<1>5. Partial = <<>> /\ Len(out) = 0 /\ FlattenSeq(que) = <<>> /\ ~ Cut
  <2>1. SubSeq(hdr, 1, 0) = <<>>
    BY SubSeqEmpty
  <2>2. FlattenSeq(que) = <<>>
    <3>1. que \in Seq(Seq(Byte)) /\ Len(que) = 0
      BY <1>1, <1>2, EmptySeq
    <3> QED BY <3>1, FlattenMeans
  <2> QED BY <2>1, <2>2, <1>1, <1>2 DEF Partial, Prefix, Cut
<1>6. Off(0) = 0 /\ Whole \in Seq(Byte) /\ Len(Whole) \in Nat
  <2>1. Off(0) = 0
    BY <1>1, <1>2, OffNext
  <2>2. Whole \in Seq(Byte)
    BY <1>1, <1>2, StreamNext DEF Whole
  <2> QED BY <2>1, <2>2, LenProperties
<1>7. Received = 0 /\ Carried = 0
  BY <1>1, <1>2, <1>5, <1>6 DEF Received, Carried
<1>8. At(Whole, <<>>, 0)
  BY <1>6, AtEmpty
<1>9. Reading
  BY <1>1, <1>2 DEF Reading
<1>10. Incoming /\ Outgoing
  BY <1>1, <1>2, <1>5, <1>6, <1>7, <1>8 DEF Incoming, Outgoing
<1> QED BY <1>3, <1>4, <1>9, <1>10 DEF PipeInv

(* Every step keeps every byte in its place, and is a step of the channel. *)
LEMMA PipeStep ==
  ASSUME PipeInv, [PipeNext]_pipeVars
  PROVE  PipeInv' /\ [Channel!Next]_(Channel!vars)
<1> USE DEF Channel!vars
<1>1. CASE Put
  <2>1. /\ sent < Len(lens) /\ ~ Cut /\ sent' = sent + 1
        /\ UNCHANGED <<lens, out, pc>>
    BY <1>1 DEF Put, rcvVars
  <2>2. UNCHANGED Cut
    BY <1>1 DEF Put, W!Add, Cut
  <2>3. UNCHANGED <<Len(out), (pc = "failed")>>
    BY <2>1
  <2>4. Channel!Send
    BY <2>1, <2>2, <2>3 DEF Channel!Send
  <2> QED BY <2>4, <1>1, PutKeeps DEF Channel!Next
<1>2. CASE Write
  <2>1. /\ UNCHANGED <<lens, pc, buf, rdlen, hdr, dummy, out, wire, que, sent>>
    BY <1>2 DEF Write, W!Block, W!SendNothing, rcvVars
  <2>2. UNCHANGED Cut /\ Closed'
    BY <1>2 DEF Write, W!Block, W!SendNothing, Cut, Closed, PipeInv
  <2>3. PipeInv' /\ UNCHANGED Channel!vars
    BY <2>1, <2>2, RestKeeps
  <2> QED BY <2>3
<1>3. ASSUME NEW n \in 1..Window, WriteSome(n) PROVE PipeInv' /\ [Channel!Next]_(Channel!vars)
  <2>1. n \in Nat
    BY PipeAssumption
  <2>2. PipeInv' /\ ~ Cut /\ ~ Cut'
    BY <2>1, <1>3, SendKeeps
  <2>3. UNCHANGED <<lens, sent, out, pc>>
    BY <1>3 DEF WriteSome, rcvVars
  <2>4. UNCHANGED Cut
    BY <2>2 DEF Cut
  <2> QED BY <2>2, <2>3, <2>4
<1>4. CASE Writable
  <2>1. /\ UNCHANGED <<lens, pc, buf, rdlen, hdr, dummy, out, wire, que, sent>>
    BY <1>4 DEF Writable, W!Writable, rcvVars
  <2>2. UNCHANGED Cut /\ Closed'
    BY <1>4 DEF Writable, W!Writable, Cut, Closed, PipeInv
  <2>3. PipeInv' /\ UNCHANGED Channel!vars
    BY <2>1, <2>2, RestKeeps
  <2> QED BY <2>3
<1>5. ASSUME NEW n \in 0..Window, Close(n) PROVE PipeInv' /\ [Channel!Next]_(Channel!vars)
  <2>1. n \in Nat
    BY PipeAssumption
  <2>2. PipeInv' /\ ~ Cut /\ Cut'
    BY <2>1, <1>5, CloseKeeps
  <2>3. UNCHANGED <<lens, sent, out, pc>>
    BY <1>5 DEF Close, rcvVars
  <2>4. Channel!Close
    BY <2>2, <2>3 DEF Channel!Close
  <2> QED BY <2>2, <2>4 DEF Channel!Next
<1>6. CASE Readable \/ ReadNothing
  <2>1. UNCHANGED <<lens, pc, buf, rdlen, hdr, dummy, out, wire, que, snd, owed, sent>>
    BY <1>6 DEF Readable, ReadNothing, sndVars
  <2>2. UNCHANGED Cut /\ Closed'
    BY <2>1 DEF Cut, Closed, PipeInv
  <2>3. PipeInv' /\ UNCHANGED Channel!vars
    BY <2>1, <2>2, RestKeeps
  <2> QED BY <2>3
<1>7. CASE ReadFails
  <2>1. /\ UNCHANGED <<lens, buf, rdlen, hdr, dummy, out, wire, que, snd, owed, sent>>
        /\ pc = "recv" /\ pc' = "failed" /\ Cut
    BY <1>7 DEF ReadFails, sndVars
  <2>2. UNCHANGED Cut /\ Closed'
    BY <2>1 DEF Cut, Closed, PipeInv
  <2>3. PipeInv'
    BY <2>1, <2>2, RestKeeps
  <2>4. Channel!Break
    BY <2>1, <2>2 DEF Channel!Break
  <2> QED BY <2>3, <2>4 DEF Channel!Next
<1>8. ASSUME NEW n \in 1..RecvMax, Read(n) PROVE PipeInv' /\ [Channel!Next]_(Channel!vars)
  <2>1. n \in Nat
    BY ReaderAssumption
  <2>2. PipeInv' /\ Len(out') = Len(out) /\ pc' # "failed" /\ pc # "failed"
    BY <2>1, <1>8, ReadKeeps DEF Read, Recv
  <2>3. UNCHANGED <<lens, sent, snd>>
    BY <1>8 DEF Read, Recv, sndVars
  <2> QED BY <2>2, <2>3 DEF Cut
<1>9. CASE ParseStep
  <2>1. PipeInv' /\ Passes
    BY <1>9, ParseKeeps
  <2>2. UNCHANGED <<lens, sent, snd>> /\ pc # "failed"
    BY <1>9 DEF ParseStep, Parse, ParseShort, ParseHeader, ParseOn, BodyDone, BodyPart,
         NextDone, NextWhole, NextShort, sndVars
  <2>3. UNCHANGED Cut
    BY <2>2 DEF Cut
  <2>4. CASE Len(out') = Len(out) /\ pc' # "failed"
    BY <2>2, <2>3, <2>4, <2>1
  <2>5. CASE /\ Len(out) < sent /\ Proper(Len(out) + 1)
             /\ Len(out') = Len(out) + 1 /\ pc' # "failed"
    <3>1. Channel!Deliver
      BY <2>2, <2>3, <2>5 DEF Channel!Deliver, Channel!Good, Proper
    <3> QED BY <3>1, <2>1 DEF Channel!Next
  <2>6. CASE /\ Len(out) < sent /\ ~ Proper(Len(out) + 1)
             /\ Len(out') = Len(out) /\ pc' = "failed"
    <3>1. Len(out) + 1 \in 1..Len(lens)
      <4>1. Len(out) \in 0..Len(lens) /\ sent \in 0..Len(lens) /\ Len(lens) \in Nat
        BY Positions DEF PipeInv
      <4> QED BY <4>1, <2>6
    <3>2. Channel!Break
      BY <2>2, <2>3, <2>6, <3>1 DEF Channel!Break, Channel!Good, Proper
    <3> QED BY <3>2, <2>1 DEF Channel!Next
  <2> QED BY <2>1, <2>4, <2>5, <2>6 DEF Passes
<1>10. CASE UNCHANGED pipeVars
  <2>1. UNCHANGED <<lens, pc, buf, rdlen, hdr, dummy, out, wire, que, snd, owed, sent>>
    BY <1>10 DEF pipeVars, sndVars, rcvVars
  <2>2. UNCHANGED Cut /\ Closed'
    BY <2>1 DEF Cut, Closed, PipeInv
  <2>3. PipeInv' /\ UNCHANGED Channel!vars
    BY <2>1, <2>2, RestKeeps
  <2> QED BY <2>3
<1> QED BY <1>1, <1>2, <1>3, <1>4, <1>5, <1>6, <1>7, <1>8, <1>9, <1>10
        DEF PipeNext, Sending, Receiving

(* The invariant holds in every reachable state. *)
THEOREM PipeKept == PipeSpec => []PipeInv
<1>1. PipeInit => PipeInv
  BY PipeStart
<1>2. PipeInv /\ [PipeNext]_pipeVars => PipeInv'
  BY PipeStep
<1> QED BY <1>1, <1>2, PTL DEF PipeSpec

(* Whatever the lengths of the messages and the fragments in which they      *)
(* arrive, the dealer is given exactly the messages that were sent, in order, *)
(* and neither the header's buffer nor a message is written beyond its end.  *)
THEOREM MessagesFramed == PipeSpec => []Framed
<1>1. PipeInv => Framed
  <2> SUFFICES ASSUME PipeInv PROVE Framed
    OBVIOUS
  <2>1. PipeTypes /\ Dispatched /\ Fits
    BY DEF PipeInv
  <2>2. DOMAIN out = 1..Len(out) /\ Len(out) \in 0..Len(lens)
    BY <2>1, SeqFacts DEF PipeTypes, Dispatched
  <2>3. DOMAIN lens = 1..Len(lens) /\ Len(lens) \in Nat /\ HdrLen \in Nat
    BY <2>1, LensFacts DEF PipeTypes
  <2>4. \A k \in DOMAIN out : k \in DOMAIN lens /\ out[k] = Bytes(k)
    BY <2>1, <2>2, <2>3 DEF Dispatched
  <2>5. rdlen <= HdrLen
    BY <2>1, <2>3 DEF PipeTypes
  <2> QED BY <2>1, <2>4, <2>5 DEF Fits, Framed
<1> QED BY <1>1, PipeKept, PTL

(* Between two reads the pieces that the two programs and the kernel hold    *)
(* make up the stream.                                                      *)
LEMMA PiecesJoin ==
  ASSUME PipeInv, pc = "recv"
  PROVE  LET bytes == Stream(Len(out)) \o Partial \o wire \o FlattenSeq(que)
         IN IF Cut THEN IsPrefix(bytes, Stream(sent)) ELSE bytes = Stream(sent)
<1> DEFINE a == Stream(Len(out))
           f == FlattenSeq(que)
           all == Stream(sent)
<1>1. /\ Whole \in Seq(Byte) /\ Len(Whole) \in Nat /\ 0 \in Nat
      /\ Partial \in Seq(Byte) /\ f \in Seq(Byte) /\ Received \in Nat /\ Carried \in Nat
      /\ Off(Len(out)) \in Nat /\ Off(sent) \in Nat
      /\ Len(Partial) \in Nat /\ Len(wire) \in Nat /\ Len(f) \in Nat
  BY Positions DEF PipeInv
<1>2. lens \in Lengths /\ wire \in Seq(Byte) /\ que \in Seq(Seq(Byte)) /\ Incoming /\ Outgoing
  BY DEF PipeInv, PipeTypes
<1>3. Len(out) \in 0..Len(lens) /\ sent \in 0..Len(lens) /\ Len(lens) \in Nat
      /\ Len(lens) \in 0..Len(lens)
  BY Positions DEF PipeInv
<1>4. /\ a \in Seq(Byte) /\ all \in Seq(Byte)
      /\ Len(a) = Off(Len(out)) /\ Len(all) = Off(sent)
      /\ At(Whole, a, 0) /\ At(Whole, all, 0)
  BY <1>2, <1>3, StreamNext, StreamAt DEF Whole, Off
<1>5. Received = Off(Len(out)) + Len(Partial) /\ Carried = Received + Len(wire)
  <2>1. Len(buf) = 0
    BY EmptySeq DEF PipeInv, Reading
  <2> QED BY <2>1, <1>1 DEF Received, Carried
<1> DEFINE b == a \o Partial
           c == b \o wire
           d == c \o f
<1> HIDE DEF a, f, all
<1>6. b \in Seq(Byte) /\ Len(b) = Received /\ At(Whole, b, 0)
  <2>1. At(Whole, Partial, 0 + Len(a))
    BY <1>1, <1>2, <1>4 DEF Incoming
  <2>2. /\ Whole \in Seq(Byte) /\ Partial \in Seq(Byte) /\ a \in Seq(Byte) /\ 0 \in Nat
        /\ At(Whole, a, 0)
    BY <1>1, <1>4
  <2>3. b \in Seq(Byte) /\ Len(b) = Len(a) + Len(Partial) /\ At(Whole, b, 0)
    BY <2>1, <2>2, AtConcat
  <2> QED BY <2>3, <1>4, <1>5
<1> HIDE DEF b
<1>7. c \in Seq(Byte) /\ Len(c) = Carried /\ At(Whole, c, 0)
  <2>1. At(Whole, wire, 0 + Len(b))
    BY <1>1, <1>2, <1>6 DEF Outgoing
  <2>2. /\ Whole \in Seq(Byte) /\ wire \in Seq(Byte) /\ b \in Seq(Byte) /\ 0 \in Nat
        /\ At(Whole, b, 0)
    BY <1>1, <1>2, <1>6
  <2>3. c \in Seq(Byte) /\ Len(c) = Len(b) + Len(wire) /\ At(Whole, c, 0)
    BY <2>1, <2>2, AtConcat
  <2> QED BY <2>3, <1>5, <1>6
<1> HIDE DEF c
<1>8. d \in Seq(Byte) /\ Len(d) = Carried + Len(f) /\ At(Whole, d, 0)
  <2>1. At(Whole, f, 0 + Len(c))
    BY <1>1, <1>2, <1>7 DEF Outgoing, f
  <2>2. /\ Whole \in Seq(Byte) /\ f \in Seq(Byte) /\ c \in Seq(Byte) /\ 0 \in Nat
        /\ At(Whole, c, 0)
    BY <1>1, <1>7
  <2>3. d \in Seq(Byte) /\ Len(d) = Len(c) + Len(f) /\ At(Whole, d, 0)
    BY <2>1, <2>2, AtConcat
  <2> QED BY <2>3, <1>7
<1> HIDE DEF d
<1>9. CASE Cut
  <2>1. Len(f) = 0
    <3>1. que = <<>> /\ Len(que) = 0
      BY <1>9, EmptySeq DEF PipeInv, Closed
    <3>2. f = <<>>
      BY <1>2, <3>1, FlattenMeans DEF f
    <3> QED BY <3>2, EmptySeq
  <2>2. Len(d) <= Len(all)
    BY <2>1, <1>1, <1>2, <1>4, <1>8, <1>9 DEF Outgoing
  <2>3. IsPrefix(d, all)
    BY <2>2, <1>1, <1>4, <1>8, AtSame
  <2> QED BY <2>3, <1>9 DEF d, c, b, a, f, all
<1>10. CASE ~ Cut
  <2>1. Len(d) = Len(all)
    BY <1>2, <1>4, <1>8, <1>10 DEF Outgoing, f
  <2>2. d = all
    BY <2>1, <1>1, <1>4, <1>8, AtSame
  <2> QED BY <2>2, <1>10 DEF d, c, b, a, f, all
<1> QED BY <1>9, <1>10

(* A message of which all bytes have arrived is not held back. *)
LEMMA NoneHeldBack ==
  ASSUME PipeInv, pc = "recv", Partial # <<>>
  PROVE  Len(Partial) < lens[Len(out) + 1]
<1>1. /\ PipeTypes /\ Reading /\ Incoming
      /\ Len(Partial) \in Nat /\ Partial \in Seq(Byte) /\ Len(Whole) \in Nat
      /\ Len(out) \in 0..Len(lens) /\ Len(lens) \in Nat /\ Off(Len(out)) \in Nat
      /\ dummy = Null => Len(Partial) = rdlen
      /\ dummy # Null => Partial = dummy.data
      /\ HdrLen \in Nat /\ rdlen \in 0..HdrLen
  BY Positions DEF PipeInv, PipeTypes
<1>2. CASE dummy # Null
  BY <1>1, <1>2 DEF Reading
<1>3. CASE dummy = Null
  <2>1. Len(Partial) < HdrLen
    BY <1>1, <1>3 DEF Reading
  <2>2. Len(Partial) # 0
    BY <1>1, EmptySeq
  <2>3. Off(Len(out)) < Off(Len(lens))
    <3>1. Off(Len(out)) + Len(Partial) <= Len(Whole)
      BY <1>1 DEF Incoming, At
    <3>2. Len(Whole) = Off(Len(lens))
      BY DEF Whole, Off
    <3> QED BY <3>1, <3>2, <2>2, <1>1
  <2>4. Len(out) < Len(lens)
    <3>1. lens \in Lengths /\ Len(lens) \in 0..Len(lens)
      BY <1>1 DEF PipeTypes
    <3> QED BY <3>1, <2>3, <1>1, OffOrder
  <2>5. Len(out) + 1 \in 1..Len(lens)
    BY <2>4, <1>1
  <2>6. lens[Len(out) + 1] \in Nat /\ lens[Len(out) + 1] >= HdrLen
    BY <2>5, <1>1, LensFacts DEF PipeTypes
  <2> QED BY <2>1, <2>6, <1>1
<1> QED BY <1>2, <1>3

(* No byte is lost, doubled or moved between the sender's queue and the      *)
(* dealer, and no complete message waits for a later one.                   *)
THEOREM BytesConserved == PipeSpec => []Conserved
<1>1. PipeInv => Conserved
  <2> SUFFICES ASSUME PipeInv, pc = "recv" PROVE Conserved
    BY DEF Conserved
  <2>1. dummy = Null <=> rdlen < HdrLen
    BY DEF PipeInv, Reading
  <2> QED BY <2>1, PiecesJoin, NoneHeldBack DEF Conserved
<1> QED BY <1>1, PipeKept, PTL

(* The two ends, whatever the vectors of sendmsg, the fragments of recv and  *)
(* the room on the connection, take only the steps of a channel of messages: *)
(* send, deliver the next good one whole, break at a bad one, close.        *)
THEOREM ChannelSteps == PipeSpec => Channel!Init /\ [][Channel!Next]_(Channel!vars)
<1>1. PipeInit => Channel!Init
  BY EmptySeq DEF PipeInit, Fresh, W!Init, Channel!Init, Cut
<1>2. PipeInv /\ [PipeNext]_pipeVars => [Channel!Next]_(Channel!vars)
  BY PipeStep
<1> QED BY <1>1, <1>2, PipeKept, PTL DEF PipeSpec
=============================================================================
