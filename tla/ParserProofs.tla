----------------------------- MODULE ParserProofs -----------------------------
(***************************************************************************)
(* The loop that reads a configuration file, piece by piece, takes it for   *)
(* what the file as a whole says; for any lines, any length of the buffer,  *)
(* any file, and any keys and values.                                      *)
(***************************************************************************)
EXTENDS Parser, QueueLemmas

-----------------------------------------------------------------------------
(* The pieces of a line *)

(* how many pieces fgets makes of r, and the content of the j-th *)
Count(r)    == ((Len(r) + Width) - 1) \div Width
Piece(r, j) == Content(SubSeq(r, (j - 1) * Width + 1, Least(j * Width, Len(r))))

(* A bounded set of numbers has a least and a greatest one. *)
LEMMA Extremes ==
  ASSUME NEW n \in Nat, NEW X \in SUBSET (0..n), X # {}
  PROVE  /\ Min(X) \in X /\ \A y \in X : Min(X) <= y
         /\ Max(X) \in X /\ \A y \in X : y <= Max(X)
<1>1. Min(X) \in X /\ \A y \in X : Min(X) <= y
  <2>1. \E x \in X : \A y \in X : x <= y
    BY SmallestOf
  <2> QED BY <2>1 DEF Min
<1> DEFINE Y == {n - x : x \in X}
<1>2. Y \in SUBSET Nat /\ Y # {}
  <2>1. \A x \in X : n - x \in Nat
    OBVIOUS
  <2> QED BY <2>1
<1> HIDE DEF Y
<1>3. PICK y \in Y : \A z \in Y : y <= z
  BY <1>2, SmallestOf
<1>4. PICK x \in X : y = n - x
  BY <1>3 DEF Y
<1>5. \A z \in X : n - z \in Y
  BY DEF Y
<1>6. \A z \in X : x >= z
  BY <1>3, <1>4, <1>5
<1> QED BY <1>1, <1>6 DEF Max

(* A part of a part. *)
LEMMA PartOfPart ==
  ASSUME NEW S, NEW r \in Seq(S), NEW m \in Nat, NEW a \in Nat, NEW b \in Nat,
         m <= Len(r), b <= Len(r) - m
  PROVE  SubSeq(SubSeq(r, m + 1, Len(r)), a + 1, b) = SubSeq(r, (m + a) + 1, m + b)
<1> DEFINE n == Len(r)
           t == SubSeq(r, m + 1, n)
           p == SubSeq(t, a + 1, b)
           q == SubSeq(r, (m + a) + 1, m + b)
<1>1. n \in Nat /\ \A i \in 1..n : r[i] \in S
  BY LenProperties, ElementOfSeq
<1>2. Len(t) = n - m /\ \A i \in 1..(n - m) : t[i] = r[m + i] /\ t[i] \in S
  <2>1. \A i \in (m + 1)..n : r[i] \in S
    BY <1>1
  <2>2. \A i \in 1..(n - m) : (m + 1) + i - 1 = m + i /\ m + i \in 1..n
    BY <1>1
  <2> HIDE DEF t
  <2>3. Len(t) = IF m + 1 <= n THEN n - (m + 1) + 1 ELSE 0
    BY <1>1, <2>1, SubSeqProperties DEF t
  <2>4. \A i \in 1..(n - (m + 1) + 1) : t[i] = r[(m + 1) + i - 1]
    BY <1>1, <2>1, SubSeqProperties DEF t
  <2> QED BY <1>1, <2>2, <2>3, <2>4
<1> HIDE DEF t
<1>3. CASE a >= b
  <2>1. p = <<>>
    BY <1>3, SubSeqEmpty
  <2>2. q = <<>>
    <3>1. m + b < (m + a) + 1
      BY <1>3
    <3> QED BY <3>1, SubSeqEmpty
  <2> QED BY <2>1, <2>2 DEF t
<1>4. CASE a < b
  <2>1. \A i \in (a + 1)..b : t[i] \in S
    BY <1>1, <1>2
  <2>2. \A i \in ((m + a) + 1)..(m + b) : r[i] \in S
    BY <1>1
  <2>3. p \in Seq(S) /\ Len(p) = b - a /\ \A i \in 1..(b - a) : p[i] = t[a + i]
    <3> HIDE DEF p
    <3>1. p \in Seq(S) /\ Len(p) = IF a + 1 <= b THEN b - (a + 1) + 1 ELSE 0
      BY <2>1, SubSeqProperties DEF p
    <3>2. \A i \in 1..(b - (a + 1) + 1) : p[i] = t[(a + 1) + i - 1]
      BY <2>1, SubSeqProperties DEF p
    <3>3. b - (a + 1) + 1 = b - a /\ \A i \in 1..(b - a) : (a + 1) + i - 1 = a + i
      OBVIOUS
    <3> QED BY <3>1, <3>2, <3>3, <1>4
  <2>4. q \in Seq(S) /\ Len(q) = b - a /\ \A i \in 1..(b - a) : q[i] = r[(m + a) + i]
    <3> HIDE DEF q
    <3> DEFINE f == (m + a) + 1
               l == m + b
    <3>0. f \in Int /\ l \in Int /\ f <= l /\ l - f + 1 = b - a
          /\ \A i \in 1..(b - a) : f + i - 1 = (m + a) + i
      BY <1>4
    <3>1. q = SubSeq(r, f, l) /\ \A i \in f..l : r[i] \in S
      BY <2>2 DEF q
    <3> HIDE DEF f, l
    <3>2. /\ q \in Seq(S) /\ Len(q) = IF f <= l THEN l - f + 1 ELSE 0
          /\ \A i \in 1..(l - f + 1) : q[i] = r[f + i - 1]
      BY <3>0, <3>1, SubSeqProperties
    <3> QED BY <3>0, <3>2
  <2>5. \A i \in 1..(b - a) : p[i] = q[i]
    <3>1. \A i \in 1..(b - a) : a + i \in 1..(n - m) /\ m + (a + i) = (m + a) + i
      BY <1>1
    <3> QED BY <3>1, <2>3, <2>4, <1>2
  <2> HIDE DEF p, q
  <2>6. p = q
    BY <2>3, <2>4, <2>5, SeqEqual
  <2> QED BY <2>6 DEF p, q, t
<1> QED BY <1>3, <1>4

(* How many pieces there are, and how many are left after one. *)
LEMMA Counts ==
  ASSUME Width \in Nat \ {0}, NEW n \in Nat, NEW c, c = ((n + Width) - 1) \div Width
  PROVE  /\ c \in Nat /\ (c = 0 <=> n = 0)
         /\ \A j \in 1..c : (j - 1) * Width \in Nat /\ (j - 1) * Width < n
         /\ c * Width >= n
         /\ n > Width => (((n - Width) + Width) - 1) \div Width = c - 1
         /\ 0 < n /\ n <= Width => c = 1
<1> DEFINE x == (n + Width) - 1
           r == x % Width
<1>1. x \in Nat /\ x = n + Width - 1
  OBVIOUS
<1> HIDE DEF x
<1>2. c \in Nat /\ r \in 0..(Width - 1) /\ x = Width * c + r
  BY <1>1 DEF x
<1> HIDE DEF r
<1>3. c = 0 <=> n = 0
  <2>1. c >= 1 => Width * c >= Width
    BY <1>2
  <2>2. c = 0 => Width * c = 0
    BY <1>2
  <2> QED BY <1>1, <1>2, <2>1, <2>2
<1>4. ASSUME NEW j \in 1..c PROVE (j - 1) * Width \in Nat /\ (j - 1) * Width < n
  <2>1. j - 1 \in Nat /\ c - j \in Nat
    BY <1>2
  <2>2. (j - 1) * Width \in Nat /\ (c - j) * Width \in Nat
    BY <2>1
  <2>3. Width * c = (j - 1) * Width + Width + (c - j) * Width
    BY <1>2, <2>1
  <2> QED BY <1>1, <1>2, <2>2, <2>3
<1>5. c * Width >= n
  <2>1. c * Width = Width * c
    BY <1>2
  <2> QED BY <2>1, <1>1, <1>2
<1>6. ASSUME n > Width PROVE (((n - Width) + Width) - 1) \div Width = c - 1
  <2> DEFINE d == c - 1
  <2>1. d \in Nat
    BY <1>2, <1>3, <1>6
  <2>2. ((n - Width) + Width) - 1 = Width * d + r
    <3>1. Width * d = Width * c - Width
      BY <1>2
    <3> QED BY <3>1, <1>1, <1>2
  <2> HIDE DEF d
  <2>3. (Width * d + r) \div Width = d
    BY <1>2, <2>1
  <2> QED BY <2>2, <2>3 DEF d
<1>7. ASSUME 0 < n, n <= Width PROVE c = 1
  <2>1. c >= 2 => Width * c >= Width + Width
    BY <1>2
  <2> QED BY <2>1, <1>1, <1>2, <1>3, <1>7
<1> QED BY <1>2, <1>3, <1>4, <1>5, <1>6, <1>7

-----------------------------------------------------------------------------
(* The content of a piece *)

Hashes(t) == {i \in 1..Len(t) : t[i] = Hash}
Others(t) == {i \in 1..Len(t) : t[i] # Blank}

(* The comment begins at the first hash, the content at the first lexeme     *)
(* that is no blank, and ends with the last.                                *)
LEMMA ContentIs ==
  ASSUME NEW S, NEW t \in Seq(S)
  PROVE  /\ stripComment(t) = IF Hashes(t) = {} THEN t ELSE SubSeq(t, 1, Min(Hashes(t)) - 1)
         /\ strip(t) = IF Others(t) = {} THEN <<>>
                       ELSE SubSeq(t, Min(Others(t)), Max(Others(t)))
         /\ Hashes(t) # {} => Min(Hashes(t)) \in 1..Len(t)
         /\ Others(t) # {} => Min(Others(t)) \in 1..Len(t) /\ Max(Others(t)) \in 1..Len(t)
<1>1. Len(t) \in Nat
  BY LenProperties
<1>2. Hashes(t) # {} => Min(Hashes(t)) \in 1..Len(t)
  <2>1. Hashes(t) \in SUBSET (0..Len(t)) /\ Hashes(t) \subseteq 1..Len(t)
    BY <1>1 DEF Hashes
  <2> QED BY <2>1, <1>1, Extremes
<1>3. Others(t) # {} => Min(Others(t)) \in 1..Len(t) /\ Max(Others(t)) \in 1..Len(t)
  <2>1. Others(t) \in SUBSET (0..Len(t)) /\ Others(t) \subseteq 1..Len(t)
    BY <1>1 DEF Others
  <2> QED BY <2>1, <1>1, Extremes
<1>4. stripComment(t) = IF Hashes(t) = {} THEN t ELSE SubSeq(t, 1, Min(Hashes(t)) - 1)
  <2>1. SelectInSeq(t, LAMBDA x : x = Hash) = IF Hashes(t) # {} THEN Min(Hashes(t)) ELSE 0
    BY DEF SelectInSeq, Hashes
  <2> QED BY <2>1, <1>1, <1>2 DEF stripComment
<1>5. strip(t) = IF Others(t) = {} THEN <<>> ELSE SubSeq(t, Min(Others(t)), Max(Others(t)))
  <2>1. SelectInSeq(t, LAMBDA x : x # Blank) = IF Others(t) # {} THEN Min(Others(t)) ELSE 0
    BY DEF SelectInSeq, Others
  <2>2. SelectLastInSeq(t, LAMBDA x : x # Blank) = IF Others(t) # {} THEN Max(Others(t)) ELSE 0
    BY DEF SelectLastInSeq, Others
  <2> QED BY <2>1, <2>2, <1>1, <1>3 DEF strip
<1> QED BY <1>2, <1>3, <1>4, <1>5

(* What a piece contains are lexemes of it. *)
LEMMA ContentType ==
  ASSUME NEW S, NEW t \in Seq(S)
  PROVE  stripComment(t) \in Seq(S) /\ strip(t) \in Seq(S) /\ Content(t) \in Seq(S)
<1>1. \A u \in Seq(S) : \A i \in 1..Len(u) : u[i] \in S
  BY ElementOfSeq
<1>2. \A u \in Seq(S) : \A a \in 1..Len(u), b \in 0..Len(u) : SubSeq(u, a, b) \in Seq(S)
  <2> SUFFICES ASSUME NEW u \in Seq(S), NEW a \in 1..Len(u), NEW b \in 0..Len(u)
               PROVE  SubSeq(u, a, b) \in Seq(S)
    OBVIOUS
  <2>1. Len(u) \in Nat
    BY LenProperties
  <2>2. \A i \in a..b : i \in 1..Len(u)
    BY <2>1
  <2>3. \A i \in a..b : u[i] \in S
    BY <2>2, <1>1
  <2> QED BY <2>1, <2>3, SubSeqProperties
<1>3. \A u \in Seq(S) : strip(u) \in Seq(S)
  <2> SUFFICES ASSUME NEW u \in Seq(S), Others(u) # {} PROVE strip(u) \in Seq(S)
    BY ContentIs, EmptySeq
  <2>1. /\ strip(u) = SubSeq(u, Min(Others(u)), Max(Others(u))) /\ Len(u) \in Nat
        /\ Min(Others(u)) \in 1..Len(u) /\ Max(Others(u)) \in 1..Len(u)
    BY ContentIs, LenProperties
  <2>2. Max(Others(u)) \in 0..Len(u)
    BY <2>1
  <2> QED BY <2>1, <2>2, <1>2
<1>4. stripComment(t) \in Seq(S)
  <2>1. CASE Hashes(t) = {}
    BY <2>1, ContentIs
  <2>2. CASE Hashes(t) # {}
    <3>1. /\ stripComment(t) = SubSeq(t, 1, Min(Hashes(t)) - 1) /\ Len(t) \in Nat
          /\ Min(Hashes(t)) \in 1..Len(t)
      BY <2>2, ContentIs, LenProperties
    <3>2. Min(Hashes(t)) - 1 \in 0..Len(t) /\ 1 \in 1..Len(t)
      BY <3>1
    <3> QED BY <3>1, <3>2, <1>2
  <2> QED BY <2>1, <2>2
<1> QED BY <1>3, <1>4 DEF Content

(* The line's end is a blank, and means nothing. *)
LEMMA EndIsBlank ==
  ASSUME NEW S, NEW t \in Seq(S), Blank \in S
  PROVE  Content(Append(t, Blank)) = Content(t)
<1> DEFINE App(u) == Append(u, Blank)
<1>1. \A u \in Seq(S) : /\ Len(u) \in Nat /\ App(u) \in Seq(S) /\ Len(App(u)) = Len(u) + 1
                         /\ \A i \in 1..Len(u) : App(u)[i] = u[i] /\ u[i] \in S
                         /\ App(u)[Len(u) + 1] = Blank
  BY AppendProperties, LenProperties, ElementOfSeq
<1>2. \A u \in Seq(S) : \A a \in 1..Len(u), b \in 0..Len(u) : SubSeq(App(u), a, b) = SubSeq(u, a, b)
  <2> SUFFICES ASSUME NEW u \in Seq(S), NEW a \in 1..Len(u), NEW b \in 0..Len(u)
               PROVE  SubSeq(App(u), a, b) = SubSeq(u, a, b)
    OBVIOUS
  <2> DEFINE v == App(u)
             p == SubSeq(v, a, b)
             q == SubSeq(u, a, b)
  <2>1. Len(u) \in Nat /\ \A i \in a..b : i \in 1..Len(u)
    BY <1>1
  <2>2. \A i \in a..b : u[i] \in S /\ v[i] = u[i]
    BY <2>1, <1>1
  <2> HIDE DEF v
  <2>3. /\ p \in Seq(S) /\ Len(p) = IF a <= b THEN b - a + 1 ELSE 0
        /\ \A i \in 1..(b - a + 1) : p[i] = v[a + i - 1]
    BY <2>1, <2>2, SubSeqProperties
  <2>4. /\ q \in Seq(S) /\ Len(q) = IF a <= b THEN b - a + 1 ELSE 0
        /\ \A i \in 1..(b - a + 1) : q[i] = u[a + i - 1]
    BY <2>1, <2>2, SubSeqProperties
  <2>5. \A i \in 1..(b - a + 1) : a + i - 1 \in a..b
    BY <2>1
  <2>6. \A i \in 1..Len(p) : p[i] = q[i]
    <3>1. Len(p) = b - a + 1 \/ Len(p) = 0
      BY <2>3
    <3> HIDE DEF p, q
    <3> QED BY <3>1, <2>1, <2>2, <2>3, <2>4, <2>5
  <2> HIDE DEF p, q
  <2>7. p = q
    BY <2>3, <2>4, <2>6, SeqEqual
  <2> QED BY <2>7 DEF p, q, v
<1>3. \A u \in Seq(S) : Hashes(App(u)) = Hashes(u) /\ Others(App(u)) = Others(u)
  <2> SUFFICES ASSUME NEW u \in Seq(S)
               PROVE  Hashes(App(u)) = Hashes(u) /\ Others(App(u)) = Others(u)
    OBVIOUS
  <2> DEFINE v == App(u)
  <2>1. /\ Len(u) \in Nat /\ Len(v) = Len(u) + 1 /\ v[Len(u) + 1] = Blank
        /\ \A i \in 1..Len(u) : v[i] = u[i]
    BY <1>1
  <2>2. Blank # Hash
    BY DEF Blank, Hash
  <2>3. \A i \in 1..(Len(u) + 1) : i \in 1..Len(u) \/ i = Len(u) + 1
    BY <2>1
  <2>4. 1..Len(u) \subseteq 1..Len(v)
    BY <2>1
  <2> HIDE DEF v
  <2>5. Hashes(v) = Hashes(u)
    BY <2>1, <2>2, <2>3, <2>4 DEF Hashes
  <2>6. Others(v) = Others(u)
    BY <2>1, <2>3, <2>4 DEF Others
  <2> QED BY <2>5, <2>6 DEF v
<1> HIDE DEF App
<1>4. \A u \in Seq(S) : strip(App(u)) = strip(u)
  <2> SUFFICES ASSUME NEW u \in Seq(S) PROVE strip(App(u)) = strip(u)
    OBVIOUS
  <2>1. App(u) \in Seq(S) /\ Len(u) \in Nat /\ Others(App(u)) = Others(u)
    BY <1>1, <1>3
  <2>2. CASE Others(u) = {}
    BY <2>1, <2>2, ContentIs
  <2>3. CASE Others(u) # {}
    <3> DEFINE a == Min(Others(u))
               b == Max(Others(u))
    <3>1. a \in 1..Len(u) /\ b \in 1..Len(u) /\ strip(u) = SubSeq(u, a, b)
      BY <2>3, ContentIs
    <3>2. strip(App(u)) = SubSeq(App(u), a, b)
      BY <2>1, <2>3, ContentIs
    <3> HIDE DEF a, b
    <3>3. b \in 0..Len(u)
      BY <2>1, <3>1
    <3> QED BY <3>1, <3>2, <3>3, <1>2
  <2> QED BY <2>2, <2>3
<1>5. CASE Hashes(t) = {}
  <2>1. App(t) \in Seq(S) /\ Hashes(App(t)) = {}
    BY <1>1, <1>3, <1>5
  <2>2. stripComment(t) = t /\ stripComment(App(t)) = App(t)
    BY <2>1, <1>5, ContentIs
  <2>3. Content(App(t)) = Content(t)
    BY <2>2, <1>4 DEF Content
  <2> QED BY <2>3 DEF App
<1>6. CASE Hashes(t) # {}
  <2> DEFINE k == Min(Hashes(t))
  <2>1. App(t) \in Seq(S) /\ Hashes(App(t)) = Hashes(t) /\ Len(t) \in Nat
    BY <1>1, <1>3
  <2>2. k \in 1..Len(t) /\ stripComment(t) = SubSeq(t, 1, k - 1)
    BY <1>6, ContentIs
  <2>3. stripComment(App(t)) = SubSeq(App(t), 1, k - 1)
    BY <2>1, <1>6, ContentIs
  <2> HIDE DEF k
  <2>4. k - 1 \in 0..Len(t) /\ 1 \in 1..Len(t)
    BY <2>1, <2>2
  <2>5. stripComment(App(t)) = stripComment(t)
    BY <2>2, <2>3, <2>4, <1>2
  <2>6. Content(App(t)) = Content(t)
    BY <2>5 DEF Content
  <2> QED BY <2>6 DEF App
<1> QED BY <1>5, <1>6

(* A line is read as pieces of at most Width lexemes. *)
LEMMA PieceType ==
  ASSUME Width \in Nat \ {0}, NEW S, NEW r \in Seq(S)
  PROVE  Count(r) \in Nat /\ \A j \in 1..Count(r) : Piece(r, j) \in Seq(S)
<1> DEFINE n == Len(r)
<1>1. n \in Nat /\ \A i \in 1..n : r[i] \in S
  BY LenProperties, ElementOfSeq
<1> HIDE DEF n
<1>2. Count(r) \in Nat /\ \A j \in 1..Count(r) : (j - 1) * Width \in Nat
  BY <1>1, Counts DEF Count, n
<1>3. ASSUME NEW j \in 1..Count(r) PROVE Piece(r, j) \in Seq(S)
  <2> DEFINE a == (j - 1) * Width + 1
             b == Least(j * Width, n)
             p == SubSeq(r, a, b)
  <2>1. j \in Nat /\ (j - 1) * Width \in Nat
    BY <1>2
  <2>2. j * Width \in Nat
    BY <2>1
  <2>3. a \in Int /\ b \in Int /\ 1 <= a /\ b <= n
    BY <1>1, <2>1, <2>2 DEF Least
  <2> HIDE DEF a, b
  <2>4. \A i \in a..b : r[i] \in S
    BY <1>1, <2>3
  <2>5. p \in Seq(S)
    BY <2>3, <2>4, SubSeqProperties
  <2> HIDE DEF p
  <2>6. Content(p) \in Seq(S)
    BY <2>5, ContentType
  <2> QED BY <2>6 DEF Piece, p, a, b, n
<1> QED BY <1>2, <1>3

(* t has the pieces of r but the first. *)
Leaves(S, r, t) ==
  /\ t \in Seq(S) /\ Count(r) \in Nat \ {0} /\ Count(t) = Count(r) - 1
  /\ Piece(r, 1) = Content(SubSeq(r, 1, Least(Width, Len(r))))
  /\ \A j \in 1..Count(t) : Piece(t, j) = Piece(r, j + 1)

(* fgets takes the first piece, and leaves the others. *)
LEMMA Taken ==
  ASSUME Width \in Nat \ {0}, NEW S, NEW r \in Seq(S), r # <<>>,
         NEW t, t = SubSeq(r, Width + 1, Len(r))
  PROVE  Leaves(S, r, t)
<1> DEFINE n == Len(r)
<1>1. n \in Nat /\ n # 0 /\ \A i \in 1..n : r[i] \in S
  <2>1. n \in Nat \ {0}
    BY EmptySeq
  <2> QED BY <2>1, ElementOfSeq
<1>2. Piece(r, 1) = Content(SubSeq(r, 1, Least(Width, Len(r))))
  <2>1. (1 - 1) * Width + 1 = 1 /\ 1 * Width = Width
    OBVIOUS
  <2> QED BY <2>1 DEF Piece
<1>3. Count(r) \in Nat /\ Count(r) # 0
  BY <1>1, Counts DEF Count
<1>4. CASE n <= Width
  <2>1. t = <<>>
    <3>1. n < Width + 1 /\ Width + 1 \in Int /\ n \in Int
      BY <1>1, <1>4
    <3> QED BY <3>1, SubSeqEmpty
  <2>2. t \in Seq(S) /\ Len(t) = 0
    BY <2>1, EmptySeq
  <2>3. Count(t) = 0
    <3>1. 0 \in Nat /\ Count(t) = ((0 + Width) - 1) \div Width
      BY <2>2 DEF Count
    <3> QED BY <3>1, Counts
  <2>4. Count(r) = 1
    <3>1. 0 < n
      BY <1>1
    <3> QED BY <3>1, <1>1, <1>4, Counts DEF Count
  <2> QED BY <1>2, <1>3, <2>2, <2>3, <2>4 DEF Leaves
<1>5. CASE n > Width
  <2>1. t \in Seq(S) /\ Len(t) = n - Width
    <3>1. \A i \in (Width + 1)..n : r[i] \in S
      BY <1>1
    <3>2. Width + 1 \in Int /\ n \in Int /\ Width + 1 <= n /\ n - (Width + 1) + 1 = n - Width
      BY <1>1, <1>5
    <3> QED BY <3>1, <3>2, SubSeqProperties
  <2>2. Count(t) = Count(r) - 1
    <3>1. Count(t) = (((n - Width) + Width) - 1) \div Width
      BY <2>1 DEF Count
    <3> DEFINE c == ((n + Width) - 1) \div Width
    <3>2. Count(r) = c
      BY DEF Count
    <3>3. (((n - Width) + Width) - 1) \div Width = c - 1
      <4> HIDE DEF n
      <4>1. c = ((n + Width) - 1) \div Width
        OBVIOUS
      <4> HIDE DEF c
      <4> QED BY <4>1, <1>1, <1>5, Counts
    <3> QED BY <3>1, <3>2, <3>3
  <2>3. ASSUME NEW j \in 1..Count(t) PROVE Piece(t, j) = Piece(r, j + 1)
    <3> DEFINE a == (j - 1) * Width
               b == Least(j * Width, n - Width)
    <3>1. j \in Nat /\ j - 1 \in Nat
      BY <1>3, <2>2
    <3>2. /\ a \in Nat /\ j * Width \in Nat /\ j * Width = a + Width
          /\ ((j + 1) - 1) * Width = a + Width /\ (j + 1) * Width = (j * Width) + Width
      BY <3>1
    <3>3. b \in Nat /\ b <= n - Width
      BY <1>1, <1>5, <3>2 DEF Least
    <3>4. Least((j + 1) * Width, n) = Width + b
      BY <1>1, <3>2 DEF Least
    <3>5. ((j + 1) - 1) * Width + 1 = (Width + a) + 1
      BY <3>2
    <3> HIDE DEF a, b
    <3>6. SubSeq(SubSeq(r, Width + 1, n), a + 1, b) = SubSeq(r, (Width + a) + 1, Width + b)
      <4>1. Width \in Nat /\ Width <= n
        BY <1>1, <1>5
      <4> QED BY <4>1, <3>2, <3>3, PartOfPart
    <3>7. Piece(t, j) = Content(SubSeq(t, a + 1, b))
      BY <2>1 DEF Piece, a, b
    <3>8. Piece(r, j + 1) = Content(SubSeq(r, (Width + a) + 1, Width + b))
      BY <3>4, <3>5 DEF Piece
    <3> QED BY <3>6, <3>7, <3>8
  <2> QED BY <1>2, <1>3, <2>1, <2>2, <2>3 DEF Leaves
<1> QED BY <1>1, <1>4, <1>5

(* With its end a line has the pieces that Contents tells of. *)
LEMMA LineEnd ==
  ASSUME Width \in Nat \ {0}, NEW S, Blank \in S, NEW l \in Seq(S)
  PROVE  /\ Append(l, Blank) \in Seq(S) /\ Pieces(l) \in Seq(Seq(S))
         /\ Len(Pieces(l)) = Count(Append(l, Blank))
         /\ \A j \in 1..Len(Pieces(l)) : Pieces(l)[j] = Piece(Append(l, Blank), j)
<1> DEFINE n == Len(l)
           e == Append(l, Blank)
           c == Count(e)
<1>1. n \in Nat /\ \A i \in 1..n : l[i] \in S
  BY LenProperties, ElementOfSeq
<1>2. /\ e \in Seq(S) /\ Len(e) = n + 1 /\ e[n + 1] = Blank
      /\ \A i \in 1..n : e[i] = l[i]
  BY AppendProperties
<1> HIDE DEF e
<1>3. c \in Nat /\ c = (n + Width) \div Width
  <2>1. c \in Nat
    BY <1>2, PieceType
  <2>2. ((n + 1) + Width) - 1 = n + Width
    BY <1>1
  <2> QED BY <2>1, <2>2, <1>2 DEF Count
<1>4. \A j \in 1..c : (j - 1) * Width \in Nat /\ (j - 1) * Width < n + 1
  <2>1. n + 1 \in Nat /\ c = (((n + 1) + Width) - 1) \div Width
    BY <1>1, <1>2 DEF Count
  <2> HIDE DEF c
  <2> QED BY <2>1, Counts
<1> HIDE DEF c
<1>5. ASSUME NEW j \in 1..c
      PROVE  Piece(e, j) = Content(SubSeq(l, (j - 1) * Width + 1, Least(j * Width, n)))
  <2> DEFINE a == (j - 1) * Width + 1
             b == j * Width
             p == SubSeq(l, a, Least(b, n))
             q == SubSeq(e, a, Least(b, n + 1))
  <2>1. j \in Nat /\ (j - 1) * Width \in Nat /\ (j - 1) * Width < n + 1
    BY <1>3, <1>4
  <2>2. a \in Nat /\ b \in Nat /\ 1 <= a /\ a <= n + 1 /\ a <= b
    BY <1>1, <2>1
  <2> HIDE DEF a, b
  <2>3. CASE b <= n
    <3>1. Least(b, n) = b /\ Least(b, n + 1) = b
      BY <1>1, <2>2, <2>3 DEF Least
    <3>2. \A i \in a..b : i \in 1..n
      BY <1>1, <2>2, <2>3
    <3>3. \A i \in a..b : e[i] = l[i] /\ l[i] \in S /\ e[i] \in S
      BY <3>2, <1>1, <1>2
    <3>4. /\ p \in Seq(S) /\ Len(p) = b - a + 1
          /\ \A i \in 1..(b - a + 1) : p[i] = l[a + i - 1]
      BY <3>1, <3>3, <2>2, SubSeqProperties
    <3>5. /\ q \in Seq(S) /\ Len(q) = b - a + 1
          /\ \A i \in 1..(b - a + 1) : q[i] = e[a + i - 1]
      BY <3>1, <3>3, <2>2, SubSeqProperties
    <3>6. \A i \in 1..(b - a + 1) : a + i - 1 \in a..b
      BY <2>2
    <3> HIDE DEF p, q
    <3>7. \A i \in 1..(b - a + 1) : p[i] = q[i]
      BY <3>3, <3>4, <3>5, <3>6
    <3>8. p = q
      BY <3>4, <3>5, <3>7, SeqEqual
    <3> QED BY <3>8, <1>2 DEF p, q, a, b, Piece
  <2>4. CASE b > n
    <3>1. Least(b, n) = n /\ Least(b, n + 1) = n + 1
      BY <1>1, <2>2, <2>4 DEF Least
    <3>2. \A i \in a..(n + 1) : i \in 1..n \/ i = n + 1
      BY <1>1, <2>2
    <3>3. /\ \A i \in a..n : i \in 1..n
          /\ \A i \in a..n : l[i] \in S
          /\ \A i \in a..(n + 1) : e[i] \in S
      BY <3>2, <1>1, <1>2, <2>2
    <3>4. /\ p \in Seq(S) /\ Len(p) = n + 1 - a
          /\ \A i \in 1..(n + 1 - a) : p[i] = l[a + i - 1]
      <4>1. /\ p \in Seq(S) /\ Len(p) = IF a <= n THEN n - a + 1 ELSE 0
            /\ \A i \in 1..(n - a + 1) : p[i] = l[a + i - 1]
        BY <3>1, <3>3, <2>2, <1>1, SubSeqProperties
      <4> HIDE DEF p
      <4> QED BY <4>1, <1>1, <2>2
    <3>5. /\ q \in Seq(S) /\ Len(q) = (n + 1 - a) + 1
          /\ \A i \in 1..((n + 1 - a) + 1) : q[i] = e[a + i - 1]
      <4>1. /\ q \in Seq(S) /\ Len(q) = IF a <= n + 1 THEN (n + 1) - a + 1 ELSE 0
            /\ \A i \in 1..((n + 1) - a + 1) : q[i] = e[a + i - 1]
        BY <3>1, <3>3, <2>2, <1>1, SubSeqProperties
      <4> HIDE DEF q
      <4> QED BY <4>1, <1>1, <2>2
    <3> HIDE DEF p, q
    <3> DEFINE m == n + 1 - a
    <3>6. m \in Nat /\ a + (m + 1) - 1 = n + 1 /\ \A i \in 1..m : a + i - 1 \in 1..n
      BY <1>1, <2>2
    <3>7. Len(p) = m /\ Len(q) = m + 1 /\ q[m + 1] = Blank
      <4>1. m + 1 \in 1..(m + 1)
        BY <3>6
      <4> HIDE DEF m
      <4>2. Len(p) = m /\ Len(q) = m + 1 /\ \A i \in 1..(m + 1) : q[i] = e[a + i - 1]
        BY <3>4, <3>5 DEF m
      <4>3. q[m + 1] = e[n + 1]
        BY <4>1, <4>2, <3>6
      <4> QED BY <4>2, <4>3, <1>2
    <3>8. \A i \in 1..m : q[i] = p[i]
      <4>1. \A i \in 1..m : i \in 1..(m + 1)
        BY <3>6
      <4> QED BY <4>1, <3>4, <3>5, <3>6, <1>2
    <3> HIDE DEF m
    <3> DEFINE f == Append(p, Blank)
    <3>9. /\ f \in Seq(S) /\ Len(f) = m + 1 /\ f[m + 1] = Blank
          /\ \A i \in 1..m : f[i] = p[i]
      BY <3>4, <3>7, AppendProperties
    <3> HIDE DEF f
    <3>10. \A i \in 1..(m + 1) : i \in 1..m \/ i = m + 1
      BY <3>6
    <3>11. \A i \in 1..(m + 1) : f[i] = q[i]
      BY <3>7, <3>8, <3>9, <3>10
    <3>12. f = q
      BY <3>5, <3>7, <3>9, <3>11, SeqEqual
    <3>13. Content(q) = Content(p)
      BY <3>4, <3>12, EndIsBlank DEF f
    <3> QED BY <3>13, <1>2 DEF p, q, a, b, Piece
  <2> QED BY <1>1, <2>2, <2>3, <2>4
<1>6. Pieces(l) = [j \in 1..c |-> Piece(e, j)]
  BY <1>3, <1>5 DEF Pieces
<1>7. \A j \in 1..c : Piece(e, j) \in Seq(S)
  BY <1>2, PieceType DEF c
<1> DEFINE f == [j \in 1..c |-> Piece(e, j)]
<1>8. f \in Seq(Seq(S)) /\ Len(f) = c /\ \A j \in 1..c : f[j] = Piece(e, j)
  BY <1>3, <1>7, SMT
<1> HIDE DEF f
<1>9. Pieces(l) = f
  BY <1>6 DEF f
<1> QED BY <1>2, <1>8, <1>9 DEF e, c

-----------------------------------------------------------------------------
(* What the pieces read so far say *)

(* the last header among the first j pieces of q; 0 if there is none *)
HeaderIn(q, j) == Max({0} \cup {i \in 1..j : getSection(q[i])})

(* piece j is a setting in a section, a section of its own, or empty *)
WellIn(q, j) ==
  q[j] # <<>> => \/ getKeyVal(q[j]) /\ HeaderIn(q, j) > 0
                 \/ getSection(q[j]) /\ \A i \in 1..(j - 1) : q[i] # q[j]

(* the pieces among the first n that set k in section s *)
SetsIn(q, n, s, k) ==
  {j \in 1..n : /\ getKeyVal(q[j]) /\ Head(q[j]) = k
                /\ HeaderIn(q, j) > 0 /\ q[HeaderIn(q, j)] = s}

SectionAt(q, n) == IF HeaderIn(q, n) = 0 THEN <<>> ELSE q[HeaderIn(q, n)]

(* m holds the last value the first n pieces give to each key of each section *)
Values(q, n, m) ==
  \A s \in DOMAIN m : \A k :
    /\ k \in DOMAIN m[s] <=> SetsIn(q, n, s, k) # {}
    /\ k \in DOMAIN m[s] => m[s][k] = Quoted(q[Max(SetsIn(q, n, s, k))])

(* The first n pieces are well formed, m is what they say and c the section  *)
(* they end in.                                                            *)
Loaded(q, n, m, c) ==
  /\ \A j \in 1..n : WellIn(q, j)
  /\ c = SectionAt(q, n)
  /\ DOMAIN m = {q[j] : j \in {i \in 1..n : getSection(q[i])}}
  /\ Values(q, n, m)

(* A piece is a header or a setting or neither, and never empty as either. *)
LEMMA Exclusive ==
  ASSUME NEW S, NEW t \in Seq(S)
  PROVE  ~(getSection(t) /\ getKeyVal(t)) /\ (getSection(t) \/ getKeyVal(t) => t # <<>>)
<1>1. Len(t) \in Nat /\ (t = <<>> => Len(t) = 0)
  BY LenProperties, EmptySeq
<1>2. t # <<>> => Head(t) = t[1]
  BY SMT
<1>3. getSection(t) => t # <<>> /\ t[1][1] = "section"
  BY <1>2 DEF getSection, Is
<1>4. getKeyVal(t) => Len(t) > 1 /\ t[1][1] = "key"
  BY DEF getKeyVal, Is
<1> QED BY <1>1, <1>3, <1>4

(* The last header is one; another piece moves it only when it is a header. *)
LEMMA HeaderAt ==
  ASSUME NEW q, NEW n \in Nat
  PROVE  /\ HeaderIn(q, n) \in 0..n
         /\ HeaderIn(q, n) # 0 => getSection(q[HeaderIn(q, n)])
         /\ HeaderIn(q, n) = 0 => \A i \in 1..n : ~getSection(q[i])
         /\ HeaderIn(q, n + 1) = IF getSection(q[n + 1]) THEN n + 1 ELSE HeaderIn(q, n)
<1> DEFINE X(m) == {0} \cup {i \in 1..m : getSection(q[i])}
<1>1. \A m \in Nat : Max(X(m)) \in X(m) /\ \A y \in X(m) : y <= Max(X(m))
  <2> TAKE m \in Nat
  <2>1. X(m) \in SUBSET (0..m) /\ X(m) # {}
    OBVIOUS
  <2> HIDE DEF X
  <2> QED BY <2>1, Extremes
<1>2. \A m \in Nat : HeaderIn(q, m) = Max(X(m))
  BY DEF HeaderIn
<1>0. n + 1 \in Nat
  OBVIOUS
<1> HIDE DEF X
<1>3. HeaderIn(q, n) \in X(n) /\ \A y \in X(n) : y <= HeaderIn(q, n)
  BY <1>1, <1>2
<1>4. HeaderIn(q, n + 1) \in X(n + 1) /\ \A y \in X(n + 1) : y <= HeaderIn(q, n + 1)
  BY <1>0, <1>1, <1>2
<1>5. CASE getSection(q[n + 1])
  <2>1. n + 1 \in X(n + 1) /\ \A y \in X(n + 1) : y \in 0..(n + 1)
    BY <1>5 DEF X
  <2>2. n + 1 <= HeaderIn(q, n + 1) /\ HeaderIn(q, n + 1) \in 0..(n + 1)
    BY <2>1, <1>4
  <2>3. HeaderIn(q, n + 1) = n + 1
    BY <2>2
  <2> QED BY <2>3, <1>3, <1>5 DEF X
<1>6. CASE ~getSection(q[n + 1])
  <2>1. \A i \in 1..(n + 1) : i \in 1..n \/ i = n + 1
    OBVIOUS
  <2>2. 1..n \subseteq 1..(n + 1)
    OBVIOUS
  <2>3. X(n + 1) = X(n)
    BY <2>1, <2>2, <1>6 DEF X
  <2>4. HeaderIn(q, n + 1) = HeaderIn(q, n)
    BY <2>3, <1>0, <1>2
  <2> QED BY <2>4, <1>3, <1>6 DEF X
<1> QED BY <1>5, <1>6

(* What the first n pieces say, only they say. *)
LEMMA Agree ==
  ASSUME NEW q, NEW r, NEW n \in Nat, \A i \in 1..n : q[i] = r[i]
  PROVE  /\ \A j \in 0..n : HeaderIn(q, j) = HeaderIn(r, j)
         /\ \A j \in 1..n : WellIn(q, j) <=> WellIn(r, j)
         /\ \A s, k : SetsIn(q, n, s, k) = SetsIn(r, n, s, k)
         /\ \A s, k : SetsIn(q, n, s, k) # {} => Max(SetsIn(q, n, s, k)) \in SetsIn(q, n, s, k)
         /\ \A m, c : Loaded(q, n, m, c) => Loaded(r, n, m, c)
<1>1. ASSUME NEW j \in 0..n PROVE HeaderIn(q, j) = HeaderIn(r, j)
  <2>1. \A i \in 1..j : i \in 1..n
    OBVIOUS
  <2>2. {i \in 1..j : getSection(q[i])} = {i \in 1..j : getSection(r[i])}
    BY <2>1
  <2> QED BY <2>2 DEF HeaderIn
<1>2. \A j \in 1..n : j \in 0..n /\ HeaderIn(q, j) \in 0..n
  <2> TAKE j \in 1..n
  <2>1. j \in Nat /\ j <= n
    OBVIOUS
  <2>2. HeaderIn(q, j) \in 0..j
    BY <2>1, HeaderAt
  <2> QED BY <2>1, <2>2
<1>3. ASSUME NEW j \in 1..n PROVE WellIn(q, j) <=> WellIn(r, j)
  <2>1. \A i \in 1..(j - 1) : i \in 1..n
    OBVIOUS
  <2> QED BY <2>1, <1>1, <1>2 DEF WellIn
<1>4. ASSUME NEW s, NEW k PROVE SetsIn(q, n, s, k) = SetsIn(r, n, s, k)
  <2>1. ASSUME NEW j \in 1..n
        PROVE  HeaderIn(q, j) > 0 => HeaderIn(r, j) = HeaderIn(q, j)
                                     /\ q[HeaderIn(q, j)] = r[HeaderIn(q, j)]
    <3>1. HeaderIn(q, j) > 0 => HeaderIn(q, j) \in 1..n
      BY <1>2
    <3> QED BY <3>1, <1>1, <1>2
  <2>2. \A j \in 1..n : HeaderIn(q, j) = HeaderIn(r, j)
    BY <1>1, <1>2
  <2> QED BY <2>1, <2>2 DEF SetsIn
<1>5. ASSUME NEW s, NEW k, SetsIn(q, n, s, k) # {}
      PROVE  Max(SetsIn(q, n, s, k)) \in SetsIn(q, n, s, k) /\ Max(SetsIn(q, n, s, k)) \in 1..n
  <2>1. SetsIn(q, n, s, k) \in SUBSET (0..n) /\ SetsIn(q, n, s, k) \subseteq 1..n
    BY DEF SetsIn
  <2> QED BY <2>1, <1>5, Extremes
<1>6. ASSUME NEW m, NEW c, Loaded(q, n, m, c) PROVE Loaded(r, n, m, c)
  <2>1. \A j \in 1..n : WellIn(r, j)
    BY <1>3, <1>6 DEF Loaded
  <2>2. c = SectionAt(r, n)
    <3>1. n \in 0..n /\ HeaderIn(q, n) \in 0..n
      BY HeaderAt
    <3>2. HeaderIn(r, n) = HeaderIn(q, n) /\ (HeaderIn(q, n) # 0 => HeaderIn(q, n) \in 1..n)
      BY <3>1, <1>1
    <3> QED BY <3>2, <1>6 DEF Loaded, SectionAt
  <2>3. DOMAIN m = {r[j] : j \in {i \in 1..n : getSection(r[i])}}
    <3>1. {q[j] : j \in {i \in 1..n : getSection(q[i])}} = {r[j] : j \in {i \in 1..n : getSection(r[i])}}
      OBVIOUS
    <3> QED BY <3>1, <1>6 DEF Loaded
  <2>4. ASSUME NEW s \in DOMAIN m, NEW k
        PROVE  /\ k \in DOMAIN m[s] <=> SetsIn(r, n, s, k) # {}
               /\ k \in DOMAIN m[s] => m[s][k] = Quoted(r[Max(SetsIn(r, n, s, k))])
    <3>1. /\ k \in DOMAIN m[s] <=> SetsIn(q, n, s, k) # {}
          /\ k \in DOMAIN m[s] => m[s][k] = Quoted(q[Max(SetsIn(q, n, s, k))])
      BY <1>6 DEF Loaded, Values
    <3> QED BY <3>1, <1>4, <1>5
  <2> QED BY <2>1, <2>2, <2>3, <2>4 DEF Loaded, Values
<1> QED BY <1>1, <1>3, <1>4, <1>5, <1>6

(* The setting in piece n + 1 is the last of its key in its section. *)
LEMMA SetsNext ==
  ASSUME NEW q, NEW n \in Nat, NEW s, NEW k
  PROVE  IF getKeyVal(q[n + 1]) /\ Head(q[n + 1]) = k
            /\ HeaderIn(q, n + 1) > 0 /\ q[HeaderIn(q, n + 1)] = s
         THEN SetsIn(q, n + 1, s, k) # {} /\ Max(SetsIn(q, n + 1, s, k)) = n + 1
         ELSE SetsIn(q, n + 1, s, k) = SetsIn(q, n, s, k)
<1> DEFINE P(j) == getKeyVal(q[j]) /\ Head(q[j]) = k
                   /\ HeaderIn(q, j) > 0 /\ q[HeaderIn(q, j)] = s
           X == SetsIn(q, n + 1, s, k)
<1>1. X = {j \in 1..(n + 1) : P(j)} /\ SetsIn(q, n, s, k) = {j \in 1..n : P(j)}
  BY DEF SetsIn
<1>2. /\ \A j \in 1..(n + 1) : j \in 1..n \/ j = n + 1
      /\ 1..n \subseteq 1..(n + 1) /\ n + 1 \in 1..(n + 1)
  OBVIOUS
<1>0. P(n + 1) <=> getKeyVal(q[n + 1]) /\ Head(q[n + 1]) = k
                   /\ HeaderIn(q, n + 1) > 0 /\ q[HeaderIn(q, n + 1)] = s
  OBVIOUS
<1> HIDE DEF P, X
<1>3. CASE P(n + 1)
  <2>1. X \in SUBSET (0..(n + 1)) /\ X # {} /\ n + 1 \in X /\ n + 1 \in Nat
    BY <1>1, <1>2, <1>3
  <2>2. Max(X) \in X /\ \A y \in X : y <= Max(X)
    BY <2>1, Extremes
  <2>3. Max(X) \in 0..(n + 1) /\ n + 1 <= Max(X)
    BY <2>1, <2>2
  <2>4. Max(X) = n + 1
    BY <2>3
  <2> QED BY <2>1, <2>4, <1>0, <1>3 DEF X
<1>4. CASE ~P(n + 1)
  <2>1. X = SetsIn(q, n, s, k)
    BY <1>1, <1>2, <1>4
  <2> QED BY <2>1, <1>0, <1>4 DEF X
<1> QED BY <1>3, <1>4

(* The sections of n + 1 pieces. *)
LEMMA SectionsNext ==
  ASSUME NEW q, NEW n \in Nat
  PROVE  {q[j] : j \in {i \in 1..(n + 1) : getSection(q[i])}}
         = {q[j] : j \in {i \in 1..n : getSection(q[i])}}
           \cup (IF getSection(q[n + 1]) THEN {q[n + 1]} ELSE {})
<1>1. /\ \A j \in 1..(n + 1) : j \in 1..n \/ j = n + 1
      /\ 1..n \subseteq 1..(n + 1) /\ n + 1 \in 1..(n + 1)
  OBVIOUS
<1> QED BY <1>1

(* An empty piece is passed over. *)
LEMMA IgnoreLoads ==
  ASSUME NEW q, NEW n \in Nat, NEW S, q[n + 1] \in Seq(S), NEW m, NEW c,
         Loaded(q, n, m, c), q[n + 1] = <<>>
  PROVE  Loaded(q, n + 1, m, c)
<1>1. ~getSection(q[n + 1]) /\ ~getKeyVal(q[n + 1])
  BY Exclusive
<1>2. \A j \in 1..(n + 1) : j \in 1..n \/ j = n + 1
  OBVIOUS
<1>3. \A j \in 1..(n + 1) : WellIn(q, j)
  BY <1>2 DEF Loaded, WellIn
<1>4. HeaderIn(q, n + 1) = HeaderIn(q, n)
  BY <1>1, HeaderAt
<1>5. c = SectionAt(q, n + 1)
  BY <1>4 DEF Loaded, SectionAt
<1>6. DOMAIN m = {q[j] : j \in {i \in 1..(n + 1) : getSection(q[i])}}
  BY <1>1, SectionsNext DEF Loaded
<1>7. Values(q, n + 1, m)
  <2>1. \A s, k : SetsIn(q, n + 1, s, k) = SetsIn(q, n, s, k)
    BY <1>1, SetsNext
  <2> QED BY <2>1 DEF Loaded, Values
<1> QED BY <1>3, <1>5, <1>6, <1>7 DEF Loaded

(* A header that is new begins an empty section. *)
LEMMA SectionLoads ==
  ASSUME NEW q, NEW n \in Nat, NEW S, q[n + 1] \in Seq(S), NEW m, NEW c, NEW h,
         Loaded(q, n, m, c), h = q[n + 1], getSection(h), h \notin DOMAIN m
  PROVE  Loaded(q, n + 1, Put(m, h, <<>>), h)
<1> DEFINE m2 == Put(m, h, <<>>)
<1>1. ~getKeyVal(q[n + 1])
  BY Exclusive
<1>2. /\ \A j \in 1..(n + 1) : j \in 1..n \/ j = n + 1
      /\ n + 1 - 1 = n
  OBVIOUS
<1>3. \A j \in 1..n : getSection(q[j]) => q[j] # h
  BY DEF Loaded
<1>4. \A j \in 1..(n + 1) : WellIn(q, j)
  <2>1. WellIn(q, n + 1)
    BY <1>2, <1>3 DEF WellIn
  <2> QED BY <1>2, <2>1 DEF Loaded
<1>5. h = SectionAt(q, n + 1)
  <2>1. HeaderIn(q, n + 1) = n + 1
    BY HeaderAt
  <2> QED BY <2>1 DEF SectionAt
<1>6. /\ DOMAIN m2 = DOMAIN m \cup {h} /\ m2[h] = <<>>
      /\ \A s \in DOMAIN m : m2[s] = m[s]
  BY DEF Put
<1> HIDE DEF m2
<1>7. DOMAIN m2 = {q[j] : j \in {i \in 1..(n + 1) : getSection(q[i])}}
  <2>1. DOMAIN m = {q[j] : j \in {i \in 1..n : getSection(q[i])}}
    BY DEF Loaded
  <2> QED BY <1>6, <2>1, SectionsNext
<1>8. \A s, k : SetsIn(q, n + 1, s, k) = SetsIn(q, n, s, k)
  BY <1>1, SetsNext
<1>9. \A k : SetsIn(q, n, h, k) = {}
  <2> SUFFICES ASSUME NEW k, NEW j \in SetsIn(q, n, h, k) PROVE FALSE
    OBVIOUS
  <2>1. j \in 1..n /\ HeaderIn(q, j) > 0 /\ q[HeaderIn(q, j)] = h
    BY DEF SetsIn
  <2>2. j \in Nat /\ j <= n
    BY <2>1
  <2>3. HeaderIn(q, j) \in 0..j /\ (HeaderIn(q, j) # 0 => getSection(q[HeaderIn(q, j)]))
    BY <2>2, HeaderAt
  <2>4. HeaderIn(q, j) \in 1..n /\ HeaderIn(q, j) # 0
    BY <2>1, <2>2, <2>3
  <2> QED BY <2>1, <2>3, <2>4, <1>3
<1>10. Values(q, n + 1, m2)
  <2>1. Values(q, n, m)
    BY DEF Loaded
  <2>2. DOMAIN <<>> = {}
    BY EmptySeq, LenProperties
  <2> SUFFICES ASSUME NEW s \in DOMAIN m2, NEW k
               PROVE  /\ k \in DOMAIN m2[s] <=> SetsIn(q, n, s, k) # {}
                      /\ k \in DOMAIN m2[s] => m2[s][k] = Quoted(q[Max(SetsIn(q, n, s, k))])
    BY <1>8 DEF Values
  <2>3. CASE s = h
    BY <2>2, <2>3, <1>6, <1>9
  <2>4. CASE s \in DOMAIN m
    BY <2>1, <2>4, <1>6 DEF Values
  <2> QED BY <2>3, <2>4, <1>6
<1> QED BY <1>4, <1>5, <1>7, <1>10 DEF Loaded, m2

(* A setting goes to the section the pieces are in, over an earlier one. *)
LEMMA ItemLoads ==
  ASSUME NEW q, NEW n \in Nat, NEW S, q[n + 1] \in Seq(S), NEW m, NEW c, NEW t,
         Loaded(q, n, m, c), t = q[n + 1], getKeyVal(t), c # <<>>
  PROVE  Loaded(q, n + 1, Put(m, c, Put(m[c], Head(t), Quoted(t))), c)
<1> DEFINE m2 == Put(m, c, Put(m[c], Head(t), Quoted(t)))
           h == HeaderIn(q, n)
<1>1. ~getSection(q[n + 1])
  BY Exclusive
<1>2. \A j \in 1..(n + 1) : j \in 1..n \/ j = n + 1
  OBVIOUS
<1>3. h \in 1..n /\ c = q[h] /\ getSection(q[h]) /\ HeaderIn(q, n + 1) = h
  <2>1. c = SectionAt(q, n)
    BY DEF Loaded
  <2>2. h # 0 /\ c = q[h]
    BY <2>1 DEF SectionAt
  <2>3. /\ h \in 0..n /\ (h # 0 => getSection(q[h]))
        /\ HeaderIn(q, n + 1) = IF getSection(q[n + 1]) THEN n + 1 ELSE h
    BY HeaderAt
  <2> HIDE DEF h
  <2> QED BY <2>2, <2>3, <1>1
<1> HIDE DEF h
<1>4. \A j \in 1..(n + 1) : WellIn(q, j)
  <2>1. WellIn(q, n + 1)
    BY <1>3 DEF WellIn
  <2> QED BY <1>2, <2>1 DEF Loaded
<1>5. c = SectionAt(q, n + 1)
  BY <1>3 DEF SectionAt
<1>6. DOMAIN m = {q[j] : j \in {i \in 1..(n + 1) : getSection(q[i])}}
  BY <1>1, SectionsNext DEF Loaded
<1>7. c \in DOMAIN m
  BY <1>3 DEF Loaded
<1>8. /\ DOMAIN m2 = DOMAIN m
      /\ \A s \in DOMAIN m : s # c => m2[s] = m[s]
      /\ m2[c] = Put(m[c], Head(t), Quoted(t))
  BY <1>7 DEF Put
<1>9. /\ DOMAIN m2[c] = DOMAIN m[c] \cup {Head(t)}
      /\ m2[c][Head(t)] = Quoted(t)
      /\ \A k \in DOMAIN m[c] : k # Head(t) => m2[c][k] = m[c][k]
  <2> DEFINE g == Put(m[c], Head(t), Quoted(t))
  <2>1. /\ DOMAIN g = DOMAIN m[c] \cup {Head(t)}
        /\ g[Head(t)] = Quoted(t)
        /\ \A k \in DOMAIN m[c] : k # Head(t) => g[k] = m[c][k]
    BY DEF Put
  <2> HIDE DEF g
  <2>2. m2[c] = g
    BY <1>8 DEF g
  <2> QED BY <2>1, <2>2
<1> HIDE DEF m2
<1>10. Values(q, n + 1, m2)
  <2> SUFFICES ASSUME NEW s \in DOMAIN m, NEW k
               PROVE  /\ k \in DOMAIN m2[s] <=> SetsIn(q, n + 1, s, k) # {}
                      /\ k \in DOMAIN m2[s] => m2[s][k] = Quoted(q[Max(SetsIn(q, n + 1, s, k))])
    BY <1>8 DEF Values
  <2>0. /\ k \in DOMAIN m[s] <=> SetsIn(q, n, s, k) # {}
        /\ k \in DOMAIN m[s] => m[s][k] = Quoted(q[Max(SetsIn(q, n, s, k))])
    BY DEF Loaded, Values
  <2>1. CASE s = c /\ k = Head(t)
    <3>0. HeaderIn(q, n + 1) > 0 /\ q[HeaderIn(q, n + 1)] = s /\ getKeyVal(q[n + 1])
          /\ Head(q[n + 1]) = k
      BY <2>1, <1>3
    <3>1. SetsIn(q, n + 1, s, k) # {} /\ Max(SetsIn(q, n + 1, s, k)) = n + 1
      BY <3>0, SetsNext
    <3> QED BY <3>1, <2>1, <1>9
  <2>2. CASE ~(s = c /\ k = Head(t))
    <3>1. SetsIn(q, n + 1, s, k) = SetsIn(q, n, s, k)
      BY <2>2, <1>3, SetsNext
    <3>2. k \in DOMAIN m2[s] <=> k \in DOMAIN m[s]
      BY <2>2, <1>8, <1>9
    <3>3. k \in DOMAIN m[s] => m2[s][k] = m[s][k]
      BY <2>2, <1>8, <1>9
    <3> QED BY <3>1, <3>2, <3>3, <2>0
  <2> QED BY <2>1, <2>2
<1> QED BY <1>4, <1>5, <1>6, <1>8, <1>10 DEF Loaded, m2

(* What the loop refuses is not well formed. *)
LEMMA RefusedIsBad ==
  ASSUME NEW q, NEW n \in Nat, NEW S, q[n + 1] \in Seq(S), NEW m, NEW c, NEW t,
         Loaded(q, n, m, c), t = q[n + 1], t # <<>>,
         IF getSection(t) THEN t \in DOMAIN m ELSE ~getKeyVal(t) \/ c = <<>>
  PROVE  ~WellIn(q, n + 1)
<1>1. ~(getSection(t) /\ getKeyVal(t))
  BY Exclusive
<1>2. n + 1 - 1 = n
  OBVIOUS
<1>3. CASE getSection(t)
  <2>1. \E i \in 1..n : q[i] = t
    BY <1>3 DEF Loaded
  <2> QED BY <2>1, <1>1, <1>2, <1>3 DEF WellIn
<1>4. CASE ~getSection(t) /\ ~getKeyVal(t)
  BY <1>4 DEF WellIn
<1>5. CASE ~getSection(t) /\ c = <<>>
  <2>1. HeaderIn(q, n) = 0
    <3>1. c = SectionAt(q, n)
      BY DEF Loaded
    <3>2. HeaderIn(q, n) # 0 => getSection(q[HeaderIn(q, n)]) /\ q[HeaderIn(q, n)] = <<>>
      BY <3>1, <1>5, HeaderAt DEF SectionAt
    <3>3. ~getSection(<<>>)
      BY DEF getSection
    <3> QED BY <3>2, <3>3
  <2>2. HeaderIn(q, n + 1) = 0
    BY <2>1, <1>5, HeaderAt
  <2> QED BY <2>2, <1>5 DEF WellIn
<1> QED BY <1>3, <1>4, <1>5

-----------------------------------------------------------------------------
(* The file *)

PiecesOf(f) == [n \in DOMAIN f |-> Pieces(f[n])]

(* A file's contents are its lines' pieces one after the other. *)
LEMMA FileType ==
  ASSUME Width \in Nat \ {0}, NEW S, Blank \in S, NEW Ls, Ls \subseteq Seq(S), NEW f \in Seq(Ls)
  PROVE  PiecesOf(f) \in Seq(Seq(Seq(S))) /\ FlattenSeq(PiecesOf(f)) \in Seq(Seq(S))
<1> DEFINE p == PiecesOf(f)
<1>1. Len(f) \in Nat /\ DOMAIN f = 1..Len(f) /\ \A n \in 1..Len(f) : f[n] \in Seq(S)
  BY LenProperties, ElementOfSeq
<1>2. \A n \in 1..Len(f) : Pieces(f[n]) \in Seq(Seq(S))
  BY <1>1, LineEnd
<1>3. p \in Seq(Seq(Seq(S)))
  <2>1. p = [n \in 1..Len(f) |-> Pieces(f[n])]
    BY <1>1 DEF PiecesOf
  <2> HIDE DEF p
  <2> QED BY <2>1, <1>1, <1>2, SMT
<1> HIDE DEF p
<1>4. FlattenSeq(p) \in Seq(Seq(S))
  BY <1>3, FlattenType
<1> QED BY <1>3, <1>4 DEF p

(* Another line adds its pieces. *)
LEMMA FileGrows ==
  ASSUME Width \in Nat \ {0}, NEW S, Blank \in S, NEW Ls, Ls \subseteq Seq(S),
         NEW f \in Seq(Ls), NEW l \in Ls
  PROVE  FlattenSeq(PiecesOf(Append(f, l))) = FlattenSeq(PiecesOf(f)) \o Pieces(l)
<1> DEFINE g == Append(f, l)
           T == Seq(S)
           p == PiecesOf(f)
           x == Pieces(l)
           r == PiecesOf(g)
<1>1. /\ g \in Seq(Ls) /\ Len(f) \in Nat /\ Len(g) = Len(f) + 1
      /\ DOMAIN f = 1..Len(f) /\ DOMAIN g = 1..Len(g)
      /\ g[Len(f) + 1] = l /\ \A i \in 1..Len(f) : g[i] = f[i]
  BY AppendProperties, LenProperties
<1> HIDE DEF g
<1>2. p \in Seq(Seq(T)) /\ r \in Seq(Seq(T)) /\ x \in Seq(T)
  <2>1. l \in Seq(S)
    OBVIOUS
  <2> QED BY <2>1, <1>1, FileType, LineEnd
<1>3. Len(p) = Len(f) /\ Len(r) = Len(f) + 1
  <2>1. DOMAIN p = 1..Len(f) /\ DOMAIN r = 1..(Len(f) + 1)
    BY <1>1 DEF PiecesOf
  <2>2. Len(p) \in Nat /\ Len(r) \in Nat /\ DOMAIN p = 1..Len(p) /\ DOMAIN r = 1..Len(r)
    BY <1>2, LenProperties
  <2> HIDE DEF p, r
  <2> QED BY <2>1, <2>2, <1>1
<1>4. r[Len(f) + 1] = x /\ \A i \in 1..Len(f) : r[i] = p[i]
  <2>1. \A i \in 1..Len(f) : i \in 1..Len(g) /\ i \in 1..Len(f)
    BY <1>1
  <2>2. Len(f) + 1 \in 1..Len(g)
    BY <1>1
  <2> QED BY <2>1, <2>2, <1>1 DEF PiecesOf
<1> HIDE DEF p, x, r, T
<1> DEFINE a == Append(p, x)
<1>5. /\ a \in Seq(Seq(T)) /\ Len(a) = Len(f) + 1 /\ a[Len(f) + 1] = x
      /\ \A i \in 1..Len(f) : a[i] = p[i]
  BY <1>2, <1>3, AppendProperties
<1> HIDE DEF a
<1>6. a = r
  <2>1. \A i \in 1..(Len(f) + 1) : i \in 1..Len(f) \/ i = Len(f) + 1
    BY <1>1
  <2>2. \A i \in 1..(Len(f) + 1) : a[i] = r[i]
    BY <2>1, <1>4, <1>5
  <2> QED BY <2>2, <1>2, <1>3, <1>5, SeqEqual
<1>7. FlattenSeq(Append(p, x)) = FlattenSeq(p) \o x
  BY <1>2, FlattenAppend
<1> QED BY <1>6, <1>7 DEF a, p, x, r, g

-----------------------------------------------------------------------------
(* The invariant *)

(* what fgets has still to take is the end of the file's contents *)
Ahead(q, r) == /\ Count(r) <= Len(q)
               /\ \A j \in 1..Count(r) : q[(Len(q) - Count(r)) + j] = Piece(r, j)

Seen == Len(Contents) - Count(rest)

(* While it reads, the loop has made of the pieces it took what they say, and *)
(* what it has still to take is the rest of the contents.                    *)
ReadInv(S) ==
  /\ file \in Seq(Lines) /\ rest \in Seq(S)
  /\ Ahead(Contents, rest)
  /\ phase = "reading" => Loaded(Contents, Seen, conf, curr)
  /\ FileMeant

(* Once all is read, the map says of the global section what the file does. *)
LEMMA AllRead ==
  ASSUME NEW S, Contents \in Seq(Seq(S)), Loaded(Contents, Len(Contents), conf, curr)
  PROVE  /\ Wellformed
         /\ Global \in DOMAIN conf =>
              \A k : /\ Key(k) \in DOMAIN conf[Global] <=> Settings(k) # {}
                     /\ Key(k) \in DOMAIN conf[Global] => conf[Global][Key(k)] = Setting(k)
         /\ Global \notin DOMAIN conf => \A k : Settings(k) = {}
<1> DEFINE q == Contents
           n == Len(q)
<1>1. n \in Nat /\ DOMAIN q = 1..n
  BY LenProperties
<1>2. \A j : Header(j) = HeaderIn(q, j)
  BY DEF Header, HeaderIn
<1>3. \A k : Settings(k) = SetsIn(q, n, Global, Key(k))
  BY <1>1, <1>2 DEF Settings, SetsIn
<1>4. \A k : Setting(k) = Quoted(q[Max(SetsIn(q, n, Global, Key(k)))])
  BY <1>3 DEF Setting
<1>5. Wellformed
  <2>1. \A j \in 1..n : WellIn(q, j)
    BY DEF Loaded
  <2> QED BY <2>1, <1>1, <1>2 DEF Wellformed, WellIn
<1>6. Global \in DOMAIN conf =>
        \A k : /\ Key(k) \in DOMAIN conf[Global] <=> Settings(k) # {}
               /\ Key(k) \in DOMAIN conf[Global] => conf[Global][Key(k)] = Setting(k)
  BY <1>3, <1>4 DEF Loaded, Values
<1>7. ASSUME NEW k, Settings(k) # {} PROVE Global \in DOMAIN conf
  <2>1. PICK j \in 1..n : HeaderIn(q, j) > 0 /\ q[HeaderIn(q, j)] = Global
    BY <1>3, <1>7 DEF SetsIn
  <2>2. j \in Nat /\ j <= n
    BY <1>1, <2>1
  <2>3. HeaderIn(q, j) \in 0..j /\ (HeaderIn(q, j) # 0 => getSection(q[HeaderIn(q, j)]))
    BY <2>2, HeaderAt
  <2>4. HeaderIn(q, j) \in 1..n /\ HeaderIn(q, j) # 0
    BY <1>1, <2>1, <2>2, <2>3
  <2> QED BY <2>1, <2>3, <2>4 DEF Loaded
<1> QED BY <1>5, <1>6, <1>7

(* So analyseGlobal looks for what the file has to give. *)
LEMMA Looks ==
  ASSUME NEW S, Contents \in Seq(Seq(S)), Loaded(Contents, Len(Contents), conf, curr)
  PROVE  /\ Wellformed
         /\ Global \in DOMAIN conf =>
              \A k : /\ getKeyInt(conf[Global], k) <=> Given(k)
                     /\ Given(k) => conf[Global][Key(k)][1][2] = Setting(k)[1][2]
         /\ Global \in DOMAIN conf /\ Fits(conf[Global])
            <=> /\ Settings("password") # {} /\ Setting("password") = <<Value("123456")>>
                /\ \A k \in IntKey : Given(k)
<1>1. /\ Wellformed
      /\ Global \in DOMAIN conf =>
           \A k : /\ Key(k) \in DOMAIN conf[Global] <=> Settings(k) # {}
                  /\ Key(k) \in DOMAIN conf[Global] => conf[Global][Key(k)] = Setting(k)
      /\ Global \notin DOMAIN conf => \A k : Settings(k) = {}
  BY AllRead
<1>2. Global \in DOMAIN conf =>
        \A k : /\ getKeyInt(conf[Global], k) <=> Given(k)
               /\ Given(k) => conf[Global][Key(k)][1][2] = Setting(k)[1][2]
  BY <1>1 DEF getKeyInt, Given
<1>3. CASE Global \notin DOMAIN conf
  BY <1>1, <1>3
<1>4. CASE Global \in DOMAIN conf
  <2>1. /\ Key("password") \in DOMAIN conf[Global] <=> Settings("password") # {}
        /\ Key("password") \in DOMAIN conf[Global] => conf[Global][Key("password")] = Setting("password")
    BY <1>1, <1>4
  <2> QED BY <2>1, <1>1, <1>2, <1>4 DEF Fits
<1> QED BY <1>1, <1>2, <1>3, <1>4

(* What the file says is a matter of its lines alone. *)
LEMMA SameFile ==
  ASSUME UNCHANGED file
  PROVE  /\ Contents' = Contents /\ (Wellformed' <=> Wellformed)
         /\ \A k : Settings(k)' = Settings(k) /\ Setting(k)' = Setting(k) /\ (Given(k)' <=> Given(k))
<1>1. Contents' = Contents
  BY DEF Contents
<1>2. \A j : Header(j)' = Header(j)
  BY <1>1 DEF Header
<1>3. Wellformed' <=> Wellformed
  BY <1>1, <1>2 DEF Wellformed
<1>4. \A k : Settings(k)' = Settings(k)
  BY <1>1, <1>2 DEF Settings
<1>5. \A k : Setting(k)' = Setting(k)
  BY <1>1, <1>4 DEF Setting
<1>6. \A k : Given(k)' <=> Given(k)
  BY <1>4, <1>5 DEF Given
<1> QED BY <1>1, <1>3, <1>4, <1>5, <1>6

(* The types of what the invariant is about. *)
LEMMA InvTypes ==
  ASSUME Width \in Nat \ {0}, NEW S, Blank \in S, Lines \subseteq Seq(S), ReadInv(S)
  PROVE  /\ Contents \in Seq(Seq(S)) /\ Contents = FlattenSeq(PiecesOf(file))
         /\ Len(Contents) \in Nat /\ DOMAIN Contents = 1..Len(Contents)
         /\ \A i \in 1..Len(Contents) : Contents[i] \in Seq(S)
         /\ Count(rest) \in Nat /\ Seen \in Nat
<1>1. Contents = FlattenSeq(PiecesOf(file))
  BY DEF Contents, PiecesOf
<1>2. Contents \in Seq(Seq(S))
  BY <1>1, FileType DEF ReadInv
<1>3. Count(rest) \in Nat
  BY PieceType DEF ReadInv
<1>4. Len(Contents) \in Nat /\ DOMAIN Contents = 1..Len(Contents)
  BY <1>2, LenProperties
<1>5. Seen \in Nat
  BY <1>3, <1>4 DEF Seen, ReadInv, Ahead
<1>6. \A i \in 1..Len(Contents) : Contents[i] \in Seq(S)
  BY <1>2, ElementOfSeq
<1> QED BY <1>1, <1>2, <1>3, <1>4, <1>5, <1>6

(* Nothing is read of an empty file. *)
LEMMA ReadInit ==
  ASSUME Width \in Nat \ {0}, NEW S, FileInit
  PROVE  ReadInv(S)
<1>1. file = <<>> /\ rest = <<>> /\ conf = <<>> /\ curr = <<>> /\ phase = "reading"
  BY DEF FileInit
<1>2. file \in Seq(Lines) /\ rest \in Seq(S) /\ Len(rest) = 0 /\ DOMAIN file = {}
      /\ DOMAIN conf = {}
  BY <1>1, EmptySeq
<1>3. Count(rest) = 0
  BY <1>2, Counts DEF Count
<1>4. Contents = <<>> /\ Len(Contents) = 0
  <2> DEFINE p == [n \in DOMAIN file |-> Pieces(file[n])]
  <2>1. p = <<>>
    BY <1>2
  <2> HIDE DEF p
  <2>2. p \in Seq(Seq({})) /\ Len(p) = 0
    BY <2>1, EmptySeq
  <2>3. FlattenSeq(p) = <<>>
    BY <2>2, FlattenMeans
  <2>4. Contents = FlattenSeq(p)
    BY DEF Contents, p
  <2> QED BY <2>3, <2>4, EmptySeq
<1>5. Ahead(Contents, rest)
  BY <1>3, <1>4 DEF Ahead
<1>6. Seen = 0
  BY <1>3, <1>4 DEF Seen
<1>7. Loaded(Contents, 0, conf, curr)
  <2>1. 0 \in Nat /\ HeaderIn(Contents, 0) \in 0..0
    BY HeaderAt
  <2>2. HeaderIn(Contents, 0) = 0
    BY <2>1
  <2>3. {Contents[j] : j \in {i \in 1..0 : getSection(Contents[i])}} = {}
    OBVIOUS
  <2> QED BY <1>1, <1>2, <2>2, <2>3 DEF Loaded, SectionAt, Values
<1> QED BY <1>1, <1>2, <1>5, <1>6, <1>7 DEF ReadInv, FileMeant

(* Another line is still to be taken, all of it. *)
LEMMA LineKeeps ==
  ASSUME Width \in Nat \ {0}, NEW S, Blank \in S, Lines \subseteq Seq(S), ReadInv(S),
         NEW l \in Lines, Line(l)
  PROVE  ReadInv(S)'
<1> DEFINE q == Contents
           p == Pieces(l)
           n == Len(q)
           k == Count(rest')
<1>1. /\ phase = "reading" /\ rest = <<>> /\ file' = Append(file, l)
      /\ rest' = Append(l, Blank) /\ conf' = conf /\ curr' = curr /\ phase' = "reading"
  BY DEF Line
<1>2. /\ q \in Seq(Seq(S)) /\ q = FlattenSeq(PiecesOf(file)) /\ n \in Nat
  BY InvTypes
<1>3. /\ rest' \in Seq(S) /\ p \in Seq(Seq(S)) /\ Len(p) = k /\ k \in Nat
      /\ \A j \in 1..k : p[j] = Piece(rest', j)
  <2>1. l \in Seq(S)
    OBVIOUS
  <2>2. /\ rest' \in Seq(S) /\ p \in Seq(Seq(S)) /\ Len(p) = k
        /\ \A j \in 1..Len(p) : p[j] = Piece(rest', j)
    BY <2>1, <1>1, LineEnd
  <2>3. k \in Nat
    BY <2>2, PieceType
  <2> QED BY <2>2, <2>3
<1>4. Count(rest) = 0
  <2>1. Len(rest) = 0 /\ 0 \in Nat
    BY <1>1, EmptySeq
  <2> QED BY <2>1, Counts DEF Count
<1>5. file' \in Seq(Lines)
  BY <1>1, AppendProperties DEF ReadInv
<1>6. Contents' = q \o p
  <2>1. Contents' = FlattenSeq(PiecesOf(Append(file, l)))
    BY <1>1 DEF Contents, PiecesOf
  <2>2. file \in Seq(Lines)
    BY DEF ReadInv
  <2>3. FlattenSeq(PiecesOf(Append(file, l))) = FlattenSeq(PiecesOf(file)) \o Pieces(l)
    BY <2>2, FileGrows
  <2> QED BY <2>1, <2>3, <1>2
<1> HIDE DEF q, p, n, k
<1>7. /\ Len(Contents') = n + k
      /\ \A i \in 1..n : Contents'[i] = q[i]
      /\ \A j \in 1..k : Contents'[n + j] = p[j]
  <2> DEFINE c == q \o p
  <2>0. q \in Seq(Seq(S)) /\ p \in Seq(Seq(S)) /\ Len(q) = n /\ Len(p) = k
    BY <1>2, <1>3 DEF n
  <2>1. Len(c) = n + k /\ \A i \in 1..(n + k) : c[i] = IF i <= n THEN q[i] ELSE p[i - n]
    BY <2>0, ConcatProperties
  <2> HIDE DEF c
  <2>2. \A i \in 1..n : i \in 1..(n + k) /\ i <= n
    BY <1>2, <1>3 DEF n
  <2>3. \A j \in 1..k : n + j \in 1..(n + k) /\ ~(n + j <= n) /\ (n + j) - n = j
    BY <1>2, <1>3
  <2>4. \A i \in 1..n : c[i] = q[i]
    BY <2>1, <2>2
  <2>5. \A j \in 1..k : c[n + j] = p[j]
    BY <2>1, <2>3
  <2> QED BY <2>1, <2>4, <2>5, <1>6 DEF c
<1>8. (n + k) - k = n /\ k <= n + k
  BY <1>2, <1>3
<1>9. Ahead(Contents', rest')
  BY <1>3, <1>7, <1>8 DEF Ahead, k
<1>10. Seen = n /\ Seen' = n
  <2>1. Seen = n
    BY <1>2, <1>4 DEF Seen, n, q
  <2>2. Seen' = Len(Contents') - Count(rest')
    BY DEF Seen
  <2> QED BY <2>1, <2>2, <1>7, <1>8 DEF k
<1>11. Loaded(Contents', n, conf, curr)
  <2>1. Loaded(q, n, conf, curr)
    BY <1>1, <1>10 DEF ReadInv, q
  <2> QED BY <2>1, <1>2, <1>7, Agree
<1>12. (phase = "reading" => Loaded(Contents, Seen, conf, curr))'
  BY <1>1, <1>10, <1>11
<1>13. FileMeant'
  BY <1>1 DEF FileMeant
<1> QED BY <1>3, <1>5, <1>9, <1>12, <1>13 DEF ReadInv

(* The piece that is taken is the next of the contents, and means what the   *)
(* loop makes of it.                                                       *)
LEMMA FgetsKeeps ==
  ASSUME Width \in Nat \ {0}, NEW S, Blank \in S, Lines \subseteq Seq(S), ReadInv(S), Fgets
  PROVE  ReadInv(S)'
<1>1. PICK c : /\ c = Content(SubSeq(rest, 1, Least(Width, Len(rest))))
               /\ Ignore(c) \/ NewSection(c) \/ Item(c) \/ Invalid(c)
  BY DEF Fgets
<1>2. /\ phase = "reading" /\ rest # <<>> /\ rest' = SubSeq(rest, Width + 1, Len(rest))
      /\ file' = file
  BY DEF Fgets
<1> DEFINE n == Seen
           q == Contents
<1>3. /\ q \in Seq(Seq(S)) /\ Len(q) \in Nat /\ DOMAIN q = 1..Len(q) /\ n \in Nat
      /\ \A i \in 1..Len(q) : q[i] \in Seq(S)
  BY InvTypes
<1>4. /\ rest' \in Seq(S) /\ Count(rest) \in Nat \ {0} /\ Count(rest') = Count(rest) - 1
      /\ Piece(rest, 1) = c
      /\ \A j \in 1..Count(rest') : Piece(rest', j) = Piece(rest, j + 1)
  <2>1. rest \in Seq(S) /\ rest # <<>>
    BY <1>2 DEF ReadInv
  <2> DEFINE t == SubSeq(rest, Width + 1, Len(rest))
  <2>2. Leaves(S, rest, t)
    <3> HIDE DEF t
    <3>1. t = SubSeq(rest, Width + 1, Len(rest))
      BY DEF t
    <3> QED BY <2>1, <3>1, Taken
  <2> HIDE DEF t
  <2>3. rest' = t
    BY <1>2 DEF t
  <2> QED BY <2>2, <2>3, <1>1 DEF Leaves
<1>5. /\ Count(rest) <= Len(q) /\ n = Len(q) - Count(rest)
      /\ \A j \in 1..Count(rest) : q[n + j] = Piece(rest, j)
  BY DEF ReadInv, Ahead, Seen
<1>6. Loaded(q, n, conf, curr)
  BY <1>2 DEF ReadInv
<1>7. Contents' = q
  BY <1>2, SameFile
<1> HIDE DEF n, q
<1>8. n + 1 \in 1..Len(q) /\ q[n + 1] = c /\ q[n + 1] \in Seq(S)
  <2>1. n + 1 \in 1..Len(q) /\ 1 \in 1..Count(rest)
    BY <1>3, <1>4, <1>5
  <2> QED BY <2>1, <1>3, <1>4, <1>5
<1>9. Len(q) - Count(rest') = n + 1
  BY <1>3, <1>4, <1>5
<1>10. Ahead(q, rest')
  <2>1. Count(rest') <= Len(q)
    BY <1>3, <1>4, <1>5
  <2>2. ASSUME NEW j \in 1..Count(rest') PROVE q[(n + 1) + j] = Piece(rest', j)
    <3>1. j + 1 \in 1..Count(rest) /\ (n + 1) + j = n + (j + 1)
      BY <1>3, <1>4
    <3> QED BY <3>1, <1>4, <1>5
  <2> QED BY <2>1, <2>2, <1>9 DEF Ahead
<1>11. Seen' = n + 1
  <2>1. Seen' = Len(Contents') - Count(rest')
    BY DEF Seen
  <2> QED BY <2>1, <1>7, <1>9
<1>12. file' \in Seq(Lines)
  BY <1>2 DEF ReadInv
<1>13. (phase' = "reading" /\ Loaded(q, n + 1, conf', curr')) \/ (phase' = "refused" /\ ~Wellformed')
  <2>1. CASE Ignore(c)
    <3>1. q[n + 1] = <<>> /\ conf' = conf /\ curr' = curr /\ phase' = "reading"
      BY <2>1, <1>2, <1>8 DEF Ignore
    <3>2. Loaded(q, n + 1, conf, curr)
      BY <3>1, <1>3, <1>6, <1>8, IgnoreLoads
    <3> QED BY <3>1, <3>2
  <2>2. CASE NewSection(c)
    <3>1. /\ getSection(c) /\ c \notin DOMAIN conf /\ conf' = Put(conf, c, <<>>)
          /\ curr' = c /\ phase' = "reading"
      BY <2>2, <1>2 DEF NewSection
    <3>2. Loaded(q, n + 1, Put(conf, c, <<>>), c)
      BY <3>1, <1>3, <1>6, <1>8, SectionLoads
    <3> QED BY <3>1, <3>2
  <2>3. CASE Item(c)
    <3>1. /\ getKeyVal(c) /\ curr # <<>> /\ curr' = curr /\ phase' = "reading"
          /\ conf' = Put(conf, curr, Put(conf[curr], Head(c), Quoted(c)))
      BY <2>3, <1>2 DEF Item
    <3>2. Loaded(q, n + 1, Put(conf, curr, Put(conf[curr], Head(c), Quoted(c))), curr)
      BY <3>1, <1>3, <1>6, <1>8, ItemLoads
    <3> QED BY <3>1, <3>2
  <2>4. CASE Invalid(c)
    <3>1. /\ c # <<>> /\ phase' = "refused"
          /\ IF getSection(c) THEN c \in DOMAIN conf ELSE ~getKeyVal(c) \/ curr = <<>>
      BY <2>4 DEF Invalid
    <3>2. ~WellIn(q, n + 1)
      BY <3>1, <1>3, <1>6, <1>8, RefusedIsBad
    <3>3. ~Wellformed
      <4>1. \A j : Header(j) = HeaderIn(q, j)
        BY DEF Header, HeaderIn, q
      <4> QED BY <4>1, <3>2, <1>3, <1>8 DEF Wellformed, WellIn, q
    <3> QED BY <3>1, <3>3, <1>2, SameFile
  <2> QED BY <1>1, <2>1, <2>2, <2>3, <2>4
<1>14. (phase = "reading" => Loaded(Contents, Seen, conf, curr))'
  BY <1>7, <1>11, <1>13
<1>15. FileMeant'
  BY <1>13 DEF FileMeant
<1> QED BY <1>4, <1>7, <1>10, <1>12, <1>14, <1>15 DEF ReadInv

(* At the file's end the map is what the file says, and decides. *)
LEMMA AnalyseKeeps ==
  ASSUME Width \in Nat \ {0}, NEW S, Blank \in S, Lines \subseteq Seq(S), ReadInv(S), Analyse
  PROVE  ReadInv(S)'
<1> DEFINE Keys == IntKey \cup {"first_send_cnt"}
<1>1. /\ phase = "reading" /\ rest = <<>> /\ file' = file /\ rest' = rest /\ conf' = conf
      /\ curr' = curr /\ (phase' = "ready" \/ phase' = "refused")
      /\ phase' = "ready" <=> Global \in DOMAIN conf /\ Fits(conf[Global])
      /\ phase' = "ready" =>
           config' = [k \in Keys |->
                        IF getKeyInt(conf[Global], k) THEN conf[Global][Key(k)][1][2] ELSE "1"]
  BY DEF Analyse
<1>2. Contents \in Seq(Seq(S)) /\ Len(Contents) \in Nat
  BY InvTypes
<1>3. Seen = Len(Contents)
  <2>1. Len(rest) = 0 /\ 0 \in Nat
    BY <1>1, EmptySeq
  <2>2. Count(rest) = 0
    BY <2>1, Counts DEF Count
  <2> QED BY <2>2, <1>2 DEF Seen
<1>4. Loaded(Contents, Len(Contents), conf, curr)
  BY <1>1, <1>3 DEF ReadInv
<1>5. /\ Wellformed
      /\ Global \in DOMAIN conf =>
           \A k : /\ getKeyInt(conf[Global], k) <=> Given(k)
                  /\ Given(k) => conf[Global][Key(k)][1][2] = Setting(k)[1][2]
      /\ Global \in DOMAIN conf /\ Fits(conf[Global])
         <=> /\ Settings("password") # {} /\ Setting("password") = <<Value("123456")>>
             /\ \A k \in IntKey : Given(k)
  BY <1>2, <1>4, Looks
<1>6. phase' = "ready" => config' = [k \in Keys |-> IF Given(k) THEN Setting(k)[1][2] ELSE "1"]
  BY <1>1, <1>5
<1>7. /\ Contents' = Contents /\ (Wellformed' <=> Wellformed)
      /\ \A k : Settings(k)' = Settings(k) /\ Setting(k)' = Setting(k) /\ (Given(k)' <=> Given(k))
  BY <1>1, SameFile
<1>8. FileMeant'
  <2>1. phase' = "ready" <=> /\ Wellformed' /\ Settings("password")' # {}
                             /\ Setting("password")' = <<Value("123456")>>
                             /\ \A k \in IntKey : Given(k)'
    BY <1>1, <1>5, <1>7
  <2>2. phase' = "ready" =>
          config' = [k \in Keys |-> IF Given(k)' THEN Setting(k)'[1][2] ELSE "1"]
    BY <1>6, <1>7
  <2> QED BY <2>1, <2>2 DEF FileMeant
<1>9. file' \in Seq(Lines) /\ rest' \in Seq(S) /\ Ahead(Contents, rest)'
  BY <1>1, <1>7 DEF ReadInv, Ahead
<1>10. phase' # "reading"
  BY <1>1
<1> QED BY <1>8, <1>9, <1>10 DEF ReadInv

(* The server starts exactly with a file that says all it needs, and with     *)
(* what the file says: for any lines, any length of the buffer and any keys   *)
(* (Parser::parse and analyseGlobal, Server::init).                         *)
THEOREM FileRead == FileSpec => []FileMeant
<1> DEFINE S == (UNION {ToSet(l) : l \in Lines}) \cup {Blank}
<1>0. Width \in Nat \ {0}
  BY ParserAssumption
<1>1. Blank \in S /\ Lines \subseteq Seq(S)
  <2>1. \A l \in Lines : l \in Seq(ToSet(l)) /\ ToSet(l) \subseteq S
    BY ParserAssumption
  <2>2. Blank \in S
    OBVIOUS
  <2> HIDE DEF S
  <2>3. ASSUME NEW l \in Lines PROVE l \in Seq(S)
    <3>1. Seq(ToSet(l)) \subseteq Seq(S)
      BY <2>1, SeqMonotonic
    <3> QED BY <2>1, <3>1
  <2> QED BY <2>2, <2>3
<1> HIDE DEF S
<1>2. FileInit => ReadInv(S)
  BY <1>0, ReadInit
<1>3. ReadInv(S) /\ [FileNext]_fileVars => ReadInv(S)'
  <2> SUFFICES ASSUME ReadInv(S), [FileNext]_fileVars PROVE ReadInv(S)'
    OBVIOUS
  <2>1. ASSUME NEW l \in Lines, Line(l) PROVE ReadInv(S)'
    BY <2>1, <1>0, <1>1, LineKeeps
  <2>2. CASE Fgets
    BY <2>2, <1>0, <1>1, FgetsKeeps
  <2>3. CASE Analyse
    BY <2>3, <1>0, <1>1, AnalyseKeeps
  <2>4. CASE UNCHANGED fileVars
    <3>1. file' = file /\ rest' = rest /\ conf' = conf /\ curr' = curr /\ phase' = phase
          /\ config' = config
      BY <2>4 DEF fileVars
    <3>2. /\ Contents' = Contents /\ (Wellformed' <=> Wellformed)
          /\ \A k : Settings(k)' = Settings(k) /\ Setting(k)' = Setting(k) /\ (Given(k)' <=> Given(k))
      BY <3>1, SameFile
    <3>3. FileMeant'
      BY <3>1, <3>2 DEF ReadInv, FileMeant
    <3>4. Seen' = Seen
      BY <3>1, <3>2 DEF Seen
    <3> QED BY <3>1, <3>2, <3>3, <3>4 DEF ReadInv, Ahead
  <2> QED BY <2>1, <2>2, <2>3, <2>4 DEF FileNext
<1>4. ReadInv(S) => FileMeant
  BY DEF ReadInv
<1> QED BY <1>2, <1>3, <1>4, PTL DEF FileSpec
===============================================================================
