------------------------------ MODULE MCMsgPipe ------------------------------
(* Up to three messages, of lengths around both bounds of chkHeader; after a  *)
(* message that is refused, at most one of each good length.                 *)
EXTENDS MsgPipe

GoodLens == {HdrLen + 1, MaxSize - 1}
BadLens  == {HdrLen, MaxSize}
Streams(n) == [1..n -> GoodLens]

MCLengths ==
  LET stopped == {s \o <<b>> : s \in UNION {Streams(n) : n \in 0..2}, b \in BadLens}
  IN UNION {Streams(n) : n \in 0..3} \cup stopped
       \cup {Append(s, g) : s \in {t \in stopped : Len(t) < 3}, g \in GoodLens}
=============================================================================
