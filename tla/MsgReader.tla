------------------------------ MODULE MsgReader ------------------------------
(***************************************************************************)
(* MsgReader of sockobj.cpp: cutting the byte stream of one connection into *)
(* messages.  The stream arrives in pieces of any size; the position inside *)
(* a message survives between pieces in SockBase (m_rdlen, the header       *)
(* bytes so far, and m_rcv_dummy, the message under construction).         *)
(*                                                                         *)
(* A byte is a pair <<k, o>>: the o-th byte of the k-th message; the length *)
(* field of a header is read off its first byte, and a header that is not   *)
(* the first HdrLen bytes of one message is not valid.  Each action is a    *)
(* piece of the code between two branches; a read runs from Recv until pc   *)
(* is "recv" or "failed" again.                                            *)
(***************************************************************************)
EXTENDS Naturals, Sequences, SequencesExt

CONSTANTS HdrLen,    \* DEF_MSG_HEADER_SIZE
          MaxSize,   \* MAX_MSG_SIZE
          RecvMax,   \* DEF_TCP_RCV_BUF_SIZE
          Lengths    \* the sequences of message lengths the peer may send

ASSUME ReaderAssumption ==
  /\ HdrLen \in Nat \ {0} /\ MaxSize \in Nat /\ RecvMax \in Nat \ {0}
  /\ \A ls \in Lengths : ls \in Seq(Nat)
  /\ \A ls \in Lengths : \A k \in DOMAIN ls : ls[k] >= HdrLen

VARIABLES
  lens,      \* the lengths of the messages the peer sends
  wire,      \* the bytes sent and not yet received
  pc,        \* where the receiver is in MsgReader::read
  buf,       \* what parse has not consumed of MsgReader::m_buf
  rdlen,     \* SockBase.m_rdlen
  hdr,       \* SockBase.m_buf, the union with m_hdr
  dummy,     \* SockBase.m_rcv_dummy: its capacity and the bytes up to m_pos
  out        \* history: the messages given to Director::dispatch

Null    == [cap |-> 0, data |-> <<>>]
Bytes(k) == [o \in 1..lens[k] |-> <<k, o>>]

(* the bytes of the first n messages *)
Stream(n) == FlattenSeq([k \in 1..n |-> Bytes(k)])

Fresh ==
  /\ lens \in Lengths
  /\ pc = "recv" /\ buf = <<>> /\ rdlen = 0
  /\ hdr = [i \in 1..HdrLen |-> <<0, 0>>]
  /\ dummy = Null /\ out = <<>>

-----------------------------------------------------------------------------
Prefix(s, n) == SubSeq(s, 1, n)
Rest(s, n)   == SubSeq(s, n + 1, Len(s))

(* memcpy of s over h from offset n *)
Overlay(h, n, s) ==
  [i \in 1..HdrLen |-> IF i > n /\ i <= n + Len(s) THEN s[i - n] ELSE h[i]]

(* chkHeader *)
ValidHeader(h) ==
  /\ \A i \in 1..HdrLen : h[i] = <<h[1][1], i>>
  /\ HdrLen < lens[h[1][1]] /\ lens[h[1][1]] < MaxSize

NewMsg(h, data) == [cap |-> lens[h[1][1]], data |-> data]
Left == dummy.cap - Len(dummy.data)

Fail == pc' = "failed" /\ UNCHANGED <<buf, rdlen, dummy, out>>

(* Director::dispatch of the finished message: m_rdlen starts over *)
Dispatch(data) == out' = Append(out, data) /\ dummy' = Null /\ rdlen' = 0

-----------------------------------------------------------------------------
(* recvTcp returned n bytes *)
Recv(n) ==
  /\ pc = "recv" /\ n <= Len(wire)
  /\ buf' = Prefix(wire, n) /\ wire' = Rest(wire, n)
  /\ pc' = "parse"
  /\ UNCHANGED <<lens, rdlen, hdr, dummy, out>>

(* parse: the header is still incomplete with these bytes *)
ParseShort ==
  /\ pc = "parse" /\ rdlen < HdrLen /\ Len(buf) < HdrLen - rdlen
  /\ hdr' = Overlay(hdr, rdlen, buf)
  /\ rdlen' = rdlen + Len(buf)
  /\ buf' = <<>> /\ pc' = "recv"
  /\ UNCHANGED <<lens, wire, dummy, out>>

(* parse: the header is completed by the first bytes *)
ParseHeader ==
  /\ pc = "parse" /\ rdlen < HdrLen /\ Len(buf) >= HdrLen - rdlen
  /\ hdr' = Overlay(hdr, rdlen, Prefix(buf, HdrLen - rdlen))
  /\ IF ValidHeader(hdr')
     THEN /\ dummy' = NewMsg(hdr', hdr')
          /\ buf' = Rest(buf, HdrLen - rdlen)
          /\ rdlen' = HdrLen /\ pc' = "body"
          /\ UNCHANGED out
     ELSE Fail
  /\ UNCHANGED <<lens, wire>>

(* parse: a message was under construction *)
ParseOn ==
  /\ pc = "parse" /\ rdlen >= HdrLen
  /\ pc' = "body"
  /\ UNCHANGED <<lens, wire, buf, rdlen, hdr, dummy, out>>

(* parseBody: the bytes finish the message, or all belong to it *)
BodyDone ==
  /\ pc = "body" /\ Left <= Len(buf)
  /\ Dispatch(dummy.data \o Prefix(buf, Left))
  /\ buf' = Rest(buf, Left) /\ pc' = "next"
  /\ UNCHANGED <<lens, wire, hdr>>

\* as a fault: the bytes are written without advancing the position
BodyPartOver ==
  /\ pc = "body" /\ Left > Len(buf)
  /\ dummy' = [dummy EXCEPT !.data = buf]
  /\ buf' = <<>> /\ pc' = "recv"
  /\ UNCHANGED <<lens, wire, rdlen, hdr, out>>

BodyPart ==
  /\ pc = "body" /\ Left > Len(buf)
  /\ dummy' = [dummy EXCEPT !.data = @ \o buf]
  /\ buf' = <<>> /\ pc' = "recv"
  /\ UNCHANGED <<lens, wire, rdlen, hdr, out>>

(* parseNextBody: one turn of its loop *)
NextDone ==
  /\ pc = "next" /\ buf = <<>>
  /\ pc' = "recv"
  /\ UNCHANGED <<lens, wire, buf, rdlen, hdr, dummy, out>>

NextWhole ==
  /\ pc = "next" /\ Len(buf) >= HdrLen
  /\ LET h == Prefix(buf, HdrLen)
         n == lens[h[1][1]]
     IN IF ~ValidHeader(h) THEN Fail
        ELSE IF n <= Len(buf)
        THEN /\ Dispatch(Prefix(buf, n))
             /\ buf' = Rest(buf, n)
             /\ UNCHANGED pc
        ELSE /\ dummy' = NewMsg(h, buf)
             /\ rdlen' = HdrLen /\ buf' = <<>>
             /\ UNCHANGED <<pc, out>>
  /\ UNCHANGED <<lens, wire, hdr>>

NextShort ==
  /\ pc = "next" /\ buf # <<>> /\ Len(buf) < HdrLen
  /\ hdr' = Overlay(hdr, 0, buf)
  /\ rdlen' = Len(buf) /\ buf' = <<>>
  /\ UNCHANGED <<lens, wire, pc, dummy, out>>

Parse == \/ ParseShort \/ ParseHeader \/ ParseOn \/ BodyDone \/ BodyPart
         \/ NextDone \/ NextWhole \/ NextShort

-----------------------------------------------------------------------------
(* Properties *)

(* Every message given to the dealer is one the peer sent, whole and        *)
(* untouched, in the order sent, whatever the fragments; and what is kept   *)
(* between two pieces fits where the code keeps it, the header's bytes in   *)
(* m_buf and the body's in a message below the maximal size (sockobj.cpp:48).*)
Framed ==
  /\ \A k \in DOMAIN out : k \in DOMAIN lens /\ out[k] = Bytes(k)
  /\ rdlen <= HdrLen
  /\ dummy # Null => dummy.cap < MaxSize /\ Len(dummy.data) <= dummy.cap

Partial == IF dummy = Null THEN Prefix(hdr, rdlen) ELSE dummy.data
=============================================================================
