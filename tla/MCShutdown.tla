------------------------------ MODULE MCShutdown ------------------------------
(* A server's beginning and end: the configuration it starts with (Parser),   *)
(* its threads (Shutdown), and what they sleep in meanwhile (Waiter), each     *)
(* with an instance of its own.  A start needs the configuration's verdict,    *)
(* and a stop that a stopped pool leaves its loop; nothing else is shared, so  *)
(* a behaviour runs one of them and leaves the others alone.                  *)
EXTENDS Shutdown, Parser

CONSTANT MaxCount

ASSUME WaiterAssumption == MaxCount \in Nat \ {0}

VARIABLES part,
          kind, place, count, edge, reader, rung    \* Waiter

waitVars == <<kind, place, count, edge, reader, rung>>
partVars == <<part, vars, waitVars, fileVars>>

Wake == INSTANCE Waiter

\* sections, good and bad values, comments, and comments longer than a piece
MCLines ==
  LET S(s) == Section(s)
      K(k) == Key(k)
      V(v) == Value(v)
      H == Hash
      B == Blank
      T == <<"text", "">>
  IN { <<S("global")>>, <<B, S("other"), H, T>>, <<S("global"), S("other")>>,
       <<K("password"), V("123456"), B, H, T>>, <<K("password"), V("1")>>,
       <<K("log_level"), B, V("1")>>, <<K("log_level"), V("no")>>,
       <<B, K("log_level"), V("2"), V("no")>>, <<K("first_send_cnt"), V("2")>>,
       <<K("password"), T, H, T>>, <<T>>, <<>>, <<H, T, T, T>>,
       <<H, T, T, T, T, T>>, <<H, T, T, T, T, K("log_level"), V("3")>> }

Stopping == part = "stop" /\ UNCHANGED <<part, waitVars, fileVars>>
Waiting  == part = "wait" /\ UNCHANGED <<part, vars, fileVars>>
Reading  == part = "read" /\ UNCHANGED <<part, vars, waitVars>>

PartInit == /\ part \in {"read", "stop", "wait"}
            /\ Init /\ Wake!Init /\ FileInit
            /\ part # "wait" => kind = "event"

PartNext == \/ Next /\ Stopping
            \/ Wake!Next /\ Waiting
            \/ FileNext /\ Reading

PartSpec ==
  /\ PartInit /\ [][PartNext]_partVars
  /\ WF_partVars(MainStep /\ Stopping)
  /\ \A p \in Pool : WF_partVars(PoolStep(p) /\ Stopping)
  /\ \A t \in Thread : WF_partVars(HandlerStep(t) /\ Stopping)
  /\ WF_partVars(Wake!Thread /\ Waiting)

(* An alarm ends the thread's wait or the next one (Waiter). *)
WaitEnds == Wake!WaitEnds
=============================================================================
