------------------------------ MODULE MCTaskPool ------------------------------
(* Small instances of TaskPool for TLC, and its refinement of TaskGate. *)
EXTENDS TaskPool

MCSymmetry == Permutations(Task) \cup Permutations(Producer)

(* What a pool's client may rely on, read off the pool's state. *)
Parked(t) == Live(t) /\ word[t] # Zero /\ ~Armed(word[t])

Requests(t) == IF ~Live(t) THEN {}
               ELSE IF IsEof(word[t]) THEN {END} ELSE word[t].low \ {LOCK}

Stage(t) == IF ~Live(t) THEN fate[t]
            ELSE IF curr = t /\ wpc = "run" THEN "running"
            ELSE IF word[t] = Zero THEN "idle"
            ELSE IF Armed(word[t]) THEN "ready" ELSE "parked"

Awaited(t) == IF Parked(t) THEN CHOOSE ev \in word[t].high : TRUE ELSE NORM

Gate == INSTANCE TaskGate WITH req   <- [t \in Task |-> Requests(t)],
                               stage <- [t \in Task |-> Stage(t)],
                               await <- [t \in Task |-> Awaited(t)]

(* The pool implements TaskGate: every step of a producer or of the         *)
(* consumer is a step of the gate, or invisible to it.                     *)
GateSpec == Gate!Spec
=============================================================================
