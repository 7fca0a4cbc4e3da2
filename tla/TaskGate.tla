------------------------------- MODULE TaskGate -------------------------------
(***************************************************************************)
(* What a pool promises to the code above it, task by task, with no words,  *)
(* queues or doors: a task is idle, ready, running, parked on an event, or  *)
(* out of the pool for good.  Requests made while it runs are remembered;   *)
(* a parked task only hears the event it waits for, and its end; the end    *)
(* outranks every other request and is the last thing that happens.         *)
(***************************************************************************)
EXTENDS TaskDoor

CONSTANT Task

VARIABLES req,    \* the events requested since the task was last started
          stage,  \* idle, ready, running, parked, ended, dropped
          await   \* the event a parked task waits for (NORM when not parked)

gateVars == <<req, stage, await>>

Init ==
  /\ req = [t \in Task |-> {}]
  /\ stage = [t \in Task |-> "idle"]
  /\ await = [t \in Task |-> NORM]

AddRequest(r, ev) == IF ev = END \/ END \in r THEN {END} ELSE r \cup {ev}

Awakes(t, ev) ==
  stage[t] = "idle" \/ (stage[t] = "parked" /\ ev \in {await[t], END})

(* addTask, endTask: ignored once the task is out *)
Raise(t, ev) ==
  /\ stage[t] \notin {"ended", "dropped"}
  /\ req' = [req EXCEPT ![t] = AddRequest(@, ev)]
  /\ stage' = [stage EXCEPT ![t] = IF Awakes(t, ev) THEN "ready" ELSE @]
  /\ await' = [await EXCEPT ![t] = IF Awakes(t, ev) THEN NORM ELSE @]

(* procTask is called: it answers all requests made so far *)
Begin(t) ==
  /\ stage[t] = "ready" /\ END \notin req[t]
  /\ req' = [req EXCEPT ![t] = {}]
  /\ stage' = [stage EXCEPT ![t] = "running"]
  /\ UNCHANGED await

(* procTaskEnd is called *)
Finish(t) ==
  /\ stage[t] = "ready" /\ END \in req[t]
  /\ req' = [req EXCEPT ![t] = {}]
  /\ stage' = [stage EXCEPT ![t] = "ended"]
  /\ UNCHANGED await

Move(t, s, ev) ==
  /\ stage[t] = "running"
  /\ stage' = [stage EXCEPT ![t] = s]
  /\ await' = [await EXCEPT ![t] = ev]

(* procTask returns *)
Rest(t) ==
  /\ Move(t, IF req[t] = {} THEN "idle" ELSE "ready", NORM)
  /\ UNCHANGED req
Again(t) == Move(t, "ready", NORM) /\ UNCHANGED req
Park(t, ev) ==
  /\ IF req[t] \cap {ev, END} = {} THEN Move(t, "parked", ev)
                                    ELSE Move(t, "ready", NORM)
  /\ UNCHANGED req
Drop(t) == Move(t, "dropped", NORM) /\ req' = [req EXCEPT ![t] = {}]

Next ==
  \E t \in Task :
    \/ \E ev \in Event : Raise(t, ev)
    \/ Begin(t) \/ Finish(t)
    \/ Rest(t) \/ Again(t) \/ Drop(t)
    \/ \E ev \in ParkEvents : Park(t, ev)

Spec == Init /\ [][Next]_gateVars
=============================================================================
