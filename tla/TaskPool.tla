------------------------------- MODULE TaskPool -------------------------------
(***************************************************************************)
(* One pool of the server (receiver, sender, dealer or director): the       *)
(* thread of Tasker::run that consumes tasks, and the other threads that    *)
(* raise events on tasks with TaskWorker::addTask and endTask.              *)
(*                                                                         *)
(* The steps are the atomic operations and critical sections of the code:   *)
(* a producer raises a bit (checkin), pushes the task if it was first,      *)
(* raises LOGIN on the thread's door, and rings the waiter if it was first  *)
(* there and the thread is running; the consumer closes the door, splices   *)
(* the shared queue, walks its private list and waits.  What procTask does  *)
(* is abstracted to its result, one of Results.                             *)
(***************************************************************************)
EXTENDS TaskDoor, SequencesExt

CONSTANTS Task,        \* the tasks of one kind, one per node
          Producer,    \* threads that call addTask and endTask
          Results,     \* what the pool's procTask may return
          NoTask       \* no task is current

ASSUME PoolAssumption == /\ NoTask \notin Task
                         /\ Results \subseteq {NORM, STAY, OUT} \cup ParkEvents

VARIABLES
  word,       \* Task.m_state
  lockq,      \* Pooler.m_lock_root, guarded by LockPooler.m_lock
  kept,       \* the part of m_safe_root the walk has passed and kept
  todo,       \* the part of m_safe_root the walk has not reached
  curr, out,  \* consume's curr, and done: it must be unlinked
  wpc,        \* where the pool's thread is in Tasker::run
  door,       \* Tasker.m_door
  running,    \* Tasker.m_running
  signal,     \* the waiter's event counter is not zero
  ppc, ptask, \* where each producer is in addTask, and the task it adds
  spc,        \* where the thread that calls stopRun is
  endReq,     \* history: the tasks endTask was called for
  fate        \* history: "live", "ended" (procTaskEnd), "dropped" (OUT)

taskVars == <<word, endReq>>
listVars == <<kept, todo, curr, out>>
workVars == <<listVars, wpc, fate>>
prodVars == <<ppc, ptask>>
vars == <<taskVars, lockq, workVars, door, running, signal, prodVars, spc>>

WorkerPC   == {"start", "lock", "test", "splice", "walk", "run", "ending",
               "unlink", "release", "wait", "gone"}
ProducerPC == {"idle", "push", "login", "fire"}

Init ==
  /\ word = [t \in Task |-> Zero]
  /\ lockq = <<>> /\ kept = <<>> /\ todo = <<>>
  /\ curr = NoTask /\ out = FALSE
  /\ wpc = "start" /\ door = {} /\ running = FALSE
  /\ signal = TRUE                          \* eventfd(1, EFD_NONBLOCK)
  /\ ppc = [p \in Producer |-> "idle"]
  /\ ptask = [p \in Producer |-> NoTask]
  /\ spc = "idle"
  /\ endReq = {}
  /\ fate = [t \in Task |-> "live"]

-----------------------------------------------------------------------------
(* Producers: TaskWorker::addTask / endTask, Pooler::add, Tasker::resume    *)

\* as a fault: the task to push is not remembered
CheckinNoTask(p, t, ev) ==
  /\ ppc[p] = "idle"
  /\ word' = [word EXCEPT ![t] = CheckinWord(@, ev)]
  /\ ppc' = [ppc EXCEPT ![p] = IF CheckinFirst(word[t], ev) THEN "push" ELSE @]
  /\ endReq' = IF ev = END THEN endReq \cup {t} ELSE endReq
  /\ UNCHANGED <<lockq, workVars, door, running, signal, ptask, spc>>

Checkin(p, t, ev) ==
  /\ ppc[p] = "idle"
  /\ word' = [word EXCEPT ![t] = CheckinWord(@, ev)]
  /\ IF CheckinFirst(word[t], ev)
     THEN /\ ppc' = [ppc EXCEPT ![p] = "push"]
          /\ ptask' = [ptask EXCEPT ![p] = t]
     ELSE UNCHANGED prodVars
  /\ endReq' = IF ev = END THEN endReq \cup {t} ELSE endReq
  /\ UNCHANGED <<lockq, workVars, door, running, signal, spc>>

Push(p) ==
  /\ ppc[p] = "push"
  /\ lockq' = Append(lockq, ptask[p])
  /\ ppc' = [ppc EXCEPT ![p] = "login"]
  /\ ptask' = [ptask EXCEPT ![p] = NoTask]
  /\ UNCHANGED <<taskVars, workVars, door, running, signal, spc>>

LoginDoor(p) ==
  /\ ppc[p] = "login"
  /\ door' = Login(door)
  /\ ppc' = [ppc EXCEPT ![p] = IF LoginFirst(door) THEN "fire" ELSE "idle"]
  /\ UNCHANGED <<taskVars, lockq, workVars, running, signal, ptask, spc>>

Alarm(p) ==
  /\ ppc[p] = "fire"
  /\ signal' = (signal \/ running)
  /\ ppc' = [ppc EXCEPT ![p] = "idle"]
  /\ UNCHANGED <<taskVars, lockq, workVars, door, running, ptask, spc>>

\* as a fault: the thread is not woken to see the flag
StopNoAlarm ==
  /\ spc = "idle" /\ running
  /\ running' = FALSE
  /\ spc' = "done"
  /\ UNCHANGED <<taskVars, lockq, workVars, door, signal, prodVars>>

(* Tasker::stopRun: nothing happens before run has set m_running *)
StopRun ==
  /\ spc = "idle" /\ running
  /\ running' = FALSE
  /\ spc' = "fire"
  /\ UNCHANGED <<taskVars, lockq, workVars, door, signal, prodVars>>

StopAlarm ==
  /\ spc = "fire"
  /\ signal' = TRUE
  /\ spc' = "done"
  /\ UNCHANGED <<taskVars, lockq, workVars, door, running, prodVars>>

-----------------------------------------------------------------------------
(* The pool's thread: Tasker::run, TaskWorker::doTasks, Pooler::consume     *)

Start ==
  /\ wpc = "start"
  /\ running' = TRUE
  /\ wpc' = "lock"
  /\ UNCHANGED <<taskVars, lockq, listVars, fate, door, signal, prodVars, spc>>

LockDoor ==
  /\ wpc = "lock"
  /\ door' = DoorLocked
  /\ wpc' = "test"
  /\ UNCHANGED <<taskVars, lockq, listVars, fate, running, signal, prodVars, spc>>

\* as a fault: the loop does not test m_running
RunForever ==
  /\ wpc = "test"
  /\ wpc' = "splice"
  /\ UNCHANGED <<taskVars, lockq, listVars, fate, door, running, signal,
                 prodVars, spc>>

TestRunning ==
  /\ wpc = "test"
  /\ wpc' = IF running THEN "splice" ELSE "gone"
  /\ UNCHANGED <<taskVars, lockq, listVars, fate, door, running, signal,
                 prodVars, spc>>

Splice ==
  /\ wpc = "splice"
  /\ todo' = kept \o lockq
  /\ kept' = <<>> /\ lockq' = <<>>
  /\ wpc' = "walk"
  /\ UNCHANGED <<taskVars, curr, out, fate, door, running, signal, prodVars, spc>>

(* lock the next task; an end request outranks everything it asked before *)
EnterTask ==
  /\ wpc = "walk" /\ todo # <<>>
  /\ LET t == Head(todo) IN
       /\ curr' = t
       /\ word' = [word EXCEPT ![t] = Locked]
       /\ wpc' = IF IsEof(word[t]) THEN "ending" ELSE "run"
       /\ fate' = IF IsEof(word[t]) THEN [fate EXCEPT ![t] = "ended"] ELSE fate
  /\ todo' = Tail(todo)
  /\ UNCHANGED <<lockq, kept, out, door, running, signal, prodVars, spc, endReq>>

(* procTask returns ret: release or checkout *)
LeaveTask(ret) ==
  /\ wpc = "run"
  /\ word' = [word EXCEPT ![curr] = ResultWord(@, ret)]
  /\ out' = ResultOut(word[curr], ret)
  /\ fate' = IF ret = OUT THEN [fate EXCEPT ![curr] = "dropped"] ELSE fate
  /\ wpc' = "unlink"
  /\ UNCHANGED <<lockq, kept, todo, curr, door, running, signal, prodVars, spc,
                 endReq>>

\* as a fault: an ended task is kept in the list
KeepEnded ==
  /\ wpc = "ending"
  /\ out' = FALSE
  /\ wpc' = "unlink"
  /\ UNCHANGED <<taskVars, lockq, kept, todo, curr, fate, door, running, signal,
                 prodVars, spc>>

(* procTaskEnd returns: the task leaves the queue with its door locked *)
LeaveEnd ==
  /\ wpc = "ending"
  /\ out' = TRUE
  /\ wpc' = "unlink"
  /\ UNCHANGED <<taskVars, lockq, kept, todo, curr, fate, door, running, signal,
                 prodVars, spc>>

Unlink ==
  /\ wpc = "unlink"
  /\ kept' = IF out THEN kept ELSE Append(kept, curr)
  /\ curr' = NoTask /\ out' = FALSE
  /\ wpc' = "walk"
  /\ UNCHANGED <<taskVars, lockq, todo, fate, door, running, signal, prodVars,
                 spc>>

\* as a fault: the thread may sleep with tasks in its list
SleepAnyway ==
  /\ wpc = "walk" /\ todo = <<>>
  /\ wpc' = "release"
  /\ UNCHANGED <<taskVars, lockq, listVars, fate, door, running, signal,
                 prodVars, spc>>

EndWalk ==
  /\ wpc = "walk" /\ todo = <<>>
  /\ wpc' = IF kept = <<>> THEN "release" ELSE "lock"   \* else check()
  /\ UNCHANGED <<taskVars, lockq, listVars, fate, door, running, signal,
                 prodVars, spc>>

ReleaseDoor ==
  /\ wpc = "release"
  /\ door' = DoorRelease(door)
  /\ wpc' = IF DoorFree(door) THEN "wait" ELSE "lock"   \* else check()
  /\ UNCHANGED <<taskVars, lockq, listVars, fate, running, signal, prodVars, spc>>

(* EventWaiter::wait: poll until the counter is not zero, read it to zero *)
Wake ==
  /\ wpc = "wait" /\ signal
  /\ signal' = FALSE
  /\ wpc' = "lock"
  /\ UNCHANGED <<taskVars, lockq, listVars, fate, door, running, prodVars, spc>>

(* The wait ends without an alarm: a signal handler interrupted the poll, or *)
(* the director's epoll_wait reached its timeout.  Nothing depends on it.   *)
WakeEarly ==
  /\ wpc = "wait"
  /\ wpc' = "lock"
  /\ UNCHANGED <<taskVars, lockq, listVars, fate, door, running, signal,
                 prodVars, spc>>

-----------------------------------------------------------------------------
Worker == \/ Start \/ LockDoor \/ TestRunning \/ Splice \/ EnterTask
          \/ (\E ret \in Results : LeaveTask(ret)) \/ LeaveEnd \/ Unlink
          \/ EndWalk \/ ReleaseDoor \/ Wake

Resume(p) == Push(p) \/ LoginDoor(p) \/ Alarm(p)

Call(p) == \E t \in Task, ev \in Event : Checkin(p, t, ev)

Next == \/ Worker
        \/ \E p \in Producer : Resume(p) \/ Call(p)
        \/ StopRun \/ StopAlarm \/ WakeEarly

Spec == Init /\ [][Next]_vars

(* A thread that is inside the pool's code keeps running, and procTask      *)
(* returns; nobody has to call addTask, endTask or stopRun.                 *)
Fairness == /\ WF_vars(Worker)
            /\ \A p \in Producer : WF_vars(Resume(p))
            /\ WF_vars(StopAlarm)

FairSpec == Spec /\ Fairness

-----------------------------------------------------------------------------
(* Properties *)

Live(t)  == fate[t] = "live"
Handed(t) == \E p \in Producer : ppc[p] = "push" /\ ptask[p] = t
Held(t)  == curr = t /\ (wpc = "run" \/ (wpc = "unlink" /\ ~out))
Queued(t) == t \in ToSet(lockq) \cup ToSet(kept) \cup ToSet(todo)

TypeOK ==
  /\ word \in [Task -> Word]
  /\ lockq \in Seq(Task) /\ kept \in Seq(Task) /\ todo \in Seq(Task)
  /\ curr \in Task \cup {NoTask} /\ out \in BOOLEAN
  /\ wpc \in WorkerPC /\ door \in SUBSET DoorFlag
  /\ running \in BOOLEAN /\ signal \in BOOLEAN
  /\ ppc \in [Producer -> ProducerPC]
  /\ ptask \in [Producer -> Task \cup {NoTask}]
  /\ spc \in {"idle", "fire", "done"}
  /\ endReq \in SUBSET Task
  /\ fate \in [Task -> {"live", "ended", "dropped"}]


Apart(s, r) == ToSet(s) \cap ToSet(r) = {}

(* The intrusive list node of a task is in one place only: a task is never  *)
(* pushed while it is queued, walked or in another producer's hand          *)
(* (tasker.cpp:137-181, pushNode would cut the queue behind it).           *)
OnePlace ==
  /\ IsInjective(lockq) /\ IsInjective(kept) /\ IsInjective(todo)
  /\ Apart(lockq, kept) /\ Apart(lockq, todo) /\ Apart(kept, todo)
  /\ \A t \in Task : Held(t) => ~Queued(t)
  /\ \A p \in Producer : ppc[p] = "push" =>
       /\ ~Queued(ptask[p]) /\ ~Held(ptask[p])
       /\ \A q \in Producer : ppc[q] = "push" /\ ptask[q] = ptask[p] => p = q

(* The word and the queue agree: a task with an unserved request has its    *)
(* place in the queue (no event is lost), and no other task has one: not a  *)
(* sleeping one, not one whose end was taken (no spurious run).            *)
PlaceIffArmed ==
  \A t \in Task : (Handed(t) \/ Queued(t) \/ Held(t)) <=> (Live(t) /\ Armed(word[t]))

(* Once endTask was called for a task its end cannot be forgotten: until    *)
(* procTaskEnd takes it the request stands in the word and the task is on   *)
(* its way to the consumer, whatever procTask returned meanwhile.          *)
EndHonoured ==
  \A t \in endReq : Live(t) =>
    /\ IsEof(word[t])
    /\ (Handed(t) \/ Queued(t) \/ Held(t))

(* The pool's thread does not sleep through a request: if it is blocked and *)
(* nothing will wake it, nothing is owed, or a producer that is still       *)
(* inside addTask has yet to reach the door (tasker.cpp:78-118).           *)
NoLostWakeup ==
  (wpc = "wait" /\ ~signal /\ running) =>
    \A t \in Task : Live(t) /\ Armed(word[t]) => \E p \in Producer : ppc[p] # "idle"

(* A stop of a running pool is heard even if the thread is about to sleep.  *)
StopHeard == (wpc = "wait" /\ ~running) => (signal \/ spc = "fire")

(* The walk never enters a task whose end was taken: what procTaskEnd gave  *)
(* up (a node about to be freed) is not touched by its pool again, and the  *)
(* end is taken once (tasker.cpp:230-275).                                 *)
NothingAfterEnd ==
  [][\A t \in Task : ~Live(t) =>
        /\ fate'[t] = fate[t]
        /\ ~(curr' = t /\ curr # t)
        /\ ~Handed(t)']_vars

(* A request that is in the word when the consumer reaches the task is      *)
(* consumed by a run, unless the pool is stopped or the task leaves.       *)
RequestServed ==
  \A t \in Task, ev \in Event :
    (Live(t) /\ Armed(word[t]) /\ ev \in word[t].low /\ curr # t)
      ~> (ev \notin word[t].low \/ ~Live(t) \/ spc # "idle")

(* endTask leads to procTaskEnd (the close protocol of the director chains  *)
(* four of these), unless the pool is stopped or procTask dropped the task. *)
EndServed ==
  \A t \in Task : (t \in endReq) ~> (~Live(t) \/ spc # "idle")

(* stopRun of a running pool ends its thread (what join waits for). *)
StopServed == (spc = "fire") ~> (wpc = "gone")
=============================================================================
