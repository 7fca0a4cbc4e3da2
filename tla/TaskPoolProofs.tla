---------------------------- MODULE TaskPoolProofs ----------------------------
(***************************************************************************)
(* The safety of a pool, for any tasks, producers, sleepable events and     *)
(* results of procTask.  Three invariants, each inductive given the ones    *)
(* before it: the types with the shape of the walk, the tickets (which     *)
(* task is where, and what its word says), and the debts of the door; and  *)
(* that a pool implements TaskGate.                                        *)
(***************************************************************************)
EXTENDS MCTaskPool, QueueLemmas

Walking == wpc \in {"walk", "run", "ending", "unlink"}

(* Where the consumer is decides what its private list may hold. *)
Shape ==
  /\ \A p \in Producer : ppc[p] = "push" => ptask[p] \in Task
  /\ (curr \in Task) <=> wpc \in {"run", "ending", "unlink"}
  /\ todo # <<>> => Walking
  /\ wpc \in {"start", "release", "wait"} => kept = <<>>
  /\ out => wpc = "unlink"

TypeInv == TypeOK /\ Shape

-----------------------------------------------------------------------------
(* Type correctness *)

(* The operations of a door take words to words. *)
LEMMA WordTypes ==
  ASSUME NEW w \in Word, NEW ev \in Event, NEW ret \in Results
  PROVE  /\ Zero \in Word /\ Locked \in Word
         /\ CheckinWord(w, ev) \in Word
         /\ ResultWord(w, ret) \in Word
         /\ ResultOut(w, ret) \in BOOLEAN
<1> USE DEF Word, Zero, Locked, Quit, Bit, Event
<1>1. Zero \in Word /\ Locked \in Word /\ Quit \in Word
  OBVIOUS
<1>2. CheckinWord(w, ev) \in Word
  BY <1>1 DEF CheckinWord
<1>3. ResultWord(w, ret) \in Word
  BY <1>1 DEF ResultWord, ReleaseWord, CheckoutWord
<1>4. ResultOut(w, ret) \in BOOLEAN
  BY DEF ResultOut, ReleaseOut, CheckoutOut
<1> QED BY <1>1, <1>2, <1>3, <1>4

(* A pool that has just been constructed has the types and the shape. *)
LEMMA TypeInit == Init => TypeInv
<1> SUFFICES ASSUME Init PROVE TypeInv
  OBVIOUS
<1>1. <<>> \in Seq(Task)
  BY EmptySeq
<1>2. Zero \in Word
  BY DEF Zero, Word
<1> QED BY <1>1, <1>2, PoolAssumption
     DEF Init, TypeInv, TypeOK, Shape, WorkerPC, ProducerPC, DoorFlag

(* Every step of a producer, of the thread or of a stop keeps them. *)
LEMMA TypeStep == TypeInv /\ [Next]_vars => TypeInv'
<1> SUFFICES ASSUME TypeInv, [Next]_vars PROVE TypeInv'
  OBVIOUS
<1> USE PoolAssumption DEF TypeInv, TypeOK, Shape, Walking, WorkerPC, ProducerPC,
        DoorFlag, taskVars, listVars, workVars, prodVars
<1>0. <<>> \in Seq(Task)
  BY EmptySeq
<1>1. ASSUME NEW p \in Producer, NEW t \in Task, NEW ev \in Event, Checkin(p, t, ev)
      PROVE  TypeInv'
  <2>1. CheckinWord(word[t], ev) \in Word
    BY WordTypes DEF CheckinWord, Word, Quit, Bit, Event
  <2>2. word' \in [Task -> Word]
    BY <1>1, <2>1 DEF Checkin
  <2>3. TypeOK'
    BY <1>1, <2>2 DEF Checkin
  <2>4. Shape'
    BY <1>1 DEF Checkin
  <2> QED BY <2>3, <2>4
<1>2. ASSUME NEW p \in Producer, Push(p) PROVE TypeInv'
  <2>1. lockq' \in Seq(Task)
    BY <1>2, AppendElems DEF Push
  <2> QED BY <1>2, <2>1 DEF Push
<1>3. ASSUME NEW p \in Producer, LoginDoor(p) PROVE TypeInv'
  BY <1>3 DEF LoginDoor, Login
<1>4. ASSUME NEW p \in Producer, Alarm(p) PROVE TypeInv'
  BY <1>4 DEF Alarm
<1>5. CASE StopRun
  BY <1>5 DEF StopRun
<1>6. CASE StopAlarm
  BY <1>6 DEF StopAlarm
<1>7. CASE Start
  BY <1>7 DEF Start
<1>8. CASE LockDoor
  BY <1>8 DEF LockDoor, DoorLocked
<1>9. CASE TestRunning
  BY <1>9 DEF TestRunning
<1>10. CASE Splice
  <2>1. todo' \in Seq(Task)
    BY <1>10, ConcatElems DEF Splice
  <2> QED BY <1>0, <1>10, <2>1 DEF Splice
<1>11. CASE EnterTask
  <2>1. Head(todo) \in Task /\ Tail(todo) \in Seq(Task)
    BY <1>11, HeadTailElems DEF EnterTask
  <2>2. Locked \in Word
    BY DEF Locked, Word, Bit
  <2> QED BY <1>11, <2>1, <2>2 DEF EnterTask
<1>12. ASSUME NEW ret \in Results, LeaveTask(ret) PROVE TypeInv'
  <2>1. curr \in Task /\ word[curr] \in Word
    BY <1>12 DEF LeaveTask
  <2>2. ResultWord(word[curr], ret) \in Word /\ ResultOut(word[curr], ret) \in BOOLEAN
    BY <2>1, WordTypes DEF Event
  <2> QED BY <1>12, <2>1, <2>2 DEF LeaveTask
<1>13. CASE LeaveEnd
  BY <1>13 DEF LeaveEnd
<1>14. CASE Unlink
  <2>1. kept' \in Seq(Task)
    BY <1>14, AppendElems DEF Unlink
  <2> QED BY <1>14, <2>1 DEF Unlink
<1>15. CASE EndWalk
  BY <1>15 DEF EndWalk
<1>16. CASE ReleaseDoor
  BY <1>16 DEF ReleaseDoor, DoorRelease
<1>17. CASE Wake
  BY <1>17 DEF Wake
<1>18. CASE WakeEarly
  BY <1>18 DEF WakeEarly
<1>19. CASE UNCHANGED vars
  BY <1>19 DEF vars
<1> QED
  BY <1>1, <1>2, <1>3, <1>4, <1>5, <1>6, <1>7, <1>8, <1>9, <1>10, <1>11, <1>12,
     <1>13, <1>14, <1>15, <1>16, <1>17, <1>18, <1>19
     DEF Next, Worker, Resume, Call

(* Every variable of the pool keeps its type, and the walk its shape. *)
THEOREM TypeCorrect == Spec => []TypeInv
  BY TypeInit, TypeStep, PTL DEF Spec

(* Every variable of the pool keeps its type, at any interleaving. *)
THEOREM TypesKept == Spec => []TypeOK
  BY TypeCorrect, PTL DEF TypeInv

-----------------------------------------------------------------------------
(* Tickets *)

GoodWord(w) ==
  /\ w.high \subseteq ParkEvents
  /\ \A e, f \in w.high : e = f
  /\ IsEof(w) => w.low = Bit

Owned(w) == w.high = {} /\ LOCK \in w.low     \* since the consumer locked it

WordShape ==
  \A t \in Task :
    /\ GoodWord(word[t])
    /\ ~Live(t) => Owned(word[t])
    /\ (curr = t /\ wpc = "run") => Owned(word[t]) /\ Live(t)
    /\ (curr = t /\ wpc = "ending") => ~Live(t)

EndKept == \A t \in endReq : Live(t) => IsEof(word[t])

Placed(t) == Handed(t) \/ Queued(t) \/ Held(t)

TicketInv == TypeInv /\ WordShape /\ OnePlace /\ PlaceIffArmed /\ EndKept

(* checkin says TRUE exactly when it arms a word that was not armed. *)
LEMMA CheckinArms ==
  ASSUME NEW w \in Word, NEW ev \in Event, GoodWord(w)
  PROVE  /\ GoodWord(CheckinWord(w, ev))
         /\ CheckinFirst(w, ev) => ~Armed(w)
         /\ Armed(CheckinWord(w, ev)) <=> (Armed(w) \/ CheckinFirst(w, ev))
         /\ Owned(w) => Owned(CheckinWord(w, ev)) /\ ~CheckinFirst(w, ev)
         /\ (IsEof(w) \/ ev = END) => IsEof(CheckinWord(w, ev))
<1> USE ParkAssumption DEF Word, GoodWord, CheckinWord, CheckinFirst, Armed, Owned,
        IsEof, Zero, Quit, Bit, Event, LOCK, NORM, END
<1>1. CASE ev = END
  BY <1>1
<1>2. CASE ev # END
  <2>1. GoodWord(CheckinWord(w, ev))
    BY <1>2
  <2>2. CheckinFirst(w, ev) => ~Armed(w)
    BY <1>2
  <2>3. Armed(CheckinWord(w, ev)) <=> (Armed(w) \/ CheckinFirst(w, ev))
    <3>1. CASE w = Zero
      BY <1>2, <3>1
    <3>2. CASE w # Zero
      BY <1>2, <3>2
    <3> QED BY <3>1, <3>2
  <2>4. Owned(w) => Owned(CheckinWord(w, ev)) /\ ~CheckinFirst(w, ev)
    BY <1>2
  <2>5. IsEof(w) => IsEof(CheckinWord(w, ev))
    BY <1>2
  <2> QED BY <1>2, <2>1, <2>2, <2>3, <2>4, <2>5
<1> QED BY <1>1, <1>2

(* What consume does with a result disarms the word exactly when the task   *)
(* leaves the queue, and never throws an end request away.                 *)
LEMMA ResultDisarms ==
  ASSUME NEW w \in Word, NEW ret \in Results, GoodWord(w), Owned(w)
  PROVE  /\ GoodWord(ResultWord(w, ret))
         /\ ret # OUT => (ResultOut(w, ret) <=> ~Armed(ResultWord(w, ret)))
         /\ ret = OUT => ResultOut(w, ret) /\ ResultWord(w, ret) = w
         /\ IsEof(w) => IsEof(ResultWord(w, ret))
<1> USE ParkAssumption, PoolAssumption
    DEF Word, GoodWord, Armed, Owned, IsEof, Zero, Locked, Bit, Event, LOCK, NORM,
        END, STAY, OUT, ResultWord, ResultOut, ReleaseWord, ReleaseOut,
        CheckoutWord, CheckoutOut
<1>1. CASE ret = NORM
  BY <1>1
<1>2. CASE ret \in ParkEvents
  BY <1>2
<1>3. CASE ret \in {STAY, OUT}
  BY <1>3
<1> QED BY <1>1, <1>2, <1>3

(* No task has a place, and no word a bit, in a pool just constructed. *)
LEMMA TicketInit == Init => TicketInv
<1> SUFFICES ASSUME Init PROVE TicketInv
  OBVIOUS
<1>1. TypeInv
  BY TypeInit
<1>2. WordShape /\ EndKept
  BY PoolAssumption DEF Init, WordShape, EndKept, GoodWord, IsEof, Zero, Live
<1>3. OnePlace
  BY EmptyElems, PoolAssumption DEF Init, OnePlace, Apart, Held, Queued
<1>4. PlaceIffArmed
  BY EmptyElems, PoolAssumption DEF Init, PlaceIffArmed, Handed, Held, Queued, Armed
<1> QED BY <1>1, <1>2, <1>3, <1>4 DEF TicketInv

(* A producer raises a bit: if it was first it takes the task in hand. *)
LEMMA TicketCheckin ==
  ASSUME TicketInv, NEW p \in Producer, NEW t \in Task, NEW ev \in Event,
         Checkin(p, t, ev)
  PROVE  WordShape' /\ OnePlace' /\ PlaceIffArmed' /\ EndKept'
<1> DEFINE w == word[t]
           w2 == CheckinWord(w, ev)
<1>1. /\ w \in Word /\ GoodWord(w) /\ word' = [word EXCEPT ![t] = w2]
      /\ \A x \in Task : x # t => word'[x] = word[x]
      /\ word'[t] = w2
      /\ UNCHANGED <<lockq, kept, todo, curr, out, wpc, fate>>
  BY DEF TicketInv, TypeInv, TypeOK, WordShape, Checkin, workVars, listVars
<1>2. /\ GoodWord(w2)
      /\ CheckinFirst(w, ev) => ~Armed(w)
      /\ Armed(w2) <=> (Armed(w) \/ CheckinFirst(w, ev))
      /\ Owned(w) => Owned(w2) /\ ~CheckinFirst(w, ev)
      /\ (IsEof(w) \/ ev = END) => IsEof(w2)
  BY <1>1, CheckinArms
<1> HIDE DEF w2
<1>3. WordShape'
  BY <1>1, <1>2 DEF TicketInv, WordShape, Live
<1>4. EndKept'
  BY <1>1, <1>2 DEF TicketInv, EndKept, Live, Checkin
<1>5. \A x \in Task : (Queued(x)' <=> Queued(x)) /\ (Held(x)' <=> Held(x))
  BY <1>1 DEF Queued, Held
<1>6. CASE CheckinFirst(w, ev)
  <2>1. Live(t) /\ ~Armed(w)
    BY <1>2, <1>6 DEF TicketInv, WordShape
  <2>2. ~Handed(t) /\ ~Queued(t) /\ ~Held(t)
    BY <2>1 DEF TicketInv, PlaceIffArmed
  <2>3. /\ ppc[p] = "idle" /\ ppc'[p] = "push" /\ ptask'[p] = t
        /\ \A q \in Producer : q # p => ppc'[q] = ppc[q] /\ ptask'[q] = ptask[q]
    BY <1>6 DEF Checkin, TicketInv, TypeInv, TypeOK
  <2>4. \A x \in Task : Handed(x)' <=> (Handed(x) \/ x = t)
    BY <2>3 DEF Handed
  <2>5. PlaceIffArmed'
    BY <1>1, <1>2, <1>5, <1>6, <2>1, <2>4 DEF TicketInv, PlaceIffArmed, Live
  <2>6. OnePlace'
    <3>1. \A q \in Producer : ppc'[q] = "push" =>
            /\ ptask'[q] \in Task /\ ~Queued(ptask'[q]) /\ ~Held(ptask'[q])
            /\ \A r \in Producer : ppc'[r] = "push" /\ ptask'[r] = ptask'[q] => r = q
      BY <2>2, <2>3 DEF TicketInv, OnePlace, Handed, TypeInv, Shape
    <3> QED BY <1>1, <1>5, <3>1 DEF TicketInv, OnePlace, Apart, Queued, Held
  <2> QED BY <1>3, <1>4, <2>5, <2>6
<1>7. CASE ~CheckinFirst(w, ev)
  <2>1. ppc' = ppc /\ ptask' = ptask
    BY <1>7 DEF Checkin, prodVars
  <2>2. OnePlace'
    BY <1>1, <2>1 DEF TicketInv, OnePlace, Apart, Queued, Held
  <2>3. PlaceIffArmed'
    BY <1>1, <1>2, <1>5, <1>7, <2>1 DEF TicketInv, PlaceIffArmed, Live, Handed
  <2> QED BY <1>3, <1>4, <2>2, <2>3
<1> QED BY <1>6, <1>7

(* The producer puts the task it has in hand into the shared queue. *)
LEMMA TicketPush ==
  ASSUME TicketInv, NEW p \in Producer, Push(p)
  PROVE  WordShape' /\ OnePlace' /\ PlaceIffArmed' /\ EndKept'
<1> DEFINE t == ptask[p]
<1>1. /\ t \in Task /\ ~Queued(t) /\ ~Held(t)
      /\ \A q \in Producer : ppc[q] = "push" /\ ptask[q] = t => p = q
  BY DEF TicketInv, TypeInv, Shape, OnePlace, Push
<1>2. /\ ToSet(lockq') = ToSet(lockq) \cup {t} /\ IsInjective(lockq')
  BY <1>1, AppendElems DEF Push, TicketInv, TypeInv, TypeOK, OnePlace, Queued
<1>3. UNCHANGED <<word, endReq, kept, todo, curr, out, wpc, fate>>
  BY DEF Push, taskVars, workVars, listVars
<1>4. /\ ppc[p] = "push" /\ ppc'[p] # "push"
      /\ \A q \in Producer : q # p => ppc'[q] = ppc[q] /\ ptask'[q] = ptask[q]
  BY DEF Push, TicketInv, TypeInv, TypeOK
<1>5. \A x \in Task : /\ Handed(x)' <=> (Handed(x) /\ x # t)
                      /\ Queued(x)' <=> (Queued(x) \/ x = t)
                      /\ Held(x)' <=> Held(x)
  BY <1>1, <1>2, <1>3, <1>4 DEF Handed, Queued, Held
<1>6. WordShape' /\ EndKept'
  BY <1>3 DEF TicketInv, WordShape, EndKept, Live
<1>7. PlaceIffArmed'
  BY <1>1, <1>3, <1>4, <1>5 DEF TicketInv, PlaceIffArmed, Live, Handed
<1>8. OnePlace'
  <2>1. IsInjective(kept') /\ IsInjective(todo') /\ Apart(kept, todo)'
    BY <1>3 DEF TicketInv, OnePlace, Apart
  <2>2. Apart(lockq, kept)' /\ Apart(lockq, todo)'
    BY <1>1, <1>2, <1>3 DEF TicketInv, OnePlace, Apart, Queued
  <2>3. \A x \in Task : Held(x)' => ~Queued(x)'
    BY <1>1, <1>5 DEF TicketInv, OnePlace
  <2>4. \A q \in Producer : ppc'[q] = "push" =>
          /\ ptask'[q] \in Task /\ ptask'[q] # t
          /\ ~Queued(ptask'[q]) /\ ~Held(ptask'[q])
          /\ \A r \in Producer : ppc'[r] = "push" /\ ptask'[r] = ptask'[q] => q = r
    BY <1>1, <1>4 DEF TicketInv, OnePlace, TypeInv, Shape
  <2>5. \A q \in Producer : ppc'[q] = "push" =>
          /\ ~Queued(ptask[q])' /\ ~Held(ptask[q])'
    BY <1>2, <1>3, <1>5, <2>4 DEF Queued, Held
  <2> QED BY <1>2, <2>1, <2>2, <2>3, <2>4, <2>5 DEF OnePlace
<1> QED BY <1>6, <1>7, <1>8

(* A step that moves no task, changes no word and neither enters nor        *)
(* leaves a task keeps the tickets.                                        *)
LEMMA TicketSame ==
  ASSUME TicketInv,
         UNCHANGED <<word, endReq, lockq, kept, todo, curr, out, fate, ptask>>,
         \A pc \in {"run", "ending", "unlink"} : wpc' = pc <=> wpc = pc,
         \A p \in Producer : ppc'[p] = "push" <=> ppc[p] = "push"
  PROVE  WordShape' /\ OnePlace' /\ PlaceIffArmed' /\ EndKept'
<1>1. \A x \in Task : /\ Handed(x)' <=> Handed(x)
                      /\ Queued(x)' <=> Queued(x)
                      /\ Held(x)' <=> Held(x)
  BY DEF Handed, Queued, Held
<1>2. WordShape' /\ EndKept'
  BY DEF TicketInv, WordShape, EndKept, Live
<1>3. PlaceIffArmed'
  BY <1>1 DEF TicketInv, PlaceIffArmed, Live
<1>4. OnePlace'
  BY DEF TicketInv, OnePlace, Apart, Queued, Held
<1> QED BY <1>2, <1>3, <1>4

(* The shared queue is appended to what the last walk kept. *)
LEMMA TicketSplice ==
  ASSUME TicketInv, Splice
  PROVE  WordShape' /\ OnePlace' /\ PlaceIffArmed' /\ EndKept'
<1>1. /\ UNCHANGED <<word, endReq, curr, out, fate, ppc, ptask>>
      /\ wpc = "splice" /\ wpc' = "walk" /\ todo = <<>>
      /\ kept' = <<>> /\ lockq' = <<>>
  BY DEF Splice, taskVars, prodVars, TicketInv, TypeInv, Shape, Walking
<1>2. ToSet(todo') = ToSet(kept) \cup ToSet(lockq) /\ IsInjective(todo')
  BY ConcatElems DEF Splice, TicketInv, TypeInv, TypeOK, OnePlace, Apart
<1>3. \A x \in Task :
        /\ Handed(x)' <=> Handed(x)
        /\ Queued(x)' <=> Queued(x)
        /\ Held(x)' <=> Held(x)
  BY <1>1, <1>2, EmptyElems DEF Handed, Queued, Held
<1>4. WordShape' /\ EndKept'
  BY <1>1 DEF TicketInv, WordShape, EndKept, Live
<1>5. PlaceIffArmed'
  BY <1>1, <1>3 DEF TicketInv, PlaceIffArmed, Live
<1>6. OnePlace'
  <2>1. /\ IsInjective(lockq') /\ IsInjective(kept')
        /\ ToSet(lockq') = {} /\ ToSet(kept') = {}
    BY <1>1, EmptyElems
  <2>2. /\ Apart(lockq, kept)' /\ Apart(lockq, todo)' /\ Apart(kept, todo)'
    BY <2>1 DEF Apart
  <2>3. \A p \in Producer : ppc'[p] = "push" =>
          /\ ~Queued(ptask[p])' /\ ~Held(ptask[p])'
          /\ \A q \in Producer : ppc'[q] = "push" /\ ptask'[q] = ptask'[p] => p = q
    BY <1>1, <1>3 DEF TicketInv, OnePlace, TypeInv, Shape, Queued, Held
  <2>4. \A x \in Task : Held(x)' => ~Queued(x)'
    BY <1>3 DEF TicketInv, OnePlace
  <2> QED BY <1>2, <2>1, <2>2, <2>3, <2>4 DEF OnePlace
<1> QED BY <1>4, <1>5, <1>6

(* The walk takes the first task of the list and locks its word. *)
LEMMA TicketEnter ==
  ASSUME TicketInv, EnterTask
  PROVE  WordShape' /\ OnePlace' /\ PlaceIffArmed' /\ EndKept'
<1>0. PICK t \in Task : t = Head(todo)
  BY HeadTailElems DEF EnterTask, TicketInv, TypeInv, TypeOK
<1>1. /\ t \in Task /\ ToSet(todo) = {t} \cup ToSet(todo')
      /\ IsInjective(todo') /\ t \notin ToSet(todo')
  BY <1>0, HeadTailElems DEF EnterTask, TicketInv, TypeInv, TypeOK, OnePlace
<1>2. /\ UNCHANGED <<lockq, kept, out, ppc, ptask, endReq>>
      /\ wpc = "walk" /\ curr' = t /\ word'[t] = Locked
      /\ \A x \in Task : x # t => word'[x] = word[x] /\ fate'[x] = fate[x]
      /\ IF IsEof(word[t]) THEN wpc' = "ending" /\ fate'[t] = "ended"
                           ELSE wpc' = "run" /\ fate'[t] = fate[t]
  BY <1>0, <1>1 DEF EnterTask, prodVars, TicketInv, TypeInv, TypeOK
<1>3. /\ Live(t) /\ Armed(word[t]) /\ ~Handed(t)
      /\ \A x \in Task : ~Held(x)
      /\ t \notin ToSet(lockq) /\ t \notin ToSet(kept)
  <2>1. Queued(t)
    BY <1>1 DEF Queued
  <2>2. \A x \in Task : ~Held(x)
    BY <1>2 DEF Held
  <2>3. ~Handed(t)
    BY <2>1 DEF TicketInv, OnePlace, Handed
  <2>4. Live(t) /\ Armed(word[t])
    BY <1>1, <2>1 DEF TicketInv, PlaceIffArmed
  <2> QED BY <1>1, <2>2, <2>3, <2>4 DEF TicketInv, OnePlace, Apart
<1>4. \A x \in Task : /\ Handed(x)' <=> Handed(x)
                      /\ Queued(x)' <=> (Queued(x) /\ x # t)
                      /\ Held(x)' <=> (x = t /\ ~IsEof(word[t]))
  BY <1>1, <1>2, <1>3 DEF Handed, Queued, Held
<1>5. WordShape'
  <2>1. GoodWord(Locked) /\ Owned(Locked)
    BY DEF GoodWord, Owned, Locked, IsEof, LOCK, END
  <2>2. \A x \in Task : GoodWord(word'[x]) /\ (~Live(x)' => Owned(word'[x]))
    BY <1>2, <2>1 DEF TicketInv, WordShape, Live
  <2>3. curr' = t
    BY <1>2
  <2>4. wpc' = "run" => Owned(word'[t]) /\ Live(t)'
    BY <1>2, <1>3, <2>1 DEF Live
  <2>5. wpc' = "ending" => ~Live(t)'
    BY <1>2 DEF Live
  <2> QED BY <2>2, <2>3, <2>4, <2>5 DEF WordShape
<1>6. EndKept'
  BY <1>2 DEF TicketInv, EndKept, Live, TypeInv, TypeOK
<1>7. PlaceIffArmed'
  <2>1. Armed(Locked)
    BY DEF Armed, Locked, Zero
  <2>2. (Handed(t)' \/ Queued(t)' \/ Held(t)') <=> (Live(t)' /\ Armed(word'[t]))
    BY <1>1, <1>2, <1>3, <1>4, <2>1 DEF Live
  <2>3. \A x \in Task : x # t =>
          ((Handed(x)' \/ Queued(x)' \/ Held(x)') <=> (Live(x)' /\ Armed(word'[x])))
    BY <1>2, <1>3, <1>4 DEF TicketInv, PlaceIffArmed, Live
  <2> QED BY <2>2, <2>3 DEF PlaceIffArmed
<1>8. OnePlace'
  <2>1. /\ IsInjective(lockq') /\ IsInjective(kept') /\ IsInjective(todo')
        /\ Apart(lockq, kept)' /\ Apart(lockq, todo)' /\ Apart(kept, todo)'
    BY <1>1, <1>2 DEF TicketInv, OnePlace, Apart
  <2>2. \A x \in Task : Held(x)' => ~Queued(x)'
    BY <1>4
  <2>3. \A p \in Producer : ppc'[p] = "push" =>
          /\ ptask'[p] = ptask[p] /\ ptask[p] \in Task /\ ptask[p] # t
          /\ ~Queued(ptask[p])
          /\ \A q \in Producer : ppc'[q] = "push" /\ ptask'[q] = ptask'[p] => p = q
    BY <1>2, <1>3 DEF TicketInv, OnePlace, TypeInv, Shape, Handed
  <2>4. \A p \in Producer : ppc'[p] = "push" =>
          /\ ~Queued(ptask[p])' /\ ~Held(ptask[p])'
    BY <1>1, <1>2, <1>4, <2>3 DEF Queued, Held
  <2> QED BY <2>1, <2>2, <2>3, <2>4 DEF OnePlace
<1> QED BY <1>5, <1>6, <1>7, <1>8

(* procTask returned: release or checkout decides whether curr stays. *)
LEMMA TicketLeave ==
  ASSUME TicketInv, NEW ret \in Results, LeaveTask(ret)
  PROVE  WordShape' /\ OnePlace' /\ PlaceIffArmed' /\ EndKept'
<1>0. PICK t \in Task : t = curr
  BY DEF LeaveTask, TicketInv, TypeInv, Shape
<1> DEFINE w == word[t]
           w2 == ResultWord(w, ret)
<1>1. /\ UNCHANGED <<lockq, kept, todo, curr, ppc, ptask, endReq>>
      /\ curr = t /\ wpc = "run" /\ wpc' = "unlink"
      /\ out' = ResultOut(w, ret) /\ ~out
      /\ w \in Word /\ word'[t] = w2
      /\ fate'[t] = IF ret = OUT THEN "dropped" ELSE fate[t]
      /\ \A x \in Task : x # t => word'[x] = word[x] /\ fate'[x] = fate[x]
  BY <1>0 DEF LeaveTask, prodVars, TicketInv, TypeInv, TypeOK, Shape
<1>2. GoodWord(w) /\ Owned(w) /\ Live(t)
  BY <1>1 DEF TicketInv, WordShape
<1>3. /\ GoodWord(w2)
      /\ ret # OUT => (ResultOut(w, ret) <=> ~Armed(w2))
      /\ ret = OUT => ResultOut(w, ret) /\ w2 = w
      /\ IsEof(w) => IsEof(w2)
  BY <1>1, <1>2, ResultDisarms
<1> HIDE DEF w, w2
<1>4. Held(t) /\ ~Queued(t) /\ ~Handed(t)
  BY <1>1 DEF TicketInv, OnePlace, Held, Handed
<1>5. \A x \in Task : /\ Handed(x)' <=> Handed(x)
                      /\ Queued(x)' <=> Queued(x)
                      /\ Held(x)' <=> (Held(x) /\ ~out')
  BY <1>1 DEF Handed, Queued, Held
<1>6. WordShape'
  <2>1. \A x \in Task : GoodWord(word'[x]) /\ (~Live(x)' => Owned(word'[x]))
    BY <1>1, <1>2, <1>3 DEF TicketInv, WordShape, Live, w
  <2> QED BY <1>1, <2>1 DEF WordShape
<1>7. EndKept'
  BY <1>1, <1>3 DEF TicketInv, EndKept, Live, TypeInv, TypeOK, w
<1>8. PlaceIffArmed'
  <2>1. (Handed(t)' \/ Queued(t)' \/ Held(t)') <=> (Live(t)' /\ Armed(word'[t]))
    BY <1>1, <1>2, <1>3, <1>4, <1>5 DEF Live
  <2>2. \A x \in Task : x # t =>
          ((Handed(x)' \/ Queued(x)' \/ Held(x)') <=> (Live(x)' /\ Armed(word'[x])))
    BY <1>1, <1>5 DEF TicketInv, PlaceIffArmed, Live, Held
  <2> QED BY <2>1, <2>2 DEF PlaceIffArmed
<1>9. OnePlace'
  <2>1. \A x \in Task : Held(x)' => ~Queued(x)'
    BY <1>5 DEF TicketInv, OnePlace
  <2>2. \A p \in Producer : ppc'[p] = "push" =>
          /\ ~Queued(ptask[p])' /\ ~Held(ptask[p])'
    BY <1>1, <1>5 DEF TicketInv, OnePlace, TypeInv, Shape, Queued, Held
  <2> QED BY <1>1, <2>1, <2>2 DEF TicketInv, OnePlace, Apart
<1> QED BY <1>6, <1>7, <1>8, <1>9

(* procTaskEnd returned: the task leaves the queue, its word stays locked. *)
LEMMA TicketLeaveEnd ==
  ASSUME TicketInv, LeaveEnd
  PROVE  WordShape' /\ OnePlace' /\ PlaceIffArmed' /\ EndKept'
<1>1. /\ UNCHANGED <<word, endReq, lockq, kept, todo, curr, fate, ppc, ptask>>
      /\ wpc = "ending" /\ wpc' = "unlink" /\ out'
  BY DEF LeaveEnd, taskVars, prodVars
<1>2. \A x \in Task : /\ Handed(x)' <=> Handed(x)
                      /\ Queued(x)' <=> Queued(x)
                      /\ ~Held(x) /\ ~Held(x)'
  BY <1>1 DEF Handed, Queued, Held
<1>3. WordShape' /\ EndKept'
  BY <1>1 DEF TicketInv, WordShape, EndKept, Live
<1>4. PlaceIffArmed'
  BY <1>1, <1>2 DEF TicketInv, PlaceIffArmed, Live
<1>5. OnePlace'
  <2>1. \A x \in Task : Held(x)' => ~Queued(x)'
    BY <1>2
  <2>2. \A p \in Producer : ppc'[p] = "push" =>
          /\ ~Queued(ptask[p])' /\ ~Held(ptask[p])'
    BY <1>1 DEF TicketInv, OnePlace, Queued, Held
  <2> QED BY <1>1, <2>1, <2>2 DEF TicketInv, OnePlace, Apart
<1> QED BY <1>3, <1>4, <1>5

(* curr is unlinked, or joins the tasks the walk keeps. *)
LEMMA TicketUnlink ==
  ASSUME TicketInv, Unlink
  PROVE  WordShape' /\ OnePlace' /\ PlaceIffArmed' /\ EndKept'
<1>0. PICK t \in Task : t = curr
  BY DEF Unlink, TicketInv, TypeInv, Shape
<1>1. /\ UNCHANGED <<word, endReq, lockq, todo, fate, ppc, ptask>>
      /\ curr = t /\ wpc = "unlink" /\ wpc' = "walk" /\ curr' = NoTask
      /\ NoTask \notin Task
  BY <1>0, PoolAssumption DEF Unlink, taskVars, prodVars
<1>2. WordShape' /\ EndKept'
  BY <1>1 DEF TicketInv, WordShape, EndKept, Live
<1>3. CASE out
  <2>1. kept' = kept
    BY <1>3 DEF Unlink
  <2>2. \A x \in Task : /\ Handed(x)' <=> Handed(x)
                        /\ Queued(x)' <=> Queued(x)
                        /\ ~Held(x) /\ ~Held(x)'
    BY <1>1, <1>3, <2>1 DEF Handed, Queued, Held
  <2>3. PlaceIffArmed'
    BY <1>1, <2>2 DEF TicketInv, PlaceIffArmed, Live
  <2>4. OnePlace'
    BY <1>1, <2>1 DEF TicketInv, OnePlace, Apart, Queued, Held
  <2> QED BY <1>2, <2>3, <2>4
<1>4. CASE ~out
  <2>1. Held(t) /\ ~Queued(t) /\ ~Handed(t)
    BY <1>1, <1>4 DEF TicketInv, OnePlace, Held, Handed
  <2>2. kept' = Append(kept, t)
    BY <1>1, <1>4 DEF Unlink
  <2>3. ToSet(kept') = ToSet(kept) \cup {t} /\ IsInjective(kept')
    BY <2>1, <2>2, AppendElems DEF TicketInv, TypeInv, TypeOK, OnePlace, Queued
  <2>4. \A x \in Task : /\ Handed(x)' <=> Handed(x)
                        /\ Queued(x)' <=> (Queued(x) \/ x = t)
                        /\ Held(x) <=> x = t
                        /\ ~Held(x)'
    BY <1>1, <1>4, <2>3 DEF Handed, Queued, Held
  <2>5. PlaceIffArmed'
    BY <1>1, <2>4 DEF TicketInv, PlaceIffArmed, Live
  <2>6. OnePlace'
    <3>1. /\ IsInjective(lockq') /\ IsInjective(todo') /\ Apart(lockq, todo)'
          /\ Apart(lockq, kept)' /\ Apart(kept, todo)'
      BY <1>1, <2>1, <2>3 DEF TicketInv, OnePlace, Apart, Queued
    <3>2. \A p \in Producer : ppc'[p] = "push" =>
            /\ ~Queued(ptask[p])' /\ ~Held(ptask[p])'
            /\ \A q \in Producer : ppc'[q] = "push" /\ ptask'[q] = ptask'[p] => p = q
      BY <1>1, <2>1, <2>3 DEF TicketInv, OnePlace, TypeInv, Shape, Queued, Held, Handed
    <3> QED BY <2>3, <2>4, <3>1, <3>2 DEF OnePlace
  <2> QED BY <1>2, <2>5, <2>6
<1> QED BY <1>3, <1>4

(* Every step keeps the tickets. *)
LEMMA TicketStep == TicketInv /\ [Next]_vars => TicketInv'
<1> SUFFICES ASSUME TicketInv, [Next]_vars
             PROVE  WordShape' /\ OnePlace' /\ PlaceIffArmed' /\ EndKept'
  BY TypeStep DEF TicketInv
<1> USE DEF taskVars, listVars, workVars, prodVars
<1>1. ASSUME NEW p \in Producer, Resume(p)
      PROVE  WordShape' /\ OnePlace' /\ PlaceIffArmed' /\ EndKept'
  <2>1. CASE Push(p)
    BY <2>1, TicketPush
  <2>2. CASE LoginDoor(p)
    <3>1. \A q \in Producer : ppc'[q] = "push" <=> ppc[q] = "push"
      BY <2>2 DEF LoginDoor, TicketInv, TypeInv, TypeOK
    <3> QED BY <2>2, <3>1, TicketSame DEF LoginDoor
  <2>3. CASE Alarm(p)
    <3>1. \A q \in Producer : ppc'[q] = "push" <=> ppc[q] = "push"
      BY <2>3 DEF Alarm, TicketInv, TypeInv, TypeOK
    <3> QED BY <2>3, <3>1, TicketSame DEF Alarm
  <2> QED BY <1>1, <2>1, <2>2, <2>3 DEF Resume
<1>2. ASSUME NEW p \in Producer, Call(p)
      PROVE  WordShape' /\ OnePlace' /\ PlaceIffArmed' /\ EndKept'
  BY <1>2, TicketCheckin DEF Call
<1>3. CASE StopRun
  BY <1>3, TicketSame DEF StopRun
<1>4. CASE StopAlarm
  BY <1>4, TicketSame DEF StopAlarm
<1>5. CASE Worker
  <2>1. CASE Start
    BY <2>1, TicketSame DEF Start
  <2>2. CASE LockDoor
    BY <2>2, TicketSame DEF LockDoor
  <2>3. CASE TestRunning
    BY <2>3, TicketSame DEF TestRunning
  <2>4. CASE EndWalk
    BY <2>4, TicketSame DEF EndWalk
  <2>5. CASE ReleaseDoor
    BY <2>5, TicketSame DEF ReleaseDoor
  <2>6. CASE Wake
    BY <2>6, TicketSame DEF Wake
  <2> QED
    BY <1>5, <2>1, <2>2, <2>3, <2>4, <2>5, <2>6, TicketSplice, TicketEnter,
       TicketLeave, TicketLeaveEnd, TicketUnlink DEF Worker
<1>6. CASE WakeEarly
  BY <1>6, TicketSame DEF WakeEarly
<1>7. CASE UNCHANGED vars
  BY <1>7, TicketSame DEF vars
<1> QED BY <1>1, <1>2, <1>3, <1>4, <1>5, <1>6, <1>7 DEF Next

(* TicketInv holds in every reachable state. *)
THEOREM Tickets == Spec => []TicketInv
  BY TicketInit, TicketStep, PTL DEF Spec

(* Events are not lost and tasks are not queued twice, however many         *)
(* producers race with the consumer (Pooler::add, Pooler::consume).        *)
THEOREM QueueCorrect == Spec => [](OnePlace /\ PlaceIffArmed)
<1>1. TicketInv => OnePlace /\ PlaceIffArmed
  BY DEF TicketInv
<1> QED BY Tickets, <1>1, PTL

(* A task's intrusive list node is in one list, or one hand, at a time: no   *)
(* interleaving makes a producer cut a queue that another one holds.        *)
THEOREM PlacesApart == Spec => []OnePlace
  BY QueueCorrect, PTL

(* An end request survives everything procTask may answer. *)
THEOREM EndNeverLost == Spec => []EndHonoured
<1>1. TicketInv => EndHonoured
  <2> SUFFICES ASSUME TicketInv, NEW t \in endReq, Live(t)
               PROVE  IsEof(word[t]) /\ (Handed(t) \/ Queued(t) \/ Held(t))
    BY DEF EndHonoured
  <2>1. t \in Task /\ word[t] \in Word /\ GoodWord(word[t]) /\ IsEof(word[t])
    BY DEF TicketInv, TypeInv, TypeOK, WordShape, EndKept
  <2>2. Armed(word[t])
    BY <2>1 DEF GoodWord, Armed, IsEof, Zero, Bit, Event
  <2> QED BY <2>1, <2>2 DEF TicketInv, PlaceIffArmed
<1> QED BY Tickets, <1>1, PTL

(* A pool never touches a task again after it took its end: this is what    *)
(* lets Director::procTaskEnd free the node.                               *)
THEOREM NoRunAfterEnd == Spec => NothingAfterEnd
<1>1. TicketInv /\ TicketInv' /\ [Next]_vars =>
        [\A t \in Task : ~Live(t) =>
           /\ fate'[t] = fate[t]
           /\ ~(curr' = t /\ curr # t)
           /\ ~Handed(t)']_vars
  <2> SUFFICES ASSUME TicketInv, TicketInv', Next, NEW t \in Task, ~Live(t)
               PROVE  fate'[t] = fate[t] /\ ~(curr' = t /\ curr # t) /\ ~Handed(t)'
    OBVIOUS
  <2>1. ~Queued(t)
    BY DEF TicketInv, PlaceIffArmed
  <2>2. todo # <<>> => Head(todo) \in Task /\ Head(todo) # t
    BY <2>1, HeadTailElems DEF Queued, TicketInv, TypeInv, TypeOK
  <2>3. wpc = "run" => curr # t
    BY DEF TicketInv, WordShape
  <2>4. fate'[t] = fate[t] /\ ~(curr' = t /\ curr # t)
    BY <2>2, <2>3, PoolAssumption
       DEF TicketInv, TypeInv, TypeOK, Next, Call, Resume, Worker, workVars, listVars,
           Checkin, Push, LoginDoor, Alarm, StopRun, StopAlarm, Start, LockDoor,
           TestRunning, Splice, EnterTask, LeaveTask, LeaveEnd, Unlink, EndWalk,
           ReleaseDoor, Wake, WakeEarly
  <2>5. ~Live(t)'
    BY <2>4 DEF Live
  <2> QED BY <2>4, <2>5 DEF TicketInv, PlaceIffArmed
<1> QED BY <1>1, Tickets, PTL DEF Spec, NothingAfterEnd

-----------------------------------------------------------------------------
(* Debts of the door *)

(* The consumer has spliced since it last closed the door. *)
Spliced == wpc \in {"walk", "run", "ending", "unlink", "release", "wait"}

Knocking == \E p \in Producer : ppc[p] = "login"
Ringing  == \E p \in Producer : ppc[p] = "fire"

(* A task pushed after the splice leaves a mark on the door, or its         *)
(* producer has yet to leave it; a mark on an open door means an alarm.    *)
DoorInv ==
  /\ Spliced /\ lockq # <<>> => LOGIN \in door \/ Knocking
  /\ wpc = "wait" /\ LOGIN \in door => signal \/ Ringing \/ ~running
  /\ wpc = "wait" => LOCK \notin door
  /\ wpc = "start" => spc = "idle" /\ ~running
  /\ spc = "idle" /\ wpc # "start" => running
  /\ Spliced \/ wpc = "splice" => running \/ signal \/ spc = "fire"

(* Nothing is owed by a pool just constructed. *)
LEMMA DoorInit == Init => DoorInv
  BY DEF Init, DoorInv, Spliced

(* Every step keeps the debts of the door: the cases that matter are a       *)
(* producer at the door and the consumer that opens it (Tasker::run).       *)
LEMMA DoorStep == TypeInv /\ DoorInv /\ [Next]_vars => DoorInv'
<1> SUFFICES ASSUME TypeInv, DoorInv, [Next]_vars PROVE DoorInv'
  OBVIOUS
<1> USE DEF taskVars, listVars, workVars, prodVars, Spliced
<1>1. ASSUME NEW p \in Producer, NEW t \in Task, NEW ev \in Event, Checkin(p, t, ev)
      PROVE  DoorInv'
  <2>1. (Knocking => Knocking') /\ (Ringing => Ringing')
    BY <1>1 DEF Checkin, Knocking, Ringing, TypeInv, TypeOK
  <2> QED BY <1>1, <2>1 DEF Checkin, DoorInv
<1>2. ASSUME NEW p \in Producer, Push(p) PROVE DoorInv'
  <2>1. Knocking' /\ (Ringing => Ringing')
    BY <1>2 DEF Push, Knocking, Ringing, TypeInv, TypeOK
  <2> QED BY <1>2, <2>1 DEF Push, DoorInv
<1>3. ASSUME NEW p \in Producer, LoginDoor(p) PROVE DoorInv'
  <2>1. LOGIN \in door' /\ (LOCK \in door' => LOCK \in door)
    BY <1>3 DEF LoginDoor, Login, LOGIN, LOCK
  <2>2. (door = {} => Ringing') /\ (Ringing => Ringing')
    BY <1>3 DEF LoginDoor, LoginFirst, Ringing, TypeInv, TypeOK
  <2>3. wpc = "wait" => door = {} \/ LOGIN \in door
    BY DEF DoorInv, TypeInv, TypeOK, DoorFlag
  <2> QED BY <1>3, <2>1, <2>2, <2>3 DEF LoginDoor, DoorInv
<1>4. ASSUME NEW p \in Producer, Alarm(p) PROVE DoorInv'
  <2>1. Knocking => Knocking'
    BY <1>4 DEF Alarm, Knocking, TypeInv, TypeOK
  <2> QED BY <1>4, <2>1 DEF Alarm, DoorInv
<1>5. CASE StopRun \/ StopAlarm
  <2>1. (Knocking => Knocking') /\ (Ringing => Ringing')
    BY <1>5 DEF StopRun, StopAlarm, Knocking, Ringing
  <2> QED BY <1>5, <2>1 DEF StopRun, StopAlarm, DoorInv
<1>6. CASE Worker
  <2>1. (Knocking <=> Knocking') /\ (Ringing <=> Ringing')
    BY <1>6 DEF Knocking, Ringing, Worker, Start, LockDoor, TestRunning, Splice,
       EnterTask, LeaveTask, LeaveEnd, Unlink, EndWalk, ReleaseDoor, Wake
  <2>2. CASE Start \/ LockDoor \/ TestRunning \/ Splice
    BY <2>1, <2>2 DEF Start, LockDoor, TestRunning, Splice, DoorInv
  <2>3. CASE EnterTask \/ (\E ret \in Results : LeaveTask(ret)) \/ LeaveEnd
               \/ Unlink \/ EndWalk
    BY <2>1, <2>3 DEF EnterTask, LeaveTask, LeaveEnd, Unlink, EndWalk, DoorInv
  <2>4. CASE ReleaseDoor
    <3>1. wpc' = "wait" => door = {LOCK} /\ door' = {}
      BY <2>4 DEF ReleaseDoor, DoorFree, DoorRelease
    <3>2. lockq # <<>> /\ wpc' = "wait" => Knocking
      BY <2>4, <3>1 DEF ReleaseDoor, DoorInv, LOGIN, LOCK
    <3>3. wpc' = "wait" \/ wpc' = "lock"
      BY <2>4 DEF ReleaseDoor
    <3>4. UNCHANGED <<lockq, running, signal, spc>> /\ wpc = "release"
      BY <2>4 DEF ReleaseDoor
    <3> QED BY <2>1, <3>1, <3>2, <3>3, <3>4 DEF DoorInv
  <2>5. CASE Wake
    BY <2>1, <2>5 DEF Wake, DoorInv
  <2> QED BY <1>6, <2>2, <2>3, <2>4, <2>5 DEF Worker
<1>7. CASE WakeEarly
  <2>1. (Knocking <=> Knocking') /\ (Ringing <=> Ringing')
    BY <1>7 DEF WakeEarly, Knocking, Ringing
  <2> QED BY <1>7, <2>1 DEF WakeEarly, DoorInv
<1>8. CASE UNCHANGED vars
  BY <1>8 DEF vars, DoorInv, Knocking, Ringing
<1> QED BY <1>1, <1>2, <1>3, <1>4, <1>5, <1>6, <1>7, <1>8 DEF Next, Resume, Call

(* DoorInv holds in every reachable state. *)
THEOREM Debts == Spec => []DoorInv
  BY TypeCorrect, DoorInit, DoorStep, PTL DEF Spec

(* The consumer never sleeps through a request: the door's compare-and-swap *)
(* and the order push, login, alarm suffice with a waiter that remembers    *)
(* an alarm (EventWaiter).                                                  *)
THEOREM WakeupNotLost == Spec => []NoLostWakeup
<1>1. TicketInv /\ DoorInv => NoLostWakeup
  <2> SUFFICES ASSUME TicketInv, DoorInv, wpc = "wait", ~signal, running,
                      NEW t \in Task, Live(t), Armed(word[t])
               PROVE  \E p \in Producer : ppc[p] # "idle"
    BY DEF NoLostWakeup
  <2>1. Handed(t) \/ Queued(t) \/ Held(t)
    BY DEF TicketInv, PlaceIffArmed
  <2>2. ~Held(t)
    BY DEF Held
  <2>3. CASE Handed(t)
    BY <2>3 DEF Handed
  <2>4. CASE Queued(t)
    <3>1. kept = <<>> /\ todo = <<>>
      BY DEF TicketInv, TypeInv, Shape, Walking
    <3>2. lockq # <<>>
      BY <2>4, <3>1, EmptyElems DEF Queued
    <3>3. Knocking \/ Ringing
      BY <3>2 DEF DoorInv, Spliced
    <3> QED BY <3>3 DEF Knocking, Ringing
  <2> QED BY <2>1, <2>2, <2>3, <2>4
<1> QED BY <1>1, Tickets, Debts, PTL

(* A stop of a running pool finds its thread, asleep or about to sleep. *)
THEOREM StopNotLost == Spec => []StopHeard
<1>1. DoorInv => StopHeard
  BY DEF DoorInv, StopHeard, Spliced
<1> QED BY <1>1, Debts, PTL

-----------------------------------------------------------------------------
(* The gate.  checkin is the gate's Raise, the step into a task its Begin    *)
(* or Finish, the step out of it Rest, Again, Park or Drop, and everything  *)
(* else (the queues, the door, the waiter) is invisible.  That needs the    *)
(* tickets: the walk only meets tasks whose words are armed.                *)

(* What the gate shows of a task does not change in this step. *)
Unseen(t) == /\ Requests(t)' = Requests(t)
             /\ Stage(t)' = Stage(t)
             /\ Awaited(t)' = Awaited(t)

(* The event ev makes the task ready. *)
Roused(t, ev) ==
  Stage(t) = "idle" \/ (Stage(t) = "parked" /\ ev \in {Awaited(t), END})

-----------------------------------------------------------------------------
(* The gate's actions, one task at a time *)

(* A step that nobody sees is a stuttering step of the gate. *)
LEMMA GateStutter ==
  ASSUME \A t \in Task : Unseen(t)
  PROVE  UNCHANGED Gate!gateVars
  BY DEF Unseen, Gate!gateVars

(* addTask and endTask seen from the gate. *)
LEMMA GateRaise ==
  ASSUME NEW t \in Task, NEW ev \in Event,
         Stage(t) \notin {"ended", "dropped"},
         Requests(t)' = (IF ev = END \/ END \in Requests(t) THEN {END}
                         ELSE Requests(t) \cup {ev}),
         Stage(t)' = (IF Roused(t, ev) THEN "ready" ELSE Stage(t)),
         Awaited(t)' = (IF Roused(t, ev) THEN NORM ELSE Awaited(t)),
         \A x \in Task : x # t => Unseen(x)
  PROVE  Gate!Raise(t, ev)
  BY DEF Unseen, Roused, Gate!Raise, Gate!AddRequest, Gate!Awakes, Gate!END,
         Gate!NORM, END, NORM

(* procTask or procTaskEnd is called. *)
LEMMA GateEnter ==
  ASSUME NEW t \in Task,
         Stage(t) = "ready", Requests(t)' = {}, UNCHANGED Awaited(t),
         \A x \in Task : x # t => Unseen(x)
  PROVE  /\ END \notin Requests(t) /\ Stage(t)' = "running" => Gate!Begin(t)
         /\ END \in Requests(t) /\ Stage(t)' = "ended" => Gate!Finish(t)
  BY DEF Unseen, Gate!Begin, Gate!Finish, Gate!END, END

(* procTask returns. *)
LEMMA GateLeave ==
  ASSUME NEW t \in Task, Stage(t) = "running",
         \A x \in Task : x # t => Unseen(x)
  PROVE  /\ /\ UNCHANGED Requests(t) /\ Awaited(t)' = NORM
            /\ Stage(t)' = IF Requests(t) = {} THEN "idle" ELSE "ready"
            => Gate!Rest(t)
         /\ /\ UNCHANGED Requests(t) /\ Awaited(t)' = NORM /\ Stage(t)' = "ready"
            => Gate!Again(t)
         /\ \A ev \in ParkEvents :
              /\ UNCHANGED Requests(t)
              /\ Stage(t)' = IF Requests(t) \cap {ev, END} = {} THEN "parked" ELSE "ready"
              /\ Awaited(t)' = IF Requests(t) \cap {ev, END} = {} THEN ev ELSE NORM
              => Gate!Park(t, ev)
         /\ /\ Requests(t)' = {} /\ Awaited(t)' = NORM /\ Stage(t)' = "dropped"
            => Gate!Drop(t)
<1> USE DEF Unseen, Gate!Move, Gate!NORM, NORM
<1>1. ASSUME UNCHANGED Requests(t), Awaited(t)' = NORM,
             Stage(t)' = IF Requests(t) = {} THEN "idle" ELSE "ready"
      PROVE  Gate!Rest(t)
  BY <1>1 DEF Gate!Rest
<1>2. ASSUME UNCHANGED Requests(t), Awaited(t)' = NORM, Stage(t)' = "ready"
      PROVE  Gate!Again(t)
  BY <1>2 DEF Gate!Again
<1>3. ASSUME NEW ev \in ParkEvents, UNCHANGED Requests(t),
             Stage(t)' = IF Requests(t) \cap {ev, END} = {} THEN "parked" ELSE "ready",
             Awaited(t)' = IF Requests(t) \cap {ev, END} = {} THEN ev ELSE NORM
      PROVE  Gate!Park(t, ev)
  BY <1>3 DEF Gate!Park, Gate!END, END
<1>4. ASSUME Requests(t)' = {}, Awaited(t)' = NORM, Stage(t)' = "dropped"
      PROVE  Gate!Drop(t)
  BY <1>4 DEF Gate!Drop
<1> QED BY <1>1, <1>2, <1>3, <1>4

-----------------------------------------------------------------------------
(* The pool's steps *)

(* A pool just constructed shows idle tasks that nobody has asked for. *)
LEMMA GateInit == Init => Gate!Init
<1> SUFFICES ASSUME Init, NEW t \in Task
             PROVE  Requests(t) = {} /\ Stage(t) = "idle" /\ Awaited(t) = NORM
  BY DEF Gate!Init, Gate!NORM, NORM
<1> QED BY PoolAssumption
     DEF Init, Requests, Stage, Awaited, Parked, Live, IsEof, Zero

(* What the gate shows of a task depends on its word, its fate and on        *)
(* whether it runs.                                                         *)
LEMMA GateSame ==
  ASSUME TicketInv, NEW t \in Task, word'[t] = word[t], fate'[t] = fate[t],
         (curr' = t /\ wpc' = "run") <=> (curr = t /\ wpc = "run")
  PROVE  Unseen(t)
  BY DEF Unseen, Requests, Stage, Awaited, Parked, Live

(* A producer raises a bit: of a live task the gate sees it, of a task that  *)
(* has left the pool it does not.                                           *)
LEMMA GateCheckin ==
  ASSUME TicketInv, NEW p \in Producer, NEW t \in Task, NEW ev \in Event,
         Checkin(p, t, ev)
  PROVE  Gate!Raise(t, ev) \/ UNCHANGED Gate!gateVars
<1> DEFINE w == word[t]
           w2 == CheckinWord(w, ev)
<1>1. /\ w \in Word /\ GoodWord(w) /\ word'[t] = w2
      /\ \A x \in Task : x # t => word'[x] = word[x]
      /\ UNCHANGED <<curr, wpc, fate>>
  BY DEF TicketInv, TypeInv, TypeOK, WordShape, Checkin, workVars, listVars
<1>2. \A x \in Task : x # t => Unseen(x)
  BY <1>1, GateSame
<1>3. CASE ~Live(t)
  <2>1. Unseen(t)
    BY <1>1, <1>3 DEF Unseen, Requests, Stage, Awaited, Parked, Live
  <2> QED BY <1>2, <2>1, GateStutter
<1>4. CASE Live(t)
  <2>1. Live(t)' /\ Stage(t) \notin {"ended", "dropped"}
    BY <1>1, <1>4 DEF Live, Stage
  <2>2. Requests(t)' = IF ev = END \/ END \in Requests(t) THEN {END}
                       ELSE Requests(t) \cup {ev}
    BY <1>1, <1>4, <2>1, ParkAssumption
       DEF Requests, CheckinWord, GoodWord, Word, Bit, Event, IsEof, Quit, LOCK, NORM, END
  <2>3. w2 # Zero
    BY <1>1 DEF CheckinWord, Quit, Zero, Bit, Event
  <2>4. CASE curr = t /\ wpc = "run"
    <3>1. Stage(t) = "running" /\ Stage(t)' = "running"
      BY <1>1, <1>4, <2>1, <2>4 DEF Stage
    <3>2. Owned(w) /\ Owned(w2)
      BY <1>1, <2>4, CheckinArms DEF TicketInv, WordShape
    <3>3. Awaited(t) = NORM /\ Awaited(t)' = NORM
      BY <1>1, <3>2 DEF Awaited, Parked, Armed, Owned
    <3> QED BY <1>2, <2>1, <2>2, <3>1, <3>3, GateRaise DEF Roused
  <2>5. CASE w = Zero /\ ~(curr = t /\ wpc = "run")
    <3>1. Armed(w2)
      BY <1>1, <2>3, <2>5 DEF Armed, CheckinWord, Quit, Zero
    <3>2. Stage(t) = "idle" /\ Stage(t)' = "ready" /\ Awaited(t)' = NORM
      BY <1>1, <1>4, <2>1, <2>3, <2>5, <3>1 DEF Stage, Awaited, Parked
    <3> QED BY <1>2, <2>1, <2>2, <3>2, GateRaise DEF Roused
  <2>6. CASE w # Zero /\ Armed(w) /\ ~(curr = t /\ wpc = "run")
    <3>1. Armed(w2)
      BY <1>1, <2>3, <2>6 DEF Armed, CheckinWord, Quit
    <3>2. Stage(t) = "ready" /\ Stage(t)' = "ready"
      BY <1>1, <1>4, <2>1, <2>3, <2>6, <3>1 DEF Stage
    <3>3. Awaited(t) = NORM /\ Awaited(t)' = NORM
      BY <1>1, <2>6, <3>1 DEF Awaited, Parked
    <3> QED BY <1>2, <2>1, <2>2, <3>2, <3>3, GateRaise DEF Roused
  <2>7. CASE w # Zero /\ ~Armed(w) /\ ~(curr = t /\ wpc = "run")
    <3>1. Stage(t) = "parked" /\ Parked(t)
      BY <1>1, <1>4, <2>7 DEF Stage, Parked
    <3>2. PICK e \in ParkEvents : w.high = {e} /\ e \notin w.low
      BY <1>1, <2>7 DEF Armed, GoodWord, Word
    <3>3. Awaited(t) = e
      BY <3>1, <3>2 DEF Awaited
    <3>4. CASE ev \in {e, END}
      <4>1. Armed(w2)
        BY <1>1, <2>3, <3>2, <3>4 DEF Armed, CheckinWord, Quit
      <4>2. Stage(t)' = "ready" /\ Awaited(t)' = NORM
        BY <1>1, <2>1, <2>3, <2>7, <4>1 DEF Stage, Awaited, Parked
      <4> QED BY <1>2, <2>1, <2>2, <3>1, <3>3, <3>4, <4>2, GateRaise DEF Roused
    <3>5. CASE ev \notin {e, END}
      <4>1. w2.high = {e} /\ ~Armed(w2)
        BY <1>1, <2>3, <3>2, <3>5 DEF Armed, CheckinWord
      <4>2. Stage(t)' = "parked" /\ Awaited(t)' = e
        BY <1>1, <2>1, <2>3, <2>7, <4>1 DEF Stage, Awaited, Parked
      <4> QED BY <1>2, <2>1, <2>2, <3>1, <3>3, <3>5, <4>2, GateRaise DEF Roused
    <3> QED BY <3>4, <3>5
  <2> QED BY <2>4, <2>5, <2>6, <2>7
<1> QED BY <1>3, <1>4

(* The walk locks a task's word: procTask begins or, after an end request,   *)
(* procTaskEnd is called.                                                   *)
LEMMA GateEnterTask ==
  ASSUME TicketInv, EnterTask
  PROVE  \E t \in Task : Gate!Begin(t) \/ Gate!Finish(t)
<1>1. PICK t \in Task : t = Head(todo) /\ Queued(t)
  BY HeadTailElems DEF EnterTask, TicketInv, TypeInv, TypeOK, Queued
<1> DEFINE w == word[t]
<1>2. Live(t) /\ Armed(w) /\ w \in Word /\ GoodWord(w) /\ w # Zero
  BY <1>1 DEF TicketInv, TypeInv, TypeOK, WordShape, PlaceIffArmed, Armed
<1>3. /\ word'[t] = Locked /\ curr' = t /\ wpc = "walk"
      /\ wpc' = IF IsEof(w) THEN "ending" ELSE "run"
      /\ fate'[t] = IF IsEof(w) THEN "ended" ELSE fate[t]
      /\ \A x \in Task : x # t => word'[x] = word[x] /\ fate'[x] = fate[x]
  BY <1>1 DEF EnterTask, TicketInv, TypeInv, TypeOK
<1>4. \A x \in Task : x # t => Unseen(x)
  BY <1>3, GateSame
<1>5. Stage(t) = "ready" /\ (END \in Requests(t) <=> IsEof(w))
  BY <1>2, <1>3 DEF Stage, Requests, IsEof
<1>6. Awaited(t) = NORM /\ Awaited(t)' = NORM
  BY <1>2, <1>3 DEF Awaited, Parked, Armed, Locked
<1>7. CASE IsEof(w)
  <2>1. Requests(t)' = {} /\ Stage(t)' = "ended"
    BY <1>3, <1>7 DEF Requests, Stage, Live
  <2> QED BY <1>4, <1>5, <1>6, <1>7, <2>1, GateEnter
<1>8. CASE ~IsEof(w)
  <2>1. Requests(t)' = {} /\ Stage(t)' = "running"
    BY <1>2, <1>3, <1>8 DEF Requests, Stage, Live, IsEof, Locked, LOCK, END
  <2> QED BY <1>4, <1>5, <1>6, <1>8, <2>1, GateEnter
<1> QED BY <1>7, <1>8

(* procTask returns: what consume does with the result is what the gate      *)
(* allows for it.                                                           *)
LEMMA GateLeaveTask ==
  ASSUME TicketInv, NEW ret \in Results, LeaveTask(ret)
  PROVE  \E t \in Task : \/ Gate!Rest(t) \/ Gate!Again(t) \/ Gate!Drop(t)
                         \/ \E ev \in ParkEvents : Gate!Park(t, ev)
<1>0. PICK t \in Task : t = curr
  BY DEF LeaveTask, TicketInv, TypeInv, Shape
<1> DEFINE w == word[t]
           w2 == ResultWord(w, ret)
<1>1. /\ w \in Word /\ GoodWord(w) /\ Owned(w) /\ Live(t)
      /\ wpc = "run" /\ wpc' = "unlink" /\ curr = t
      /\ word'[t] = w2
      /\ fate'[t] = IF ret = OUT THEN "dropped" ELSE fate[t]
      /\ \A x \in Task : x # t => word'[x] = word[x] /\ fate'[x] = fate[x]
  BY <1>0 DEF LeaveTask, TicketInv, TypeInv, TypeOK, WordShape
<1>2. \A x \in Task : x # t => Unseen(x)
  BY <1>1, GateSame
<1>3. Stage(t) = "running"
  BY <1>1 DEF Stage
<1>4. Requests(t) = IF IsEof(w) THEN {END} ELSE w.low \ {LOCK}
  BY <1>1 DEF Requests
<1>5. CASE ret = NORM
  <2>1. w2 = ReleaseWord(w) /\ Live(t)'
    BY <1>1, <1>5 DEF ResultWord, Live, NORM, OUT
  <2>2. CASE w = Locked
    <3>1. w2 = Zero /\ ~IsEof(w) /\ Requests(t) = {}
      BY <1>4, <2>1, <2>2 DEF ReleaseWord, IsEof, Locked, LOCK, END
    <3>2. Requests(t)' = {} /\ Stage(t)' = "idle" /\ Awaited(t)' = NORM
      BY <1>1, <2>1, <3>1 DEF Requests, Stage, Awaited, Parked, IsEof, Zero
    <3> QED BY <1>2, <1>3, <3>1, <3>2, GateLeave
  <2>3. CASE w # Locked
    <3>1. w2 = w /\ w # Zero /\ Armed(w)
      BY <1>1, <2>1, <2>3 DEF ReleaseWord, Owned, Zero, Armed
    <3>2. Requests(t) # {}
      BY <1>1, <1>4, <2>3 DEF Owned, Locked, Word
    <3>3. Requests(t)' = Requests(t) /\ Stage(t)' = "ready" /\ Awaited(t)' = NORM
      BY <1>1, <1>4, <2>1, <3>1 DEF Requests, Stage, Awaited, Parked
    <3> QED BY <1>2, <1>3, <3>2, <3>3, GateLeave
  <2> QED BY <2>2, <2>3
<1>6. CASE ret = STAY
  <2>1. w2 = w /\ w # Zero /\ Armed(w) /\ Live(t)'
    BY <1>1, <1>6, ParkAssumption
       DEF ResultWord, Owned, Zero, Armed, Live, NORM, STAY, OUT
  <2>2. Requests(t)' = Requests(t) /\ Stage(t)' = "ready" /\ Awaited(t)' = NORM
    BY <1>1, <1>4, <2>1 DEF Requests, Stage, Awaited, Parked
  <2> QED BY <1>2, <1>3, <2>2, GateLeave
<1>7. CASE ret \in ParkEvents
  <2>1. /\ w2 = CheckoutWord(w, ret) /\ w2 # Zero /\ Live(t)'
        /\ w2.low = w.low /\ w2.high = {ret}
    BY <1>1, <1>7, ParkAssumption
       DEF ResultWord, CheckoutWord, Owned, Zero, Live, NORM, OUT
  <2>2. Requests(t)' = Requests(t)
    BY <1>1, <1>4, <2>1 DEF Requests, IsEof
  <2>3. Armed(w2) <=> Requests(t) \cap {ret, END} # {}
    BY <1>1, <1>4, <1>7, <2>1, ParkAssumption DEF Armed, IsEof, GoodWord, Bit, Event
  <2>4. Stage(t)' = IF Requests(t) \cap {ret, END} = {} THEN "parked" ELSE "ready"
    BY <1>1, <2>1, <2>3 DEF Stage
  <2>5. Awaited(t)' = IF Requests(t) \cap {ret, END} = {} THEN ret ELSE NORM
    BY <1>1, <2>1, <2>3 DEF Awaited, Parked
  <2> QED BY <1>2, <1>3, <1>7, <2>2, <2>4, <2>5, GateLeave
<1>8. CASE ret = OUT
  <2>1. Requests(t)' = {} /\ Stage(t)' = "dropped" /\ Awaited(t)' = NORM
    BY <1>1, <1>8 DEF Requests, Stage, Awaited, Parked, Live
  <2> QED BY <1>2, <1>3, <2>1, GateLeave
<1> QED BY <1>5, <1>6, <1>7, <1>8, PoolAssumption

(* Every step of the pool is one of the gate, or invisible to it. *)
LEMMA GateStep == TicketInv /\ [Next]_vars => [Gate!Next]_(Gate!gateVars)
<1> SUFFICES ASSUME TicketInv, [Next]_vars PROVE Gate!Next \/ UNCHANGED Gate!gateVars
  OBVIOUS
<1> USE DEF taskVars, listVars, workVars, prodVars
<1>1. ASSUME NEW p \in Producer, Call(p)
      PROVE  Gate!Next \/ UNCHANGED Gate!gateVars
  BY <1>1, GateCheckin
     DEF Call, Gate!Next, Event, Gate!Event, NORM, END, Gate!NORM, Gate!END
<1>2. CASE EnterTask
  BY <1>2, GateEnterTask DEF Gate!Next
<1>3. ASSUME NEW ret \in Results, LeaveTask(ret)
      PROVE  Gate!Next \/ UNCHANGED Gate!gateVars
  BY <1>3, GateLeaveTask DEF Gate!Next
<1>4. ASSUME UNCHANGED <<word, fate>>, wpc' = "run" <=> wpc = "run",
             wpc = "run" => UNCHANGED curr
      PROVE  UNCHANGED Gate!gateVars
  BY <1>4, GateSame, GateStutter
<1>5. ASSUME NEW p \in Producer, Resume(p) PROVE UNCHANGED Gate!gateVars
  BY <1>4, <1>5 DEF Resume, Push, LoginDoor, Alarm
<1>6. CASE Start \/ LockDoor \/ TestRunning \/ Splice
  BY <1>4, <1>6 DEF Start, LockDoor, TestRunning, Splice
<1>7. CASE LeaveEnd \/ Unlink \/ EndWalk \/ ReleaseDoor \/ Wake
  BY <1>4, <1>7 DEF LeaveEnd, Unlink, EndWalk, ReleaseDoor, Wake
<1>8. CASE StopRun \/ StopAlarm \/ WakeEarly \/ UNCHANGED vars
  BY <1>4, <1>8 DEF StopRun, StopAlarm, WakeEarly, vars
<1> QED BY <1>1, <1>2, <1>3, <1>5, <1>6, <1>7, <1>8 DEF Next, Worker

(* The code above a pool may forget words, doors and queues: what it asks of *)
(* addTask, endTask and procTask's results is what TaskGate gives.          *)
THEOREM PoolIsGate == Spec => GateSpec
<1>1. GateSpec <=> Gate!Init /\ [][Gate!Next]_(Gate!gateVars)
  BY DEF GateSpec, Gate!Spec
<1> QED BY <1>1, GateInit, GateStep, Tickets, PTL DEF Spec
=============================================================================
