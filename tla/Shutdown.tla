------------------------------- MODULE Shutdown -------------------------------
(***************************************************************************)
(* Starting, stopping, joining and freeing the server and its four threads  *)
(* (director.cpp, taskpool.cpp, cthread.cpp), driven by the main thread and *)
(* by signal handlers that call Server::stop, as in testcase.cpp.           *)
(*                                                                         *)
(* A handler runs on some thread, which makes no step of its own until the  *)
(* handler returns; handlers nest.  I_FREE deletes an object in one step    *)
(* and sets its pointer to NULL in the next.  That a running pool which is  *)
(* told to stop does come out of its loop is TaskPool's StopServed.         *)
(***************************************************************************)
EXTENDS Naturals, Sequences

CONSTANTS MaxSignal,  \* bound: signals that are delivered
          MayFail     \* whether startServer and pthread_create may fail

ASSUME ShutdownAssumption == MaxSignal \in Nat /\ MayFail \in BOOLEAN

Pool   == {"dealer", "sender", "receiver", "director"}
Thread == Pool \cup {"main"}
(* what a handler reads on its way; event is the node the director's alarm   *)
(* writes to                                                                 *)
Object == Pool \cup {"server", "event"}

VARIABLES
  plan,     \* what main has still to do
  life,     \* of each pool's thread: none, created, running, ended
  running,  \* m_running of each pool
  memory,   \* each object: live, freed with its pointer still set, or null
  handlers, \* on each thread, how far its handlers are, innermost first
  signals,  \* how many signals were delivered
  dead      \* a handler used what is no longer there, and the process with it

vars == <<plan, life, running, memory, handlers, signals, dead>>

(* Director::start *)
Starts == << <<"create", "dealer">>, <<"create", "sender">>,
             <<"create", "receiver">>, <<"create", "director">> >>
\* as a fault: one thread is not joined
JoinsBut == << <<"join", "director">>,
               <<"stop", "dealer">>, <<"stop", "sender">>, <<"stop", "receiver">>,
               <<"join", "dealer">>, <<"join", "sender">> >>
(* Director::join *)
Joins  == << <<"join", "director">>,
             <<"stop", "dealer">>, <<"stop", "sender">>, <<"stop", "receiver">>,
             <<"join", "dealer">>, <<"join", "sender">>, <<"join", "receiver">> >>
(* Director::finish, Server::finish and I_FREE(g_server); a pool counts as   *)
(* freed from the beginning of its own finish                                *)
Frees  == << <<"free", "dealer">>,   <<"clear", "dealer">>,
             <<"free", "sender">>,   <<"clear", "sender">>,
             <<"free", "receiver">>, <<"clear", "receiver">>,
             <<"free", "event">>,    <<"clear", "event">>,
             <<"free", "director">>, <<"clear", "director">>,
             <<"free", "server">>,   <<"clear", "server">> >>
Ending == Joins \o Frees

(* sigHandler's and Server::stop's look at their pointers, Director::stop's  *)
(* isRunning, and stopRun of each                                            *)
Handler == <<"g_server", "m_director", "test", "director", "dealer", "sender", "receiver">>

(* what a call of the handler reads *)
Reads(call) == CASE call = "g_server"   -> {}
                 [] call = "m_director" -> {"server"}
                 [] call = "test"       -> {"director"}
                 [] call = "director"   -> {"director", "event"}
                 [] OTHER               -> {"director", call}

Freed == plan = <<>>

Init ==
  /\ \/ plan = Starts \o Ending
     \/ plan = Frees /\ MayFail           \* startServer failed
  /\ life = [p \in Pool |-> "none"]
  /\ running = [p \in Pool |-> FALSE]
  /\ memory = [x \in Object |-> "live"]
  /\ handlers = [t \in Thread |-> <<>>]
  /\ signals = 0
  /\ dead = FALSE

-----------------------------------------------------------------------------
\* as a fault: the flag stays up
StopRunOnly(p) == UNCHANGED running
(* stopRun; of a thread that has not set m_running yet it does nothing *)
StopRun(p) == running' = [running EXCEPT ![p] = FALSE]

(* main's next call is op on x *)
Main(op, x) == /\ plan # <<>> /\ Head(plan) = <<op, x>>
               /\ handlers["main"] = <<>> /\ ~dead

Done == plan' = Tail(plan) /\ UNCHANGED <<handlers, signals, dead>>

Create(p) ==
  /\ Main("create", p) /\ Done
  /\ life' = [life EXCEPT ![p] = "created"]
  /\ UNCHANGED <<running, memory>>

(* start gives up, and main joins what was started *)
CreateFails(p) ==
  /\ Main("create", p) /\ MayFail
  /\ plan' = Ending
  /\ UNCHANGED <<life, running, memory, handlers, signals, dead>>

Join(p) ==
  /\ Main("join", p) /\ Done
  /\ life[p] \in {"none", "ended"}
  /\ UNCHANGED <<life, running, memory>>

StopPool(p) == Main("stop", p) /\ Done /\ StopRun(p) /\ UNCHANGED <<life, memory>>

Free(x)  == /\ Main("free", x) /\ Done
            /\ memory' = [memory EXCEPT ![x] = "freed"]
            /\ UNCHANGED <<life, running>>
Clear(x) == /\ Main("clear", x) /\ Done
            /\ memory' = [memory EXCEPT ![x] = "null"]
            /\ UNCHANGED <<life, running>>

-----------------------------------------------------------------------------
(* A pool's thread *)
Setup(p) ==
  /\ life[p] = "created" /\ handlers[p] = <<>> /\ ~dead
  /\ life' = [life EXCEPT ![p] = "running"]
  /\ running' = [running EXCEPT ![p] = TRUE]
  /\ UNCHANGED <<plan, memory, handlers, signals, dead>>

Leave(p) ==
  /\ life[p] = "running" /\ ~running[p] /\ handlers[p] = <<>> /\ ~dead
  /\ life' = [life EXCEPT ![p] = "ended"]
  /\ UNCHANGED <<plan, running, memory, handlers, signals, dead>>

-----------------------------------------------------------------------------
(* Signals; nothing ever disarms them *)
Alive == {"main"} \cup {p \in Pool : life[p] \in {"created", "running"}}

Signal(t) ==
  /\ signals < MaxSignal /\ t \in Alive /\ ~dead
  /\ signals' = signals + 1
  /\ handlers' = [handlers EXCEPT ![t] = <<1>> \o @]
  /\ UNCHANGED <<plan, life, running, memory, dead>>

(* the next call of the innermost handler on t, and what of it is not there *)
Call(t) == Handler[Head(handlers[t])]
Gone(t) == {x \in Reads(Call(t)) : memory[x] # "live"}

Returns(call) == \/ call = "g_server" /\ memory["server"] = "null"
                 \/ call = "m_director" /\ memory["director"] = "null"
                 \/ call = "test" /\ ~running["director"]
                 \/ call = "receiver"

Return(t) == handlers' = [handlers EXCEPT ![t] = Tail(@)]

Handle(t) ==
  /\ handlers[t] # <<>> /\ Gone(t) = {} /\ ~dead
  /\ IF Call(t) \in Pool THEN StopRun(Call(t)) ELSE UNCHANGED running
  /\ IF Returns(Call(t)) THEN Return(t)
     ELSE handlers' = [handlers EXCEPT ![t] = <<Head(@) + 1>> \o Tail(@)]
  /\ UNCHANGED <<plan, life, memory, signals, dead>>

(* Freed memory that still holds what was in it ends the handler: m_director *)
(* is NULL by then, m_running not set.  Else anything may happen.            *)
Stray(t) ==
  /\ handlers[t] # <<>> /\ Gone(t) # {} /\ ~dead
  /\ \/ Return(t) /\ UNCHANGED dead
     \/ dead' = TRUE /\ UNCHANGED handlers
  /\ UNCHANGED <<plan, life, running, memory, signals>>

MainStep == \/ \E p \in Pool : Create(p) \/ CreateFails(p) \/ Join(p) \/ StopPool(p)
            \/ \E x \in Object : Free(x) \/ Clear(x)
PoolStep(p) == Setup(p) \/ Leave(p)
HandlerStep(t) == Handle(t) \/ Stray(t)

Next == \/ MainStep
        \/ \E p \in Pool : PoolStep(p)
        \/ \E t \in Thread : Signal(t) \/ HandlerStep(t)

Spec == /\ Init /\ [][Next]_vars
        /\ WF_vars(MainStep)
        /\ \A p \in Pool : WF_vars(PoolStep(p))
        /\ \A t \in Thread : WF_vars(HandlerStep(t))

-----------------------------------------------------------------------------
(* Properties *)

(* Once anything is freed no pool's thread is at work and no handler runs on *)
(* one.  A handler on main finds whatever it reads, but for the director and *)
(* the server between their delete and the NULL: the pools and the event     *)
(* node, whose pointers are not tested, are never used once they are freed   *)
(* or NULL (director.cpp:94-195, server.cpp:122-161, testcase.cpp:57-92,     *)
(* sysoper.h:42).                                                           *)
FreedAlone ==
  /\ (\E x \in Object : memory[x] # "live") =>
       \A p \in Pool : life[p] \in {"none", "ended"} /\ handlers[p] = <<>>
  /\ \A t \in Thread : handlers[t] # <<>> =>
       \A x \in Gone(t) : t = "main" /\ x \in {"director", "server"} /\ memory[x] = "freed"

(* A stop that is asked for when all four threads are in their loops ends    *)
(* them, and main's join and finish complete, unless a later signal falls    *)
(* between a delete and its NULL.                                            *)
StopEnds ==
  ((\A p \in Pool : running[p]) /\ (\E t \in Thread : handlers[t] # <<>> /\ Head(handlers[t]) = 1))
    ~> (Freed \/ dead)

-----------------------------------------------------------------------------
(* testcase.cpp's handler says "stop server": once a stop has ended the      *)
(* director, main's join completes.  It does not: a pool that had not set    *)
(* m_running yet did not hear the stop, and sets it afterwards.              *)
StopHonoured == (life["director"] = "ended") ~> (Freed \/ dead)
=============================================================================
