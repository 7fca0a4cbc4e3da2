# high_perf_server in TLA+

A verification project for the communication server in `src/`: TLA+ modules of
its components, TLC configurations that check them on small instances, and
TLAPS proofs, for every value of the constants, of every safety invariant the
runs check and of the refinements that tie the components together.
Line numbers refer to the files of `src/src/`.

## 1. The system

The server is a library: a program gives it callbacks (`I_SockCb`) and adds
listeners and connectors; the library runs four threads, each a *task pool*.

    epoll ──► director ──READ──► receiver ──message──► dealer ──process()──► application
      ▲          │  ▲                                                          │
      │          │  └───────── commands (close, connected, accept) ◄───────────┤
      │        WRITE                                                           │
      │          ▼                                                             │
      └─────── sender ◄──────────────── message ───────────────────────────────┘

Every socket is a *node* with four tasks, one for each thread, and three queues:
commands for the director, received messages for the dealer, messages to send
for the sender. A thread that wants something of another appends to the node's
queue under the node's spin lock and then, unlocked, *adds a task* with an
event. A task's 32-bit word (`BitDoor`) remembers the events and tells the first
of them from the rest, so that a task is queued in its pool at most once.

### Inventory

| Component (files) | State | Operations | Interacts by | Hard because |
|---|---|---|---|---|
| task pool (`tasker`, `taskpool`) | word of each task; locked and private queue; door, `m_running`, eventfd of the pool | `addTask`, `endTask`, `stopRun`, `run`/`consume` | atomics and a spin lock; calls `procTask`, `procTaskEnd` | any interleaving of producers with the one consumer: lost events, double queueing, lost wakeups |
| director (`director`) | node status, type, epoll registration, error flags; command queue | `close`, `notify`, `pushWrite/Deal/Cmd`, `procStopMsg`, `procTaskEnd` → `delNode` | commands from all threads; ends tasks of other pools | a close in four stages over four threads, begun by any of them, several times |
| receiver, sender, dealer | the private halves of the queues | `procTask`, `procTaskEnd` | queues of the node; callbacks | order across two halves, work left behind at the end |
| socket reader (`sockobj`: `MsgReader`) | partial header, partial message | `read`, `parse` | `recv`; `dispatch` to the dealer | fragments end anywhere; bad lengths |
| socket writer (`sockobj`: `MsgWriter`) | the private send queue with fill marks | `write`, `sendQue`, `prune` | `sendmsg` | partial sends, vector and byte limits |
| connector, listener (`sockobj`, `director`) | status of the connect; `m_size` of epoll | `writeNode`, `procConnect`; `accept`, `addConnector` | epoll, callbacks | the outcome races with failure and close; one edge for many clients; the capacity |
| epoll (`sockepoll`) | registrations, `m_size` | `addEvent`, `delEvent`, `waitEvent`, `failFd` | reports become events of tasks | edge-triggered: a missed edge is a stall |
| timer wheel (`ticktimer`) | `m_tick`, two wheels, `m_size` | `addTimer`, `modTimer`, `delTimer`, `stop`, `tick` | `doTimeout` in the middle of `tick` | borders of the wheels, wrap, re-arming inside the callback |
| timer node (`timerobj`) | the timerfd's counter; `m_tick`, `m_time` of each thread | `readNode`, `procTickTimer` | commands to three threads | coalesced expirations |
| start, stop, join (`director`, `cthread`, `server`, `testcase`) | threads, `m_running` | `start`, `join`, `stop`, `finish` | signal handlers that call `stop` on any thread | signals at any point, in the middle of the frees too; threads that start late |
| what a thread sleeps in (`taskpool`, `director`, event node) | an eventfd's counter, epoll's ready list, a pending signal | `alarm`, `wait`, `check`, `readNode` of the event node | any thread alarms; the receiver reads the director's eventfd | an alarm between the decision to wait and the wait; an alarm swallowed by the receiver |
| sockets (`director`, `server`, `sockutil`) | descriptors, nodes, registrations, `m_size` | `addListener`, `addConnector`, `addService`, `accept`, `delNode` | calls that may fail between opening a descriptor and owning it | every error path has something else to give back |
| intrusive lists (`listnode.h`) | pointers in nodes and heads | add, delete, splice, replace, walks that delete | the queues and slots of everything above | nodes are linked again while a walk stands on them |
| configuration (`config`, `server`) | the sections read so far, the settings | `parse`, `analyseGlobal`, `Server::init` | read once, before the threads start | lines longer than the buffer; repeated keys and sections; quotes and hashes inside lines |
| node and message memory; locks; system calls; logging | – | – | – | see section 7 |

What makes each of them correct is what its run checks (section 3).

## 2. Modules

Every module stands for one component; `MC…` modules hold only the constants and
symmetry of an instance. `PROJECT.json` maps each definition to its lines.

| Module | What it is |
|---|---|
| `TaskDoor` | the words: `BitDoor` and `BinaryDoor` as operators on sets of raised bits |
| `TaskPool` | a pool with its producers and its thread, one action per atomic step (a word or door operation, a spin-locked section, a look at `m_running`) |
| `TaskGate` | what a pool promises: requests merge, each task is idle, ready, running, parked or ended; `MCTaskPool` holds the refinement mapping |
| `QueueLemmas` | lemmas on sequences, on induction over numbers, on joined queues and on sums, for the proofs (section 5) |
| `TaskPoolProofs`, `NodeLifeProofs`, `MsgPipeProofs`, `TimersProofs`, `SocketsProofs`, `ShutdownProofs`, `ParserProofs` | the theorems about the module each is named after and their proofs |
| `DoorBits` ⇒ `DoorOps` | the compare-and-swap loops on the 32-bit word implement the single steps `TaskPool` takes |
| `PoolList` ⇒ `PoolQueue` | the pointers of the singly linked roots and of `consume`'s walk implement the sequences `TaskPool` uses |
| `QueList` ⇒ `QueSeq` | the doubly linked lists implement the two halves of a node's queue, which `NodeLife` has as sequences |
| `SlotList` ⇒ `SlotSets` | the hash lists and the three walks of the wheel implement the sets `TickTimer` uses |
| `Waiter` | the eventfd, epoll and signal forms of a thread's wait, and `alarm` |
| `NodeLife` | one socket shared by four threads, **over `TaskGate`**: each of its four tasks is a task of the gate the pools are shown to implement; queues, commands, close chain, connect, failures |
| `NodeView` | what the application sees of a socket: open, messages in order, one close |
| `MsgReader`, `MsgWriter`, `MsgPipe` ⇒ `MsgChannel` | the two ends of a connection; composed with a kernel of bounded room and edge-triggered readiness, and a close at any point, they implement a channel of whole messages |
| `TickTimer` ⇒ `Timeouts` | the timing wheel implements exact timeouts |
| `Clock` | the way of the timer's expirations to the four wheels |
| `Sockets` | every listener, accepted socket and connector of a server: its descriptor, node, two registrations and place of `m_size`, from `addService`/`startServer`/`accept` over the close chain to `delNode`, with every call that may fail |
| `Shutdown` | the main thread, the four pools' threads and the signal handlers, and what `finish` frees of all that a handler reads: a step for each delete and one for each NULL |
| `Parser` | the configuration file: its lines as sequences of lexemes, the loop that reads them, and the values a start needs |

State and code correspond by name where TLA+ allows: `word` is `Task.m_state`,
`lockq` the list under `m_lock_root`, `kept`/`todo` the part of `m_safe_root`
before and after the walk, `door` the `BinaryDoor`, `tmp`/`que` the `m_*_que_tmp`
and `m_*_que`, `status`, `kind`, `ev`, `err` the node's `m_fd_status`,
`m_node_type`, `m_ev_type` and `m_*_err`, `expires`, `interval` a timer's fields, `cell` and
`pprev` the memory of the hash lists. `pc`-like variables say where a thread is between two atomic steps.
A definition headed "as a fault" is a mutated form that no specification uses:
it is what a plausible bug at that place would look like, and each property is
known to fail when one of them replaces the real definition.

## 3. Runs

| Run | Instance | Shows |
|---|---|---|
| `pool_safety` | 2 tasks, 2 producers, NORM and one sleepable event (a task asleep on it meets the awaited and an unawaited event; the words of two sleepable events are in `parts`), every result of `procTask`; symmetric | `OnePlace`: a task is in at most one place of the queues. `PlaceIffArmed`: it has one exactly when its word is armed, so no event is lost and no task queued twice. `EndHonoured`, `NothingAfterEnd`: ends are taken once, and last. `NoLostWakeup`, `StopHeard`: the thread never waits through a request or a stop. `GateSpec`: the pool refines `TaskGate` |
| `pool_liveness` | 2 tasks, 1 producer; a task may answer IN for ever | `RequestServed`, `EndServed`, `StopServed` |
| `parts` | one task's word with 2 producers and four event slots; four tasks in a pool's queues; four nodes in the two halves of a queue; four timers in three slots and the local list; symmetric | `OpsSpec`: each `addBit`/`setBit` loop is one atomic step with the answer `TaskPool` gives. `QueueSpec`: the singly linked lists are the queues, although `consume` follows a successor it read before the node was released and pushed again. `ListSpec`: the doubly linked lists are the queues, although a walk frees the node it stands on and the memory may be linked again at once. `SlotSpec`: the hash lists are the slots, although the walk empties the list it follows and a callback may put the timer back in the slot that goes off |
| `node_accepted` | accepted socket, 2 messages each way; read and write errors, refusals | `NoStranded`: whatever is appended to a queue has a thread on its way. `EndsInOrder`: the close chain ends the tasks one after the other. `Unregistered`: once its close began an accepted socket stays out of epoll. `QuietWhenFreed`: nobody queues anything in a freed node. `InOrder`: both message queues are FIFO across their halves. `ViewSpec`: callbacks follow `NodeView` |
| `node_connector` | connector, 1 message sent from `onConnected`; refusal, reset | `EndsInOrder`, `ViewSpec` when the outcome of the connect races with a close; `CloseCompletes`: a broken connection is noticed and freed |
| `node_live` | accepted socket, 1 message; read errors, refusals, resets | `CloseCompletes`: any failure and any begun close lead to `delNode`. `ReceivedTaken`: received messages are taken by the dealer. |
| `pipe_channel` | 41 streams of up to 3 messages (after a bad length at most one more) with lengths on both sides of both limits of `chkHeader` (header 2; 3 and 4 are good, 2 and 5 bad), 7 bytes per `recv`, 2 messages or 5 bytes per `sendmsg`, a window of 7 bytes; the sender may close at any point, and its last attempt take any number of bytes | `Framed`: exactly the messages sent are cut out. `Conserved`: every byte is in one place, and no complete message is held back; a close leaves a first part of the stream. `ChannelSpec` **with its fairness**: the channel breaks at the first bad length, or after a close, and not before, and no edge is missed on either side, so the connection does not stall |
| `timers` | 2 timers, wheels of 2 and 4 slots, counter of 16, timeouts 0, 1, on the border of the wheels, and the longest; 4 expirations of the timerfd | `TimeoutSpec`: a timer goes off exactly at its tick. `TimeConserved`, `CatchUp` of the threads' clocks |
| `sockets` | a listener, 2 clients and 1 connector, the listener and the connector added before or after the start; capacity 5, of which the server's own descriptors and the listener take 4; opening, connecting, registering, `accept`, `onAccept` and `onConnected` may fail | `SizeCounts`: `m_size` is the number of registered sockets, but for the connector described below. `RoomKept`: accepting keeps to the capacity. `FdsOwned`: no descriptor is left open, or closed under a node, on any path. `BacklogServed`: one edge is enough for every client, and what a failing accept left behind is served with the next |
| `shutdown_stop` | 2 signals, thread creation may fail; one thread's waiter of each kind, an eventfd counter of 2; configuration files of up to 4 lines out of 15, pieces of 5 lexemes | `FreedAlone`: nothing is freed while a pool's thread, or a handler on one, is at work, and a handler on main finds all it reads but for the director or the server between delete and NULL. `StopEnds`: a stop of a running server completes. `WaitEnds`: an alarm ends the wait it finds or the next one, in each of the three forms. `FileMeant`: the loop takes a file for what a declarative reading of its pieces says, and the server starts with exactly the files that give all it needs |

`parts`, `timers` and `shutdown_stop` each hold components that share no state; a
behaviour runs one of them and leaves the others alone (`part`).

Two tasks and two producers suffice for the races on one word and for two tasks
in one queue; four tasks let `PoolList` have a first, a middle and a last node on
the walk with one on the locked root. The invariants of all runs and the
steps of four of the refinements are also proved for any number of whatever a run has two or three of (section 5).

### Statements the code does not keep

| Run | Property | Counterexample |
|---|---|---|
| `node_alive_when_touched` | `AliveWhenTouched` | the thread that queued a command has still to call `addTask` on the node's task when the chain it started frees the node (`director.cpp:326`) |
| `shutdown_honoured` | `StopHonoured` | the director is told to stop before another thread has set `m_running`: `join` waits for ever (`tasker.cpp:121`) |

Six more were found with the same models while they were written; each is a
one-line property of the module named, and its counterexample follows the lines given:

- `NodeLife`: a node may be freed with received messages the application has
  not refused and never saw, since the dealer's END is preferred to its pending
  request (`tasker.cpp:246`, `dealer.cpp:59`): `~Freed /\ Freed' => taken["deal"] = made["deal"]`.
- `NodeLife`, connector: CLOSING handled before a CONN_OK that was already queued.
  `procConnect` sets the status back to normal and registers the socket
  for reading (`sockobj.cpp:399-404`); the chain still frees the node, but its place in `m_size`
  is not given back. `Closing => ev' \subseteq ev` fails.
- `NodeLife`, connector: `failFd` may set `m_wr_err` before the sender asks for the
  outcome of the connect; the connector is then dropped without `onFailConnect`
  (`sockepoll.cpp:277`). `view' = "dropped" => view # "connecting"` fails.
- `Sockets`: `addConnector` does not look at the capacity, so `size <= Capacity` fails
  (`director.cpp:676`), while `m_size` is what `epoll_wait` is given for an array of
  `m_capacity` entries (`sockepoll.cpp:185`).
- `Shutdown`: a signal on main between `delete` and the NULL of `I_FREE(m_director)` or
  `I_FREE(g_server)` passes the handler's test and calls `stop` on freed memory
  (`sysoper.h:42`, `server.cpp:125`, `testcase.cpp:89`):
  `\A t \in Thread : handlers[t] # <<>> => Gone(t) = {}` fails. `FreedAlone` is what is left of it.
- `Parser`: the rest of a comment longer than the buffer is read as a line of its own
  (`config.cpp:165`). It refuses the file, or is taken as a setting: that a line with a
  hash before its items sets nothing, `phase = "ready" => config["log_level"] # "3"`, fails
  in `MCShutdown`, whose files have that value only in a comment.

### Bounds

Every bound is a CONSTANT.

- `NodeLife`: `MaxMsg`, `MaxSend` messages of each kind; two received and two
  sent messages let one wait in each half of a queue.
  `MaxReport`: CONN_OK commands waiting while epoll reports again; one more
  would be ignored as the first is (`CmdIgnored`). `Failures`: what may go wrong
  in a run. The close chain itself is not bounded: any number of CLOSING
  commands the actions can produce is in the model.
- `MsgReader`, `MsgPipe`: `Lengths` (the streams), `HdrLen`, `MaxSize`, `RecvMax`,
  `VecSize`, `SendMax`, `Window` are small versions of `DEF_MSG_HEADER_SIZE`,
  `MAX_MSG_SIZE`, `DEF_TCP_RCV_BUF_SIZE`, `DEF_VEC_SIZE`, `DEF_TCP_SEND_BUF_SIZE`
  and the kernel's buffers, chosen so that each limit is reached from both sides.
- `TickTimer`: `Size1`, `Size2` and `Wrap` keep the code's relation (the counter's
  range is a multiple of one turn of both wheels). `Timeout` stays within one
  turn of both, as the assumption says: a longer one would go off early, and
  timeout 0 waits for a turn of the first wheel. No caller asks for either.
- `Clock`: `MaxExpire`; `Shutdown`: `MaxSignal` (one signal ends the director, one more may
  nest in it, or interrupt the frees); `Waiter`: `MaxCount` (the counter
  of an eventfd is read as a whole: more than one is no different from two).
- `Sockets`: `Conn`, `Link`, `MaxCmd` (commands another thread may have queued for a
  socket; a second one shows that it changes nothing), `Failures`. With a capacity of
  5 the listener has room for one client, or for none once the connector came first.
- `Parser`: `Lines`, `Width`, `MaxFile`. Four lines let a file have its section, both
  kinds of setting it needs and one line that overrides, breaks or repeats something;
  one integer key stands for the four that are checked alike. The lexemes do not say
  where inside a name or a value a piece may end.
- `QueList`, `SlotList`: four nodes, so that one can be at the front, one in
  the middle, one at the end and one on its way back in; three slots, so that a
  walk has its own, another one of its wheel and one to put timers in.
- `DoorBits`: the events keep their real bit numbers (`Slots`). Bit 31 is never
  set, since an END is never checked out, so words stay below 2^31.
- `TaskPool` has no bound but its sets.

`CHECK_DEADLOCK FALSE` is said where the modelled input ends: all bytes sent, all
clients served, all expirations handed out, the server freed. `TaskPool`, `NodeLife`,
and the four parts of `MCParts` are checked for deadlock.

## 4. Fairness

- `TaskPool`: a thread inside the pool's code keeps running and `procTask`
  returns: weak fairness of the thread's next step and of each producer's next
  step after `checkin`. Nobody has to call `addTask`, `endTask` or
  `stopRun`. `WakeEarly` (an interrupted poll, or epoll's timeout) is not fair:
  no property may rest on it.
- `NodeLife`: each thread keeps working on its task, which `RequestServed` and
  `EndServed` justify, and epoll reports a failed socket. That bytes arrive or
  that a socket becomes writable is not assumed.
- `MsgPipe`, `Sockets`, `Clock`: the threads run and epoll delivers what it owes.
  In `MsgPipe` nobody has to send or to close.
- `Waiter`: the calls `poll`, `read`, `sigsuspend` and `epoll_wait` return when what
  they wait for is there, and `epoll_wait` after its timeout (1 s). The director's wake-up rests
  on that timeout: the receiver may read its eventfd before `epoll_wait` looks at it,
  and nothing else would end the wait. Alarms, the receiver and early wake-ups are not fair.
- `Shutdown`: the threads and the handlers run (a use of freed memory may also end the
  process: `dead`; `StopEnds` and `StopHonoured` then ask for nothing more); a handler's log returns, although
  `localtime_r` takes a lock that the interrupted thread may hold (`testcase.cpp:58`). That a running pool with
  `m_running` cleared leaves its loop is `StopServed`.
- `Timeouts` demands only that the walk of a tick ends.

## 5. Proofs

Every INVARIANT of the passing runs is a theorem for every value of the constants;
so are `NothingAfterEnd`, `GateSpec` and `ViewSpec`, and the steps of `TimeoutSpec` and `ChannelSpec`.

| Theorem | Says | Of |
|---|---|---|
| `TypesKept`, `PlacesApart`, `QueueCorrect` | `TypeOK`, `OnePlace`, `PlaceIffArmed` | `TaskPool` |
| `EndNeverLost`, `NoRunAfterEnd` | `EndHonoured`, `NothingAfterEnd` | |
| `WakeupNotLost`, `StopNotLost` | `NoLostWakeup`, `StopHeard` | |
| `PoolIsGate` | `GateSpec`: the pool refines `TaskGate` | |
| `TasksEndInOrder`, `FreedQuietly`, `AcceptedUnregistered`, `NoneStranded`, `MessagesInOrder` | `EndsInOrder`, `QuietWhenFreed`, `Unregistered`, `NoStranded`, `InOrder` | `NodeLife` |
| `CallbacksFollowView` | `ViewSpec`: the node refines `NodeView` | |
| `MessagesFramed`, `BytesConserved` | `Framed`, `Conserved` | `MsgPipe` |
| `ChannelSteps` | every step is a step of `MsgChannel` or none | |
| `OnTime` | every step is a step of `Timeouts` or none | `TickTimer` |
| `TimeKept` | `TimeConserved` | `Clock` |
| `SizeCounted`, `RoomIsKept`, `FdsAreOwned` | `SizeCounts`, `RoomKept`, `FdsOwned` | `Sockets` |
| `FreedInPeace` | `FreedAlone` | `Shutdown` |
| `FileRead` | `FileMeant` | `Parser` |

None of these invariants is inductive. The rest of this section is the
strengthening each needs, and what it assumes.

**The pool** (`PoolAssumption`: `NoTask` is no task, the results are those `consume`
knows; `ParkAssumption`: a task does not sleep on LOCK, NORM, END or a result; any sets of tasks and producers). Three invariants, each
inductive given the one before:

1. `TypeInv` (`TypeCorrect`): the types, and the *shape* of the walk: the
   consumer has a current task exactly in `run`, `ending` and `unlink`, its private
   queue is empty before it waits.
2. `TicketInv` (`Tickets`): every task that is armed has exactly one *ticket*:
   a producer on its way to push it, a place in the locked queue, in the walked or
   the unwalked part of the private one, or the consumer's hand; and an unarmed task has
   none. Pushing, splicing and unlinking move tickets; `checkin` creates one only
   when the word says so, and `release`/`checkout` destroy one by the same word.
   It carries the shape of the words with it (at most one awaited event, LOCK
   set while the task runs, an END fills the word). Hence `QueueCorrect`
   and `EndNeverLost`, and with the step condition that a
   task whose end was taken has no ticket left, `NoRunAfterEnd`.
3. `DoorInv` (`Debts`): whoever made the door non-free owes the thread an alarm or
   is owed a turn of the loop; hence `WakeupNotLost` and `StopNotLost`.

`PoolIsGate` maps a word to the requests it stands for and to the stage of its
task. A producer's `checkin` is the gate's `Raise`, the consumer's `login`,
`release` and `checkout` its `Enter`, `Leave` and `Park`, and everything that moves a
ticket without touching a word is a stutter. The tickets say that the word
the consumer takes is one that is armed.

**The node** (`LifeAssumption`; any number of messages, commands and failures).
`NodeInv` (`ChainKept`) is about the close chain: a command of the
chain is in the node, or the task it ends has been ended, only when the task
before it *is gone and has said so* (`Told`), and a thread
says so once and then nothing more (`Hands`). The order of ends, the quiet of a
freed node and `NoStranded` follow. `Unregistered` has the hypothesis
`kind = "SOCK"`, as the run has: for a connector it fails (section 3). For the
order of messages each queue half is a run of consecutive numbers that
begins where the other ends (`MsgInv`). For `ViewSpec` one has to know
which words a thread can have to say at each point (`Words`), that a message
comes only while the application may be given it (`Delivery`), and that after a failed
connect the sender never reports a success, in the queue or on the way to it
(`Outcomes`).

**The connection** (`ReaderAssumption`: a length counts its header; `PipeAssumption`:
vectors, byte limits and windows are not 0; any streams of any lengths, any fragments).
The stream is *one sequence* (`Whole`), and each part of the path holds a piece of it
that begins where the next part's ends: the message under construction, the reader's buffer
(`Incoming`), the wire and the sender's queue (`Outgoing`), at positions computed from the number of messages
dispatched. Reading, cutting, sending and pruning move the borders between the pieces
and never their contents. Once a bad length is met, or the sender closed, only what
was dispatched counts. `ChannelSteps` is the refinement of `MsgChannel` but for
its fairness.

**Timers** (`WheelAssumption`: the range of the counter is a multiple, of 2 or more, of one turn
of both wheels, and no timeout is longer than a turn; any sizes, and any width of the counter). `WheelInv`
(`WheelKept`) places every timer: in the first wheel, in the slot of its tick; in the second,
in the slot that comes up in the first turn in which the timer is due (`InSecond`),
across the wrap of the counter. The proof is the arithmetic of quotients and remainders
by two sizes. Hence a timer of the slot at hand is due now,
and a timer due now is in the slot at hand (`OnTime`). For the clocks, each value read from the timerfd is handed to each thread
once before the next is read (`ClockInv`); the rest is sums over queues.

**Sockets** (`NodesAssumption`: finitely many sockets, each of its own; `RoomAssumption`: the
capacity is above that of the server's own three descriptors). `SockInv` (`AccountsKept`) has, beyond `FdsOwned`:
who may be told what (`Orders`), that a socket in a command or in the backlog is
there once and has no node yet (`Waiting`), and that `m_size` counts registrations and
those that `accept` looks at keep to the capacity (`Seats`). `RoomAssumption`
was found by the proof: the listener is added without a look at the capacity, so with a
capacity of 3 its own registration would be above it. `DEF_FD_MAX_CAPACITY` is 200000 (`globaltype.h:42`).

**Shutdown** (any number of signals and any nesting of handlers). What the main thread has to do
is a list of calls; the invariant (`ShutdownInv`) is that a `create` in it is followed by a `join` of every
thread (`JoinsFollow`), that each thread at work has its `join` in what is left of the
list, that only threads at work, and main, run handlers, and that the frees come last
(`FreesLast`), so that nothing is freed while a `join` is left. Of a handler on main it says
what it has found (`Found`): the pointers it has tested are not NULL, since main
does nothing while it runs, and past `isRunning` everything is there, since a director
that runs has still to be joined. So a handler during the frees gets no further than
`isRunning`, and can miss only the two objects it reads up to there.

**The configuration** (`ParserAssumption`: the buffer is not empty, and lines are sequences; any files, keys and values). What `fgets` has still
to take is the end of the file's contents (`Ahead`), and the map, the current section and the verdict are
what a declarative reading makes of the pieces before it (`Loaded`): one lemma for each
branch of the loop. At the end of the file, what `analyseGlobal` looks up is what the file set last.

### Induction

The library's induction theorems take an operator, which the installed provers cannot give
them. `QueueLemmas` proves induction over the *set* of numbers that have a property
(`Induct`, from the well-foundedness of `<`), and with it what the folds of the community modules
compute: `FlattenSeq` (`FlattenAppend`, `FlattenConcat`) and sums (`SumAppend`, `SumTail`). It
also has the facts on sequences without repetition that the tickets need.

### Only model-checked

- Liveness, since fairness and ENABLED are beyond the prover: `RequestServed`, `EndServed`, `StopServed`,
  `CloseCompletes`, `ReceivedTaken`, `BacklogServed`, `StopEnds`, `WaitEnds`, `CatchUp`, and
  the fairness of `TimeoutSpec` and `ChannelSpec`. For these the theorems `OnTime` and `ChannelSteps` give
  the initial states and the steps.
- The refinements that justify the granularity: `OpsSpec` (the words as 32-bit numbers:
  arithmetic of powers of two), `QueueSpec`, `ListSpec` and `SlotSpec` (which nodes are reachable through
  pointers).
- `AliveWhenTouched` and `StopHonoured`, which the code does not keep.

## 6. How the parts are composed

- `DoorBits` and `PoolList` justify the granularity of `TaskPool`, `QueList` the
  queues of `NodeLife`, `SlotList` the slots of `TickTimer`, `Waiter` the `signal` of
  `TaskPool`. For the director `signal`
  is too strong: the receiver may take it away, and `NoLostWakeup` and `RequestServed` hold
  of the director's pool up to the timeout of `epoll_wait`, as `WaitEnds` shows. Each of
  the first two takes one
  of its results as a guard: a task is added to a root only without a place, a
  word is locked only when armed. That is `PlaceIffArmed` (`QueueCorrect`).
- `TaskPool` refines `TaskGate`, which is proved (`PoolIsGate`); `NodeLife` uses `TaskGate` for each task.
- `NodeLife` treats messages as numbers; that bytes become messages, and
  messages bytes, is `MsgPipe`. That the sender may stop after any number of
  messages and in the middle of one is in both.
- `Sockets` has of `NodeLife` the close chain of each socket: commands are queued
  in any order other threads can produce, and the chain ends in `delNode`.
- `Parser` decides whether `Shutdown`'s start happens at all. `Shutdown` uses `StopServed`. `Clock` says when `TickTimer`'s `tick` is called.

Abstractions a reader should know: in `NodeLife` a late `addTask` on a freed
node changes nothing, which is what `AliveWhenTouched` is about; a section under
a spin lock is one step; the sender's last attempt on a connector may report its
outcome again. In `TickTimer` the order within a slot and the unused sum `m_time` are
left out, and a callback re-arms its own timer only, as all callbacks of the code do.
In `Shutdown` a pool counts as freed from the beginning of its own `finish`. Freed memory that a
handler reads either still holds what was in it, which ends the handler, or nothing more
is said of the process. What a handler does not read (nodes, timers, epoll, callbacks,
the parser) is left out of the frees.
In `Clock` a tick of several expirations moves the wheel by one, as in the code:
timeouts are never early, but may be late. In `Sockets` a socket takes one
place of `m_size`, whichever of its two registrations is made first or removed
last, and a close cannot interrupt the accept loop, since both run on the director.
In `MsgPipe` a close may leave the bytes on the connection readable or cut them short:
which, is decided by the reset of `SO_LINGER` and by the peer's `failFd`. `LIST_SIZE`,
the wheel's `m_size` and `m_time` are written and never read; they are left out.

## 7. Not modelled

- `MutexWaiter`: no pool uses it, and its header says it cannot be used.
- Memory that cannot be had (`new` throws, and nothing catches it), and the freeing
  of single messages: a message or command is in one queue or in one thread's hand,
  and whoever takes it last frees it at once; what is still queued is freed with the node.
- `SpinLock` and `GrpSpinLock`: a section under one is a step. No section takes a second
  lock, so two nodes that share a slot of the group only wait for each other.
- Socket options, addresses and their formatting.
- The logger: no component's state depends on it. Two of its hazards are listed
  (buffers shared by count, a file truncated when its index wraps), without a
  property, since no model has the text of the log; a third, its locks under a signal
  handler, is an assumption of `StopEnds`.
- `main`, and the example program but for its signal handler and its callbacks.

## 8. Plan

The components are modelled, in the order task pool, node, connection, timers,
shutdown, sockets, lists, waiters, configuration. What is left:

1. Proofs: the list refinements (`PoolList`, `QueList`, `SlotList`) and `DoorBits`.
2. Composition of `Clock` with `TickTimer`: how late a timeout can be.
