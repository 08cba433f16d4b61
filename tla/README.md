# A verification development for NRTB

NRTB is a robot battle simulation. A C++ engine (`src/cpp/sim_engine`) runs turns of
fixed length over a population of objects; robots are driven over TCP by *bot control
programs* (BCPs, `src/cpp/BCPs`); a small library (`src/cpp/common`) supplies the work
queue, sockets, timers, configuration, logging and geometry. This directory holds TLA+ models
of these parts, their TLC runs, and proofs of the main results for every value of the
parameters.

## 1. Inventory

Paths are below `src/cpp`.

| Component | State | Operations | Hard part | What makes it correct |
|---|---|---|---|---|
| `common/abs_queue`, `linear_queue` | buffer, `in_count`, `out_count`, `completed`, `ready`, `blocked`, two mutexes, two condition variables | push, pop, task_done, join, hold, release, shutdown, clear | atomics changed outside the mutexes; notifications outside the mutex | order, exactly-once, no lost wakeup, join drains, shutdown releases everybody |
| `sim_engine/sim_core` | `all_objects`, message queue, collision queue, three work queues, `end_run`, `is_running`, the engine thread | start_sim, stop_sim, add_object, remove_obj; turn_init, tick, collision_check, resolve_collisions; worker loops | three pools of workers over shared objects; callers in every phase | phase barrier, work exactly once, the dead leave, the added arrive, stop ends |
| run_sim's clock, `common/timer` | `nexttime`, `ticks`, two timers | measure, overrun, sleep | unsigned subtraction, late wakeups | a turn per quanta, no drift |
| panopticon (in `sim_core`) | public and private contact list, `list_lock` | start_new, add, done_adding, get | `list_lock` is never locked (a local variable of that name is) | a reader sees the list of one whole turn |
| `sim_engine/bot_mk1`, `bot_interfaces` | `ImAlive`, to_BCP, from_BCP, autopilot settings, three threads | lock/unlock, receiver, transmitter, msg_router, tick, destructor | router against engine; the destructor joins three threads | commands run between turns; a dropped link kills the bot; destruction ends |
| `sim_engine/base_object` and effectors | effector lists, forces, motion, cached sine and cosine | add_pre, add_post, command, tick, check_collision, apply | an effector that drops itself while the list is walked; a quadratic solved over a quanta | commands reach what is attached, forces do not outlive a turn, no contact is missed |
| `sim_engine/bcp_server` | the listener, `pop_limit` | start, stop, processor | the limit is tested before the bot is queued | the population stays near the limit |
| `common/sockets` | descriptor, status; the listener's queue and thread | get, getln, put, close; start_listen, stop_listen, run | timeouts and short reads; a socket cannot unread; stopping a blocked accept | no byte lost, lines end at their eol, calls end, the listener ends |
| `sim_engine/main` | health loop, output writer, SIGINT | start-up and shutdown | parts that have died unnoticed | shutdown ends, every report is stored |
| `common/singleton`, `ipc_channel` | an instance pointer; a map of queues | get_reference; get | a first test without the lock; a map without one | all threads share one queue |
| `common/confreader`, `common_rl` | name/value map | read, get; gsub, split, trim, mconvert, http_enhex, http_unhex | precedence, comments, escapes | what is written is read; the command line wins |
| `common/point` | three numbers | arithmetic, products, ranges | | the products agree |
| BCPs | a socket, a queue, a state machine each | target, kamikaze, cal_bot | replies without a name; a lost link | answers matched to questions; the program ends with its link |
| `common/logger`, `common_log`, `serializer` | a queue and a writer; a counter | record, close; next | closing while recording | not modelled, see 6 |

### How they interact

`main` starts the output writer and the engine's thread, then the listener, whose thread
accepts sockets and queues them for the processor. The processor constructs a `bot_mk1` and calls
`add_object`, which puts a message on the engine's queue once the engine runs. Each turn the engine
lock()s every object (a bot holds its command queue), handles the messages that were there at that
moment, erases the dead, deals packets of objects to a work queue and join()s it, once for ticks,
once for pairs to collide and once for applies, resolves the collisions (which may queue removals),
publishes the contacts, unlock()s, puts a report on the named channel `sim_output`, and sleeps
till the next turn. Everything passed from thread to thread goes through the work queue, so that is
what the development starts from.

`PROJECT.json` lists the hazards at their lines, with the properties that watch them.

## 2. Modules

| Module | What it is |
|---|---|
| `QueueContract` | What the work queue promises, without locks or counters |
| `AbsQueue`, `AbsQueueProofs` | The work queue at the grain of its locks and atomics; invariants and refinement |
| `SimCore`, `SimCoreProofs` | The engine thread, its workers, its callers and the bots' links |
| `HiresTimer`, `TurnClock`, `TurnClockProofs` | The timer, and the turn loop's use of the wall clock |
| `BotMk1`, `BotMk1Proofs` | One bot: three threads, two queues, its drive, the turn, the destructor |
| `Triad`, `BaseObject`, `BaseObjectProofs` | Vectors; one object with its effectors against a neighbour |
| `TcpSocket`, `TcpSocketProofs` | put, get and getln over a stream |
| `Channels`, `SimEngine`, `SimEngineProofs` | The lookup of the queue of reports; the whole program, main to exit |
| `BcpClient` | The three bot control programs against a bot |
| `TextTools`, `ConfReader`, `ClientStart` | Text functions, the configuration, and a client that starts by reading it |
| `BcpClientProofs` | Proofs about the control programs and about the configuration they start from |
| `MCAbsQueue` ... | Instances for TLC, one for each model |

`SimEngine` EXTENDS `Channels`; `BaseObject` EXTENDS `Triad`; `TurnClock` EXTENDS `HiresTimer`;
`ClientStart` EXTENDS `BcpClient` and `ConfReader` (which EXTENDS `TextTools`) and runs the
one into the other.

An operator named `X_Something` before an operator `X` is a plausible bug in the code `X`
models; nothing uses it. It documents what the properties are able to see.

### AbsQueue

One step is what a thread does between two points at which another thread can see or
change the queue. Code under `mylock` or `joinlock` is one step. `push` takes four
(test `ready`; `in_count++`; insert under the lock; test `blocked`, then notify), because
the first two and the last are outside the lock. `pop` evaluates its condition with
`mylock` held and then either takes, throws, or parks; *parked* is the stretch between
the decision to wait and the wait itself, in which `mylock` is still held. That
stretch is what makes the difference between `shutdown()` (which needs `mylock`,
so cannot fall into it) and `release()` (which does not). `task_done` increments,
reads the two counters one after the other, and notifies under `joinlock`; `join` reads
them the same way under `joinlock`. C++ does not say which operand of `==` and `!=` is
read first: the constant `FirstReads` says which orders are considered.

Consumers loop over pop, work, task_done, as every worker in the code does; a consumer
whose pop() throws is gone. Condition variables wake any one sleeper, or all, or spuriously.
The history variables `outstanding` (items announced, not finished) and `owed[j]`
(what was outstanding when `j` called join()) are read by no guard.

The counters are unbounded naturals: the code's `int` overflows after 2^31 pushes, which at
the engine's rates is months away, and signed atomic increments wrap without undefined
behaviour, so that the equality test is unaffected.

`QueueContract` is the refinement target: `ready`, `sent`, `buffer`, `item` and the set of
threads inside join() are its variables under the mapping at the end of `AbsQueue`;
a producer between `in_count++` and the insertion is *in hand*.

### SimCore

`epc` is where `run_sim` stands: `top` (the loop test), `messages` and `erase`
(turn_init), `tick`/`join_tick`, `clsn`/`join_clsn`, `apply`/`join_apply`, `resolve`,
`report`, and `shut`, `ending`, `ended`. The work queues are used at the level of
`QueueContract`: packets are taken oldest first, each by one worker, and join() returns
when all are finished. Packets are dealt out as in the code, by a counter modulo the number
of workers, over the objects in the order of the map or the pairs in the order of the two
nested loops. Each object's tick or apply, and each pair's check, is one step; its
answer is any Boolean, except that a bot whose link is down answers that it is dead, and that
bots never die of a collision (`bot_mk1::apply_collision`).

Races and undefined behaviour are explicit. `crashed` says what ended the process
(`null object`, `terminate`, `map race`), and the system then stops. The loop that erases from
the map it walks is undefined; `EraseMaySkip` lets it end anywhere after the first erasure, as
walking a freed tree node can; without it the loop visits everything, as it does with the usual
library when the freed node still holds its links. Both runs let it end early. `verdict` is a history of the
verdicts of one turn, forgotten when the work of the next begins.

Constants switch the environment: `CallersWait` (add_object/remove_obj are called only
once the engine runs), `Removable` (ids some caller removes), `MayOverrun`,
`WorkersMayThrow`, `MaxStarts` (bound on start_sim() calls).

### TurnClock and HiresTimer

Of the wall clock only `slack`, the true difference `nexttime - wallclock`, is kept. The subtraction is
modulo `Wide` (2^64 in the code) and usleep() takes its argument modulo `Narrow` (2^32). The
instance uses 2^8 and 2^7, with times in a unit that fits; the theorem is for any. `TurnTimes` is what a turn may
take: anything up to the budget, or a quanta and more, which ends the run. A usleep() is up to `MaxLate` late. The timer of a
turn is a record with the operations of `hirez_timer` that the loop uses, reset, start and interval.

### BotMk1

The receiver, the transmitter and the router run against each other, against the engine's turn (lock,
tick, unlock) and, at the end, against the destructor, which is run by the thread that drops the last
reference. A step ends at each access to an atomic or a queue another thread uses: a command of
the router is a sequence of stores and pushes (`Effects`), taken one by one, and the engine reads thrust and
brake one after the other. `from_BCP` is the work queue with one consumer, parking included;
`to_BCP` is never held, so that its pop() is a single step. The link may be lost at any time, put() and
getln() may throw; the second exception of the router's handler is `crashed`. `turn.carried` is a
history: whether a command was under way when the turn began.

### BaseObject and Triad

The turn of one object as the workers do it: tick() executes the drops asked for since the last one,
clears and accumulates the forces, and moves the speed; check_collision() answers for a neighbour that keeps
its course; apply() moves the object and turns it. Between turns effectors are added (before the first) and
commands arrive. A turn is one unit of time and components are integers, so that the quadratic of
check_collision() is exact: divisions are multiplied out, roots are compared by their squares.

The drive is commanded as the router does it (`Commanded`): turn rate, power and brake, lockdown() for what is out of
range, and a brake that is fully on in a new drive. On the ground, which is where `OnGround` says, power and brake are
forces along the heading (`Thrust`), the brake limited to the kinetic energy across the ground and the power set
(`Braking`); in the air the drive does nothing. The mass and the quanta are one; an object has one drive. Cosine and sine of
a heading are given by `Compass`, which is a rough table in the instance and any table in the proofs. What skids or is
dragged goes along the heading afterwards, with a speed that is any of `Skids` times it, turned round and longer speeds
included: `1 - (delta * speed / 1e4)^3` is below -1 for an extreme speed (`diff_steer.cpp:253`).

### TcpSocket

A step is one send() or recv() with the tests that follow it. The peer, the clock and a close() on
another thread move in between. get() is a loop inside the loop of getln(), as in the code, with its own frame
(`maxlen`, `timeout`, `endtime`, text). The lengths getln() asks for (`GetLen`) depend on
what it has, as it must not read a character behind the end of the line.

### Channels and SimEngine

`SimEngine` is the program at the grain of its threads: main() from the listener's start to exit(0), the
listening thread with its tests and later uses of `listen_sock`, the processor, the simulation as the others
see it (objects join at the start of a turn, a report leaves at its end, an overrun ends it) and the output
writer. A use of `listen_sock` after it was reset is undefined: it crashes or ends the loop.
`Channels` is how the three threads that use the queue of reports find it while they start: the
double-checked singleton, and a search and an insertion in a map without a lock. That race, too, ends the
program (`over = "map race"`).

### BcpClient, ConfReader, TextTools, ClientStart

The commands of a program are put on the link in the order of the code, each query is answered by one reply,
and the worker thread of target and kamikaze moves replies into a queue that get() pops. What the programs
compute from positions (a distance, whether the bot points home, whether a target was found) is a choice. A server that
is full sends a line of refusal and drops the link; main() takes any first line for its acknowledgement, so that this is
a connection lost right after its first line. The
configuration is the multimap as a sequence in which equal names keep their order. Texts are sequences of
character codes; the loops of the text functions are recursive functions over the places of a text. `ClientStart` reads
the command line and the file first, and connects only to a server name that str_to_sockaddr() takes apart.

`StartAssumption` says what command lines and files are considered. Characters are those of a C string, 1 to 255. No
argument is named `configfile`, which would only read another file (`ReadAll` models it). A file is written from
pairs of a name and a value, a line each, as rules 1 to 4 of `confreader.h` have it: a field is not empty (rule 5, names without values,
is not what the code does: section 3), starts and ends with no whitespace, because read() trims it, and
holds no end of line; a name has no blank, because the first blank ends it; no name is `*INCLUDE`; and a line fits the 16 KB that read()
has room for, as a longer one ends the reading. `LineOf` puts blanks around the fields and a comment behind
them, and escapes every symbol.

## 3. Runs

| Run | Question | Instance | Distinct states |
|---|---|---|---|
| `MCAbsQueue_contract` | Does the queue keep its contract, and do its counters and wakeups add up? (`ImplementsContract`, `CountersAgree`, `JoinDrains`, `WakeupsSuffice`) | 2 producers of 2 items, 2 consumers, a joiner that joins again and again, shutdown and clear at any time; `completed` read first | 568,879 |
| `MCAbsQueue_live` | Does everybody get out of the queue, also when it is held and shut down? (`NoLostDone`, `ShutdownReleasesAll`, `ItemsFinish`, `JoinReturns`) | 1 producer of 2 items, 2 consumers, a joiner, a gate, shutdown; counters read in either order | 58,980 |
| `MCSimCore_turn` | Is the turn right? (`WorkExactlyOnce`, `RmTargetsPresent`, `VerdictObeyed`, `StopReturns`, `DroppedBotLeaves`, `AddsArrive`) | 3 objects (one joins while running, one is a bot), 2 workers a pool, overruns, stop at any time, an erase loop that may end early | 181,946 |
| `MCSimCore_hostile` | Does the barrier survive everything? (`PhaseBarrier`) | 2 objects, 2 workers; worker exceptions, early callers, outside removals, two starts, skipping erase | 204,956 |
| `MCTurnClock_paced` | Are the turns on time? (`NoDrift`) | a quanta of 40, turns of 0 to 34, overruns of 40 and 45, measurement lag 1, wakeups up to 5 late | 12,535 |
| `MCTcpSocket_calls` | Do put, get and getln account for every byte, and end? (`BytesAccounted`, `LineIsFirst`, `CallsEnd`) | eight kinds of call, a peer that sends up to 5 characters, 3 seconds, the eol `aab` | 201,904 |
| `MCTcpSocket_getln` | Does getln() throw when its timeout expires? It does not. (`GetlnTimesOut`) | one getln() with 1 second | |
| `MCBotMk1_life` | Does a bot serve, die and get destroyed in good order? (`TypeOK`, `PowerXorBrake`, `TornOnlyIfCarried`, `CrashOnlyInDestructor`, `RouterWakes`, `DestructorReturns`) | one line from the program (thrust, a bad command, or autopilot on; with the autopilot on, every turn brings more), a turn begins with less than 2 commands queued, turns without end | 318,480 |
| `MCSimEngine_run` | Does the program start, limit its population and shut down with every report stored? (`TypeOK`, `PopulationBound`, `ReportsStored`, `CrashOnlyInStop`, `OneChannel`, `ShutdownEnds`) | 3 clients, a limit of 1 bot, a turn begins when all reports are stored | 788,053 |
| `MCBcpClient_programs` | Do the control programs read their configuration, keep in step with the bot, and end? (`Paired`, `BotObeys`, `CommandLineWins`, `PairsReadBack`, `EncodingsInvert`, `LinkLossEnds`) | the three programs; 4 command lines, 111 files; a zone of radius 1, distances to 3; one reply or command lost anywhere | 3,730 |
| `MCBaseObject_life` | Are effectors, forces and collisions what the lists and the courses say? (`CommandsReachTheAttached`, `StandsUntilPushed`, `NoMissedContact`) | 6 effectors (two rockets, the drive), on the ground or above it, 3 turns, power -1 and 2, brake 0 and more, 2 places and 3 courses of the neighbour | 1,125,272 |
| `MCBaseObject_alarm` | Is a collision always one? It is not. (`NoFalseAlarm`) | the same | |

Why the bounds are enough. Two consumers are needed for a notification to reach the wrong
one, two producers for items to overtake each other, a second item for a producer to push
while its first is worked on. The joiner calls join() repeatedly, so that a call starts in
every state. In the engine, two workers a pool and three objects give packets with two, one
and no element, three pairs for two packets, and an idle worker; one joining object gives a
turn whose population differs from the one locked. `aab` is the shortest eol whose beginning occurs inside it
and whose search is more than one character; 5 characters hold a line and the beginning of the next.
A limit of one bot and three clients give a burst of two beyond the limit. Two rockets drop themselves in the
same turn or in different ones. The files of 0, 1 and 2 pairs have equal and different names, symbols at the
start, in the middle and at the end of a field, backslashes before blanks and before symbols, and a `%`. The theorems of
section 4 remove the bounds for every invariant of the runs; what stays bounded is liveness.

Deadlock is not checked (`CHECK_DEADLOCK FALSE`): a queue whose producers have nothing
to push, an engine that has been stopped, a call that has returned and a process that has ended
really do stop.

### Fairness

Fairness is assumed only of threads inside an operation: a thread that
can take its next step takes it in the end, and a thread that waits for a mutex which is
freed over and over gets it in the end (strong fairness: the C++ mutexes are not fair in principle
but every critical section here is short). Nothing makes a caller call push(),
join(), release(), shutdown(), stop_sim() or add_object(), an object die, a link drop, a peer send,
a client connect, or a worker throw.

- `AbsQueue`: strong fairness of each producer, consumer and joiner inside its call, weak of
  release()'s notification.
- `SimCore`: weak fairness of the engine, each worker and the callers inside a call.
- `BotMk1`: strong fairness of the receiver's pushes and of the turn and the destructor, which wait for
  `mylock`; weak of the transmitter and the router, of the wait itself, and of the receiver's failure once the link is gone.
  A wakeup without a notification is never owed.
- `TcpSocket`: the thread in the call runs on and time passes.
- `SimEngine`: weak fairness of each thread; accept() is owed an end only once the socket is shut down.
- `BcpClient`: the threads and the bot run on; nothing makes the connection fail.

### Where the code and what is said of it part

Checked, with a counterexample (the findings of `PROJECT.json`):

- getln() whose time has run down to 0 between two reads polls with a timeout of 0, which never throws
  (`MCTcpSocket_getln`, `base_socket.cpp:444`).
- check_collision() has a sign wrong in its last line and takes an approach that passes at a distance for
  a collision (`MCBaseObject_alarm`, `base_object.cpp:251`). It misses none: `NoMissedContact`.

Seen while modelling; those with a run can be reproduced by changing a constant or adding an
invariant to it.

The queue and the engine:

- `release()` clears the flag and notifies without `mylock`; a consumer between its test and its wait
  misses it. `bot_mk1::unlock()` is safe all the same because it pushes a `tick` right after (`RouterWakes`).
- With `FirstReads = {"inCount"}` in `MCAbsQueue_contract`, `JoinDrains` fails: join() may return
  with an announced item unfinished when `in_count` is read before `completed`.
- Items dropped by shutdown() or clear() are never completed: a join() that waits for them,
  or is called later, never ends, though the queue is empty.
- A `tick()` that returns true does not destroy the object if its `apply()` returns
  false (`sim_core.cpp:514`), which is why `VerdictObeyed` speaks of apply() and collisions only.
- `remove_obj()` of an object that dies before the message is handled dereferences a null
  pointer (`sim_core.cpp:214`; `RemoveNeverCrashes` with `Removable = {1}`). Removals asked for by the
  engine itself cannot (`RmTargetsPresent`).
- An exception out of a worker stops the engine in join(), and stop_sim() behind it (`StopReturns` with
  `WorkersMayThrow`).
- A dead object the erase loop has missed (`sim_core.cpp:272-281`) is ticked in the next turn, and a tick() with nothing to
  say against it makes it alive again (`sim_core.cpp:500`). `VerdictObeyed` says that nothing but that loop can spare it, and
  a bot whose link is down is sentenced again each turn until it is gone (`DroppedBotLeaves`).
- In `MCSimCore_hostile`, `crashed # "terminate"` fails: start_sim() called twice in the window
  before `is_running` is set, or after an overrun, assigns over a joinable thread. So does
  `crashed # "map race"`: an add_object() or remove_obj() in the same window writes the map directly
  while the engine walks it.
- running() is true after an overrun, as the thread is still joinable. An object is not lock()ed in the
  turn in which it joins. An engine that was stopped never runs again: nothing clears `end_run`, and its
  queues are shut down.
- A wakeup later than what the next turn leaves of its quanta, or a turn that is short of an overrun by less than the
  report takes, makes the time to sleep negative, hence enormous: in `MCTurnClock_paced`, `SleepsWithinQuanta` and `NoDrift` fail
  with `MaxLate = 6`, or with a turn of 35. `PaceBudget` of section 4 is the exact margin. The timers are unsigned differences of the time of day as
  well, and a clock set back makes an interval enormous (`hires_timer.cpp:124`, `:135`).

Bots, objects and sockets:

- A command of the autopilot may be queued behind `autopilot off` and is still obeyed (`bot_mk1.cpp:271`).
- While the bot is being destroyed, an exception of the router's handler ends the process
  (`bot_mk1.cpp:228-231`); `CrashOnlyInDestructor` says that it can at no other time.
- A clone of a `bot_mk1` has no list of effectors to command. The radar's offsets are late by one move of its own
  object (`RadarIsOneMoveLate`), and its `parent_id` is unset before the first tick.
- `rotatable::trim` leaves negative angles negative, though `base_object.h` says 0 <= n < period, and
  `diff_steer::post` (line 242) takes a bot that runs straight with a negative heading for sliding.
  `alive != killme` in base_object.cpp (201, 217) is a comparison where an assignment is meant.
- The drive's brake is fully on at first (`diff_steer.h:104`) and its limit counts the power set with its sign (`diff_steer.cpp:195-199`):
  from a standstill, reverse power is taken back by a negative brake and never moves a bot. As the limit is an energy, a brake may also
  overshoot and push a slow bot backwards; that it does not set off one that stands is `StandsUntilPushed`.
- getln() can read past an eol of four characters or more when a read is cut short by the peer or a timeout; a
  timeout inside its loop drops the characters of that read, while the first read's are kept
  (`base_socket.cpp:460-465`). A get() with a timeout of 0 that finds nothing
  returns an empty text; put() to a closed peer may raise SIGPIPE.
- The compound scalar operators of `triad` take a reference, so that `v /= v.x` divides by a number that changes on
  the way.

The program, its clients and the configuration:

- The engine, the processor and the writer may die unnoticed: joinable() stays true. start_listen() throws after 99
  polls although the thread may still come up; a failed bind is an exit(0). After a writer's failure the shutdown
  waits for ever for reports nobody stores (`ShutdownEnds` names that exception).
- `listen_sock` is tested by one thread and used after another has reset it (`CrashOnlyInStop` says when).
- The lookup of `sim_output` at start-up races in a map without a lock, though `ipc_channel.h` offers the
  singleton to make it safe: the singleton makes one instance (`OneQueue`) and guards nothing of it.
- In target and kamikaze a get() that waits when the link is lost waits for ever (`LinkLossEnds` names that exception);
  a line slower than a second is cut, its beginning lost; kamikaze's close() of a socket its worker has
  closed terminates the program.
- A line of whitespace, or an indented comment, makes gsub() throw (`confreader.cpp:80`), and the rest of the file is silently
  unread. A name without a value is dropped (`confreader.cpp:75-76`), though confreader.h (217, rule 5) says it is stored with "". The results of trim() on the
  command line are thrown away. A file that includes itself recurses without end. main() reads `port`
  (`simengine.cpp:174`) while the shipped simengine.conf sets `bcp_port`.
- http_unhex() decodes a `%25` and what follows it a second time.

## 4. Proofs

| Theorem | Statement | Assumes |
|---|---|---|
| `AbsQueueProofs!TypeCorrect` | `Spec => []TypeOK` | `QueueAssumption` |
| `AbsQueueProofs!CountersTellTruth` | `Spec => []CountersAgree` | `QueueAssumption` |
| `AbsQueueProofs!ShutdownReleases` | `Spec => []ShutdownReleasesAll` | `QueueAssumption` |
| `AbsQueueProofs!NoDoneIsLost` | `Spec => []NoLostDone` | `QueueAssumption` |
| `AbsQueueProofs!WakeupsAreEnough` | `Spec /\ []~blocked => []WakeupsSuffice` | `Consumers` is finite |
| `AbsQueueProofs!JoinReturnsDrained` | `Spec => []JoinDrains` | `completed` is read first |
| `AbsQueueProofs!QueueImplementsContract` | `Spec => ImplementsContract` | `completed` is read first |
| `SimCoreProofs!TypeCorrect` | `Spec => []TypeOK` | `SimCoreAssumption` |
| `SimCoreProofs!PhasesKeptApart` | `Spec => []PhaseBarrier` | `SimCoreAssumption` |
| `SimCoreProofs!EveryPieceOnce` | `Spec => []WorkExactlyOnce` | `SimCoreAssumption` |
| `SimCoreProofs!RemovalsFindObjects` | `Spec => [](RmTargetsPresent /\ RemoveNeverCrashes)` | `Removable = {}` |
| `SimCoreProofs!SentencedAreGone` | `Spec => []VerdictObeyed` | `Removable = {}` |
| `TurnClockProofs!PaceIsKept` | `Spec => [](SleepsWithinQuanta /\ NoDrift /\ MeasuresOneTurn)` | `PaceBudget` |
| `SimEngineProofs!OneQueue` | `Spec => []OneChannel` | |
| `SimEngineProofs!SocketOutlivesListening` | `Spec => []CrashOnlyInStop` | |
| `SimEngineProofs!PopulationBounded` | `Spec => []PopulationBound` | `EngineAssumption` |
| `SimEngineProofs!NoReportLost` | `Spec => []ReportsStored` | |
| `SimEngineProofs!ConnectionsAreConserved` | `Spec => []TypeOK` | `EngineAssumption` |
| `BotMk1Proofs!NeverPowerAndBrake` | `Spec => []PowerXorBrake` | `BotAssumption` |
| `BotMk1Proofs!TurnsAreWhole` | `Spec => []TornOnlyIfCarried` | `BotAssumption` |
| `BotMk1Proofs!LinkFailuresDoNotCrash` | `Spec => []CrashOnlyInDestructor` | `BotAssumption` |
| `BotMk1Proofs!RepliesAreBounded` | `Spec => []TypeOK` | `BotAssumption` |
| `TcpSocketProofs!NoByteIsLost` | `Spec => []BytesAccounted` | `SocketAssumption` |
| `TcpSocketProofs!GetlnStopsAtTheLine` | `Spec => []LineIsFirst` | `Len(Eol) <= 3` |
| `BcpClientProofs!AnswersToQuestions` | `Spec => []Paired` | `ClientAssumption` |
| `BcpClientProofs!BotFliesAsTold` | `Spec => []BotObeys` | `ClientAssumption` |
| `BcpClientProofs!PairsAlwaysReadBack` | `StartSpec => []PairsReadBack` | `StartAssumption` |
| `BcpClientProofs!CommandLineAlways` | `StartSpec => []CommandLineWins` | `StartAssumption` |
| `BcpClientProofs!EncodingsAlways` | `StartSpec => []EncodingsInvert` | `StartAssumption` |
| `BaseObjectProofs!CommandList` | `Spec => []CommandsReachTheAttached` | |
| `BaseObjectProofs!HeadingCache` | `Spec => []CacheFresh` | `ObjectAssumption` |
| `BaseObjectProofs!ContactsAreSeen` | `Spec => []NoMissedContact` | `ObjectAssumption` |
| `BaseObjectProofs!StandingStays` | `Spec => StandsUntilPushed` | `ObjectAssumption` |
| `BaseObjectProofs!RadarIsOneMoveLate` | `Spec => []RadarError` | `ObjectAssumption` |
| `BaseObjectProofs!ProductsFit` | `Spec => []ProductsAgree` | `ObjectAssumption` |

They hold for any sets of threads, any number of items, objects, clients, commands or effectors, any texts, and any
widths. The named assumptions give the constants their types, distinct clients, and calls the code makes. The
two assumptions of the engine's last theorems are about its surroundings: outside its tests the
program calls `remove_obj()` from resolve_collisions() alone, and the erasing loop visits every
element only as long as the freed node can still be read.

The argument for the queue goes up in layers, each an inductive invariant relative to
the ones below. `TypeInv` adds to `TypeOK` that a producer in the middle of a push has sent
something. `LockInv` says who holds each mutex: `mylock` is held between steps
exactly by a parked consumer, `joinlock` exactly by a joiner between its first read and its
sleep. Mutual exclusion and `ShutdownReleasesAll` rest on it: nobody is parked while
shutdown() has the lock. `ItemInv` says that an item is in
one place only (its producer's hand, one slot of the buffer, one consumer), that whoever
has an item has one that is outstanding, and that no outstanding item has a
number its producer has not reached yet, so that a newly announced one is new. `CountInv` is why
join() can trust the counters: `in_count - completed` is the number of outstanding items; to keep it,
`in_count++` must add a new item and `completed++` must take an outstanding one away, which is what
`ItemInv` is for. `WorkingInv` and `StockInv` are the other two lines of `CountersAgree`: the consumers at
work are `out_count - completed`, and what is queued or in a producer's hand is never more than
`in_count - out_count`, and exactly that if nothing is discarded. `JoinInv` then carries a join(): what it is
owed is outstanding, and the value it has read of
`completed` is a lower bound of the counter, which never decreases. If that value equals `in_count` at the second
read, `completed` has caught up with `in_count`, nothing is outstanding and nothing is owed. Here the order of the
two reads matters; with the other order the bound goes the wrong way, and `JoinDrains` is false.
`NoLostDone` needs no order: whoever raises `completed` to `in_count` reads both
afterwards, and any read that misses leaves another worker on its way.

The refinement maps each step to a contract step or to a stutter; `JoinReturn` to
`ReturnJoin` is the one that needs `JoinInv`.

For the engine the layers are these. `ShapeInv` types `rest` and `worked`, which hold objects in
two phases and pairs in the third. `BarrierInv`: outside the join of its phase every
packet is finished, a finished packet is empty, and an engine thread that cannot be
joined is not running. `PhaseBarrier` follows at once; the clause on `joinable` is what
keeps a second start_sim() from putting the engine back to its beginning in the middle of a
phase. `WorkInv`: during a join, what is finished and what the packets still hold
partition the work of the phase, and nothing is finished in a phase before it begins.
`PacketsPartition` is the arithmetic under it: a counter modulo the number of workers
sends each piece to one packet. `WorkInv` is claimed only until a caller writes the map
behind the engine (`WorkSafe`). `RmInv`: a removal in the queue is of an object that is there and is
among the messages this turn's loop will reach; none is queued from the erasure to the
end of the work; collisions, hence removals, are between objects that are there.
`VerdictInv`: whoever apply() sentenced is marked dead until the erasure, because apply()
comes once a turn (`WorkInv`) and cannot revive it; whoever a collision sentenced is marked,
or its removal is in the queue and is reached before the erasure (`RmInv`), so that whoever is sentenced and still there
after the erasure is marked and was not visited by its loop.

For the clock, `ClockInv` bounds `slack` and the timer by control point; `PaceBudget` says that a turn
short of an overrun, its report and the lateness of the previous wakeup fit into one quanta.

For the program, `ChannelInv` says that whoever is past the singleton holds the one instance the
pointer names, since the pointer is set once and only under the mutex. `SocketInv` ties the socket to the
threads: it exists from the bind until main() stops listening; from then main() waits for the listening thread and
after it for the processor, so that whenever one of them may meet a reset socket, main() is in one of those
two waits. `PopulationInv` adds to the bound that the processor, once `size()` has let it through, is one
below it: a turn in between moves bots from the queue into the world and leaves their sum. `ReportInv` says that while
the queue is open its counter of unfinished items is the number of reports not stored; that it is shut down only
by main(), after the engine has ended and the counter is 0; and hence that nothing is reported after.

For the object, `ListInv` adds that the lists hold effectors, whatever is pending to be dropped, and `CacheInv` that an attitude
is its three fields and nothing else. What stands stays standing because at a standstill the energy the brake may take is the power
set alone: with no power forward, and a brake that is never negative (`SteerTypes`), the brake takes exactly what
power gives (`NoThrustOnStanding`), whatever the heading, and no force of the last turn is left in `push`. `NoMissedContact` is algebra over the integers: with
`f(n/d) = PP + 2 PV n/d + VV (n/d)^2`, each way check_collision() answers no gives
`f >= 0` for `0 <= n <= d`: the objects separate (`PV >= 0`), or the end of the quanta is before the closest approach
and they are still apart there. The third way, by the last line of the function, is never taken: the value it tests is
positive whenever it is reached. It is proved from one lemma about the quadratic (`QuadraticStaysPositive`).

For the wakeups of the queue, `WakeInv` says of `pop()` what its author must have had in mind: a consumer decides to wait
only when the buffer is empty, and from then each insertion has a notification behind it or a consumer that will look
again, so that what is queued never exceeds the two together. The consumers that look again and the notifications are
finite sets, whose sizes the proof follows step by step. It is a statement about a queue nobody holds, and the
hypothesis `[]~blocked` is not for convenience: hold() lets items pile up in front of parked consumers, and the one
notify of release() can pass them all.

For the connections, `Headcount` is a sum over the places a connection can be in, of which two are the hands of a
thread, counted one if full. Each step of `HandsStep` takes from one place what it puts into another.
What the sum needs is that a thread in its `push` or `add` has something in hand (`HandsTypes`), which is where a
dropped reset would show.

For the bot, `DriveInv` adds to the exclusion what is still to come of a command under way: power only while
the brake is off, brake only while power is. `TurnInv` says of a turn that caught no command: from_BCP is held and alive,
so the router cannot pop, and what was read of power is still true when the brake is read. Both halves are needed,
because a shut down queue is no longer held (`ShutInv`: from_BCP is shut down in the destructor only, after
to_BCP, and then there is no turn). `ReplyInv` is a budget: READY before it is sent, the replies queued, the lines queued that will
be answered, the one the receiver holds and the one the router is at are together no more than the lines taken and one.

For the socket, `InputInv` defines what has been read as the input without its unread rest, which only a recv() lengthens.
For get() it is the text in its frame. For getln() it is what it has followed by what the get() inside it has
(`ReadingInv`), and nothing of it but perhaps the whole ends in the eol. That the whole is never passed is a property of
`GetLen`: getln() asks for one character less than the eol has unless the eol begins among as many last ones, and then for
one. So an eol that ends before the end of the read would begin among characters in which it does not. A text still shorter than
that is not searched; an eol of up to three characters cannot end early there, one of four can (section 3), and the
theorem needs its hypothesis.

For the control programs, `PairInv` places the one reply that is due: the question on the link (`Open`), the answer in
one of the two queues on this side (`Come`), or neither, when the link is gone or nothing was asked (`Quiet`). Each batch a program sends has
one question or none, cal_bot's thirteen wherever in the batch it stands (`ScriptAsks`). `FlightInv` is what makes
`BotObeys` inductive: the last setting of a kind that is still on the link, and the bot's own if there is none, is what
the program's state requires. It is kept by a send because the switch of target and of kamikaze say a setting exactly when
the state changes what is required (`SteerSays`, `HuntSays`), and by the bot because it takes the commands in order.
The commands are words of a set given in the module, and their order is reasoned about with three
predicates: no word of a kind (`Silent`), one (`Sole`), and the last (`LastOf`).

For the configuration, `StartInv` is short: as long as the inputs are remembered they are among the inputs allowed,
and what was read is `ReadAll` of them. The work is in what `ReadAll` and the text functions compute, for texts of any length,
which takes induction. The library's induction theorems cannot be instantiated here, so it is derived: the natural numbers are
well-founded under `<`, hence any set of them has a least element (`LeastNumber`), hence induction over numbers and
ranges, up and down, and over texts by their first character (`TextInduction`), each stated with a set in place of a predicate. A
recursive function is a CHOOSE, of which nothing is known until such a function is shown to exist; the
loops over texts have one form, a piece and what comes from a later place (`Scans`), of which it is shown once that there is
exactly one (`ScanExists`, `ScanUnique`) and that with one more character in front it is the same from the second place
on (`ScanShift`). This gives each function as an equation over the first character: of `Gsub`
(`GsubSkip`, `GsubOne`, `GsubPair`), `Split`, `Escaped`, `Unescaped` and `Joined`.

`PairsAlwaysReadBack` then goes: gsub() undoes the escaping (`UnescapesHash`); in an escaped text every symbol has a backslash in
front and there is no other symbol, so that the comment starts where it was put (`Escapes`, `UncommentedLine`); the first blank of what
is left ends the name (`ParsedLine`), and the pairs come out in their order (`ReadsPairs`). `CommandLineAlways` is a loop
invariant (`Overridden`): after `n` arguments the first instance of a name has the value of the last argument of that name among
them, the others are those of the file, and a name the file does not have was inserted once. `EncodingsAlways` has three
parts. mconvert() is four replacements, and none of the later ones touches what the earlier ones put in
(`SlashesStep`); another order would break it. http_unhex() after `n` rounds has the first `n` characters decoded
and the others still encoded (`Decoded`): the next `%` is the one that was put in, because the text has none. gsub() and split() are scans of the
same places (`SplitJoins`).

### Only model-checked

Liveness under fairness (`ItemsFinish`, `JoinReturns`, `StopReturns`, `DroppedBotLeaves`, `AddsArrive`, `CallsEnd`,
`RouterWakes`, `DestructorReturns`, `ShutdownEnds`, `LinkLossEnds`) is beyond the prover. Every invariant of a passing run is
stated by a theorem, under hypotheses that hold in the instance of that run.

## 5. What is left

In the order of what it would add: a `SimEngine` whose queue of reports and simulation are
instances of `QueueContract` and of an abstraction of `SimCore`, in place of the counters they are now; the contract of
from_BCP in `BotMk1` as an instance of `QueueContract` with one consumer; a form of `WakeupsSuffice` that survives
hold() and release() when a push follows, as it does in unlock(); the log's writer.

## 6. Not modelled, and why

- `panopticon`: the list is copied while it may be written, a data race from the first access, of which C++ allows every
  outcome. What the radar makes of a list is in `BaseObject`.
- `logger`, `common_log`: one more consumer of the work queue; what is its own is formatting. Its close() waits for an
  empty queue and then shuts it down, so that a record pushed in between is lost.
- `serializer` is one atomic increment; ids are taken as distinct. `singleton::delete_me()` and the channel manager's iterators have no
  caller in the program.
- Mass changes, torque, the factors of skid and drag, the floating-point values of forces, hover (a floating-point power of the altitude), polar conversions,
  normalize() and pow(): floating-point formulas without state of their own.
- The texts of replies, reports and contact lists; the date functions, getall() and s_replace() (used by their tests alone);
  open(), reset() and the options of sockets.
- The order of weak memory: atomics are sequentially consistent in C++ as used here; the plain singleton pointer and
  `listen_sock` are taken in program order.
- The railgun does not compile at this commit; the plugin manager and the control interface are stubs. `GPB_proto` and `docs`
  hold earlier prototypes no program uses.
- The control noun of turn_init() is unreachable, since `put_message()` is private and no caller
  sends it; `resize()` of the queue cannot be instantiated for `std::queue`.
- The database client, the socket layer of the operating system and the C++ library are external: condition variables,
  mutexes, atomics and threads appear in the models as the standard describes them.
