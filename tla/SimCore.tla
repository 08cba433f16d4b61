------------------------------ MODULE SimCore ------------------------------
(***************************************************************************)
(* The simulation engine of sim_engine/sim_core: the thread that runs the  *)
(* turns (run_sim), the three pools of worker threads that tick, collide   *)
(* and apply the objects, the message queue through which the population   *)
(* changes, and the callers of start_sim, stop_sim, add_object and         *)
(* remove_obj.                                                             *)
(*                                                                         *)
(* The work queues are used as QueueContract allows: a packet is handed to *)
(* one worker, and join() returns when every packet is finished.           *)
(* verdict and worked are history variables; no guard reads them.          *)
(***************************************************************************)
EXTENDS Integers, Sequences, FiniteSets

CONSTANTS Objects,          \* object ids, in the order of the map
          Start,            \* the objects added before the engine is started
          Bots,             \* those that are bot_mk1: they die when their link drops
          Removable,        \* those some caller passes to remove_obj()
          Workers,          \* worker threads in each of the three pools
          Controllers,      \* threads that call start_sim() and stop_sim()
          MaxStarts,        \* bound: calls of start_sim()
          CallersWait,      \* add_object()/remove_obj() are called only once running
          MayOverrun,       \* a turn may take longer than its quanta
          WorkersMayThrow,  \* tick(), apply() or check_collision() may throw
          EraseMaySkip      \* the erase loop may miss objects (see EraseDead)

ASSUME SimCoreAssumption ==
  /\ Objects \subseteq Nat /\ IsFiniteSet(Objects)
  /\ Start \subseteq Objects /\ Bots \subseteq Objects /\ Removable \subseteq Objects
  /\ Workers # {} /\ IsFiniteSet(Workers)
  /\ Workers \intersect {"queued", "done"} = {}
  /\ MaxStarts \in Nat
  /\ {CallersWait, MayOverrun, WorkersMayThrow, EraseMaySkip} \subseteq BOOLEAN

VARIABLES all,         \* the keys of all_objects
          alive,       \* base_object::alive
          linked,      \* bot_mk1::ImAlive
          held,        \* objects that are lock()ed
          messages,    \* the ipc_queue of add and remove messages
          budget,      \* turn_init: messages still to process in this turn
          collisions,  \* the queue of detected collisions
          epc,         \* where run_sim is
          owner,       \* owner[phase][k]: who has packet k of the phase's queue
          rest,        \* rest[phase][k]: work still to do in packet k
          gone,        \* gone[phase]: workers that an exception has ended
          endRun, isRunning,
          joinable,    \* engine.joinable()
          starts,      \* calls of start_sim() so far
          ctl,         \* where each controller is
          adder, remover,  \* where the call that adds (removes) an object is
          crashed,     \* "no", or what ended the process
          verdict,     \* verdict[o]: which calls said that o should die
          worked       \* worked[phase]: work finished in this turn

population == <<all, alive, held>>
queues == <<messages, budget, collisions>>
pool == <<owner, rest, gone>>
switches == <<endRun, isRunning, joinable, starts, ctl>>
callers == <<adder, remover>>
history == <<verdict, worked>>
vars == <<population, linked, queues, epc, pool, switches, callers, crashed, history>>

Phases == {"tick", "clsn", "apply"}
Joining == [tick |-> "join_tick", clsn |-> "join_clsn", apply |-> "join_apply"]
After == [tick |-> "clsn", clsn |-> "apply", apply |-> "resolve"]

W == Cardinality(Workers)
Pairs == {q \in Objects \X Objects : q[1] < q[2]}

\* The work of a phase: every object, or every pair of objects.
Work(phase) == IF phase = "clsn" THEN Pairs \intersect (all \X all) ELSE all

\* The order in which work is dealt out to the packets.
Before(x, y, phase) ==
  IF phase = "clsn" THEN x[1] < y[1] \/ (x[1] = y[1] /\ x[2] < y[2]) ELSE x < y

\* Mutation of Packet: one packet too many in the modulus.
Packet_OneMore(k, phase) ==
  {x \in Work(phase) :
     Cardinality({y \in Work(phase) : Before(y, x, phase)}) % (W + 1) = k}

\* packets[current++ % worker_count].push_back(...)
Packet(k, phase) ==
  {x \in Work(phase) :
     Cardinality({y \in Work(phase) : Before(y, x, phase)}) % W = k}

Message == [verb : {"add", "rm"}, id : Objects]
Add(o) == [verb |-> "add", id |-> o]
Rm(o) == [verb |-> "rm", id |-> o]

\* if (kill) { remove_obj(o); }
RmIf(kill, o) == IF kill THEN <<Rm(o)>> ELSE <<>>

Init ==
  /\ all = Start
  /\ alive = [o \in Objects |-> TRUE]
  /\ linked = [o \in Objects |-> TRUE]
  /\ held = {}
  /\ messages = <<>> /\ budget = 0 /\ collisions = {}
  /\ epc = "off"
  /\ owner = [phase \in Phases |-> [k \in 0..W-1 |-> "done"]]
  /\ rest = [phase \in Phases |-> [k \in 0..W-1 |-> {}]]
  /\ gone = [phase \in Phases |-> {}]
  /\ endRun = FALSE /\ isRunning = FALSE /\ joinable = FALSE
  /\ starts = 0
  /\ ctl = [c \in Controllers |-> "idle"]
  /\ adder = [o \in Objects \ Start |-> "idle"]
  /\ remover = [o \in Removable |-> "idle"]
  /\ crashed = "no"
  /\ verdict = [o \in Objects |-> {}]
  /\ worked = [phase \in Phases |-> {}]

-----------------------------------------------------------------------------
(* run_sim *)

\* is_running is set by the new thread itself, not by start_sim().
BeginRun ==
  /\ epc = "begin"
  /\ epc' = "top"
  /\ isRunning' = TRUE
  /\ UNCHANGED <<population, linked, queues, pool, endRun, joinable, starts, ctl,
                 callers, crashed, history>>

\* Mutation of TurnStart: the loop over the messages stops one too early.
TurnStart_OneLess ==
  /\ epc = "top" /\ ~endRun
  /\ epc' = "messages"
  /\ held' = all
  /\ budget' = IF messages = <<>> THEN 0 ELSE Len(messages) - 1
  /\ worked' = [phase \in Phases |-> {}]
  /\ UNCHANGED <<all, alive, linked, messages, collisions, pool, switches, callers,
                 crashed, verdict>>

\* while (!end_run): lock every object and note how many messages there are.
TurnStart ==
  /\ epc = "top" /\ ~endRun
  /\ epc' = "messages"
  /\ held' = all
  /\ budget' = Len(messages)
  /\ worked' = [phase \in Phases |-> {}]
  /\ UNCHANGED <<all, alive, linked, messages, collisions, pool, switches, callers,
                 crashed, verdict>>

LeaveLoop ==
  /\ epc = "top" /\ endRun
  /\ epc' = "shut"
  /\ UNCHANGED <<population, linked, queues, pool, switches, callers, crashed, history>>

\* i-- and q.pop(), for a message of either verb.
TakeMessage ==
  /\ epc = "messages" /\ budget > 0
  /\ budget' = budget - 1
  /\ messages' = Tail(messages)
  /\ UNCHANGED <<linked, held, collisions, epc, pool, switches, callers, history>>

AddObject ==
  /\ TakeMessage
  /\ Head(messages).verb = "add"
  /\ all' = all \union {Head(messages).id}
  /\ UNCHANGED <<alive, crashed>>

\* Mutation of MarkRemoved: deletions.push_back(did) alone, as in the line that
\* is commented out; nobody reads deletions.
MarkRemoved_Deletions ==
  /\ TakeMessage
  /\ Head(messages).verb = "rm"
  /\ UNCHANGED <<all, alive, crashed>>

\* all_objects[did]->alive = false: operator[] makes an empty entry for an
\* id that is not there, and the null pointer is dereferenced.
MarkRemoved ==
  /\ TakeMessage
  /\ Head(messages).verb = "rm"
  /\ IF Head(messages).id \in all
     THEN /\ alive' = [alive EXCEPT ![Head(messages).id] = FALSE]
          /\ UNCHANGED <<all, crashed>>
     ELSE /\ crashed' = "null object"
          /\ UNCHANGED <<all, alive>>

MessagesDone ==
  /\ epc = "messages" /\ budget = 0
  /\ epc' = "erase"
  /\ UNCHANGED <<population, linked, queues, pool, switches, callers, crashed, history>>

Dead == {o \in all : ~alive[o]}

\* The loop erases the element its iterator stands on and then increments that
\* iterator, which is undefined: EraseMaySkip lets the walk end anywhere after
\* the first erasure, otherwise it visits every element.
EraseDead ==
  /\ epc = "erase"
  /\ epc' = "tick"
  /\ \E erased \in SUBSET Dead :
       /\ IF EraseMaySkip
          THEN \A o \in Dead \ erased : \E q \in erased : q < o
          ELSE erased = Dead
       /\ all' = all \ erased
       /\ held' = held \ erased
       /\ verdict' = [o \in Objects |-> IF o \in erased THEN {} ELSE verdict[o]]
  /\ collisions' = {}
  /\ UNCHANGED <<alive, linked, messages, budget, pool, switches, callers, crashed,
                 worked>>

\* Pushing the packets of a phase; all of them, the empty ones included. With the
\* first phase of a turn the verdicts of the turn before are forgotten.
StartPhase(phase) ==
  /\ epc = phase
  /\ epc' = Joining[phase]
  /\ owner' = [owner EXCEPT ![phase] = [k \in 0..W-1 |-> "queued"]]
  /\ rest' = [rest EXCEPT ![phase] = [k \in 0..W-1 |-> Packet(k, phase)]]
  /\ verdict' = IF phase = "tick" THEN [o \in Objects |-> {}] ELSE verdict
  /\ UNCHANGED <<population, linked, queues, gone, switches, callers, crashed, worked>>

\* Mutation of EndPhase: join() is not called.
EndPhase_NoJoin(phase) ==
  /\ epc = Joining[phase]
  /\ epc' = After[phase]
  /\ UNCHANGED <<population, linked, queues, pool, switches, callers, crashed, history>>

EndPhase(phase) ==
  /\ epc = Joining[phase]
  /\ \A k \in 0..W-1 : owner[phase][k] = "done"
  /\ epc' = After[phase]
  /\ UNCHANGED <<population, linked, queues, pool, switches, callers, crashed, history>>

\* bot_mk1::apply_collision() never kills. A killed object is removed through
\* the message queue, so in the next turn.
ResolveOne ==
  /\ epc = "resolve"
  /\ \E q \in collisions, killa, killb \in BOOLEAN :
       /\ killa => q[1] \notin Bots
       /\ killb => q[2] \notin Bots
       /\ collisions' = collisions \ {q}
       /\ messages' = messages \o RmIf(killa, q[1]) \o RmIf(killb, q[2])
       /\ verdict' = [o \in Objects |->
                        IF (killa /\ o = q[1]) \/ (killb /\ o = q[2])
                        THEN verdict[o] \union {"collision"} ELSE verdict[o]]
  /\ UNCHANGED <<population, linked, budget, epc, pool, switches, callers, crashed,
                 worked>>

\* collisions is empty: publish the contacts and unlock every object.
EndTurn ==
  /\ epc = "resolve" /\ collisions = {}
  /\ epc' = "report"
  /\ held' = held \ all
  /\ UNCHANGED <<all, alive, linked, queues, pool, switches, callers, crashed, history>>

\* The turn is reported; an overrun ends the run.
Report ==
  /\ epc = "report"
  /\ epc' \in IF MayOverrun THEN {"top", "shut"} ELSE {"top"}
  /\ UNCHANGED <<population, linked, queues, pool, switches, callers, crashed, history>>

ShutQueues ==
  /\ epc = "shut"
  /\ epc' = "ending"
  /\ UNCHANGED <<population, linked, queues, pool, switches, callers, crashed, history>>

EndRun ==
  /\ epc = "ending"
  /\ epc' = "ended"
  /\ isRunning' = FALSE
  /\ UNCHANGED <<population, linked, queues, pool, endRun, joinable, starts, ctl,
                 callers, crashed, history>>

-----------------------------------------------------------------------------
(* do_tick, do_collision_check, do_apply *)

Has(w, phase, k) == owner[phase][k] = w /\ w \notin gone[phase]
Busy(w, phase) == \E k \in 0..W-1 : Has(w, phase, k)

\* Mutation of TakePacket: packets without objects are passed over.
TakePacket_NotEmpty(w, phase) ==
  /\ ~Busy(w, phase) /\ w \notin gone[phase]
  /\ \E k \in 0..W-1 :
       /\ owner[phase][k] = "queued" /\ rest[phase][k] # {}
       /\ \A m \in 0..k-1 : owner[phase][m] # "queued"
       /\ owner' = [owner EXCEPT ![phase][k] = w]
  /\ UNCHANGED <<population, linked, queues, epc, rest, gone, switches, callers,
                 crashed, history>>

\* pop(): the oldest packet.
TakePacket(w, phase) ==
  /\ ~Busy(w, phase) /\ w \notin gone[phase]
  /\ \E k \in 0..W-1 :
       /\ owner[phase][k] = "queued"
       /\ \A m \in 0..k-1 : owner[phase][m] # "queued"
       /\ owner' = [owner EXCEPT ![phase][k] = w]
  /\ UNCHANGED <<population, linked, queues, epc, rest, gone, switches, callers,
                 crashed, history>>

\* One element of a packet is done.
WorkOn(w, phase, k, x) ==
  /\ Has(w, phase, k)
  /\ rest' = [rest EXCEPT ![phase][k] = @ \ {x}]
  /\ worked' = [worked EXCEPT ![phase] = @ \union {x}]
  /\ UNCHANGED <<all, linked, held, messages, budget, epc, owner, gone, switches,
                 callers, crashed>>

\* alive = !tick(): what tick() or apply() returns replaces what was there. A
\* bot whose link is down always answers that it is dead.
TickOne(w) ==
  \E k \in 0..W-1 : \E o \in rest["tick"][k], kill \in BOOLEAN :
    /\ WorkOn(w, "tick", k, o)
    /\ ~linked[o] => kill
    /\ alive' = [alive EXCEPT ![o] = ~kill]
    /\ verdict' = [verdict EXCEPT ![o] = IF kill THEN @ \union {"tick"} ELSE @]
    /\ UNCHANGED collisions

\* Mutation of ApplyOne: apply() of a bot does not look at its link.
ApplyOne_NoLink(w) ==
  \E k \in 0..W-1 : \E o \in rest["apply"][k], kill \in BOOLEAN :
    /\ WorkOn(w, "apply", k, o)
    /\ alive' = [alive EXCEPT ![o] = ~kill]
    /\ verdict' = [verdict EXCEPT ![o] = IF kill THEN @ \union {"apply"} ELSE @]
    /\ UNCHANGED collisions

ApplyOne(w) ==
  \E k \in 0..W-1 : \E o \in rest["apply"][k], kill \in BOOLEAN :
    /\ WorkOn(w, "apply", k, o)
    /\ ~linked[o] => kill
    /\ alive' = [alive EXCEPT ![o] = ~kill]
    /\ verdict' = [verdict EXCEPT ![o] = IF kill THEN @ \union {"apply"} ELSE @]
    /\ UNCHANGED collisions

\* A bot whose link is down says that it collides with everything after it.
CheckOne(w) ==
  \E k \in 0..W-1 : \E q \in rest["clsn"][k], hit \in BOOLEAN :
    /\ WorkOn(w, "clsn", k, q)
    /\ ~linked[q[1]] => hit
    /\ collisions' = IF hit THEN collisions \union {q} ELSE collisions
    /\ UNCHANGED <<alive, verdict>>

FinishPacket(w, phase) ==
  /\ \E k \in 0..W-1 :
       /\ Has(w, phase, k) /\ rest[phase][k] = {}
       /\ owner' = [owner EXCEPT ![phase][k] = "done"]
  /\ UNCHANGED <<population, linked, queues, epc, rest, gone, switches, callers,
                 crashed, history>>

\* catch (...) {}: the thread ends without task_done().
WorkerThrows(w, phase) ==
  /\ WorkersMayThrow
  /\ \E k \in 0..W-1 : Has(w, phase, k) /\ rest[phase][k] # {}
  /\ gone' = [gone EXCEPT ![phase] = @ \union {w}]
  /\ UNCHANGED <<population, linked, queues, epc, owner, rest, switches, callers,
                 crashed, history>>

-----------------------------------------------------------------------------
(* start_sim, stop_sim, add_object, remove_obj, and a bot's link *)

StartCheck(c) ==
  /\ ctl[c] = "idle" /\ starts < MaxStarts
  /\ starts' = starts + 1
  /\ ctl' = [ctl EXCEPT ![c] = IF isRunning THEN "idle" ELSE "launch"]
  /\ UNCHANGED <<population, linked, queues, epc, pool, endRun, isRunning, joinable,
                 callers, crashed, history>>

\* engine = std::thread(...): assigning over a joinable thread is std::terminate.
StartLaunch(c) ==
  /\ ctl[c] = "launch"
  /\ ctl' = [ctl EXCEPT ![c] = "idle"]
  /\ IF joinable
     THEN /\ crashed' = "terminate"
          /\ UNCHANGED <<joinable, epc>>
     ELSE /\ joinable' = TRUE
          /\ epc' = "begin"
          /\ UNCHANGED crashed
  /\ UNCHANGED <<population, linked, queues, pool, endRun, isRunning, starts, callers,
                 history>>

\* end_run is set here, and never cleared.
StopCall(c) ==
  /\ ctl[c] = "idle"
  /\ endRun' = TRUE
  /\ ctl' = [ctl EXCEPT ![c] = IF joinable THEN "joining" ELSE "idle"]
  /\ UNCHANGED <<population, linked, queues, epc, pool, isRunning, joinable, starts,
                 callers, crashed, history>>

StopReturn(c) ==
  /\ ctl[c] = "joining" /\ epc = "ended"
  /\ joinable' = FALSE
  /\ ctl' = [ctl EXCEPT ![c] = "idle"]
  /\ UNCHANGED <<population, linked, queues, epc, pool, endRun, isRunning, starts,
                 callers, crashed, history>>

MayCall == CallersWait => isRunning \/ epc = "ended"

\* is_running is tested first; what the call does then depends on it.
AddCheck(o) ==
  /\ adder[o] = "idle" /\ MayCall
  /\ adder' = [adder EXCEPT ![o] = IF isRunning THEN "message" ELSE "direct"]
  /\ UNCHANGED <<population, linked, queues, epc, pool, switches, remover, crashed,
                 history>>

AddMessage(o) ==
  /\ adder[o] = "message"
  /\ adder' = [adder EXCEPT ![o] = "done"]
  /\ messages' = Append(messages, Add(o))
  /\ UNCHANGED <<population, linked, budget, collisions, epc, pool, switches, remover,
                 crashed, history>>

InRun == epc \notin {"off", "begin", "ended"}

\* Writing the map while the engine thread uses it is a data race.
AddDirect(o) ==
  /\ adder[o] = "direct"
  /\ adder' = [adder EXCEPT ![o] = "done"]
  /\ all' = all \union {o}
  /\ crashed' = IF InRun THEN "map race" ELSE crashed
  /\ UNCHANGED <<alive, held, linked, queues, epc, pool, switches, remover, history>>

RemoveCheck(o) ==
  /\ remover[o] = "idle" /\ MayCall
  /\ remover' = [remover EXCEPT ![o] = IF isRunning THEN "message" ELSE "direct"]
  /\ UNCHANGED <<population, linked, queues, epc, pool, switches, adder, crashed,
                 history>>

RemoveMessage(o) ==
  /\ remover[o] = "message"
  /\ remover' = [remover EXCEPT ![o] = "done"]
  /\ messages' = Append(messages, Rm(o))
  /\ UNCHANGED <<population, linked, budget, collisions, epc, pool, switches, adder,
                 crashed, history>>

RemoveDirect(o) ==
  /\ remover[o] = "direct"
  /\ remover' = [remover EXCEPT ![o] = "done"]
  /\ all' = all \ {o}
  /\ crashed' = IF InRun THEN "map race" ELSE crashed
  /\ UNCHANGED <<alive, held, linked, queues, epc, pool, switches, adder, history>>

\* The bot's receiver thread clears ImAlive at any time.
LinkDrops(o) ==
  /\ o \in Bots /\ linked[o]
  /\ linked' = [linked EXCEPT ![o] = FALSE]
  /\ UNCHANGED <<population, queues, epc, pool, switches, callers, crashed, history>>

-----------------------------------------------------------------------------

EngineStep ==
  \/ BeginRun \/ TurnStart \/ LeaveLoop
  \/ AddObject \/ MarkRemoved \/ MessagesDone \/ EraseDead
  \/ \E phase \in Phases : StartPhase(phase) \/ EndPhase(phase)
  \/ ResolveOne \/ EndTurn \/ Report \/ ShutQueues \/ EndRun

WorkerStep(w) ==
  \/ \E phase \in Phases : TakePacket(w, phase) \/ FinishPacket(w, phase)
  \/ TickOne(w) \/ ApplyOne(w) \/ CheckOne(w)

CallerStep ==
  \/ \E o \in Objects \ Start : AddMessage(o) \/ AddDirect(o)
  \/ \E o \in Removable : RemoveMessage(o) \/ RemoveDirect(o)
  \/ \E c \in Controllers : StartLaunch(c) \/ StopReturn(c)

Next ==
  /\ crashed = "no"
  /\ \/ EngineStep
     \/ \E w \in Workers : WorkerStep(w)
     \/ \E w \in Workers, phase \in Phases : WorkerThrows(w, phase)
     \/ CallerStep
     \/ \E c \in Controllers : StartCheck(c) \/ StopCall(c)
     \/ \E o \in Objects \ Start : AddCheck(o)
     \/ \E o \in Removable : RemoveCheck(o)
     \/ \E o \in Bots : LinkDrops(o)

\* Every thread inside the engine or inside a call keeps running; nothing makes
\* a caller start one, an object die, or a link drop.
Fairness ==
  /\ WF_vars(crashed = "no" /\ EngineStep)
  /\ \A w \in Workers : WF_vars(crashed = "no" /\ WorkerStep(w))
  /\ WF_vars(crashed = "no" /\ CallerStep)

Spec == Init /\ [][Next]_vars
FairSpec == Spec /\ Fairness
-----------------------------------------------------------------------------
(* Properties *)

Points == {"off", "begin", "top", "messages", "erase", "tick", "join_tick", "clsn",
           "join_clsn", "apply", "join_apply", "resolve", "report", "shut", "ending",
           "ended"}
CallPoints == {"idle", "message", "direct", "done"}

\* Every variable keeps the type the class gives it.
TypeOK ==
  /\ all \subseteq Objects /\ held \subseteq Objects
  /\ alive \in [Objects -> BOOLEAN] /\ linked \in [Objects -> BOOLEAN]
  /\ messages \in Seq(Message)
  /\ budget \in 0..Len(messages)
  /\ collisions \subseteq Pairs
  /\ epc \in Points
  /\ owner \in [Phases -> [0..W-1 -> {"queued", "done"} \union Workers]]
  /\ \A phase \in Phases, k \in 0..W-1 :
       rest[phase][k] \subseteq IF phase = "clsn" THEN Pairs ELSE Objects
  /\ gone \in [Phases -> SUBSET Workers]
  /\ endRun \in BOOLEAN /\ isRunning \in BOOLEAN /\ joinable \in BOOLEAN
  /\ starts \in 0..MaxStarts
  /\ ctl \in [Controllers -> {"idle", "launch", "joining"}]
  /\ adder \in [Objects \ Start -> CallPoints]
  /\ remover \in [Removable -> CallPoints]
  /\ crashed \in {"no", "null object", "terminate", "map race"}
  /\ verdict \in [Objects -> SUBSET {"tick", "apply", "collision"}]
  /\ worked["clsn"] \subseteq Pairs
  /\ \A phase \in {"tick", "apply"} : worked[phase] \subseteq Objects

\* A worker has a packet only while the engine waits for that packet's phase:
\* objects are never ticked while they are collided, applied, erased or reported
\* (sim_core.cpp:122-143).
PhaseBarrier ==
  \A w \in Workers, phase \in Phases : Busy(w, phase) => epc = Joining[phase]

\* In one turn every object is ticked once and applied once, and every pair of
\* objects is checked once, however they are dealt out to the workers and
\* whoever joined or left in turn_init; unless a caller has written the map
\* behind the engine's back (sim_core.cpp:122-167).
WorkExactlyOnce ==
  crashed = "no" => \A phase \in Phases :
    /\ \A k \in 0..W-1 : rest[phase][k] \intersect worked[phase] = {}
    /\ epc = After[phase] => worked[phase] = Work(phase)

\* A removal in the queue names an object that is in the simulation: what
\* resolve_collisions() asks for is still true when turn_init() of the next
\* turn does it, though objects die and join in between (sim_core.cpp:209-216).
RmTargetsPresent ==
  \A i \in 1..Len(messages) : messages[i].verb = "rm" => messages[i].id \in all

\* An object that apply() or a collision sentenced in the last turn is gone when
\* the next turn's work begins ("delete any objects marked in the last turn",
\* sim_core.cpp:271); if the loop that erases under its own iterator has missed it,
\* it is still marked, so nothing but that loop has spared it.
VerdictObeyed ==
  epc = "tick" => \A o \in all :
    verdict[o] \intersect {"apply", "collision"} # {} => EraseMaySkip /\ ~alive[o]

\* remove_obj(): "Removes the object from the simulation" (sim_core.h:111), and
\* nothing else.
RemoveNeverCrashes == crashed # "null object"

\* stop_sim() returns, whatever the engine is doing when it is called.
StopReturns == \A c \in Controllers : (ctl[c] = "joining") ~> (ctl[c] = "idle")

\* A bot whose link has dropped leaves the simulation.
DroppedBotLeaves ==
  \A o \in Bots : (o \in all /\ ~linked[o] /\ InRun) ~> (o \notin all \/ ~InRun)

\* An object whose message is in the queue enters the simulation, unless the
\* run ends.
AddsArrive ==
  \A o \in Objects \ Start :
    (adder[o] = "message" /\ InRun) ~> (o \in all \/ ~InRun)
=============================================================================
