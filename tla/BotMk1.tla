------------------------------- MODULE BotMk1 -------------------------------
(***************************************************************************)
(* A bot of sim_engine/bot_mk1 with its drive (diff_steer_effector): the   *)
(* receiver, transmitter and router threads, the two queues between them,  *)
(* the engine's turn and, at the end, the destructor, which runs on the    *)
(* thread that drops the last reference. A step ends at each access to an  *)
(* atomic or a queue that another thread uses. from_BCP is the queue of    *)
(* AbsQueue with one consumer; to_BCP is never held, and its pop() waits    *)
(* for an item or shutdown() without the detail that AbsQueue has.         *)
(***************************************************************************)
EXTENDS Naturals, Sequences

CONSTANTS Lines,      \* what the bot control program sends
          LineLimit,  \* bound: lines it sends
          QueueLimit  \* bound: a turn begins with fewer commands queued

Commands == {"power", "power0", "brake", "brake0", "turn", "bad", "ping",
             "auto_on", "auto_off", "tick"}

ASSUME BotAssumption ==
  /\ Lines \subseteq Commands
  /\ LineLimit \in Nat /\ QueueLimit \in Nat

VARIABLES alive,          \* ImAlive
          link,           \* "up", "down" (lost), "closed" (by the destructor)
          lines,          \* lines received so far
          cmds,           \* from_BCP: queue, ready, blocked
          outs,           \* to_BCP: length, ready
          receiver, line, \* where r_thread is, the line it has read
          transmitter,    \* where t_thread is
          router, todo,   \* where cp_thread is, what is left of its command
          auto,           \* auto_on
          drive,          \* set_p and set_b, zero or not; the turn rate is left out
          owner,          \* the engine's thread, then the destructor
          turn,           \* what the turn has read of the drive
          crashed         \* std::terminate was called

vars == <<alive, link, lines, cmds, outs, receiver, line, transmitter, router, todo,
          auto, drive, owner, turn, crashed>>
world == <<link, lines>>
io == <<receiver, line, transmitter>>

\* The constructor has started the threads; READY is still to be pushed. The
\* first turn finds the bot unlocked: it joined after the engine's lock loop.
Init ==
  /\ alive = TRUE /\ link = "up" /\ lines = 0
  /\ cmds = [queue |-> <<>>, ready |-> TRUE, blocked |-> FALSE]
  /\ outs = [size |-> 0, ready |-> TRUE]
  /\ receiver = "getln" /\ line = "none" /\ transmitter = "pop"
  /\ router = "pop" /\ todo = <<>> /\ auto = FALSE
  /\ drive = [p |-> 0, b |-> 1]
  /\ owner = "new"
  /\ turn = [p |-> 0, b |-> 0, carried |-> FALSE, first |-> TRUE]
  /\ crashed = FALSE

Destroying == owner \in {"out", "in", "close", "join", "gone"}

\* push() on from_BCP is the insertion, under mylock, and then the notification.
CanInsert == router # "park"
Inserted(c) == cmds' = [cmds EXCEPT !.queue = Append(@, c)]
Wake == router' = IF router = "asleep" THEN "pop" ELSE router
Notified == IF cmds.blocked THEN UNCHANGED router ELSE Wake

-----------------------------------------------------------------------------
(* receiver() and transmitter() *)

ReceiverReads ==
  /\ receiver = "getln" /\ link = "up" /\ lines < LineLimit
  /\ line' \in Lines /\ lines' = lines + 1
  /\ receiver' = "push"
  /\ UNCHANGED <<alive, link, cmds, outs, transmitter, router, todo, auto, drive,
                 owner, turn>>

ReceiverPushes ==
  /\ receiver = "push" /\ CanInsert
  /\ IF cmds.ready THEN Inserted(line) /\ receiver' = "notify" /\ UNCHANGED alive
     ELSE receiver' = "gone" /\ alive' = FALSE /\ UNCHANGED cmds
  /\ line' = "none"
  /\ UNCHANGED <<world, outs, transmitter, router, todo, auto, drive, owner, turn>>

ReceiverNotifies ==
  /\ receiver = "notify"
  /\ Notified
  /\ receiver' = IF alive THEN "getln" ELSE "gone"
  /\ UNCHANGED <<alive, world, cmds, outs, line, transmitter, todo, auto, drive,
                 owner, turn>>

\* getln() throws: nothing for bcp_timeout seconds, the link lost or closed.
ReceiverFails ==
  /\ receiver = "getln"
  /\ receiver' = "gone" /\ alive' = FALSE
  /\ UNCHANGED <<world, cmds, outs, line, transmitter, router, todo, auto, drive,
                 owner, turn>>

TransmitterPops ==
  /\ transmitter = "pop"
  /\ \/ /\ outs.ready /\ outs.size > 0
        /\ outs' = [outs EXCEPT !.size = @ - 1]
        /\ transmitter' = "put" /\ UNCHANGED alive
     \/ /\ ~outs.ready
        /\ transmitter' = "gone" /\ alive' = FALSE /\ UNCHANGED outs
  /\ UNCHANGED <<world, cmds, receiver, line, router, todo, auto, drive, owner, turn>>

\* Mutation of TransmitterPuts: the failing thread shuts its queue down.
TransmitterPuts_Shutdown ==
  /\ transmitter = "put"
  /\ \/ /\ link # "closed"
        /\ transmitter' = IF alive THEN "pop" ELSE "gone"
        /\ UNCHANGED <<alive, outs>>
     \/ transmitter' = "gone" /\ alive' = FALSE /\ outs' = [size |-> 0, ready |-> FALSE]
  /\ UNCHANGED <<world, cmds, receiver, line, router, todo, auto, drive, owner, turn>>

\* put() may throw for want of time, or as the link is lost; it must once closed.
TransmitterPuts ==
  /\ transmitter = "put"
  /\ \/ /\ link # "closed"
        /\ transmitter' = IF alive THEN "pop" ELSE "gone"
        /\ UNCHANGED alive
     \/ transmitter' = "gone" /\ alive' = FALSE
  /\ UNCHANGED <<world, cmds, outs, receiver, line, router, todo, auto, drive, owner,
                 turn>>

-----------------------------------------------------------------------------
(* msg_router(): pop() and the command's effects one by one *)

\* Mutation of Effects: thrust is set before the brake is let go.
Effects_PowerFirst(c) ==
  CASE c = "power" -> {<<"p1", "b0">>}
    [] c = "power0" -> {<<"p0">>}
    [] c = "brake" -> {<<"p0", "b1">>}
    [] c = "brake0" -> {<<"b0">>}
    [] c = "turn" -> {<<>>, <<"p0", "b1">>}
    [] c = "bad" -> {<<"p0", "b1", "say">>}
    [] c = "ping" -> {<<"say">>}
    [] c \in {"auto_on", "auto_off"} -> {<<c>>}
    [] c = "tick" /\ auto -> {<<p, "turn">> : p \in {"power", "power0", "brake"}}
    [] OTHER -> {<<>>}

\* Mutation of Effects: drive commands are confirmed as well.
Effects_Talkative(c) ==
  CASE c = "power" -> {<<"b0", "p1", "say">>}
    [] c = "power0" -> {<<"p0", "say">>}
    [] c = "brake" -> {<<"p0", "b1", "say">>}
    [] c = "brake0" -> {<<"b0", "say">>}
    [] c = "turn" -> {<<"say">>, <<"p0", "b1", "say">>}
    [] c = "bad" -> {<<"p0", "b1", "say", "say">>}
    [] c = "ping" -> {<<"say">>}
    [] c \in {"auto_on", "auto_off"} -> {<<c>>}
    [] c = "tick" /\ auto -> {<<p, "turn">> : p \in {"power", "power0", "brake"}}
    [] OTHER -> {<<>>}

\* The stores, in the order of the code, and the pushes: "say" to to_BCP, a
\* command to from_BCP. "bad" is an argument missing: lockdown() before the reply.
\* An argument out of range locks down without a reply, which for power and brake is
\* what "brake" does. The autopilot orders thrust, none, or more than the drive takes.
Effects(c) ==
  CASE c = "power" -> {<<"b0", "p1">>}
    [] c = "power0" -> {<<"p0">>}
    [] c = "brake" -> {<<"p0", "b1">>}
    [] c = "brake0" -> {<<"b0">>}
    [] c = "turn" -> {<<>>, <<"p0", "b1">>}
    [] c = "bad" -> {<<"p0", "b1", "say">>}
    [] c = "ping" -> {<<"say">>}
    [] c \in {"auto_on", "auto_off"} -> {<<c>>}
    [] c = "tick" /\ auto -> {<<p, "turn">> : p \in {"power", "power0", "brake"}}
    [] OTHER -> {<<>>}

MustWait == cmds.ready /\ (cmds.queue = <<>> \/ cmds.blocked)

\* pop() returns, waits, or throws, which ends the thread.
RouterPops ==
  /\ router = "pop"
  /\ \/ /\ MustWait
        /\ router' = "park" /\ UNCHANGED <<cmds, todo>>
     \/ /\ ~MustWait /\ ~cmds.ready
        /\ router' = "gone" /\ UNCHANGED <<cmds, todo>>
     \/ /\ ~MustWait /\ cmds.ready
        /\ todo' \in Effects(Head(cmds.queue))
        /\ cmds' = [cmds EXCEPT !.queue = Tail(@)]
        /\ router' = "run"
  /\ UNCHANGED <<alive, world, outs, io, auto, drive, owner, turn>>

\* wait() lets mylock go; it may also return by itself.
RouterWaits ==
  /\ \/ router = "park" /\ router' = "asleep"
     \/ router = "asleep" /\ router' = "pop"
  /\ UNCHANGED <<alive, world, cmds, outs, io, todo, auto, drive, owner, turn>>

RouterActs ==
  /\ router = "run" /\ todo # <<>> /\ Head(todo) \notin Commands \union {"say"}
  /\ todo' = Tail(todo)
  /\ drive' = CASE Head(todo) = "p0" -> [drive EXCEPT !.p = 0]
                [] Head(todo) = "p1" -> [drive EXCEPT !.p = 1]
                [] Head(todo) = "b0" -> [drive EXCEPT !.b = 0]
                [] Head(todo) = "b1" -> [drive EXCEPT !.b = 1]
  /\ UNCHANGED <<alive, world, cmds, outs, io, router, auto, owner, turn>>

RouterSwitches ==
  /\ router = "run" /\ todo \in {<<"auto_on">>, <<"auto_off">>}
  /\ auto' = (todo = <<"auto_on">>) /\ todo' = <<>>
  /\ UNCHANGED <<alive, world, cmds, outs, io, router, drive, owner, turn>>

\* push() to to_BCP. When that is shut down the handler pushes there again, and the
\* second exception leaves the thread.
RouterSays ==
  /\ router = "run" /\ todo # <<>> /\ Head(todo) = "say" /\ ~crashed
  /\ IF outs.ready
     THEN /\ outs' = [outs EXCEPT !.size = @ + 1] /\ todo' = Tail(todo)
          /\ UNCHANGED crashed
     ELSE crashed' = TRUE /\ UNCHANGED <<outs, todo>>
  /\ UNCHANGED <<alive, world, cmds, io, router, auto, drive, owner, turn>>

\* gonculate()'s push() to from_BCP: the handler replies WTF when it throws.
RouterQueues ==
  /\ router = "run" /\ Len(todo) \in {1, 2} /\ Head(todo) \in Commands
  /\ todo \notin {<<"auto_on">>, <<"auto_off">>}
  /\ IF cmds.ready THEN Inserted(Head(todo)) /\ todo' = Tail(todo)
     ELSE todo' = <<"say">> /\ UNCHANGED cmds
  /\ UNCHANGED <<alive, world, outs, io, router, auto, drive, owner, turn>>

RouterLoops ==
  /\ router = "run" /\ todo = <<>>
  /\ router' = "pop"
  /\ UNCHANGED <<alive, world, cmds, outs, io, todo, auto, drive, owner, turn>>

-----------------------------------------------------------------------------
(* the constructor's end and the engine's turn *)

Ready ==
  /\ owner = "new"
  /\ outs' = [outs EXCEPT !.size = @ + 1]
  /\ owner' = "idle"
  /\ UNCHANGED <<alive, world, cmds, io, router, todo, auto, drive, turn>>

\* Mutation of Lock: the queue is not held.
Lock_NoHold ==
  /\ owner = "idle" /\ Len(cmds.queue) < QueueLimit
  /\ owner' = "tick"
  /\ turn' = [p |-> 0, b |-> 0, carried |-> turn.first \/ router = "run", first |-> FALSE]
  /\ UNCHANGED <<alive, world, cmds, outs, io, router, todo, auto, drive>>

Lock ==
  /\ owner = "idle" /\ Len(cmds.queue) < QueueLimit
  /\ cmds' = [cmds EXCEPT !.blocked = ~turn.first]
  /\ owner' = "tick"
  /\ turn' = [p |-> 0, b |-> 0, carried |-> turn.first \/ router = "run", first |-> FALSE]
  /\ UNCHANGED <<alive, world, outs, io, router, todo, auto, drive>>

\* tick() reports a dead bot destroyed; off the ground the drive is not read.
TickStarts ==
  /\ owner = "tick"
  /\ \/ ~alive /\ owner' = "kill" /\ UNCHANGED turn
     \/ alive /\ owner' = "brake" /\ turn' = [turn EXCEPT !.p = drive.p]
     \/ alive /\ owner' = "end" /\ UNCHANGED turn
  /\ UNCHANGED <<alive, world, cmds, outs, io, router, todo, auto, drive>>

TickReadsBrake ==
  /\ owner = "brake"
  /\ owner' = "end" /\ turn' = [turn EXCEPT !.b = drive.b]
  /\ UNCHANGED <<alive, world, cmds, outs, io, router, todo, auto, drive>>

\* unlock(): release() clears the flag, then notifies, both without mylock.
Release ==
  /\ owner = "end"
  /\ cmds' = [cmds EXCEPT !.blocked = FALSE]
  /\ turn' = [turn EXCEPT !.p = 0, !.b = 0, !.carried = FALSE]
  /\ owner' = "notify"
  /\ UNCHANGED <<alive, world, outs, io, router, todo, auto, drive>>

\* Mutation of ReleaseNotifies: unlock() does not push a tick.
ReleaseNotifies_NoTick ==
  /\ owner = "notify"
  /\ Wake
  /\ owner' = "idle"
  /\ UNCHANGED <<alive, world, cmds, outs, io, todo, auto, drive, turn>>

ReleaseNotifies ==
  /\ owner = "notify"
  /\ Wake
  /\ owner' = "push"
  /\ UNCHANGED <<alive, world, cmds, outs, io, todo, auto, drive, turn>>

PushesTick ==
  /\ owner = "push" /\ CanInsert
  /\ Inserted("tick")
  /\ owner' = "pushed"
  /\ UNCHANGED <<alive, world, outs, io, router, todo, auto, drive, turn>>

TickNotifies ==
  /\ owner = "pushed"
  /\ Notified
  /\ owner' = "idle"
  /\ UNCHANGED <<alive, world, cmds, outs, io, todo, auto, drive, turn>>

\* The engine drops the bot in its turn, or between turns.
Drop ==
  /\ owner \in {"idle", "end"}
  /\ owner' = "kill"
  /\ turn' = [turn EXCEPT !.p = 0, !.b = 0, !.carried = FALSE]
  /\ UNCHANGED <<alive, world, cmds, outs, io, router, todo, auto, drive>>

-----------------------------------------------------------------------------
(* ~bot_mk1() *)

Kill ==
  /\ owner = "kill"
  /\ alive' = FALSE /\ owner' = "out"
  /\ UNCHANGED <<world, cmds, outs, io, router, todo, auto, drive, turn>>

ShutdownOut ==
  /\ owner = "out"
  /\ outs' = [size |-> 0, ready |-> FALSE]
  /\ owner' = "in"
  /\ UNCHANGED <<alive, world, cmds, io, router, todo, auto, drive, turn>>

\* Mutation of ShutdownIn: only the socket and to_BCP are closed.
ShutdownIn_Skipped ==
  /\ owner = "in"
  /\ owner' = "close"
  /\ UNCHANGED <<alive, world, cmds, outs, io, router, todo, auto, drive, turn>>

ShutdownIn ==
  /\ owner = "in" /\ CanInsert
  /\ cmds' = [cmds EXCEPT !.queue = <<>>, !.ready = FALSE]
  /\ Wake
  /\ owner' = "close"
  /\ UNCHANGED <<alive, world, outs, io, todo, auto, drive, turn>>

CloseLink ==
  /\ owner = "close"
  /\ link' = "closed" /\ owner' = "join"
  /\ UNCHANGED <<alive, lines, cmds, outs, io, router, todo, auto, drive, turn>>

Join ==
  /\ owner = "join"
  /\ receiver = "gone" /\ transmitter = "gone" /\ router = "gone"
  /\ owner' = "gone"
  /\ UNCHANGED <<alive, world, cmds, outs, io, router, todo, auto, drive, turn>>

LinkLost ==
  /\ link = "up" /\ link' = "down"
  /\ UNCHANGED <<alive, lines, cmds, outs, io, router, todo, auto, drive, owner, turn>>

-----------------------------------------------------------------------------
Receiver == ReceiverReads \/ ReceiverPushes \/ ReceiverNotifies \/ ReceiverFails
Transmitter == TransmitterPops \/ TransmitterPuts
RouterRuns == RouterPops \/ RouterActs \/ RouterSwitches \/ RouterQueues \/ RouterLoops
Turn == TickStarts \/ TickReadsBrake \/ Release \/ ReleaseNotifies \/ PushesTick
        \/ TickNotifies
Destructor == Kill \/ ShutdownOut \/ ShutdownIn \/ CloseLink \/ Join

\* std::terminate ends every thread; only RouterSays can call it.
Running(action) == ~crashed /\ UNCHANGED crashed /\ action

Next ==
  \/ Running(\/ Receiver \/ Transmitter \/ RouterRuns \/ RouterWaits
             \/ Ready \/ Lock \/ Turn \/ Drop \/ Destructor \/ LinkLost)
  \/ RouterSays

Spec == Init /\ [][Next]_vars

\* Every thread runs on, the turn and the destructor too, and none waits for ever
\* for a mutex that keeps being freed. Nobody owes a line, a turn, or the wait's
\* returning by itself.
FairSpec ==
  /\ Spec
  /\ SF_vars(Running(ReceiverPushes \/ ReceiverNotifies))
  /\ WF_vars(Running(link # "up" /\ ReceiverFails))
  /\ WF_vars(Running(Transmitter))
  /\ WF_vars(RouterSays \/ Running(RouterRuns))
  /\ WF_vars(Running(router = "park" /\ RouterWaits))
  /\ SF_vars(Running(Turn \/ Destructor))

-----------------------------------------------------------------------------
(* Properties *)

\* Types; and only READY and one reply for each line are ever queued to be sent:
\* ticks and the autopilot's own commands are obeyed without a word, or the
\* transmitter's queue would grow by the engine's pace.
TypeOK ==
  /\ alive \in BOOLEAN /\ link \in {"up", "down", "closed"} /\ lines \in 0..LineLimit
  /\ cmds \in [queue: Seq(Commands), ready: BOOLEAN, blocked: BOOLEAN]
  /\ outs \in [size: 0..(LineLimit + 1), ready: BOOLEAN]
  /\ receiver \in {"getln", "push", "notify", "gone"} /\ line \in Lines \union {"none"}
  /\ transmitter \in {"pop", "put", "gone"}
  /\ router \in {"pop", "park", "asleep", "run", "gone"}
  /\ auto \in BOOLEAN /\ drive \in [p: {0, 1}, b: {0, 1}]
  /\ turn \in [p: {0, 1}, b: {0, 1}, carried: BOOLEAN, first: BOOLEAN]
  /\ crashed \in BOOLEAN

\* The drive never pushes and brakes at once, not even between the two stores of a
\* command that changes from one to the other (diff_steer.cpp:66-92).
PowerXorBrake == drive.p = 0 \/ drive.b = 0

\* The engine reads the two settings one after the other. It can read thrust of one
\* command and braking of the next only when a command had been popped before lock()
\* held the queue, or in the bot's first turn, which is not locked.
TornOnlyIfCarried == (turn.p = 1 /\ turn.b = 1) => turn.carried

\* An exception of the router's handler ends the program only when the bot is being
\* destroyed; while it lives no failure of the link does (bot_mk1.cpp:228-231).
CrashOnlyInDestructor == crashed => Destroying

\* Commands that came while the queue was held are run after unlock() even if the
\* engine never takes another turn: release() alone can miss a router about to wait,
\* the push of "tick" cannot.
RouterWakes ==
  (router = "asleep" /\ cmds.queue # <<>> /\ ~cmds.blocked) ~> router # "asleep"

\* The destructor's three joins end, in whatever state the threads and the held
\* queue were, unless the router's handler ends the program.
DestructorReturns == owner = "kill" ~> owner = "gone" \/ crashed
=============================================================================
