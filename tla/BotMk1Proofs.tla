---------------------------- MODULE BotMk1Proofs ----------------------------
(***************************************************************************)
(* Proofs about BotMk1 for any commands the program sends, any number of    *)
(* lines and any number of commands queued when a turn begins.              *)
(***************************************************************************)
EXTENDS BotMk1, SequenceTheorems, FunctionTheorems, FiniteSetTheorems, TLAPS

-----------------------------------------------------------------------------
(* Types *)

\* What may be left of a command: the ends of what Effects gives.
Todos ==
  {<<>>, <<"b0", "p1">>, <<"p1">>, <<"p0">>, <<"p0", "b1">>, <<"b1">>, <<"b0">>,
   <<"p0", "b1", "say">>, <<"b1", "say">>, <<"say">>, <<"auto_on">>, <<"auto_off">>,
   <<"power", "turn">>, <<"power0", "turn">>, <<"brake", "turn">>, <<"turn">>}

Owners == {"new", "idle", "tick", "brake", "end", "notify", "push", "pushed", "kill",
           "out", "in", "close", "join", "gone"}

\* TypeOK without the bound on to_BCP, and the variables it does not mention.
LinkTypes ==
  /\ alive \in BOOLEAN /\ link \in {"up", "down", "closed"}
  /\ transmitter \in {"pop", "put", "gone"}
  /\ crashed \in BOOLEAN

ReceiverTypes ==
  /\ lines \in 0..LineLimit
  /\ receiver \in {"getln", "push", "notify", "gone"} /\ line \in Lines \union {"none"}
  /\ receiver = "push" => line \in Lines

QueueTypes ==
  /\ cmds \in [queue : Seq(Commands), ready : BOOLEAN, blocked : BOOLEAN]
  /\ outs \in [size : Nat, ready : BOOLEAN]

RouterTypes ==
  /\ router \in {"pop", "park", "asleep", "run", "gone"}
  /\ todo \in Todos /\ (todo # <<>> => router = "run")
  /\ auto \in BOOLEAN /\ drive \in [p : {0, 1}, b : {0, 1}]

OwnerTypes ==
  /\ owner \in Owners
  /\ turn \in [p : {0, 1}, b : {0, 1}, carried : BOOLEAN, first : BOOLEAN]

BotTypes == LinkTypes /\ ReceiverTypes /\ QueueTypes /\ RouterTypes /\ OwnerTypes

\* A thrust follows the brake's release, a brake the end of the thrust.
DriveInv ==
  /\ PowerXorBrake
  /\ todo = <<"p1">> => drive.b = 0
  /\ todo \in {<<"b1">>, <<"b1", "say">>} => drive.p = 0

\* In a turn that caught no command in the middle the queue is held and the
\* router has nothing to do.
TurnInv ==
  /\ owner \in {"tick", "brake", "end"} /\ ~turn.carried =>
       cmds.blocked /\ cmds.ready /\ router # "run"
  /\ turn.p = 1 => owner \in {"brake", "end"}
  /\ turn.b = 1 => owner = "end"
  /\ owner = "brake" /\ ~turn.carried => turn.p = drive.p
  /\ TornOnlyIfCarried

\* The destructor shuts down to_BCP, and then from_BCP.
ShutInv ==
  /\ owner \in {"in", "close", "join", "gone"} <=> ~outs.ready
  /\ owner \in {"close", "join", "gone"} <=> ~cmds.ready
  /\ CrashOnlyInDestructor

Talkative == {"bad", "ping"}
TalkativeIn(q) == {i \in 1..Len(q) : q[i] \in Talkative}
One(b) == IF b THEN 1 ELSE 0
Replying == {<<"p0", "b1", "say">>, <<"b1", "say">>, <<"say">>}

\* READY and each line are one reply at most: queued to be sent, or on the way.
ReplyInv ==
  /\ ~outs.ready => outs.size = 0
  /\ outs.ready =>
       outs.size + One(owner = "new") + One(receiver = "push")
         + Cardinality(TalkativeIn(cmds.queue)) + One(todo \in Replying)
       <= lines + 1

-----------------------------------------------------------------------------
(* Sequences *)

\* What is left of a command when its first effect is done.
LEMMA TodoTails ==
  /\ Tail(<<"b0", "p1">>) = <<"p1">> /\ Head(<<"b0", "p1">>) = "b0"
  /\ Tail(<<"p0", "b1">>) = <<"b1">> /\ Head(<<"p0", "b1">>) = "p0"
  /\ Tail(<<"p0", "b1", "say">>) = <<"b1", "say">> /\ Head(<<"p0", "b1", "say">>) = "p0"
  /\ Tail(<<"b1", "say">>) = <<"say">> /\ Head(<<"b1", "say">>) = "b1"
  /\ \A p \in {"power", "power0", "brake"} :
       Tail(<<p, "turn">>) = <<"turn">> /\ Head(<<p, "turn">>) = p
  /\ \A e \in STRING : Tail(<<e>>) = <<>> /\ Head(<<e>>) = e
OBVIOUS

\* No text begins another: which of them is left is known by its first effect.
LEMMA TodoCases ==
  ASSUME NEW t \in Todos, t # <<>>
  PROVE  /\ Tail(t) \in Todos
         /\ Head(t) \in {"p0", "p1", "b0", "b1", "say"} \union Commands
         /\ Head(t) = "p1" => t = <<"p1">>
         /\ Head(t) \in {"auto_on", "auto_off"} => t \in {<<"auto_on">>, <<"auto_off">>}
         /\ Head(t) = "b1" => t \in {<<"b1">>, <<"b1", "say">>}
         /\ Head(t) = "say" => t = <<"say">>
         /\ Tail(t) = <<"p1">> => Head(t) = "b0"
         /\ Head(t) = "say" => Tail(t) = <<>>
         /\ Head(t) # "say" => (Tail(t) \in Replying <=> t \in Replying)
         /\ Head(t) \in Commands \ {"auto_on", "auto_off"} =>
              Head(t) \notin Talkative /\ t \notin Replying
         /\ Tail(t) \in {<<"b1">>, <<"b1", "say">>} => Head(t) = "p0"
<1>1. CASE t = <<"b0", "p1">>
  BY <1>1, TodoTails DEF Todos, Commands, Replying, Talkative
<1>2. CASE t = <<"p1">>
  BY <1>2, TodoTails DEF Todos, Commands, Replying, Talkative
<1>3. CASE t = <<"p0">>
  BY <1>3, TodoTails DEF Todos, Commands, Replying, Talkative
<1>4. CASE t = <<"p0", "b1">>
  BY <1>4, TodoTails DEF Todos, Commands, Replying, Talkative
<1>5. CASE t = <<"b1">>
  BY <1>5, TodoTails DEF Todos, Commands, Replying, Talkative
<1>6. CASE t = <<"b0">>
  BY <1>6, TodoTails DEF Todos, Commands, Replying, Talkative
<1>7. CASE t = <<"p0", "b1", "say">>
  BY <1>7, TodoTails DEF Todos, Commands, Replying, Talkative
<1>8. CASE t = <<"b1", "say">>
  BY <1>8, TodoTails DEF Todos, Commands, Replying, Talkative
<1>9. CASE t = <<"say">>
  BY <1>9, TodoTails DEF Todos, Commands, Replying, Talkative
<1>10. CASE t = <<"auto_on">>
  BY <1>10, TodoTails DEF Todos, Commands, Replying, Talkative
<1>11. CASE t = <<"auto_off">>
  BY <1>11, TodoTails DEF Todos, Commands, Replying, Talkative
<1>12. CASE t = <<"power", "turn">>
  BY <1>12, TodoTails DEF Todos, Commands, Replying, Talkative
<1>13. CASE t = <<"power0", "turn">>
  BY <1>13, TodoTails DEF Todos, Commands, Replying, Talkative
<1>14. CASE t = <<"brake", "turn">>
  BY <1>14, TodoTails DEF Todos, Commands, Replying, Talkative
<1>15. CASE t = <<"turn">>
  BY <1>15, TodoTails DEF Todos, Commands, Replying, Talkative
<1> QED
  BY <1>1, <1>2, <1>3, <1>4, <1>5, <1>6, <1>7, <1>8, <1>9, <1>10, <1>11, <1>12, <1>13, <1>14, <1>15 DEF Todos

-----------------------------------------------------------------------------
(* Types are kept *)

\* Next, one disjunct for each thread.
LEMMA Steps ==
  ASSUME [Next]_vars
  PROVE  \/ Receiver /\ UNCHANGED crashed
         \/ Transmitter /\ UNCHANGED crashed
         \/ (RouterRuns \/ RouterWaits) /\ UNCHANGED crashed
         \/ RouterSays
         \/ (Ready \/ Lock \/ Turn \/ Drop) /\ UNCHANGED crashed
         \/ (Destructor \/ LinkLost) /\ UNCHANGED crashed
         \/ UNCHANGED vars
BY DEF Next, Running

\* The bot as its constructor leaves it, the threads just started.
LEMMA InitBot == Init => BotTypes
<1> SUFFICES ASSUME Init PROVE BotTypes
  OBVIOUS
<1>1. ReceiverTypes
  BY BotAssumption DEF Init, ReceiverTypes
<1>5. LinkTypes
  BY DEF Init, LinkTypes
<1>2. QueueTypes
  BY EmptySeq DEF Init, QueueTypes
<1>3. RouterTypes
  BY DEF Init, RouterTypes, Todos
<1>4. OwnerTypes
  BY DEF Init, OwnerTypes, Owners
<1> QED
  BY <1>1, <1>2, <1>3, <1>4, <1>5 DEF BotTypes

\* A command's effects are one of the texts that Todos lists.
LEMMA EffectsAreTodos == \A c \in Commands : Effects(c) \subseteq Todos
BY DEF Effects, Commands, Todos

\* ImAlive, the link's state and the transmitter's place keep their types.
LEMMA LinkStep == ASSUME LinkTypes, [Next]_vars PROVE LinkTypes'
<1> USE DEF LinkTypes, world, io
<1>1. CASE Receiver /\ UNCHANGED crashed
  BY <1>1 DEF Receiver, ReceiverReads, ReceiverPushes, ReceiverNotifies, ReceiverFails
<1>2. CASE Transmitter /\ UNCHANGED crashed
  BY <1>2 DEF Transmitter, TransmitterPops, TransmitterPuts
<1>3. CASE (RouterRuns \/ RouterWaits) /\ UNCHANGED crashed
  BY <1>3 DEF RouterRuns, RouterPops, RouterActs, RouterSwitches, RouterQueues,
              RouterLoops, RouterWaits
<1>4. CASE RouterSays
  BY <1>4 DEF RouterSays
<1>5. CASE (Ready \/ Lock \/ Turn \/ Drop) /\ UNCHANGED crashed
  BY <1>5 DEF Ready, Lock, Turn, Drop, TickStarts, TickReadsBrake, Release,
              ReleaseNotifies, PushesTick, TickNotifies
<1>6. CASE (Destructor \/ LinkLost) /\ UNCHANGED crashed
  BY <1>6 DEF Destructor, LinkLost, Kill, ShutdownOut, ShutdownIn, CloseLink, Join
<1>7. CASE UNCHANGED vars
  BY <1>7 DEF vars
<1> QED
  BY <1>1, <1>2, <1>3, <1>4, <1>5, <1>6, <1>7, Steps

\* The receiver pushes a line it has read, and reads LineLimit of them at most.
LEMMA ReceiverStep == ASSUME ReceiverTypes, [Next]_vars PROVE ReceiverTypes'
<1> USE BotAssumption DEF ReceiverTypes, world, io
<1>1. CASE Receiver /\ UNCHANGED crashed
  BY <1>1 DEF Receiver, ReceiverReads, ReceiverPushes, ReceiverNotifies, ReceiverFails
<1>2. CASE Transmitter /\ UNCHANGED crashed
  BY <1>2 DEF Transmitter, TransmitterPops, TransmitterPuts
<1>3. CASE (RouterRuns \/ RouterWaits) /\ UNCHANGED crashed
  BY <1>3 DEF RouterRuns, RouterPops, RouterActs, RouterSwitches, RouterQueues,
              RouterLoops, RouterWaits
<1>4. CASE RouterSays
  BY <1>4 DEF RouterSays
<1>5. CASE (Ready \/ Lock \/ Turn \/ Drop) /\ UNCHANGED crashed
  BY <1>5 DEF Ready, Lock, Turn, Drop, TickStarts, TickReadsBrake, Release,
              ReleaseNotifies, PushesTick, TickNotifies
<1>6. CASE (Destructor \/ LinkLost) /\ UNCHANGED crashed
  BY <1>6 DEF Destructor, LinkLost, Kill, ShutdownOut, ShutdownIn, CloseLink, Join
<1>7. CASE UNCHANGED vars
  BY <1>7 DEF vars
<1> QED
  BY <1>1, <1>2, <1>3, <1>4, <1>5, <1>6, <1>7, Steps

\* A queue grows by a command, or loses its first one.
LEMMA QueueStep == ASSUME BotTypes, [Next]_vars PROVE QueueTypes'
<1> USE DEF BotTypes, QueueTypes
<1>1. CASE ReceiverPushes
  <2>1. line \in Commands
    BY <1>1, BotAssumption DEF ReceiverPushes, ReceiverTypes
  <2>2. Append(cmds.queue, line) \in Seq(Commands)
    BY <2>1, AppendProperties
  <2> QED
    BY <1>1, <2>2 DEF ReceiverPushes, Inserted
<1>2. CASE RouterPops
  <2>1. CASE MustWait \/ ~cmds.ready
    BY <1>2, <2>1 DEF RouterPops
  <2>2. CASE ~MustWait /\ cmds.ready
    <3>1. Tail(cmds.queue) \in Seq(Commands)
      BY <2>2, HeadTailProperties DEF MustWait
    <3> QED
      BY <1>2, <2>2, <3>1 DEF RouterPops
  <2> QED
    BY <2>1, <2>2
<1>3. CASE RouterQueues
  <2>1. Append(cmds.queue, Head(todo)) \in Seq(Commands)
    BY <1>3, AppendProperties DEF RouterQueues
  <2> QED
    BY <1>3, <2>1 DEF RouterQueues, Inserted
<1>4. CASE PushesTick
  <2>1. Append(cmds.queue, "tick") \in Seq(Commands)
    BY AppendProperties DEF Commands
  <2> QED
    BY <1>4, <2>1 DEF PushesTick, Inserted
<1>5. CASE ShutdownIn
  <2>1. <<>> \in Seq(Commands)
    BY EmptySeq
  <2> QED
    BY <1>5, <2>1 DEF ShutdownIn
<1>6. CASE Lock \/ Release
  <2>1. cmds' = [cmds EXCEPT !.blocked = ~turn.first] \/ cmds' = [cmds EXCEPT !.blocked = FALSE]
    BY <1>6 DEF Lock, Release
  <2>2. UNCHANGED outs
    BY <1>6 DEF Lock, Release
  <2>3. \A b \in BOOLEAN : [cmds EXCEPT !.blocked = b] \in
                           [queue : Seq(Commands), ready : BOOLEAN, blocked : BOOLEAN]
    OBVIOUS
  <2>4. turn.first \in BOOLEAN
    BY DEF OwnerTypes
  <2>5. cmds' \in [queue : Seq(Commands), ready : BOOLEAN, blocked : BOOLEAN]
    BY <2>1, <2>3, <2>4
  <2> QED
    BY <2>2, <2>5
<1>13. CASE ShutdownOut
  BY <1>13 DEF ShutdownOut
<1>14. CASE Ready
  BY <1>14 DEF Ready
<1>7. CASE RouterSays \/ TransmitterPops
  BY <1>7 DEF RouterSays, TransmitterPops
<1>8. CASE UNCHANGED <<cmds, outs>>
  BY <1>8
<1>9. CASE TransmitterPuts \/ ReceiverReads \/ ReceiverNotifies \/ ReceiverFails
  BY <1>8, <1>9 DEF TransmitterPuts, ReceiverReads, ReceiverNotifies, ReceiverFails
<1>10. CASE RouterActs \/ RouterSwitches \/ RouterLoops \/ RouterWaits
  BY <1>8, <1>10 DEF RouterActs, RouterSwitches, RouterLoops, RouterWaits
<1>11. CASE TickStarts \/ TickReadsBrake \/ ReleaseNotifies \/ TickNotifies \/ Drop
  BY <1>8, <1>11 DEF TickStarts, TickReadsBrake, ReleaseNotifies, TickNotifies, Drop
<1>12. CASE Kill \/ CloseLink \/ Join \/ LinkLost \/ UNCHANGED vars
  BY <1>8, <1>12 DEF Kill, CloseLink, Join, LinkLost, vars
<1> QED
  BY <1>1, <1>2, <1>3, <1>4, <1>5, <1>6, <1>7, <1>9, <1>10, <1>11, <1>12,
     <1>13, <1>14, Steps DEF Receiver, Transmitter, RouterRuns, Turn, Destructor

\* What remains of a command remains one of the router's texts.
LEMMA RouterStep == ASSUME BotTypes, [Next]_vars PROVE RouterTypes'
<1> USE DEF BotTypes, RouterTypes, io
<1>1. CASE RouterPops
  <2>1. CASE MustWait \/ ~cmds.ready
    BY <1>1, <2>1 DEF RouterPops
  <2>2. CASE ~MustWait /\ cmds.ready
    <3>1. Head(cmds.queue) \in Commands
      BY <2>2, HeadTailProperties DEF MustWait, QueueTypes
    <3> QED
      BY <1>1, <2>2, <3>1, EffectsAreTodos DEF RouterPops
  <2> QED
    BY <2>1, <2>2
<1>2. CASE RouterActs
  <2>1. todo # <<>> /\ todo' = Tail(todo) /\ router' = "run" /\ UNCHANGED auto
    BY <1>2 DEF RouterActs
  <2>2. Tail(todo) \in Todos
    BY <2>1, TodoCases
  <2>3. drive' \in [p : {0, 1}, b : {0, 1}]
    BY <1>2, <2>1, TodoCases DEF RouterActs
  <2> QED
    BY <2>1, <2>2, <2>3
<1>3. CASE RouterSays \/ RouterQueues
  <2>1. todo # <<>>
    BY <1>3 DEF RouterSays, RouterQueues, Commands
  <2>2. Tail(todo) \in Todos
    BY <2>1, TodoCases
  <2>3. <<"say">> \in Todos
    BY DEF Todos
  <2> QED
    BY <1>3, <2>2, <2>3 DEF RouterSays, RouterQueues
<1>4. CASE RouterSwitches \/ RouterLoops \/ RouterWaits
  BY <1>4 DEF RouterSwitches, RouterLoops, RouterWaits, Todos
<1>5. CASE UNCHANGED <<todo, auto, drive>> /\ (UNCHANGED router \/ Wake)
  BY <1>5 DEF Wake
<1>6. CASE ReceiverNotifies \/ ReleaseNotifies \/ TickNotifies \/ ShutdownIn
  BY <1>5, <1>6 DEF ReceiverNotifies, ReleaseNotifies, TickNotifies, ShutdownIn, Notified
<1>7. CASE ReceiverReads \/ ReceiverPushes \/ ReceiverFails \/ Transmitter
  BY <1>5, <1>7 DEF ReceiverReads, ReceiverPushes, ReceiverFails, Transmitter,
                    TransmitterPops, TransmitterPuts
<1>8. CASE \/ Ready \/ Lock \/ Drop \/ TickStarts \/ TickReadsBrake \/ Release
           \/ PushesTick
  BY <1>5, <1>8 DEF Ready, Lock, Drop, TickStarts, TickReadsBrake, Release, PushesTick
<1>9. CASE Kill \/ ShutdownOut \/ CloseLink \/ Join \/ LinkLost \/ UNCHANGED vars
  BY <1>5, <1>9 DEF Kill, ShutdownOut, CloseLink, Join, LinkLost, vars
<1> QED
  BY <1>1, <1>2, <1>3, <1>4, <1>6, <1>7, <1>8, <1>9, Steps
     DEF Receiver, RouterRuns, Turn, Destructor

\* The engine's turn, and then the destructor, stay in their steps.
LEMMA OwnerStep == ASSUME BotTypes, [Next]_vars PROVE OwnerTypes'
<1> USE DEF BotTypes, RouterTypes, OwnerTypes, Owners
<1>1. CASE Ready \/ TickReadsBrake
  BY <1>1 DEF Ready, TickReadsBrake
<1>8. CASE Drop \/ Release
  <2>1. turn' = [turn EXCEPT !.p = 0, !.b = 0, !.carried = FALSE]
    BY <1>8 DEF Drop, Release
  <2>2. owner' \in Owners
    BY <1>8 DEF Drop, Release
  <2>3. turn' \in [p : {0, 1}, b : {0, 1}, carried : BOOLEAN, first : BOOLEAN]
    BY <2>1
  <2> QED
    BY <2>2, <2>3
<1>2. CASE Lock
  <2>1. \A c \in BOOLEAN : [p |-> 0, b |-> 0, carried |-> c, first |-> FALSE] \in
                           [p : {0, 1}, b : {0, 1}, carried : BOOLEAN, first : BOOLEAN]
    OBVIOUS
  <2>2. (turn.first \/ router = "run") \in BOOLEAN
    OBVIOUS
  <2> QED
    BY <1>2, <2>1, <2>2 DEF Lock
<1>9. CASE TickStarts
  BY <1>9 DEF TickStarts
<1>3. CASE ReleaseNotifies \/ PushesTick \/ TickNotifies
  BY <1>3 DEF ReleaseNotifies, PushesTick, TickNotifies
<1>4. CASE Destructor \/ LinkLost
  BY <1>4 DEF Destructor, Kill, ShutdownOut, ShutdownIn, CloseLink, Join, LinkLost
<1>5. CASE UNCHANGED <<owner, turn>>
  BY <1>5
<1>6. CASE Receiver \/ Transmitter
  BY <1>5, <1>6 DEF Receiver, ReceiverReads, ReceiverPushes, ReceiverNotifies,
                    ReceiverFails, Transmitter, TransmitterPops, TransmitterPuts
<1>7. CASE RouterRuns \/ RouterWaits \/ RouterSays \/ UNCHANGED vars
  BY <1>5, <1>7 DEF RouterRuns, RouterPops, RouterActs, RouterSwitches, RouterQueues,
                    RouterLoops, RouterWaits, RouterSays, vars
<1> QED
  BY <1>1, <1>2, <1>3, <1>4, <1>6, <1>7, <1>8, <1>9, Steps DEF Turn

\* All of the types together.
LEMMA TypesStep == ASSUME BotTypes, [Next]_vars PROVE BotTypes'
BY LinkStep, ReceiverStep, QueueStep, RouterStep, OwnerStep DEF BotTypes

-----------------------------------------------------------------------------
(* The drive *)

\* No step of the router sets one of the two while the other is set.
LEMMA DriveStep == ASSUME BotTypes, DriveInv, [Next]_vars PROVE DriveInv'
<1> USE DEF DriveInv, PowerXorBrake, BotTypes, RouterTypes
<1>1. CASE RouterPops
  <2>1. UNCHANGED drive
    BY <1>1 DEF RouterPops
  <2>2. CASE MustWait \/ ~cmds.ready
    BY <1>1, <2>1, <2>2 DEF RouterPops
  <2>3. CASE ~MustWait /\ cmds.ready
    <3>1. todo' \in Effects(Head(cmds.queue))
      BY <1>1, <2>3 DEF RouterPops
    <3>2. todo' \notin {<<"p1">>, <<"b1">>, <<"b1", "say">>}
      BY <3>1 DEF Effects
    <3> QED
      BY <2>1, <3>2
  <2> QED
    BY <2>2, <2>3
<1>2. CASE RouterActs
  <2>1. todo # <<>> /\ todo' = Tail(todo)
    BY <1>2 DEF RouterActs
  <2>2. /\ Head(todo) \in {"p0", "p1", "b0", "b1"}
        /\ Head(todo) = "p0" => drive' = [drive EXCEPT !.p = 0]
        /\ Head(todo) = "p1" => drive' = [drive EXCEPT !.p = 1]
        /\ Head(todo) = "b0" => drive' = [drive EXCEPT !.b = 0]
        /\ Head(todo) = "b1" => drive' = [drive EXCEPT !.b = 1]
    BY <1>2, <2>1, TodoCases DEF RouterActs
  <2>3. PowerXorBrake'
    BY <2>1, <2>2, TodoCases
  <2>4. todo' = <<"p1">> => drive'.b = 0
    BY <2>1, <2>2, TodoCases
  <2>5. todo' \in {<<"b1">>, <<"b1", "say">>} => drive'.p = 0
    BY <2>1, <2>2, TodoCases
  <2> QED
    BY <2>3, <2>4, <2>5
<1>3. CASE RouterSays \/ RouterQueues
  <2>1. UNCHANGED drive /\ todo # <<>> /\ Head(todo) \in Commands \union {"say"}
    BY <1>3 DEF RouterSays, RouterQueues
  <2>2. todo' \in {todo, Tail(todo), <<"say">>}
    BY <1>3 DEF RouterSays, RouterQueues
  <2>3. Tail(todo) \notin {<<"p1">>, <<"b1">>, <<"b1", "say">>}
    BY <2>1, TodoCases, TodoTails DEF Commands
  <2>4. <<"say">> \notin {<<"p1">>, <<"b1">>, <<"b1", "say">>}
    OBVIOUS
  <2> QED
    BY <2>1, <2>2, <2>3, <2>4
<1>4. CASE RouterSwitches
  BY <1>4 DEF RouterSwitches
<1>5. CASE UNCHANGED <<todo, drive>>
  BY <1>5
<1>6. CASE RouterLoops \/ RouterWaits \/ UNCHANGED vars
  BY <1>5, <1>6 DEF RouterLoops, RouterWaits, vars
<1>7. CASE Receiver \/ Transmitter
  BY <1>5, <1>7 DEF Receiver, ReceiverReads, ReceiverPushes, ReceiverNotifies,
                    ReceiverFails, Transmitter, TransmitterPops, TransmitterPuts
<1>8. CASE Ready \/ Lock \/ Turn \/ Drop
  BY <1>5, <1>8 DEF Ready, Lock, Turn, Drop, TickStarts, TickReadsBrake, Release,
                    ReleaseNotifies, PushesTick, TickNotifies
<1>9. CASE Destructor \/ LinkLost
  BY <1>5, <1>9 DEF Destructor, LinkLost, Kill, ShutdownOut, ShutdownIn, CloseLink, Join
<1> QED
  BY <1>1, <1>2, <1>3, <1>4, <1>6, <1>7, <1>8, <1>9, Steps DEF RouterRuns

\* At every step of the router, between the two stores of a command too, the drive
\* pushes or brakes or does neither: each command clears one setting before the other.
THEOREM NeverPowerAndBrake == Spec => []PowerXorBrake
<1> DEFINE Inv == BotTypes /\ DriveInv
<1>1. Init => Inv
  BY InitBot DEF Init, DriveInv, PowerXorBrake
<1>2. Inv /\ [Next]_vars => Inv'
  BY TypesStep, DriveStep
<1>3. Inv => PowerXorBrake
  BY DEF DriveInv
<1> QED
  BY <1>1, <1>2, <1>3, PTL DEF Spec

-----------------------------------------------------------------------------
(* The turn *)

\* The destructor's order, and what it means that a queue is shut down.
LEMMA ShutStep == ASSUME BotTypes, ShutInv, [Next]_vars PROVE ShutInv'
<1> USE DEF ShutInv, CrashOnlyInDestructor, Destroying, BotTypes, QueueTypes
<1>1. CASE RouterSays
  BY <1>1 DEF RouterSays
<1>2. CASE Receiver /\ UNCHANGED crashed
  BY <1>2 DEF Receiver, ReceiverReads, ReceiverPushes, ReceiverNotifies, ReceiverFails,
              Inserted
<1>3. CASE Transmitter /\ UNCHANGED crashed
  BY <1>3 DEF Transmitter, TransmitterPops, TransmitterPuts
<1>4. CASE (RouterRuns \/ RouterWaits) /\ UNCHANGED crashed
  BY <1>4 DEF RouterRuns, RouterPops, RouterActs, RouterSwitches, RouterQueues,
              RouterLoops, RouterWaits, Inserted
<1>5. CASE (Ready \/ Lock \/ Drop) /\ UNCHANGED crashed
  BY <1>5 DEF Ready, Lock, Drop
<1>6. CASE Turn /\ UNCHANGED crashed
  BY <1>6 DEF Turn, TickStarts, TickReadsBrake, Release, ReleaseNotifies, PushesTick,
              TickNotifies, Inserted
<1>7. CASE (Kill \/ CloseLink \/ Join \/ LinkLost) /\ UNCHANGED crashed
  BY <1>7 DEF LinkLost, Kill, CloseLink, Join
<1>8. CASE UNCHANGED vars
  BY <1>8 DEF vars
<1>9. CASE ShutdownOut /\ UNCHANGED crashed
  BY <1>9 DEF ShutdownOut
<1>10. CASE ShutdownIn /\ UNCHANGED crashed
  BY <1>10 DEF ShutdownIn
<1> QED
  BY <1>1, <1>2, <1>3, <1>4, <1>5, <1>6, <1>7, <1>8, <1>9, <1>10, Steps DEF Destructor

\* However the link fails, the exception that leaves the router's thread is thrown
\* only after ~bot_mk1() shut to_BCP down: push() throws for that reason alone.
THEOREM LinkFailuresDoNotCrash == Spec => []CrashOnlyInDestructor
<1> DEFINE Inv == BotTypes /\ ShutInv
<1>1. Init => Inv
  BY InitBot DEF Init, ShutInv, CrashOnlyInDestructor
<1>2. Inv /\ [Next]_vars => Inv'
  BY TypesStep, ShutStep
<1>3. Inv => CrashOnlyInDestructor
  BY DEF ShutInv
<1> QED
  BY <1>1, <1>2, <1>3, PTL DEF Spec

\* From lock() to release() nothing is popped, unless the destructor is at work.
LEMMA TurnStep == ASSUME BotTypes, DriveInv, ShutInv, TurnInv, [Next]_vars PROVE TurnInv'
<1> USE DEF TurnInv, TornOnlyIfCarried, BotTypes, QueueTypes, RouterTypes, OwnerTypes
<1>1. CASE RouterPops
  BY <1>1 DEF RouterPops, MustWait
<1>2. CASE RouterActs
  BY <1>2 DEF RouterActs
<1>3. CASE RouterSays \/ RouterSwitches \/ RouterLoops \/ RouterWaits
  BY <1>3 DEF RouterSays, RouterSwitches, RouterLoops, RouterWaits
<1>4. CASE RouterQueues
  BY <1>4 DEF RouterQueues, Inserted
<1>5. CASE Receiver
  BY <1>5 DEF Receiver, ReceiverReads, ReceiverPushes, ReceiverNotifies, ReceiverFails,
              Inserted, Notified, Wake
<1>6. CASE Transmitter
  BY <1>6 DEF Transmitter, TransmitterPops, TransmitterPuts
<1>7. CASE Lock
  BY <1>7 DEF Lock, ShutInv
<1>8. CASE TickStarts
  BY <1>8 DEF TickStarts
<1>9. CASE TickReadsBrake
  BY <1>9 DEF TickReadsBrake, DriveInv, PowerXorBrake
<1>10. CASE Release \/ Drop
  <2>1. owner' \notin {"tick", "brake", "end"} /\ turn'.p = 0 /\ turn'.b = 0
    BY <1>10 DEF Release, Drop
  <2> QED
    BY <2>1
<1>11. CASE Ready \/ ReleaseNotifies \/ PushesTick \/ TickNotifies
  BY <1>11 DEF Ready, ReleaseNotifies, PushesTick, TickNotifies
<1>12. CASE Destructor
  BY <1>12 DEF Destructor, Kill, ShutdownOut, ShutdownIn, CloseLink, Join
<1>13. CASE LinkLost \/ UNCHANGED vars
  BY <1>13 DEF LinkLost, vars
<1> QED
  BY <1>1, <1>2, <1>3, <1>4, <1>5, <1>6, <1>7, <1>8, <1>9, <1>10, <1>11, <1>12,
     <1>13, Steps DEF RouterRuns, Turn

\* A turn that lock() began with the router idle reads both settings of the drive as
\* one command left them: the held from_BCP keeps the router from the next command.
THEOREM TurnsAreWhole == Spec => []TornOnlyIfCarried
<1> DEFINE Inv == BotTypes /\ DriveInv /\ ShutInv /\ TurnInv
<1>1. Init => Inv
  BY InitBot DEF Init, DriveInv, PowerXorBrake, ShutInv, CrashOnlyInDestructor, TurnInv,
                 TornOnlyIfCarried
<1>2. Inv /\ [Next]_vars => Inv'
  BY TypesStep, DriveStep, ShutStep, TurnStep
<1>3. Inv => TornOnlyIfCarried
  BY DEF TurnInv
<1> QED
  BY <1>1, <1>2, <1>3, PTL DEF Spec

-----------------------------------------------------------------------------
(* The replies *)

\* The commands queued that are answered can be counted.
LEMMA TalkativeFinite ==
  ASSUME NEW q \in Seq(Commands)
  PROVE  IsFiniteSet(TalkativeIn(q)) /\ Cardinality(TalkativeIn(q)) \in Nat
<1>1. IsFiniteSet(1..Len(q))
  BY FS_Interval
<1>2. TalkativeIn(q) \in SUBSET (1..Len(q))
  BY DEF TalkativeIn
<1> QED
  BY <1>1, <1>2, FS_Subset, FS_CardinalityType

\* A command queued counts if it will be answered.
LEMMA TalkativeAppend ==
  ASSUME NEW q \in Seq(Commands), NEW c \in Commands
  PROVE  Cardinality(TalkativeIn(Append(q, c)))
           = Cardinality(TalkativeIn(q)) + One(c \in Talkative)
<1>1. /\ Len(Append(q, c)) = Len(q) + 1 /\ Len(q) \in Nat
      /\ Append(q, c)[Len(q) + 1] = c
      /\ \A i \in 1..Len(q) : Append(q, c)[i] = q[i]
  BY AppendProperties, LenProperties
<1>2. CASE c \in Talkative
  <2>1. TalkativeIn(Append(q, c)) = TalkativeIn(q) \union {Len(q) + 1}
    BY <1>1, <1>2 DEF TalkativeIn
  <2>2. Len(q) + 1 \notin TalkativeIn(q)
    BY <1>1 DEF TalkativeIn
  <2> QED
    BY <1>2, <2>1, <2>2, TalkativeFinite, FS_AddElement DEF One
<1>3. CASE c \notin Talkative
  <2>1. TalkativeIn(Append(q, c)) = TalkativeIn(q)
    BY <1>1, <1>3 DEF TalkativeIn
  <2> QED
    BY <1>3, <2>1, TalkativeFinite DEF One
<1> QED
  BY <1>2, <1>3

\* The first command takes its reply with it.
LEMMA TalkativeTail ==
  ASSUME NEW q \in Seq(Commands), q # <<>>
  PROVE  Cardinality(TalkativeIn(q))
           = Cardinality(TalkativeIn(Tail(q))) + One(Head(q) \in Talkative)
<1> DEFINE T == TalkativeIn(Tail(q))
           Rest == {i \in 2..Len(q) : q[i] \in Talkative}
           f == [i \in T |-> i + 1]
<1>1. /\ Tail(q) \in Seq(Commands) /\ Len(Tail(q)) = Len(q) - 1
      /\ \A i \in 1..Len(Tail(q)) : Tail(q)[i] = q[i + 1]
      /\ Len(q) \in Nat \ {0} /\ Head(q) = q[1]
  BY HeadTailProperties, EmptySeq
<1>2. \A i \in T : i + 1 \in Rest
  BY <1>1 DEF TalkativeIn
<1>3. \A k \in Rest : k - 1 \in T /\ k = (k - 1) + 1
  BY <1>1 DEF TalkativeIn
<1>4. f \in Bijection(T, Rest)
  <2>1. f \in [T -> Rest]
    BY <1>2
  <2>2. \A i, j \in T : f[i] = f[j] => i = j
    BY DEF TalkativeIn
  <2>3. \A k \in Rest : \E i \in T : f[i] = k
    BY <1>3
  <2> QED
    BY <2>1, <2>2, <2>3, Fun_IsBij
<1>5. IsFiniteSet(Rest) /\ Cardinality(Rest) = Cardinality(T)
  BY <1>1, <1>4, TalkativeFinite, FS_Bijection DEF ExistsBijection
<1>8. Cardinality(T) \in Nat
  BY <1>1, TalkativeFinite
<1>6. CASE Head(q) \in Talkative
  <2>1. TalkativeIn(q) = Rest \union {1} /\ 1 \notin Rest
    BY <1>1, <1>6 DEF TalkativeIn
  <2> QED
    BY <1>5, <1>6, <2>1, FS_AddElement DEF One
<1>7. CASE Head(q) \notin Talkative
  <2>1. TalkativeIn(q) = Rest
    BY <1>1, <1>7 DEF TalkativeIn
  <2> QED
    BY <1>5, <1>7, <1>8, <2>1 DEF One
<1> QED
  BY <1>6, <1>7

\* A step that answers nothing leaves what is owed, or takes from it.
LEMMA ReplyStep == ASSUME BotTypes, ShutInv, ReplyInv, [Next]_vars PROVE ReplyInv'
<1> DEFINE Talk == Cardinality(TalkativeIn(cmds.queue))
           New == One(owner = "new")
           Pushing == One(receiver = "push")
           Saying == One(todo \in Replying)
<1>1. /\ outs.size \in Nat /\ lines \in Nat /\ Talk \in Nat /\ Talk' \in Nat
      /\ New \in {0, 1} /\ Pushing \in {0, 1} /\ Saying \in {0, 1}
      /\ cmds \in [queue : Seq(Commands), ready : BOOLEAN, blocked : BOOLEAN]
      /\ outs \in [size : Nat, ready : BOOLEAN]
  BY TalkativeFinite, TypesStep, BotAssumption
     DEF BotTypes, QueueTypes, ReceiverTypes, One
<1>2. ~cmds.ready => ~outs.ready
  BY DEF ShutInv
<1>3. ASSUME UNCHANGED outs, outs.ready => New' + Pushing' + Talk' + Saying' + lines
                                     <= New + Pushing + Talk + Saying + lines',
             lines' \in Nat
      PROVE  ReplyInv'
  <2>1. New' \in {0, 1} /\ Pushing' \in {0, 1} /\ Saying' \in {0, 1}
    BY DEF One
  <2>2. outs.ready => outs.size + New + Pushing + Talk + Saying <= lines + 1
    BY DEF ReplyInv
  <2>3. outs'.ready => outs'.size + New' + Pushing' + Talk' + Saying' <= lines' + 1
    <3> SUFFICES ASSUME outs.ready
                 PROVE  outs.size + New' + Pushing' + Talk' + Saying' <= lines' + 1
      BY <1>3
    <3>1. /\ outs.size + New + Pushing + Talk + Saying <= lines + 1
          /\ New' + Pushing' + Talk' + Saying' + lines
               <= New + Pushing + Talk + Saying + lines'
      BY <1>3, <2>2
    <3>2. /\ outs.size \in Int /\ lines \in Int /\ lines' \in Int
          /\ New \in Int /\ Pushing \in Int /\ Talk \in Int /\ Saying \in Int
          /\ New' \in Int /\ Pushing' \in Int /\ Talk' \in Int /\ Saying' \in Int
      BY <1>1, <1>3, <2>1
    <3>3. \A s, l, m, a, b, c, d, e, f, g, h \in Int :
            s + a + b + c + d <= l + 1 /\ e + f + g + h + l <= a + b + c + d + m
              => s + e + f + g + h <= m + 1
      OBVIOUS
    <3> HIDE DEF New, Pushing, Talk, Saying
    <3> QED
      BY ONLY <3>1, <3>2, <3>3, ZenonT(60)
  <2> QED
    BY <1>3, <2>3 DEF ReplyInv
<1>4. ASSUME UNCHANGED <<outs, cmds, lines>>, todo' \in Replying => todo \in Replying,
             owner' = "new" => owner = "new", receiver' = "push" => receiver = "push"
      PROVE  ReplyInv'
  BY <1>1, <1>3, <1>4, SMTT(30) DEF One
<1>5. CASE ReceiverReads
  <2>1. /\ UNCHANGED <<outs, cmds, owner, todo>> /\ lines' = lines + 1
        /\ Pushing = 0 /\ Pushing' = 1
    BY <1>5 DEF ReceiverReads, One
  <2> QED
    BY <1>1, <1>3, <2>1
<1>6. CASE ReceiverPushes
  <2>1. UNCHANGED <<outs, lines, owner, todo>> /\ Pushing = 1 /\ Pushing' = 0
    BY <1>6 DEF ReceiverPushes, One, world
  <2>2. outs.ready => Talk' <= Talk + 1
    <3> SUFFICES ASSUME outs.ready PROVE Talk' <= Talk + 1
      OBVIOUS
    <3>1. cmds.ready /\ line \in Commands
      BY <1>2, <1>6, BotAssumption DEF BotTypes, ReceiverTypes, ReceiverPushes
    <3>2. cmds'.queue = Append(cmds.queue, line)
      BY <1>1, <1>6, <3>1 DEF ReceiverPushes, Inserted
    <3>3. Talk' = Talk + One(line \in Talkative)
      BY <1>1, <3>1, <3>2, TalkativeAppend
    <3> QED
      BY <1>1, <3>3 DEF One
  <2> QED
    BY <1>1, <1>3, <2>1, <2>2
<1>7. CASE RouterPops
  <2>1. UNCHANGED <<outs, lines, owner, receiver>> /\ todo = <<>>
    BY <1>7 DEF RouterPops, world, io, BotTypes, RouterTypes
  <2>2. CASE MustWait \/ ~cmds.ready
    BY <1>4, <1>7, <2>1, <2>2 DEF RouterPops
  <2>3. CASE ~MustWait /\ cmds.ready
    <3>1. /\ cmds.queue # <<>> /\ cmds'.queue = Tail(cmds.queue)
          /\ todo' \in Effects(Head(cmds.queue))
      BY <1>1, <1>7, <2>3 DEF RouterPops, MustWait
    <3>2. Talk = Talk' + One(Head(cmds.queue) \in Talkative)
      BY <1>1, <3>1, TalkativeTail
    <3>3. Head(cmds.queue) \in Commands
      BY <1>1, <3>1, HeadTailProperties
    <3>4. todo' \in Replying => Head(cmds.queue) \in Talkative
      BY <3>1, <3>3, SMTT(30) DEF Effects, Replying, Talkative, Commands
    <3>5. Saying' <= One(Head(cmds.queue) \in Talkative)
      BY <3>4 DEF One
    <3> QED
      BY <1>1, <1>3, <2>1, <3>2, <3>5, SMTT(30) DEF One
  <2> QED
    BY <2>2, <2>3
<1>8. CASE RouterActs
  <2>1. /\ UNCHANGED <<outs, cmds, lines, owner, receiver>> /\ todo # <<>>
        /\ todo' = Tail(todo) /\ Head(todo) # "say"
    BY <1>8 DEF RouterActs, world, io
  <2>2. todo' \in Replying <=> todo \in Replying
    BY <2>1, TodoCases DEF BotTypes, RouterTypes
  <2> QED
    BY <1>4, <2>1, <2>2
<1>9. CASE RouterSwitches
  BY <1>4, <1>9 DEF RouterSwitches, world, io, Replying
<1>10. CASE RouterQueues
  <2>1. /\ UNCHANGED <<outs, lines, owner, receiver>>
        /\ todo # <<>> /\ Head(todo) \in Commands
    BY <1>10 DEF RouterQueues, world, io
  <2>2. Head(todo) \notin {"auto_on", "auto_off"}
    BY <1>10, <2>1, TodoCases DEF RouterQueues, BotTypes, RouterTypes
  <2>3. Head(todo) # "say" /\ Head(todo) \notin Talkative /\ todo \notin Replying
    BY <2>1, <2>2, TodoCases DEF BotTypes, RouterTypes, Commands
  <2>4. Tail(todo) \notin Replying
    BY <2>1, <2>3, TodoCases DEF BotTypes, RouterTypes
  <2>5. outs.ready => Talk' = Talk /\ Saying' = 0
    <3> SUFFICES ASSUME outs.ready PROVE Talk' = Talk /\ Saying' = 0
      OBVIOUS
    <3>1. cmds'.queue = Append(cmds.queue, Head(todo)) /\ todo' = Tail(todo)
      BY <1>1, <1>2, <1>10 DEF RouterQueues, Inserted
    <3>2. Talk' = Talk + One(Head(todo) \in Talkative)
      BY <1>1, <2>1, <3>1, TalkativeAppend
    <3> QED
      BY <1>1, <2>3, <2>4, <3>1, <3>2 DEF One
  <2> QED
    BY <1>1, <1>3, <2>1, <2>5
<1>11. CASE RouterSays
  <2>1. UNCHANGED <<cmds, lines, owner, receiver>> /\ todo # <<>> /\ Head(todo) = "say"
    BY <1>11 DEF RouterSays, world, io
  <2>2. todo \in Replying /\ Tail(todo) = <<>>
    BY <2>1, TodoCases DEF BotTypes, RouterTypes, Replying
  <2>3. CASE outs.ready
    <3>1. outs'.ready /\ outs'.size = outs.size + 1 /\ todo' = <<>>
      BY <1>1, <1>11, <2>2, <2>3 DEF RouterSays
    <3>2. Saying = 1 /\ Saying' = 0
      BY <2>2, <3>1 DEF One, Replying
    <3> QED
      BY <1>1, <2>1, <2>3, <3>1, <3>2 DEF ReplyInv
  <2>4. CASE ~outs.ready
    BY <1>4, <1>11, <2>1, <2>4 DEF RouterSays
  <2> QED
    BY <2>3, <2>4
<1>12. CASE Ready
  <2>1. /\ UNCHANGED <<cmds, lines, receiver, todo>> /\ New = 1 /\ New' = 0
        /\ outs'.size = outs.size + 1 /\ outs'.ready = outs.ready /\ outs.ready
    BY <1>1, <1>12 DEF Ready, world, io, One, ShutInv
  <2> QED
    BY <1>1, <2>1 DEF ReplyInv
<1>13. CASE TransmitterPops
  <2>1. /\ UNCHANGED <<cmds, lines, receiver, todo, owner>>
        /\ outs' = outs \/ (outs'.size = outs.size - 1 /\ outs.ready /\ outs'.ready)
    BY <1>1, <1>13 DEF TransmitterPops, world
  <2> QED
    BY <1>1, <1>4, <2>1 DEF ReplyInv
<1>14. CASE PushesTick
  <2>1. /\ UNCHANGED <<outs, lines, receiver, todo>> /\ New = New'
        /\ cmds'.queue = Append(cmds.queue, "tick")
    BY <1>1, <1>14 DEF PushesTick, Inserted, world, io, One
  <2>2. Talk' = Talk + One("tick" \in Talkative)
    BY <1>1, <2>1, TalkativeAppend DEF Commands
  <2>3. One("tick" \in Talkative) = 0
    BY DEF One, Talkative
  <2> QED
    BY <1>1, <1>3, <2>1, <2>2, <2>3
<1>15. CASE ShutdownOut
  BY <1>15 DEF ShutdownOut, ReplyInv
<1>16. CASE ShutdownIn
  BY <1>16 DEF ShutdownIn, ReplyInv, ShutInv
<1>17. CASE Lock \/ Release
  <2>1. /\ UNCHANGED <<outs, lines, receiver, todo>> /\ cmds'.queue = cmds.queue
        /\ New' = New
    BY <1>1, <1>17 DEF Lock, Release, world, io, One
  <2> QED
    BY <1>1, <1>3, <2>1
<1>18. CASE ReceiverNotifies \/ ReceiverFails \/ TransmitterPuts
  BY <1>4, <1>18 DEF ReceiverNotifies, ReceiverFails, TransmitterPuts, world
<1>19. CASE RouterLoops \/ RouterWaits \/ UNCHANGED vars
  BY <1>4, <1>19 DEF RouterLoops, RouterWaits, world, io, vars
<1>20. CASE TickStarts \/ TickReadsBrake \/ ReleaseNotifies \/ TickNotifies \/ Drop
  BY <1>4, <1>20 DEF TickStarts, TickReadsBrake, ReleaseNotifies, TickNotifies, Drop,
                     world, io
<1>21. CASE Kill \/ CloseLink \/ Join \/ LinkLost
  BY <1>4, <1>21 DEF Kill, CloseLink, Join, LinkLost, world, io
<1> QED
  BY <1>5, <1>6, <1>7, <1>8, <1>9, <1>10, <1>11, <1>12, <1>13, <1>14, <1>15, <1>16,
     <1>17, <1>18, <1>19, <1>20, <1>21, Steps
     DEF Receiver, Transmitter, RouterRuns, Turn, Destructor

\* The types, with the bound on to_BCP: whatever the threads' pace, the transmitter
\* never owes the program more than READY and one reply for each line it sent.
THEOREM RepliesAreBounded == Spec => []TypeOK
<1> DEFINE Inv == BotTypes /\ ShutInv /\ ReplyInv
<1>1. Init => Inv
  <2> SUFFICES ASSUME Init PROVE Inv
    OBVIOUS
  <2>1. TalkativeIn(cmds.queue) = {}
    BY DEF Init, TalkativeIn
  <2>2. ReplyInv
    <3>1. Cardinality(TalkativeIn(cmds.queue)) = 0
      BY <2>1, FS_EmptySet
    <3>2. /\ One(owner = "new") = 1 /\ One(receiver = "push") = 0
          /\ One(todo \in Replying) = 0
      BY DEF Init, One, Replying
    <3> QED
      BY <3>1, <3>2 DEF Init, ReplyInv
  <2>3. BotTypes /\ ShutInv
    BY InitBot DEF Init, ShutInv, CrashOnlyInDestructor
  <2> QED
    BY <2>2, <2>3
<1>2. Inv /\ [Next]_vars => Inv'
  BY TypesStep, ShutStep, ReplyStep
<1>3. Inv => TypeOK
  <2> SUFFICES ASSUME Inv PROVE TypeOK
    OBVIOUS
  <2>1. outs.size \in 0..(LineLimit + 1)
    <3>1. /\ outs.size \in Nat /\ lines \in 0..LineLimit /\ LineLimit \in Nat
          /\ Cardinality(TalkativeIn(cmds.queue)) \in Nat
      BY TalkativeFinite, BotAssumption DEF BotTypes, QueueTypes, ReceiverTypes
    <3>2. /\ One(owner = "new") \in {0, 1} /\ One(receiver = "push") \in {0, 1}
          /\ One(todo \in Replying) \in {0, 1}
      BY DEF One
    <3>3. CASE outs.ready
      BY <3>1, <3>2, <3>3 DEF ReplyInv
    <3>4. CASE ~outs.ready
      BY <3>1, <3>4 DEF ReplyInv
    <3> QED
      BY <3>3, <3>4
  <2>2. outs \in [size : 0..(LineLimit + 1), ready : BOOLEAN]
    BY <2>1 DEF BotTypes, QueueTypes
  <2> QED
    BY <2>2 DEF TypeOK, BotTypes, LinkTypes, ReceiverTypes, QueueTypes, RouterTypes,
                OwnerTypes
<1> QED
  BY <1>1, <1>2, <1>3, PTL DEF Spec
=============================================================================
