----------------------------- MODULE SimEngine -----------------------------
(***************************************************************************)
(* The program: main() (sim_engine/main/simengine.cpp) with its output     *)
(* writer, the BCP listener (sim_engine/bcp_server) and the socket factory *)
(* under it (tcp_server_socket_factory of base_socket.cpp), from the start *)
(* of the listener to exit(0). The simulation is here what these parts see *)
(* of it: objects join at the start of a turn, a report leaves at its end; *)
(* SimCore has the rest. The queues are AbsQueue's. listen_sock is shared  *)
(* by three threads without a lock: it is tested first and used after, and *)
(* when it was reset in between the outcome is undefined.                  *)
(***************************************************************************)
EXTENDS Channels, Sequences, FiniteSets, FiniteSetsExt, Functions

CONSTANTS Clients,      \* bot control programs, in the order they connect
          PopLimit,     \* pop_limit
          ReportLimit   \* bound: a turn begins with fewer reports not stored yet

ASSUME EngineAssumption ==
  /\ PopLimit \in Nat \ {0} /\ ReportLimit \in Nat
  /\ Clients \in Seq(Range(Clients))
  /\ \A i, j \in DOMAIN Clients : Clients[i] = Clients[j] => i = j
  /\ {"none", "again", "error"} \intersect Range(Clients) = {}

VARIABLES main,                     \* where main() is
          over,                     \* how the program ended, or "no"
          sock, inRun,              \* listen_sock is set and open; in_run_method
          listener, got,            \* run(): where it is, what accept() returned
          away, backlog,            \* clients not yet connected, not yet accepted
          pending, taking,          \* the queue of connections; its ready flag
          proc, conn,               \* processor(): where it is, its connection
          engine, endRun,           \* run_sim(): where it is; end_run
          world, joining, burst,    \* objects, queued additions, the most of them
          soq,                      \* sim_output: [queued, unfinished, ready]
          unstored,                 \* history: reports made and not in the database
          writer                    \* output_writer()

net == <<away, backlog>>
accepting == <<listener, got, sock, inRun>>
admitting == <<pending, taking, proc, conn>>
sim == <<engine, world, joining, burst>>
output == <<soq, unstored, writer>>
vars == <<main, over, accepting, net, admitting, endRun, sim, output, channels>>

\* Writer and simulation have been started; start_listen() has started run().
Init ==
  /\ ChannelsInit
  /\ main = "starting" /\ over = "no"
  /\ sock = FALSE /\ inRun = FALSE
  /\ listener = "bind" /\ got = "none"
  /\ away = Clients /\ backlog = <<>>
  /\ pending = <<>> /\ taking = TRUE
  /\ proc = "new" /\ conn = "none"
  /\ engine = "starting" /\ endRun = FALSE
  /\ world = 0 /\ joining = 0 /\ burst = 1
  /\ soq = [queued |-> 0, unfinished |-> 0, ready |-> TRUE]
  /\ unstored = 0
  /\ writer = "pop"

Listening == inRun /\ sock

-----------------------------------------------------------------------------
(* main() *)

\* start_listen() polls listening(), and bcp_listener starts its own thread.
StartListen ==
  /\ main = "starting" /\ Listening
  /\ main' = "linking" /\ proc' = "loop"
  /\ UNCHANGED <<over, accepting, net, pending, taking, conn, endRun, sim, output>>

\* main() has the queue of reports, too, and begins its health checks.
Watch ==
  /\ main = "linking" /\ found["main"] = "have"
  /\ main' = "watching"
  /\ UNCHANGED <<over, accepting, net, admitting, endRun, sim, output>>

\* It throws after 99 polls, the last of which may have come too late to matter;
\* nobody catches, and the writer's thread is still joinable.
StartTimesOut ==
  /\ main = "starting"
  /\ over' = "terminated"
  /\ UNCHANGED <<main, accepting, net, admitting, endRun, sim, output>>

\* Control-C or run_time.
ExitRequested ==
  /\ main = "watching"
  /\ main' = "stopping"
  /\ UNCHANGED <<over, accepting, net, admitting, endRun, sim, output>>

\* joinable() of the threads of the engine, the processor and the writer stays true
\* whatever happens to them: the listening socket is all the health check sees.
HealthCheckFails ==
  /\ main = "watching" /\ ~Listening
  /\ main' = "stopping"
  /\ UNCHANGED <<over, accepting, net, admitting, endRun, sim, output>>

\* Mutation of StopListen: no reset, the thread is only joined.
StopListen_NoReset ==
  /\ main = "stopping"
  /\ main' = "joinListener"
  /\ UNCHANGED <<over, accepting, net, admitting, endRun, sim, output>>

StopListen ==
  /\ main = "stopping"
  /\ sock' = (sock /\ ~Listening)
  /\ main' = "joinListener"
  /\ UNCHANGED <<over, listener, got, inRun, net, admitting, endRun, sim, output>>

JoinListener ==
  /\ main = "joinListener" /\ listener = "ended"
  /\ pending' = <<>> /\ taking' = FALSE
  /\ main' = "joinProcessor"
  /\ UNCHANGED <<over, accepting, net, proc, conn, endRun, sim, output>>

StopSim ==
  /\ main = "joinProcessor" /\ proc = "ended"
  /\ endRun' = TRUE /\ main' = "joinEngine"
  /\ UNCHANGED <<over, accepting, net, admitting, sim, output>>

JoinEngine ==
  /\ main = "joinEngine" /\ engine = "ended"
  /\ main' = "draining"
  /\ UNCHANGED <<over, accepting, net, admitting, endRun, sim, output>>

\* Mutation of Drain: no soq.join().
Drain_NoJoin ==
  /\ main = "draining"
  /\ soq' = [soq EXCEPT !.queued = 0, !.ready = FALSE]
  /\ main' = "joinWriter"
  /\ UNCHANGED <<over, accepting, net, admitting, endRun, sim, unstored, writer>>

\* soq.join(), then soq.shutdown(), which discards what is queued.
Drain ==
  /\ main = "draining" /\ soq.unfinished = 0
  /\ soq' = [queued |-> 0, unfinished |-> 0, ready |-> FALSE]
  /\ main' = "joinWriter"
  /\ UNCHANGED <<over, accepting, net, admitting, endRun, sim, unstored, writer>>

JoinWriter ==
  /\ main = "joinWriter" /\ writer \in {"ended", "failed"}
  /\ over' = "exited"
  /\ UNCHANGED <<main, accepting, net, admitting, endRun, sim, output>>

-----------------------------------------------------------------------------
(* tcp_server_socket_factory::run() *)

\* exit(0) when the address cannot be bound.
BindFails ==
  /\ listener = "bind"
  /\ over' = "unbound" /\ inRun' = TRUE
  /\ UNCHANGED <<main, sock, listener, got, net, admitting, endRun, sim, output>>

Bind ==
  /\ listener = "bind"
  /\ inRun' = TRUE /\ sock' = TRUE
  /\ listener' = "test"
  /\ UNCHANGED <<main, over, got, net, admitting, endRun, sim, output>>

\* The loop's condition, and the same test when accept() has returned.
TestSock ==
  /\ listener = "test"
  /\ listener' = IF sock THEN "use" ELSE "end"
  /\ UNCHANGED <<main, over, got, sock, inRun, net, admitting, endRun, sim, output>>

UseSock ==
  /\ listener = "use"
  /\ \/ /\ sock
        /\ listener' = CASE got = "none" -> "accept" [] got = "again" -> "test"
                         [] got = "error" -> "end" [] OTHER -> "push"
        /\ got' = IF got = "again" THEN "none" ELSE got
        /\ UNCHANGED over
     \/ ~sock /\ over' = "crashed" /\ UNCHANGED <<listener, got>>
     \/ ~sock /\ listener' = "end" /\ UNCHANGED <<over, got>>
  /\ UNCHANGED <<main, sock, inRun, net, admitting, endRun, sim, output>>

\* A client's connection, an error to go on after or to end with; reset() shuts
\* the socket down, which makes accept() fail.
Accept ==
  /\ listener = "accept"
  /\ listener' = "test"
  /\ \/ sock /\ backlog # <<>> /\ got' = Head(backlog) /\ backlog' = Tail(backlog)
     \/ got' \in {"again", "error"} /\ UNCHANGED backlog
  /\ UNCHANGED <<main, over, sock, inRun, away, admitting, endRun, sim, output>>

PushConn ==
  /\ listener = "push"
  /\ pending' = Append(pending, got)
  /\ got' = "none" /\ listener' = "test"
  /\ UNCHANGED <<main, over, sock, inRun, net, taking, proc, conn, endRun, sim, output>>

\* Mutation of ListenerEnds: the thread that gives up drops the socket itself.
ListenerEnds_Resets ==
  /\ listener = "end"
  /\ inRun' = FALSE /\ listener' = "ended" /\ got' = "none" /\ sock' = FALSE
  /\ UNCHANGED <<main, over, net, admitting, endRun, sim, output>>

ListenerEnds ==
  /\ listener = "end"
  /\ inRun' = FALSE /\ listener' = "ended" /\ got' = "none"
  /\ UNCHANGED <<main, over, sock, net, admitting, endRun, sim, output>>

-----------------------------------------------------------------------------
(* bcp_listener::processor() *)

ProcessorTests ==
  /\ proc = "loop"
  /\ proc' = IF Listening THEN "use" ELSE "ended"
  /\ UNCHANGED <<main, over, accepting, net, pending, taking, conn, endRun, sim, output>>

\* The second half of listening().
ProcessorUses ==
  /\ proc = "use"
  /\ \/ proc' = "get" /\ UNCHANGED over
     \/ ~sock /\ proc' = "ended" /\ UNCHANGED over
     \/ ~sock /\ over' = "crashed" /\ UNCHANGED proc
  /\ UNCHANGED <<main, accepting, net, pending, taking, conn, endRun, sim, output>>

\* Mutation of ProcessorGets: the connection is read and left in the queue.
ProcessorGets_Front ==
  /\ proc = "get"
  /\ \/ taking /\ pending # <<>> /\ conn' = Head(pending) /\ proc' = "size"
     \/ ~taking /\ proc' = "ended" /\ UNCHANGED conn
  /\ UNCHANGED <<main, over, accepting, net, pending, taking, endRun, sim, output>>

ProcessorGets ==
  /\ proc = "get"
  /\ \/ /\ taking /\ pending # <<>>
        /\ conn' = Head(pending) /\ pending' = Tail(pending)
        /\ proc' = "size"
     \/ ~taking /\ proc' = "ended" /\ UNCHANGED <<conn, pending>>
  /\ UNCHANGED <<main, over, accepting, net, taking, endRun, sim, output>>

\* Mutation of ProcessorSizes: one more bot than pop_limit.
ProcessorSizes_OneMore ==
  /\ proc = "size"
  /\ proc' = IF world <= PopLimit THEN "add" ELSE "reject"
  /\ UNCHANGED <<main, over, accepting, net, pending, taking, conn, endRun, sim, output>>

\* engine.size() does not count the bots that are still queued.
ProcessorSizes ==
  /\ proc = "size"
  /\ proc' = IF world < PopLimit THEN "add" ELSE "reject"
  /\ UNCHANGED <<main, over, accepting, net, pending, taking, conn, endRun, sim, output>>

\* add_object(): straight into the world while the engine is not running.
ProcessorAdds ==
  /\ proc = "add"
  /\ IF engine \in {"starting", "ended"}
     THEN world' = world + 1 /\ UNCHANGED <<joining, burst>>
     ELSE /\ joining' = joining + 1
          /\ burst' = Max({burst, joining'})
          /\ UNCHANGED world
  /\ conn' = "none" /\ proc' = "loop"
  /\ UNCHANGED <<main, over, accepting, net, pending, taking, engine, endRun, output>>

\* put() throws when the client has gone, which ends the thread.
ProcessorRejects ==
  /\ proc = "reject"
  /\ proc' \in {"loop", "ended"}
  /\ conn' = "none"
  /\ UNCHANGED <<main, over, accepting, net, pending, taking, endRun, sim, output>>

-----------------------------------------------------------------------------
(* run_sim() and output_writer() *)

Report ==
  /\ soq' = IF ~soq.ready THEN soq
            ELSE [queued |-> soq.queued + 1, unfinished |-> soq.unfinished + 1, ready |-> TRUE]
  /\ unstored' = unstored + 1

\* run_sim() sets is_running before anything else.
EngineRuns ==
  /\ engine = "starting"
  /\ engine' = "linking"
  /\ UNCHANGED <<main, over, accepting, net, admitting, endRun, world, joining, burst,
                 output>>

\* The initial state is reported before the first turn.
EngineStarts ==
  /\ engine = "linking" /\ found["engine"] = "have"
  /\ Report
  /\ engine' = "turn"
  /\ UNCHANGED <<main, over, accepting, net, admitting, endRun, world, joining, burst, writer>>

TurnBegins ==
  /\ engine = "turn" /\ ~endRun /\ unstored < ReportLimit
  /\ world' = world + joining /\ joining' = 0
  /\ engine' = "report"
  /\ UNCHANGED <<main, over, accepting, net, admitting, endRun, burst, output>>

\* Bots that died are removed. An overrun ends the run when it has been reported.
TurnEnds ==
  /\ engine = "report"
  /\ world' \in 0..world
  /\ Report
  /\ engine' \in {"turn", "ended"}
  /\ UNCHANGED <<main, over, accepting, net, admitting, endRun, joining, burst, writer>>

EngineEnds ==
  /\ engine = "turn" /\ endRun
  /\ engine' = "ended"
  /\ UNCHANGED <<main, over, accepting, net, admitting, endRun, world, joining, burst,
                 output>>

WriterPops ==
  /\ writer = "pop" /\ found["writer"] = "have"
  /\ \/ soq.ready /\ soq.queued > 0 /\ soq' = [soq EXCEPT !.queued = @ - 1]
        /\ writer' = "store"
     \/ ~soq.ready /\ writer' = "ended" /\ UNCHANGED soq
  /\ UNCHANGED <<main, over, accepting, net, admitting, endRun, sim, unstored>>

\* db.insert(), then task_done().
WriterStores ==
  /\ writer = "store"
  /\ unstored' = unstored - 1 /\ writer' = "pop"
  /\ soq' = [soq EXCEPT !.unfinished = @ - 1]
  /\ UNCHANGED <<main, over, accepting, net, admitting, endRun, sim>>

\* Any exception of the database ends the thread, without task_done().
WriterFails ==
  /\ writer \in {"pop", "store"} /\ soq.ready /\ found["writer"] \in {"find", "have"}
  /\ writer' = "failed"
  /\ UNCHANGED <<main, over, accepting, net, admitting, endRun, sim, soq, unstored>>

-----------------------------------------------------------------------------
(* clients *)

Connect ==
  /\ away # <<>> /\ sock
  /\ away' = Tail(away) /\ backlog' = Append(backlog, Head(away))
  /\ UNCHANGED <<main, over, accepting, admitting, endRun, sim, output>>

-----------------------------------------------------------------------------
(* the queue of reports: the three threads look it up as they start *)

Linking(t) ==
  CASE t = "main" -> main = "linking"
    [] t = "engine" -> engine = "linking"
    [] t = "writer" -> writer = "pop"

Link(t) ==
  /\ Linking(t) /\ Finds(t)
  /\ UNCHANGED <<main, over, accepting, net, admitting, endRun, sim, output>>

MapRace(t) ==
  /\ Linking(t) /\ Races(t)
  /\ over' = "map race"
  /\ UNCHANGED <<main, accepting, net, admitting, endRun, sim, output>>

-----------------------------------------------------------------------------
Linked(action) == UNCHANGED channels /\ action

Main ==
  \/ Link("main")
  \/ Linked(\/ StartListen \/ Watch \/ HealthCheckFails \/ StopListen \/ JoinListener
            \/ StopSim \/ JoinEngine \/ Drain \/ JoinWriter)
Listener == Linked(Bind \/ TestSock \/ UseSock \/ PushConn \/ ListenerEnds)
Processor == Linked(\/ ProcessorTests \/ ProcessorUses \/ ProcessorGets
                    \/ ProcessorSizes \/ ProcessorAdds \/ ProcessorRejects)
Engine ==
  \/ Link("engine")
  \/ Linked(EngineRuns \/ EngineStarts \/ TurnBegins \/ TurnEnds \/ EngineEnds)
Writer == Link("writer") \/ Linked(WriterPops \/ WriterStores)

Next ==
  /\ over = "no"
  /\ \/ Main \/ Listener \/ Processor \/ Engine \/ Writer
     \/ Linked(StartTimesOut \/ ExitRequested \/ BindFails \/ Accept \/ WriterFails
               \/ Connect)
     \/ \E t \in Users : Linked(MapRace(t))

Spec == Init /\ [][Next]_vars

\* The threads run on; accept() is owed an end only once the socket is shut down.
FairSpec ==
  /\ Spec
  /\ WF_vars(over = "no" /\ Main)
  /\ WF_vars(over = "no" /\ (Listener \/ Linked(Accept /\ ~sock)))
  /\ WF_vars(over = "no" /\ Processor)
  /\ WF_vars(over = "no" /\ Engine)
  /\ WF_vars(over = "no" /\ Writer)

-----------------------------------------------------------------------------
(* Properties *)

\* Types; and no connection is in two hands, or twice in one.
TypeOK ==
  /\ over \in {"no", "terminated", "unbound", "crashed", "map race", "exited"}
  /\ got \in Range(Clients) \union {"none", "again", "error"}
  /\ conn \in Range(Clients) \union {"none"}
  /\ burst \in 1..(Len(Clients) + 1)
  /\ soq \in [queued: Nat, unfinished: Nat, ready: BOOLEAN]
  /\ Len(away) + Len(backlog) + Len(pending) + joining + world
       + Cardinality({got, conn} \intersect Range(Clients))
     <= Len(Clients)

\* pop_limit is kept but for the additions that were queued together: size() is
\* tested before the bot is queued, so a burst of connections within one turn
\* exceeds the limit by all of its bots but the first, and by one more when a turn
\* begins between the test and the addition.
PopulationBound == world + joining <= PopLimit + burst

\* exit(0) is reached in good order only with every report stored, also when the
\* writer has failed: the simulation has stopped before the queue is drained, and
\* the queue is drained before it is shut down.
ReportsStored == over = "exited" => unstored = 0

\* listen_sock is pulled from under another thread only when main() stops listening.
CrashOnlyInStop == over = "crashed" => main \in {"joinListener", "joinProcessor"}

\* Shutdown ends, but for the wait for reports a failed writer never stored.
ShutdownEnds == main = "stopping" ~> over # "no" \/ (main = "draining" /\ writer = "failed")
=============================================================================
