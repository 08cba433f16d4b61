--------------------------- MODULE SimEngineProofs ---------------------------
(***************************************************************************)
(* Proofs about SimEngine for any sequence of clients, any pop_limit and    *)
(* any number of reports in the queue.                                      *)
(***************************************************************************)
EXTENDS SimEngine, SequenceTheorems, FiniteSetTheorems, TLAPS

parts == <<main, over, accepting, net, admitting, endRun, sim, output>>

\* Next, one disjunct for each thread and each thing that befalls them.
LEMMA Steps ==
  ASSUME [Next]_vars
  PROVE  \/ over = "no" /\ UNCHANGED channels /\
            (\/ StartListen \/ Watch \/ HealthCheckFails \/ StopListen \/ JoinListener
             \/ StopSim \/ JoinEngine \/ Drain \/ JoinWriter
             \/ Bind \/ TestSock \/ UseSock \/ PushConn \/ ListenerEnds
             \/ ProcessorTests \/ ProcessorUses \/ ProcessorGets
             \/ ProcessorSizes \/ ProcessorAdds \/ ProcessorRejects
             \/ EngineRuns \/ EngineStarts \/ TurnBegins \/ TurnEnds \/ EngineEnds
             \/ WriterPops \/ WriterStores
             \/ StartTimesOut \/ ExitRequested \/ BindFails \/ Accept \/ WriterFails
             \/ Connect \/ \E t \in Users : MapRace(t))
         \/ UNCHANGED parts /\ \E t \in Users : Finds(t)
         \/ UNCHANGED vars
BY DEF Next, Main, Listener, Processor, Engine, Writer, Linked, Link, Users, parts

-----------------------------------------------------------------------------
(* The channel manager *)

\* There is no instance but the one the pointer names, and who is past the
\* singleton has it.
ChannelInv ==
  /\ me \in Nat /\ made \in Nat
  /\ found \in [Users -> {"test", "lock", "find", "insert", "have"}]
  /\ mine \in [Users -> Nat]
  /\ \A t \in Users : mine[t] \in {0, me}
  /\ \A t \in Users : found[t] \in {"find", "insert", "have"} => me # 0 /\ mine[t] = me

\* The three threads share one queue of reports.
THEOREM OneQueue == Spec => []OneChannel
<1>1. Init => ChannelInv
  BY DEF Init, ChannelsInit, ChannelInv
<1>2. ChannelInv /\ [Next]_vars => ChannelInv'
  <2> SUFFICES ASSUME ChannelInv, [Next]_vars PROVE ChannelInv'
    OBVIOUS
  <2> USE DEF ChannelInv
  <2>1. ASSUME NEW t \in Users, Test(t) PROVE ChannelInv'
    BY <2>1 DEF Test
  <2>2. ASSUME NEW t \in Users, Construct(t) PROVE ChannelInv'
    BY <2>2 DEF Construct
  <2>3. ASSUME NEW t \in Users, Find(t) PROVE ChannelInv'
    BY <2>3 DEF Find
  <2>4. ASSUME NEW t \in Users, Insert(t) PROVE ChannelInv'
    BY <2>4 DEF Insert
  <2>5. CASE UNCHANGED channels
    BY <2>5 DEF channels
  <2>6. CASE UNCHANGED vars
    BY <2>5, <2>6 DEF vars
  <2> QED
    BY <2>1, <2>2, <2>3, <2>4, <2>5, <2>6, Steps DEF Finds
<1>3. ChannelInv => OneChannel
  BY DEF ChannelInv, OneChannel
<1> QED
  BY <1>1, <1>2, <1>3, PTL DEF Spec

-----------------------------------------------------------------------------
(* The listening socket *)

Stopped == {"joinListener", "joinProcessor", "joinEngine", "draining", "joinWriter"}

\* The socket is there from the moment it is bound until main() stops listening,
\* and main() waits for the two threads that use it one after the other.
SocketInv ==
  /\ listener = "bind" => ~sock /\ proc # "use"
  /\ sock \/ listener = "bind" \/ main \in Stopped
  /\ main \in Stopped \ {"joinListener"} => listener = "ended"
  /\ main \in Stopped \ {"joinListener", "joinProcessor"} => proc = "ended"
  /\ CrashOnlyInStop

\* The socket is only ever pulled from under a thread main() is waiting for.
THEOREM SocketOutlivesListening == Spec => []CrashOnlyInStop
<1>1. Init => SocketInv
  BY DEF Init, SocketInv, Stopped, CrashOnlyInStop
<1>2. SocketInv /\ [Next]_vars => SocketInv'
  <2> SUFFICES ASSUME SocketInv, [Next]_vars PROVE SocketInv'
    OBVIOUS
  <2> USE DEF SocketInv, Stopped, CrashOnlyInStop, accepting, admitting
  <2>1. CASE \/ StartListen \/ Watch \/ HealthCheckFails \/ StartTimesOut
             \/ ExitRequested
    BY <2>1 DEF StartListen, Watch, HealthCheckFails, StartTimesOut, ExitRequested
  <2>8. CASE StopListen
    BY <2>8 DEF StopListen
  <2>7. CASE over = "no" /\ (\/ JoinListener \/ StopSim \/ JoinEngine \/ Drain
                             \/ JoinWriter)
    BY <2>7 DEF JoinListener, StopSim, JoinEngine, Drain, JoinWriter
  <2>2. CASE Bind \/ BindFails \/ TestSock \/ PushConn \/ ListenerEnds \/ Accept
    BY <2>2 DEF Bind, BindFails, TestSock, PushConn, ListenerEnds, Accept
  <2>3. CASE UseSock
    BY <2>3 DEF UseSock
  <2>4. CASE \/ ProcessorTests \/ ProcessorUses \/ ProcessorGets \/ ProcessorSizes
             \/ ProcessorAdds \/ ProcessorRejects
    BY <2>4 DEF ProcessorTests, ProcessorUses, ProcessorGets, ProcessorSizes,
                ProcessorAdds, ProcessorRejects, Listening
  <2>5. CASE \/ EngineRuns \/ EngineStarts \/ TurnBegins \/ TurnEnds \/ EngineEnds
             \/ WriterPops \/ WriterStores \/ WriterFails \/ Connect
    BY <2>5 DEF EngineRuns, EngineStarts, TurnBegins, TurnEnds, EngineEnds, WriterPops,
                WriterStores, WriterFails, Connect
  <2>9. CASE \E t \in Users : MapRace(t)
    <3>1. over' = "map race" /\ UNCHANGED <<main, accepting, admitting>>
      BY <2>9 DEF MapRace
    <3> QED
      BY <3>1
  <2>6. CASE UNCHANGED parts \/ UNCHANGED vars
    BY <2>6 DEF parts, vars
  <2> QED
    BY <2>1, <2>2, <2>3, <2>4, <2>5, <2>6, <2>7, <2>8, <2>9, Steps
<1>3. SocketInv => CrashOnlyInStop
  BY DEF SocketInv
<1> QED
  BY <1>1, <1>2, <1>3, PTL DEF Spec

-----------------------------------------------------------------------------
(* The population *)

\* A turn that begins between the test of size() and the addition moves bots from
\* the queue to the world and leaves their sum.
PopulationInv ==
  /\ world \in Nat /\ joining \in Nat /\ burst \in Nat
  /\ joining <= burst /\ burst >= 1
  /\ PopulationBound
  /\ proc = "add" => world + joining < PopLimit + burst

\* The limit is exceeded by the largest burst of additions at most.
THEOREM PopulationBounded == Spec => []PopulationBound
<1>limit. PopLimit \in Nat
  BY EngineAssumption
<1> USE <1>limit
<1>1. Init => PopulationInv
  BY DEF Init, PopulationInv, PopulationBound
<1>2. PopulationInv /\ [Next]_vars => PopulationInv'
  <2> SUFFICES ASSUME PopulationInv, [Next]_vars PROVE PopulationInv'
    OBVIOUS
  <2> USE DEF PopulationInv, PopulationBound
  <2>1. CASE ProcessorSizes
    BY <2>1 DEF ProcessorSizes, sim
  <2>2. CASE ProcessorAdds
    <3>1. CASE engine \in {"starting", "ended"}
      BY <2>2, <3>1 DEF ProcessorAdds
    <3>2. CASE engine \notin {"starting", "ended"}
      <4>1. burst' = Max({burst, joining + 1}) /\ joining' = joining + 1
            /\ UNCHANGED world /\ proc = "add" /\ proc' = "loop"
        BY <2>2, <3>2 DEF ProcessorAdds
      <4>2. burst' \in {burst, joining + 1} /\ burst' >= burst /\ burst' >= joining + 1
        BY <4>1 DEF Max
      <4> QED
        BY <4>1, <4>2
    <3> QED
      BY <3>1, <3>2
  <2>3. CASE TurnBegins \/ TurnEnds
    BY <2>3 DEF TurnBegins, TurnEnds, admitting
  <2>4. CASE UNCHANGED sim /\ (proc' = proc \/ proc' # "add")
    BY <2>4 DEF sim
  <2>5. CASE UNCHANGED <<world, joining, burst, proc>>
    BY <2>5
  <2>6. CASE \/ ProcessorTests \/ ProcessorUses \/ ProcessorGets \/ ProcessorRejects
             \/ StartListen
    BY <2>4, <2>6 DEF ProcessorTests, ProcessorUses, ProcessorGets, ProcessorRejects,
                      StartListen
  <2>7. CASE \/ Watch \/ HealthCheckFails \/ StopListen \/ JoinListener
             \/ StopSim \/ JoinEngine \/ Drain \/ JoinWriter \/ StartTimesOut
             \/ ExitRequested
    BY <2>5, <2>7 DEF Watch, HealthCheckFails, StopListen, JoinListener, StopSim,
                      JoinEngine, Drain, JoinWriter, StartTimesOut, ExitRequested,
                      sim, admitting
  <2>8. CASE Bind \/ BindFails \/ TestSock \/ UseSock \/ PushConn \/ ListenerEnds
             \/ Accept \/ Connect
    BY <2>5, <2>8 DEF Bind, BindFails, TestSock, UseSock, PushConn, ListenerEnds, Accept,
                      Connect, sim, admitting
  <2>9. CASE \/ EngineRuns \/ EngineStarts \/ EngineEnds \/ WriterPops \/ WriterStores
             \/ WriterFails \/ \E t \in Users : MapRace(t)
    BY <2>5, <2>9 DEF EngineRuns, EngineStarts, EngineEnds, WriterPops, WriterStores,
                      WriterFails, MapRace, sim, admitting
  <2>10. CASE UNCHANGED parts \/ UNCHANGED vars
    BY <2>5, <2>10 DEF parts, vars, sim, admitting
  <2> QED
    BY <2>1, <2>2, <2>3, <2>6, <2>7, <2>8, <2>9, <2>10, Steps
<1>3. PopulationInv => PopulationBound
  BY DEF PopulationInv
<1> QED
  BY <1>1, <1>2, <1>3, PTL DEF Spec

-----------------------------------------------------------------------------
(* The reports *)

\* While the queue takes reports its counters know of every one that is not
\* stored; it is shut down only when there is none, and none is made after.
ReportInv ==
  /\ unstored \in Int
  /\ soq \in [queued : Nat, unfinished : Nat, ready : BOOLEAN]
  /\ soq.ready => unstored = soq.unfinished
  /\ soq.queued + (IF writer = "store" THEN 1 ELSE 0) <= soq.unfinished
  /\ ~soq.ready => main = "joinWriter"
  /\ main \in {"draining", "joinWriter"} => engine = "ended"
  /\ main = "joinWriter" => unstored = 0 /\ soq.unfinished = 0
  /\ over = "exited" => main = "joinWriter"

\* Whatever the two ends of the queue of reports do, its counters stay true.
LEMMA ReportsCounted == Spec => []ReportInv
<1>1. Init => ReportInv
  BY DEF Init, ReportInv
<1>2. ReportInv /\ [Next]_vars => ReportInv'
  <2> SUFFICES ASSUME ReportInv, [Next]_vars PROVE ReportInv'
    OBVIOUS
  <2> USE DEF ReportInv, output, sim
  <2>1. CASE EngineStarts \/ TurnEnds
    <3>1. engine # "ended" /\ Report /\ UNCHANGED <<main, over, writer>>
      BY <2>1 DEF EngineStarts, TurnEnds
    <3>2. soq.ready /\ main \notin {"draining", "joinWriter"}
      BY <3>1
    <3>3. /\ unstored' = unstored + 1
          /\ soq' = [queued |-> soq.queued + 1, unfinished |-> soq.unfinished + 1,
                     ready |-> TRUE]
      BY <3>1, <3>2 DEF Report
    <3> QED
      BY <3>1, <3>2, <3>3
  <2>2. CASE WriterPops
    BY <2>2 DEF WriterPops
  <2>3. CASE WriterStores
    BY <2>3 DEF WriterStores
  <2>4. CASE WriterFails
    BY <2>4 DEF WriterFails
  <2>5. CASE JoinEngine
    BY <2>5 DEF JoinEngine
  <2>11. CASE over = "no" /\ Drain
    <3>1. soq.ready /\ unstored = 0 /\ writer # "store"
      BY <2>11 DEF Drain
    <3> QED
      BY <2>11, <3>1 DEF Drain
  <2>12. CASE JoinWriter
    BY <2>12 DEF JoinWriter
  <2>6. CASE EngineRuns \/ TurnBegins \/ EngineEnds
    BY <2>6 DEF EngineRuns, TurnBegins, EngineEnds
  <2>7. CASE \/ StartListen \/ Watch \/ HealthCheckFails \/ StopListen \/ JoinListener
             \/ StopSim \/ StartTimesOut \/ ExitRequested
    BY <2>7 DEF StartListen, Watch, HealthCheckFails, StopListen, JoinListener, StopSim,
                StartTimesOut, ExitRequested
  <2>8. CASE Bind \/ BindFails \/ TestSock \/ UseSock \/ PushConn \/ ListenerEnds
             \/ Accept \/ Connect \/ \E t \in Users : MapRace(t)
    BY <2>8 DEF Bind, BindFails, TestSock, UseSock, PushConn, ListenerEnds, Accept,
                Connect, MapRace
  <2>9. CASE \/ ProcessorTests \/ ProcessorUses \/ ProcessorGets \/ ProcessorSizes
             \/ ProcessorAdds \/ ProcessorRejects
    BY <2>9 DEF ProcessorTests, ProcessorUses, ProcessorGets, ProcessorSizes,
                ProcessorAdds, ProcessorRejects
  <2>10. CASE UNCHANGED parts \/ UNCHANGED vars
    BY <2>10 DEF parts, vars
  <2> QED
    BY <2>1, <2>2, <2>3, <2>4, <2>5, <2>6, <2>7, <2>8, <2>9, <2>10, <2>11,
       <2>12, Steps
<1> QED
  BY <1>1, <1>2, PTL DEF Spec

\* No report is lost when the program is left by exit(0).
THEOREM NoReportLost == Spec => []ReportsStored
<1>1. ReportInv => ReportsStored
  BY DEF ReportInv, ReportsStored
<1> QED
  BY <1>1, ReportsCounted, PTL

-----------------------------------------------------------------------------
(* The connections *)

Everyone == Range(Clients)

InHand(x) == IF x \in Everyone THEN 1 ELSE 0

\* Who holds what: a connection in the listener's hand on its way to the queue, and
\* one in the processor's while it decides.
HandsTypes ==
  /\ over \in {"no", "terminated", "unbound", "crashed", "map race", "exited"}
  /\ got \in Everyone \union {"none", "again", "error"}
  /\ conn \in Everyone \union {"none"}
  /\ away \in Seq(Everyone) /\ backlog \in Seq(Everyone) /\ pending \in Seq(Everyone)
  /\ world \in Nat /\ joining \in Nat
  /\ burst \in 1..(Len(Clients) + 1)
  /\ listener = "push" => got \in Everyone
  /\ proc \in {"size", "add", "reject"} => conn \in Everyone

\* The clients still away, the connections on their way and the bots there are.
Headcount ==
  Len(away) + Len(backlog) + InHand(got) + Len(pending) + InHand(conn) + joining + world

\* A connection is passed from hand to hand, and one bot at most comes of it.
HandsInv == HandsTypes /\ Headcount <= Len(Clients)

\* What is taken from a queue leaves it one shorter.
LEMMA Taken ==
  ASSUME NEW S, NEW s \in Seq(S), s # <<>>
  PROVE  /\ Head(s) \in S
         /\ Tail(s) \in Seq(S)
         /\ Len(Tail(s)) = Len(s) - 1
BY HeadTailProperties

\* What is put into a queue leaves it one longer.
LEMMA Put ==
  ASSUME NEW S, NEW s \in Seq(S), NEW e \in S
  PROVE  /\ Append(s, e) \in Seq(S)
         /\ Len(Append(s, e)) = Len(s) + 1
BY AppendProperties

\* The names of what accept() may return but a connection are no client's.
LEMMA NoOne ==
  /\ "none" \notin Everyone /\ "again" \notin Everyone /\ "error" \notin Everyone
  /\ Clients \in Seq(Everyone)
BY EngineAssumption DEF Everyone

\* There is a number of them.
LEMMA Clientele == Len(Clients) \in Nat
BY EngineAssumption, LenProperties

\* The two hands hold no more connections than are counted for them.
LEMMA InHands ==
  ASSUME NEW g, NEW c
  PROVE  /\ InHand(g) \in {0, 1} /\ InHand(c) \in {0, 1}
         /\ Cardinality({g, c} \intersect Everyone) \in Nat
         /\ Cardinality({g, c} \intersect Everyone) <= InHand(g) + InHand(c)
<1>1. InHand(g) \in {0, 1} /\ InHand(c) \in {0, 1}
  BY DEF InHand
<1>2. CASE g \notin Everyone /\ c \notin Everyone
  <2>1. {g, c} \intersect Everyone = {}
    BY <1>2
  <2>2. Cardinality({}) = 0
    BY FS_EmptySet
  <2> QED
    BY <1>1, <2>1, <2>2
<1>3. CASE g \in Everyone /\ c \notin Everyone
  <2>1. {g, c} \intersect Everyone = {g}
    BY <1>3
  <2> QED
    BY <1>1, <1>3, <2>1, FS_Singleton DEF InHand
<1>4. CASE g \notin Everyone /\ c \in Everyone
  <2>1. {g, c} \intersect Everyone = {c}
    BY <1>4
  <2> QED
    BY <1>1, <1>4, <2>1, FS_Singleton DEF InHand
<1>5. CASE g \in Everyone /\ c \in Everyone
  <2>1. {g, c} \intersect Everyone = {g} \union {c}
    BY <1>5
  <2>2. IsFiniteSet({g}) /\ Cardinality({g}) = 1
    BY FS_Singleton
  <2>3. Cardinality({g} \union {c}) = IF c \in {g} THEN 1 ELSE 2
    BY <2>2, FS_AddElement
  <2> QED
    BY <1>5, <2>1, <2>3 DEF InHand
<1> QED
  BY <1>2, <1>3, <1>4, <1>5

\* Everything the headcount adds up is a number.
LEMMA Countable ==
  ASSUME HandsTypes
  PROVE  /\ Len(away) \in Nat /\ Len(backlog) \in Nat /\ Len(pending) \in Nat
         /\ InHand(got) \in {0, 1} /\ InHand(conn) \in {0, 1}
         /\ world \in Nat /\ joining \in Nat /\ burst \in Nat
<1>1. Len(away) \in Nat /\ Len(backlog) \in Nat /\ Len(pending) \in Nat
  BY LenProperties DEF HandsTypes
<1>2. InHand(got) \in {0, 1} /\ InHand(conn) \in {0, 1}
  BY DEF InHand
<1>3. world \in Nat /\ joining \in Nat /\ burst \in 1..(Len(Clients) + 1)
  BY DEF HandsTypes
<1>4. burst \in Nat
  BY <1>3, Clientele
<1> QED
  BY <1>1, <1>2, <1>3, <1>4

\* No step makes a connection or a bot out of nothing.
LEMMA HeadcountStep ==
  ASSUME HandsTypes, [Next]_vars
  PROVE  Headcount' <= Headcount
<1>1. /\ Len(away) \in Nat /\ Len(backlog) \in Nat /\ Len(pending) \in Nat
      /\ InHand(got) \in {0, 1} /\ InHand(conn) \in {0, 1}
      /\ world \in Nat /\ joining \in Nat
  BY Countable
<1>2. CASE Accept
  <2>1. InHand(got') \in {0, 1} /\ UNCHANGED <<away, pending, conn, joining, world>>
    BY <1>2, InHands DEF Accept, admitting, sim
  <2>2. CASE backlog # <<>> /\ got' = Head(backlog) /\ backlog' = Tail(backlog)
    <3>1. Len(backlog') = Len(backlog) - 1
      BY <2>2, Taken DEF HandsTypes
    <3> QED
      BY <1>1, <2>1, <3>1, SMTT(30) DEF Headcount
  <2>3. CASE got' \in {"again", "error"} /\ UNCHANGED backlog
    <3>1. InHand(got') = 0
      BY <2>3, NoOne DEF InHand
    <3> QED
      BY <1>1, <2>1, <2>3, <3>1 DEF Headcount
  <2> QED
    BY <1>2, <2>2, <2>3 DEF Accept
<1>3. CASE PushConn
  <2>1. /\ got \in Everyone /\ pending' = Append(pending, got) /\ got' = "none"
        /\ UNCHANGED <<away, backlog, conn, joining, world>>
    BY <1>3 DEF PushConn, HandsTypes, net, sim
  <2>2. Len(pending') = Len(pending) + 1
    BY <2>1, Put DEF HandsTypes
  <2>3. InHand(got) = 1 /\ InHand(got') = 0
    BY <2>1, NoOne DEF InHand
  <2> QED
    BY <1>1, <2>1, <2>2, <2>3 DEF Headcount
<1>4. CASE ProcessorGets
  <2>1. InHand(conn') \in {0, 1} /\ UNCHANGED <<away, backlog, got, joining, world>>
    BY <1>4, InHands DEF ProcessorGets, accepting, net, sim
  <2>2. CASE pending # <<>> /\ conn' = Head(pending) /\ pending' = Tail(pending)
    <3>1. Len(pending') = Len(pending) - 1
      BY <2>2, Taken DEF HandsTypes
    <3> QED
      BY <1>1, <2>1, <3>1, SMTT(30) DEF Headcount
  <2>3. CASE UNCHANGED <<conn, pending>>
    BY <1>1, <2>1, <2>3 DEF Headcount
  <2> QED
    BY <1>4, <2>2, <2>3 DEF ProcessorGets
<1>5. CASE ProcessorAdds
  <2>1. /\ conn \in Everyone /\ conn' = "none"
        /\ UNCHANGED <<away, backlog, got, pending>>
    BY <1>5 DEF ProcessorAdds, HandsTypes, accepting, net
  <2>2. InHand(conn) = 1 /\ InHand(conn') = 0
    BY <2>1, NoOne DEF InHand
  <2>3. \/ world' = world + 1 /\ joining' = joining
        \/ world' = world /\ joining' = joining + 1
    BY <1>5 DEF ProcessorAdds
  <2> QED
    BY <1>1, <2>1, <2>2, <2>3, SMTT(30) DEF Headcount
<1>6. CASE ProcessorRejects
  <2>1. conn' = "none" /\ UNCHANGED <<away, backlog, got, pending, joining, world>>
    BY <1>6 DEF ProcessorRejects, accepting, net, sim
  <2>2. InHand(conn') = 0
    BY <2>1, NoOne DEF InHand
  <2> QED
    BY <1>1, <2>1, <2>2 DEF Headcount
<1>7. CASE TurnBegins
  <2>1. /\ UNCHANGED <<away, backlog, got, pending, conn>>
        /\ world' = world + joining /\ joining' = 0
    BY <1>7 DEF TurnBegins, accepting, net, admitting
  <2> QED
    BY <1>1, <2>1 DEF Headcount
<1>8. CASE TurnEnds
  <2>1. UNCHANGED <<away, backlog, got, pending, conn, joining>>
    BY <1>8 DEF TurnEnds, accepting, net, admitting
  <2>2. world' \in Nat /\ world' <= world
    BY <1>1, <1>8 DEF TurnEnds
  <2> QED
    BY <1>1, <2>1, <2>2 DEF Headcount
<1>9. CASE JoinListener
  <2>1. pending' = <<>> /\ UNCHANGED <<away, backlog, got, conn, joining, world>>
    BY <1>9 DEF JoinListener, accepting, net, sim
  <2>2. Len(pending') = 0
    BY <2>1
  <2> QED
    BY <1>1, <2>1, <2>2 DEF Headcount
<1>10. CASE Connect
  <2>1. /\ away # <<>> /\ away' = Tail(away) /\ backlog' = Append(backlog, Head(away))
        /\ UNCHANGED <<got, pending, conn, joining, world>>
    BY <1>10 DEF Connect, accepting, admitting, sim
  <2>2. Len(away') = Len(away) - 1 /\ Head(away) \in Everyone
    BY <2>1, Taken DEF HandsTypes
  <2>3. Len(backlog') = Len(backlog) + 1
    BY <2>1, <2>2, Put DEF HandsTypes
  <2> QED
    BY <1>1, <2>1, <2>2, <2>3 DEF Headcount
<1>11. CASE got' = "none" /\ UNCHANGED <<away, backlog, pending, conn, joining, world>>
  <2>1. InHand(got') = 0
    BY <1>11, NoOne DEF InHand
  <2> QED
    BY <1>1, <1>11, <2>1 DEF Headcount
<1>12. CASE UNCHANGED <<away, backlog, got, pending, conn, joining, world>>
  BY <1>1, <1>12 DEF Headcount
<1>13. CASE ListenerEnds \/ UseSock
  BY <1>11, <1>12, <1>13 DEF ListenerEnds, UseSock, net, admitting, sim
<1>14. CASE \/ Bind \/ BindFails \/ TestSock \/ StartListen \/ ProcessorTests
            \/ ProcessorUses \/ ProcessorSizes
  BY <1>12, <1>14 DEF Bind, BindFails, TestSock, StartListen, ProcessorTests,
                      ProcessorUses, ProcessorSizes, accepting, net, admitting, sim
<1>15. CASE \/ Watch \/ HealthCheckFails \/ StopListen \/ StopSim \/ JoinEngine
            \/ Drain \/ JoinWriter \/ StartTimesOut \/ ExitRequested
  BY <1>12, <1>15 DEF Watch, HealthCheckFails, StopListen, StopSim, JoinEngine, Drain,
                      JoinWriter, StartTimesOut, ExitRequested, accepting, net,
                      admitting, sim
<1>16. CASE \/ EngineRuns \/ EngineStarts \/ EngineEnds \/ WriterPops \/ WriterStores
            \/ WriterFails \/ \E t \in Users : MapRace(t)
  BY <1>12, <1>16 DEF EngineRuns, EngineStarts, EngineEnds, WriterPops, WriterStores,
                      WriterFails, MapRace, accepting, net, admitting, sim
<1>17. CASE UNCHANGED parts \/ UNCHANGED vars
  BY <1>12, <1>17 DEF parts, vars, accepting, net, admitting, sim
<1> QED
  BY <1>2, <1>3, <1>4, <1>5, <1>6, <1>7, <1>8, <1>9, <1>10, <1>13, <1>14, <1>15,
     <1>16, <1>17, Steps

\* Every hand keeps to what it may hold.
LEMMA HandsStep ==
  ASSUME HandsInv, [Next]_vars
  PROVE  HandsTypes'
<1>1. HandsTypes
  BY DEF HandsInv
<1>queues. away \in Seq(Everyone) /\ backlog \in Seq(Everyone) /\ pending \in Seq(Everyone)
  BY <1>1 DEF HandsTypes
<1>numbers. world \in Nat /\ joining \in Nat /\ burst \in 1..(Len(Clients) + 1)
  BY <1>1 DEF HandsTypes
<1>2. CASE Accept
  <2>1. /\ got' \in Everyone \union {"again", "error"} /\ listener' = "test"
        /\ backlog' \in Seq(Everyone)
    <3>1. CASE backlog # <<>> /\ got' = Head(backlog) /\ backlog' = Tail(backlog)
      BY <1>2, <1>queues, <3>1, Taken DEF Accept
    <3>2. CASE got' \in {"again", "error"} /\ UNCHANGED backlog
      BY <1>2, <1>queues, <3>2 DEF Accept
    <3> QED
      BY <1>2, <3>1, <3>2 DEF Accept
  <2> QED
    BY <1>1, <1>2, <2>1 DEF HandsTypes, Accept, admitting, sim
<1>3. CASE PushConn
  <2>1. pending' \in Seq(Everyone) /\ got' = "none" /\ listener' = "test"
    BY <1>1, <1>3, <1>queues, Put DEF PushConn, HandsTypes
  <2> QED
    BY <1>1, <1>3, <2>1 DEF HandsTypes, PushConn, net, sim
<1>4. CASE ProcessorGets
  <2>1. /\ pending' \in Seq(Everyone)
        /\ conn' \in Everyone \union {conn} /\ (proc' # "ended" => conn' \in Everyone)
    <3>1. CASE /\ pending # <<>> /\ conn' = Head(pending) /\ pending' = Tail(pending)
      BY <1>queues, <3>1, Taken
    <3>2. CASE proc' = "ended" /\ UNCHANGED <<conn, pending>>
      BY <1>queues, <3>2
    <3> QED
      BY <1>4, <3>1, <3>2 DEF ProcessorGets
  <2> QED
    BY <1>1, <1>4, <2>1 DEF HandsTypes, ProcessorGets, accepting, net, sim
<1>5. CASE ProcessorAdds
  <2>1. /\ UNCHANGED <<over, listener, got, away, backlog, pending>>
        /\ conn' = "none" /\ proc' = "loop" /\ conn \in Everyone
    BY <1>1, <1>5 DEF ProcessorAdds, HandsTypes, accepting, net
  <2>2. world' \in Nat /\ joining' \in Nat /\ burst' \in {burst, joining + 1}
    <3>1. CASE world' = world + 1 /\ UNCHANGED <<joining, burst>>
      BY <1>numbers, <3>1
    <3>2. CASE UNCHANGED world /\ joining' = joining + 1 /\ burst' = Max({burst, joining'})
      <4>1. burst' \in {burst, joining + 1}
        BY <3>2 DEF Max
      <4> QED
        BY <1>numbers, <3>2, <4>1
    <3> QED
      BY <1>5, <3>1, <3>2 DEF ProcessorAdds
  <2>3. InHand(conn) = 1
    BY <2>1 DEF InHand
  <2>4. joining + 1 <= Len(Clients)
    <3>1. /\ Len(away) \in Nat /\ Len(backlog) \in Nat /\ Len(pending) \in Nat
          /\ InHand(got) \in {0, 1}
      BY <1>1, Countable
    <3>2. Headcount <= Len(Clients)
      BY DEF HandsInv
    <3> QED
      BY <1>numbers, <2>3, <3>1, <3>2, Clientele, SMTT(30) DEF Headcount
  <2>5. burst' \in 1..(Len(Clients) + 1)
    BY <1>numbers, <2>2, <2>4, Clientele
  <2> QED
    BY <1>1, <2>1, <2>2, <2>5 DEF HandsTypes
<1>6. CASE TurnBegins \/ TurnEnds
  <2>1. world' \in Nat /\ joining' \in Nat
    BY <1>6, <1>numbers DEF TurnBegins, TurnEnds
  <2> QED
    BY <1>1, <1>6, <2>1 DEF HandsTypes, TurnBegins, TurnEnds, accepting, net, admitting
<1>7. CASE JoinListener
  <2>1. pending' \in Seq(Everyone)
    BY <1>7, EmptySeq DEF JoinListener
  <2> QED
    BY <1>1, <1>7, <2>1 DEF HandsTypes, JoinListener, accepting, net, sim
<1>8. CASE Connect
  <2>1. away' \in Seq(Everyone) /\ backlog' \in Seq(Everyone)
    <3>1. away # <<>> /\ away' = Tail(away) /\ backlog' = Append(backlog, Head(away))
      BY <1>8 DEF Connect
    <3>2. Head(away) \in Everyone /\ Tail(away) \in Seq(Everyone)
      BY <1>queues, <3>1, Taken
    <3> QED
      BY <1>queues, <3>1, <3>2, Put
  <2> QED
    BY <1>1, <1>8, <2>1 DEF HandsTypes, Connect, accepting, admitting, sim
<1>9. CASE ListenerEnds \/ UseSock \/ TestSock
  <2>1. /\ got' \in {got, "none"} /\ over' \in {over, "crashed"}
        /\ listener' = "push" => got' = got /\ got \in Everyone
    BY <1>1, <1>9 DEF HandsTypes, ListenerEnds, UseSock, TestSock
  <2> QED
    BY <1>1, <1>9, <2>1 DEF HandsTypes, ListenerEnds, UseSock, TestSock, net, admitting, sim
<1>10. CASE \/ ProcessorTests \/ ProcessorUses \/ ProcessorSizes \/ ProcessorRejects
            \/ StartListen
  BY <1>1, <1>10 DEF HandsTypes, ProcessorTests, ProcessorUses, ProcessorSizes,
                     ProcessorRejects, StartListen, accepting, net, sim
<1>11. CASE \/ Bind \/ BindFails \/ Watch \/ HealthCheckFails \/ StopListen \/ StopSim
            \/ JoinEngine \/ Drain \/ JoinWriter \/ StartTimesOut \/ ExitRequested
  BY <1>1, <1>11 DEF HandsTypes, Bind, BindFails, Watch, HealthCheckFails, StopListen,
                     StopSim, JoinEngine, Drain, JoinWriter, StartTimesOut, ExitRequested,
                     accepting, net, admitting, sim
<1>12. CASE \/ EngineRuns \/ EngineStarts \/ EngineEnds \/ WriterPops \/ WriterStores
            \/ WriterFails \/ \E t \in Users : MapRace(t)
  BY <1>1, <1>12 DEF HandsTypes, EngineRuns, EngineStarts, EngineEnds, WriterPops,
                     WriterStores, WriterFails, MapRace, accepting, net, admitting, sim
<1>13. CASE UNCHANGED parts \/ UNCHANGED vars
  BY <1>1, <1>13 DEF HandsTypes, parts, vars, accepting, net, admitting, sim
<1> QED
  BY <1>2, <1>3, <1>4, <1>5, <1>6, <1>7, <1>8, <1>9, <1>10, <1>11, <1>12, <1>13, Steps

\* No connection is in two hands, or twice in one, and no more bots come of the
\* connections than there were clients.
THEOREM ConnectionsAreConserved == Spec => []TypeOK
<1>1. Init => HandsInv
  <2> SUFFICES ASSUME Init PROVE HandsInv
    OBVIOUS
  <2>1. /\ away = Clients /\ backlog = <<>> /\ pending = <<>> /\ world = 0 /\ joining = 0
        /\ burst = 1 /\ got = "none" /\ conn = "none" /\ over = "no"
        /\ listener = "bind" /\ proc = "new"
    BY DEF Init
  <2>2. Len(<<>>) = 0 /\ <<>> \in Seq(Everyone)
    BY EmptySeq
  <2>3. InHand(got) = 0 /\ InHand(conn) = 0
    BY <2>1, NoOne DEF InHand
  <2>4. HandsTypes
    BY <2>1, <2>2, NoOne, Clientele DEF HandsTypes
  <2>5. Headcount <= Len(Clients)
    BY <2>1, <2>2, <2>3, Clientele DEF Headcount
  <2> QED
    BY <2>4, <2>5 DEF HandsInv
<1>2. HandsInv /\ [Next]_vars => HandsInv'
  <2> SUFFICES ASSUME HandsInv, [Next]_vars PROVE HandsInv'
    OBVIOUS
  <2>1. HandsTypes /\ Headcount <= Len(Clients)
    BY DEF HandsInv
  <2>2. HandsTypes' /\ Headcount' <= Headcount
    BY <2>1, HandsStep, HeadcountStep
  <2>3. Headcount \in Nat /\ Headcount' \in Nat
    <3>1. Headcount \in Nat
      BY <2>1, Countable, SMTT(30) DEF Headcount
    <3>2. /\ Len(away') \in Nat /\ Len(backlog') \in Nat /\ Len(pending') \in Nat
          /\ InHand(got') \in {0, 1} /\ InHand(conn') \in {0, 1}
          /\ world' \in Nat /\ joining' \in Nat
      BY <2>2, LenProperties DEF HandsTypes, InHand
    <3> QED
      BY <3>1, <3>2, SMTT(30) DEF Headcount
  <2>4. Headcount' <= Len(Clients)
    BY <2>1, <2>2, <2>3, Clientele
  <2> QED
    BY <2>2, <2>4 DEF HandsInv
<1>3. HandsInv /\ ReportInv => TypeOK
  <2> SUFFICES ASSUME HandsInv, ReportInv PROVE TypeOK
    OBVIOUS
  <2>1. HandsTypes /\ Headcount <= Len(Clients)
    BY DEF HandsInv
  <2>2. /\ Cardinality({got, conn} \intersect Everyone) \in Nat
        /\ Cardinality({got, conn} \intersect Everyone) <= InHand(got) + InHand(conn)
    BY InHands
  <2>3. Len(away) + Len(backlog) + Len(pending) + joining + world
          + Cardinality({got, conn} \intersect Everyone) <= Len(Clients)
    BY <2>1, <2>2, Countable, Clientele, SMTT(30) DEF Headcount
  <2>4. soq \in [queued : Nat, unfinished : Nat, ready : BOOLEAN]
    BY DEF ReportInv
  <2> QED
    BY <2>1, <2>3, <2>4 DEF HandsTypes, TypeOK, Everyone
<1> QED
  BY <1>1, <1>2, <1>3, ReportsCounted, PTL DEF Spec
=============================================================================
