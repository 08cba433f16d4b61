--------------------------- MODULE SimCoreProofs ---------------------------
(***************************************************************************)
(* Proofs about SimCore for any objects, any number of workers and any mix *)
(* of callers.                                                             *)
(***************************************************************************)
EXTENDS SimCore, FiniteSetTheorems, SequenceTheorems, TLAPS

\* The control points of the phases, spelled out.
LEMMA PhaseNames ==
  /\ Joining["tick"] = "join_tick" /\ Joining["clsn"] = "join_clsn"
  /\ Joining["apply"] = "join_apply"
  /\ After["tick"] = "clsn" /\ After["clsn"] = "apply" /\ After["apply"] = "resolve"
  /\ \A phase \in Phases : Joining[phase] \in Points /\ After[phase] \in Points
  /\ \A p, q \in Phases : Joining[p] = Joining[q] => p = q
  BY DEF Joining, After, Phases, Points

\* There is at least one packet, and every packet's index is a packet.
LEMMA WorkerCount == W \in Nat /\ W > 0
  BY SimCoreAssumption, FS_CardinalityType, FS_EmptySet DEF W

\* The shape of the two variables that hold objects in some phases and pairs in
\* another.
ShapeInv ==
  /\ rest \in [Phases -> [0..W-1 -> SUBSET (Objects \union Pairs)]]
  /\ worked \in [Phases -> SUBSET (Objects \union Pairs)]

TypeInv == TypeOK /\ ShapeInv

-----------------------------------------------------------------------------
(* Types *)

\* The initial state is well typed.
LEMMA InitType == Init => TypeInv
<1> SUFFICES ASSUME Init PROVE TypeInv
  OBVIOUS
<1>1. messages \in Seq(Message) /\ budget \in 0..Len(messages)
  BY EmptySeq DEF Init
<1>2. owner \in [Phases -> [0..W-1 -> {"queued", "done"} \union Workers]]
  BY DEF Init
<1>3. /\ \A phase \in Phases, k \in 0..W-1 : rest[phase][k] = {}
      /\ \A phase \in Phases : worked[phase] = {}
      /\ gone \in [Phases -> SUBSET Workers]
  BY DEF Init
<1>4. starts \in 0..MaxStarts
  BY SimCoreAssumption DEF Init
<1>5. all \subseteq Objects
  BY SimCoreAssumption DEF Init
<1>6. TypeOK
  BY <1>1, <1>2, <1>3, <1>4, <1>5 DEF Init, TypeOK, Points, CallPoints, Phases
<1>7. ShapeInv
  BY DEF Init, ShapeInv
<1> QED
  BY <1>6, <1>7 DEF TypeInv

\* Handling a message shortens the queue and the count of the loop together.
LEMMA TakeMessageType ==
  ASSUME messages \in Seq(Message), budget \in 0..Len(messages), TakeMessage
  PROVE  /\ Head(messages) \in Message
         /\ messages' \in Seq(Message)
         /\ budget' \in 0..Len(messages')
<1>1. Len(messages) \in Nat /\ Len(messages) > 0 /\ Len(<<>>) = 0
  BY LenProperties, EmptySeq DEF TakeMessage
<1>2. messages # <<>>
  BY <1>1
<1>3. Head(messages) \in Message /\ Tail(messages) \in Seq(Message)
      /\ Len(Tail(messages)) = Len(messages) - 1
  BY <1>2, HeadTailProperties
<1> QED
  BY <1>1, <1>3 DEF TakeMessage

\* The removals of one collision are messages.
LEMMA RmIfType ==
  ASSUME NEW kill \in BOOLEAN, NEW o \in Objects
  PROVE  RmIf(kill, o) \in Seq(Message)
<1>1. Rm(o) \in Message
  BY DEF Rm, Message
<1>2. <<Rm(o)>> \in Seq(Message)
  BY <1>1
<1> QED
  BY <1>2, EmptySeq DEF RmIf

\* Appending to the queue leaves budget within it.
LEMMA LongerQueue ==
  ASSUME messages \in Seq(Message), budget \in 0..Len(messages),
         NEW more \in Seq(Message)
  PROVE  messages \o more \in Seq(Message) /\ budget \in 0..Len(messages \o more)
<1>1. messages \o more \in Seq(Message)
      /\ Len(messages \o more) = Len(messages) + Len(more)
  BY ConcatProperties
<1>2. Len(more) \in Nat /\ Len(messages) \in Nat
  BY LenProperties
<1> QED
  BY <1>1, <1>2

\* No step of the engine thread spoils a type.
LEMMA EngineType ==
  ASSUME TypeInv, EngineStep
  PROVE  TypeInv'
<1> USE DEF TypeInv, ShapeInv, population, queues, pool, switches, callers, history
<1>1. messages \in Seq(Message) /\ budget \in 0..Len(messages)
  BY DEF TypeOK
<1>2. CASE BeginRun \/ LeaveLoop \/ MessagesDone \/ EndTurn \/ Report \/ ShutQueues
             \/ EndRun
  BY <1>2 DEF TypeOK, Points, BeginRun, LeaveLoop, MessagesDone, EndTurn, Report,
              ShutQueues, EndRun
<1>3. CASE TurnStart
  <2>1. Len(messages) \in 0..Len(messages)
    BY <1>1, LenProperties
  <2> QED
    BY <1>3, <2>1 DEF TypeOK, Points, TurnStart, Phases
<1>4. CASE AddObject
  <2>1. Head(messages).id \in Objects
    BY <1>1, <1>4, TakeMessageType DEF AddObject, Message
  <2>2. messages' \in Seq(Message) /\ budget' \in 0..Len(messages')
    BY <1>1, <1>4, TakeMessageType DEF AddObject
  <2> QED
    BY <1>4, <2>1, <2>2 DEF TypeOK, AddObject, TakeMessage
<1>5. CASE MarkRemoved
  <2>1. messages' \in Seq(Message) /\ budget' \in 0..Len(messages')
    BY <1>1, <1>5, TakeMessageType DEF MarkRemoved
  <2>2. alive' \in [Objects -> BOOLEAN] /\ all' = all
        /\ crashed' \in {"no", "null object", "terminate", "map race"}
    BY <1>5 DEF TypeOK, MarkRemoved
  <2> QED
    BY <1>5, <2>1, <2>2 DEF TypeOK, MarkRemoved, TakeMessage
<1>6. CASE EraseDead
  <2>1. PICK erased \in SUBSET Dead :
          /\ all' = all \ erased /\ held' = held \ erased
          /\ verdict' = [o \in Objects |-> IF o \in erased THEN {} ELSE verdict[o]]
    BY <1>6 DEF EraseDead
  <2>2. verdict' \in [Objects -> SUBSET {"tick", "apply", "collision"}]
    BY <2>1 DEF TypeOK
  <2> QED
    BY <1>6, <2>1, <2>2 DEF TypeOK, Points, EraseDead
<1>7. ASSUME NEW phase \in Phases, StartPhase(phase)
      PROVE  TypeInv'
  <2>1. epc' \in Points
    BY <1>7, PhaseNames DEF StartPhase
  <2>2. owner' \in [Phases -> [0..W-1 -> {"queued", "done"} \union Workers]]
    BY <1>7 DEF StartPhase, TypeOK
  <2>3. \A k \in 0..W-1 :
          Packet(k, phase) \subseteq IF phase = "clsn" THEN Pairs ELSE Objects
    BY DEF Packet, Work, TypeOK
  <2>4. /\ \A k \in 0..W-1 : rest'[phase][k] = Packet(k, phase)
        /\ \A p \in Phases \ {phase} : rest'[p] = rest[p]
        /\ rest' \in [Phases -> [0..W-1 -> SUBSET (Objects \union Pairs)]]
    BY <1>7, <2>3 DEF StartPhase
  <2>5. \A p \in Phases, k \in 0..W-1 :
          rest'[p][k] \subseteq IF p = "clsn" THEN Pairs ELSE Objects
    <3>1. \A k \in 0..W-1 :
            rest'[phase][k] \subseteq IF phase = "clsn" THEN Pairs ELSE Objects
      BY <2>3, <2>4
    <3>2. \A p \in Phases \ {phase}, k \in 0..W-1 :
            rest'[p][k] \subseteq IF p = "clsn" THEN Pairs ELSE Objects
      BY <2>4 DEF TypeOK
    <3> QED
      BY <3>1, <3>2
  <2> QED
    BY <1>7, <2>1, <2>2, <2>4, <2>5 DEF TypeOK, StartPhase
<1>8. ASSUME NEW phase \in Phases, EndPhase(phase)
      PROVE  TypeInv'
  <2>1. epc' \in Points
    BY <1>8, PhaseNames DEF EndPhase
  <2> QED
    BY <1>8, <2>1 DEF TypeOK, EndPhase
<1>9. CASE ResolveOne
  <2>1. PICK q \in collisions, killa, killb \in BOOLEAN :
          /\ collisions' = collisions \ {q}
          /\ messages' = messages \o RmIf(killa, q[1]) \o RmIf(killb, q[2])
          /\ verdict' = [o \in Objects |->
                           IF (killa /\ o = q[1]) \/ (killb /\ o = q[2])
                           THEN verdict[o] \union {"collision"} ELSE verdict[o]]
    BY <1>9 DEF ResolveOne
  <2>2. q[1] \in Objects /\ q[2] \in Objects
    BY DEF TypeOK, Pairs
  <2>3. RmIf(killa, q[1]) \in Seq(Message) /\ RmIf(killb, q[2]) \in Seq(Message)
    BY <2>2, RmIfType
  <2>4. messages' \in Seq(Message) /\ budget' \in 0..Len(messages')
    <3> DEFINE first == messages \o RmIf(killa, q[1])
    <3>1. first \in Seq(Message) /\ budget \in 0..Len(first)
      BY <1>1, <2>3, LongerQueue
    <3>2. Len(first \o RmIf(killb, q[2])) = Len(first) + Len(RmIf(killb, q[2]))
          /\ first \o RmIf(killb, q[2]) \in Seq(Message)
      BY <2>3, <3>1, ConcatProperties
    <3>3. Len(first) \in Nat /\ Len(RmIf(killb, q[2])) \in Nat
      BY <2>3, <3>1, LenProperties
    <3>4. budget' = budget /\ messages' = first \o RmIf(killb, q[2])
      BY <1>9, <2>1 DEF ResolveOne
    <3> QED
      BY <3>1, <3>2, <3>3, <3>4
  <2>5. verdict' \in [Objects -> SUBSET {"tick", "apply", "collision"}]
    BY <2>1 DEF TypeOK
  <2>6. collisions' \subseteq Pairs
    BY <2>1 DEF TypeOK
  <2> QED
    BY <1>9, <2>4, <2>5, <2>6 DEF TypeOK, ResolveOne
<1> QED
  BY <1>2, <1>3, <1>4, <1>5, <1>6, <1>7, <1>8, <1>9 DEF EngineStep

\* No step of a worker spoils a type.
LEMMA WorkerType ==
  ASSUME TypeInv, NEW w \in Workers,
         \/ WorkerStep(w)
         \/ \E phase \in Phases : WorkerThrows(w, phase)
  PROVE  TypeInv'
<1> USE DEF TypeInv, ShapeInv, population, queues, pool, switches, callers, history
<1>1. ASSUME NEW phase \in Phases, TakePacket(w, phase) \/ FinishPacket(w, phase)
      PROVE  TypeInv'
  <2>1. owner' \in [Phases -> [0..W-1 -> {"queued", "done"} \union Workers]]
    <3>1. PICK k \in 0..W-1, to \in {"done", w} : owner' = [owner EXCEPT ![phase][k] = to]
      BY <1>1 DEF TakePacket, FinishPacket
    <3> QED
      BY <3>1 DEF TypeOK
  <2> QED
    BY <1>1, <2>1 DEF TypeOK, TakePacket, FinishPacket
<1>2. ASSUME NEW phase \in Phases, WorkerThrows(w, phase)
      PROVE  TypeInv'
  <2>1. gone' \in [Phases -> SUBSET Workers]
    BY <1>2 DEF TypeOK, WorkerThrows
  <2> QED
    BY <1>2, <2>1 DEF TypeOK, WorkerThrows
<1>3. ASSUME NEW phase \in Phases, NEW k \in 0..W-1, NEW x \in rest[phase][k],
             WorkOn(w, phase, k, x)
      PROVE  /\ ShapeInv'
             /\ \A p \in Phases, m \in 0..W-1 :
                  rest'[p][m] \subseteq IF p = "clsn" THEN Pairs ELSE Objects
             /\ worked'["clsn"] \subseteq Pairs
             /\ \A p \in {"tick", "apply"} : worked'[p] \subseteq Objects
  <2>1. /\ rest' = [rest EXCEPT ![phase][k] = @ \ {x}]
        /\ worked' = [worked EXCEPT ![phase] = @ \union {x}]
    BY <1>3 DEF WorkOn
  <2>2. ShapeInv'
    BY <2>1
  <2>3. \A p \in Phases, m \in 0..W-1 : rest'[p][m] \subseteq rest[p][m]
    BY <2>1
  <2>4. x \in IF phase = "clsn" THEN Pairs ELSE Objects
    BY DEF TypeOK
  <2>5. /\ worked'["clsn"] \subseteq Pairs
        /\ \A p \in {"tick", "apply"} : worked'[p] \subseteq Objects
    BY <2>1, <2>4 DEF TypeOK, Phases
  <2> QED
    BY <2>2, <2>3, <2>5 DEF TypeOK
<1>4. CASE TickOne(w) \/ ApplyOne(w)
  <2>1. PICK phase \in {"tick", "apply"}, k \in 0..W-1 : \E o \in rest[phase][k],
                                                          kill \in BOOLEAN :
          /\ WorkOn(w, phase, k, o)
          /\ alive' = [alive EXCEPT ![o] = ~kill]
          /\ verdict' = [verdict EXCEPT ![o] = IF kill THEN @ \union {phase} ELSE @]
          /\ UNCHANGED collisions
    BY <1>4 DEF TickOne, ApplyOne
  <2>2. phase \in Phases
    BY DEF Phases
  <2>3. PICK o \in rest[phase][k], kill \in BOOLEAN :
          /\ WorkOn(w, phase, k, o)
          /\ alive' = [alive EXCEPT ![o] = ~kill]
          /\ verdict' = [verdict EXCEPT ![o] = IF kill THEN @ \union {phase} ELSE @]
          /\ UNCHANGED collisions
    BY <2>1
  <2>4. alive' \in [Objects -> BOOLEAN]
        /\ verdict' \in [Objects -> SUBSET {"tick", "apply", "collision"}]
    BY <2>3 DEF TypeOK
  <2> QED
    BY <1>3, <2>2, <2>3, <2>4 DEF TypeOK, WorkOn
<1>5. CASE CheckOne(w)
  <2>1. PICK k \in 0..W-1 : \E q \in rest["clsn"][k], hit \in BOOLEAN :
          /\ WorkOn(w, "clsn", k, q)
          /\ collisions' = IF hit THEN collisions \union {q} ELSE collisions
          /\ UNCHANGED <<alive, verdict>>
    BY <1>5 DEF CheckOne
  <2>2. "clsn" \in Phases
    BY DEF Phases
  <2>3. PICK q \in rest["clsn"][k], hit \in BOOLEAN :
          /\ WorkOn(w, "clsn", k, q)
          /\ collisions' = IF hit THEN collisions \union {q} ELSE collisions
          /\ UNCHANGED <<alive, verdict>>
    BY <2>1
  <2>4. collisions' \subseteq Pairs
    BY <2>2, <2>3 DEF TypeOK
  <2> QED
    BY <1>3, <2>2, <2>3, <2>4 DEF TypeOK, WorkOn
<1> QED
  BY <1>1, <1>2, <1>4, <1>5 DEF WorkerStep

\* No step of a caller, and no lost link, spoils a type.
LEMMA CallerType ==
  ASSUME TypeInv,
         \/ CallerStep
         \/ \E c \in Controllers : StartCheck(c) \/ StopCall(c)
         \/ \E o \in Objects \ Start : AddCheck(o)
         \/ \E o \in Removable : RemoveCheck(o)
         \/ \E o \in Bots : LinkDrops(o)
  PROVE  TypeInv'
<1> USE SimCoreAssumption
    DEF TypeInv, ShapeInv, population, queues, pool, switches, callers, history,
        CallPoints
<1>1. ASSUME NEW m \in Message, messages' = Append(messages, m), budget' = budget
      PROVE  messages' \in Seq(Message) /\ budget' \in 0..Len(messages')
  <2>1. messages \in Seq(Message) /\ budget \in 0..Len(messages)
    BY DEF TypeOK
  <2>2. Len(messages) \in Nat
    BY <2>1, LenProperties
  <2> QED
    BY <1>1, <2>1, <2>2, AppendProperties
<1>2. ASSUME NEW o \in Objects \ Start, AddMessage(o)
      PROVE  TypeInv'
  <2>1. Add(o) \in Message
    BY DEF Add, Message
  <2>2. messages' \in Seq(Message) /\ budget' \in 0..Len(messages')
    BY <1>1, <1>2, <2>1 DEF AddMessage
  <2> QED
    BY <1>2, <2>2 DEF TypeOK, AddMessage
<1>3. ASSUME NEW o \in Removable, RemoveMessage(o)
      PROVE  TypeInv'
  <2>1. Rm(o) \in Message
    BY DEF Rm, Message
  <2>2. messages' \in Seq(Message) /\ budget' \in 0..Len(messages')
    BY <1>1, <1>3, <2>1 DEF RemoveMessage
  <2> QED
    BY <1>3, <2>2 DEF TypeOK, RemoveMessage
<1>4. ASSUME NEW o \in Objects \ Start, AddDirect(o) \/ AddCheck(o)
      PROVE  TypeInv'
  BY <1>4 DEF TypeOK, AddDirect, AddCheck
<1>5. ASSUME NEW o \in Removable, RemoveDirect(o) \/ RemoveCheck(o)
      PROVE  TypeInv'
  BY <1>5 DEF TypeOK, RemoveDirect, RemoveCheck
<1>6. ASSUME NEW c \in Controllers, StartLaunch(c)
      PROVE  TypeInv'
  BY <1>6 DEF TypeOK, StartLaunch, Points
<1>7. ASSUME NEW c \in Controllers, StopReturn(c) \/ StartCheck(c) \/ StopCall(c)
      PROVE  TypeInv'
  <2>1. CASE StartCheck(c)
    <3>1. starts \in 0..MaxStarts /\ starts < MaxStarts /\ starts' = starts + 1
      BY <2>1 DEF TypeOK, StartCheck
    <3>2. MaxStarts \in Nat
      OBVIOUS
    <3>3. starts' \in 0..MaxStarts
      <4> HIDE SimCoreAssumption DEF TypeInv, ShapeInv
      <4> QED
        BY <3>1, <3>2
    <3> QED
      BY <2>1, <3>3 DEF TypeOK, StartCheck
  <2> QED
    BY <1>7, <2>1 DEF TypeOK, StopReturn, StopCall
<1>8. ASSUME NEW o \in Bots, LinkDrops(o)
      PROVE  TypeInv'
  BY <1>8 DEF TypeOK, LinkDrops
<1> QED
  BY <1>2, <1>3, <1>4, <1>5, <1>6, <1>7, <1>8 DEF CallerStep

\* TypeInv is inductive.
LEMMA NextType == TypeInv /\ [Next]_vars => TypeInv'
<1>1. TypeInv /\ UNCHANGED vars => TypeInv'
  BY DEF TypeInv, TypeOK, ShapeInv, vars, population, queues, pool, switches, callers,
         history
<1> QED
  BY <1>1, EngineType, WorkerType, CallerType DEF Next

\* Every reachable state is well typed, whatever the objects, the workers and the
\* callers, and with every kind of failure.
THEOREM TypeCorrect == Spec => []TypeOK
<1>1. Spec => []TypeInv
  BY InitType, NextType, PTL DEF Spec
<1>2. TypeInv => TypeOK
  BY DEF TypeInv
<1> QED
  BY <1>1, <1>2, PTL

-----------------------------------------------------------------------------
(* Phases *)

\* Outside the join of its phase every packet is finished and empty; and while
\* nobody can join the engine thread, it is not there.
BarrierInv ==
  /\ \A phase \in Phases : epc # Joining[phase] =>
       \A k \in 0..W-1 : owner[phase][k] = "done"
  /\ \A phase \in Phases, k \in 0..W-1 : owner[phase][k] = "done" => rest[phase][k] = {}
  /\ ~joinable => epc \in {"off", "ended"}

\* A control point that is no join leaves the packets alone.
LEMMA QuietBarrier ==
  ASSUME BarrierInv, UNCHANGED pool,
         \A phase \in Phases : epc # Joining[phase],
         \A phase \in Phases : epc' # Joining[phase],
         ~joinable' => epc' \in {"off", "ended"}
  PROVE  BarrierInv'
  BY DEF BarrierInv, pool

\* BarrierInv is inductive.
LEMMA NextBarrier == TypeInv /\ BarrierInv /\ [Next]_vars => BarrierInv'
<1> SUFFICES ASSUME TypeInv, BarrierInv, [Next]_vars PROVE BarrierInv'
  OBVIOUS
<1> USE DEF population, queues, switches, callers, history
<1>1. ASSUME UNCHANGED <<pool, epc, joinable>>
      PROVE  BarrierInv'
  BY <1>1 DEF BarrierInv, pool
<1>2. CASE \/ BeginRun \/ TurnStart \/ LeaveLoop \/ MessagesDone \/ EraseDead \/ EndTurn
           \/ Report \/ ShutQueues \/ EndRun
  <2>1. /\ epc \in {"begin", "top", "messages", "erase", "resolve", "report", "shut",
                     "ending"}
        /\ epc' \in {"top", "messages", "erase", "tick", "report", "shut", "ending",
                      "ended"}
        /\ UNCHANGED <<pool, joinable>>
    BY <1>2 DEF BeginRun, TurnStart, LeaveLoop, MessagesDone, EraseDead, EndTurn,
                Report, ShutQueues, EndRun
  <2>2. joinable'
    BY <2>1 DEF BarrierInv
  <2> QED
    BY <2>1, <2>2, QuietBarrier DEF Joining, Phases
<1>3. CASE AddObject \/ MarkRemoved \/ ResolveOne
  BY <1>1, <1>3 DEF AddObject, MarkRemoved, ResolveOne, TakeMessage
<1>4. ASSUME NEW phase \in Phases, StartPhase(phase)
      PROVE  BarrierInv'
  <2>1. joinable /\ joinable' = joinable
    BY <1>4 DEF BarrierInv, StartPhase, Phases
  <2>2. \A p \in Phases \ {phase} : epc # Joining[p] /\ UNCHANGED <<owner[p], rest[p]>>
    <3> TAKE p \in Phases \ {phase}
    <3>1. epc # Joining[p]
      BY <1>4 DEF StartPhase, Phases, Joining
    <3>2. owner' = [owner EXCEPT ![phase] = [k \in 0..W-1 |-> "queued"]]
      BY <1>4 DEF StartPhase
    <3>3. rest' = [rest EXCEPT ![phase] = [k \in 0..W-1 |-> Packet(k, phase)]]
      BY <1>4 DEF StartPhase
    <3>4. UNCHANGED owner[p]
      BY <3>2 DEF TypeInv, TypeOK
    <3>5. UNCHANGED rest[p]
      BY <3>3 DEF TypeInv, ShapeInv
    <3> QED
      BY <3>1, <3>4, <3>5
  <2>3. epc' = Joining[phase] /\ \A k \in 0..W-1 : owner'[phase][k] = "queued"
    BY <1>4 DEF StartPhase, TypeInv, TypeOK
  <2>4. \A p \in Phases, k \in 0..W-1 :
          /\ epc' # Joining[p] => owner'[p][k] = "done"
          /\ owner'[p][k] = "done" => rest'[p][k] = {}
    <3> TAKE p \in Phases, k \in 0..W-1
    <3>1. CASE p = phase
      BY <2>3, <3>1
    <3>2. CASE p # phase
      BY <2>2, <3>2 DEF BarrierInv
    <3> QED
      BY <3>1, <3>2
  <2> QED
    BY <2>1, <2>4 DEF BarrierInv
<1>5. ASSUME NEW phase \in Phases, EndPhase(phase)
      PROVE  BarrierInv'
  <2>1. joinable /\ UNCHANGED <<pool, joinable>>
    BY <1>5 DEF BarrierInv, EndPhase, Phases, Joining
  <2>2. \A p \in Phases, k \in 0..W-1 : owner[p][k] = "done"
    BY <1>5, PhaseNames DEF BarrierInv, EndPhase
  <2> QED
    BY <2>1, <2>2 DEF BarrierInv, pool
<1>6. ASSUME NEW w \in Workers, NEW phase \in Phases, TakePacket(w, phase)
      PROVE  BarrierInv'
  <2>1. PICK k \in 0..W-1 : /\ owner[phase][k] = "queued"
                            /\ owner' = [owner EXCEPT ![phase][k] = w]
    BY <1>6 DEF TakePacket
  <2>2. w # "done"
    BY SimCoreAssumption
  <2>3. UNCHANGED <<rest, epc, joinable>>
    BY <1>6 DEF TakePacket
  <2>4. epc = Joining[phase]
    BY <2>1 DEF BarrierInv
  <2> QED
    BY <2>1, <2>2, <2>3, <2>4, PhaseNames DEF BarrierInv, TypeInv, TypeOK
<1>7. ASSUME NEW w \in Workers, NEW phase \in Phases, FinishPacket(w, phase)
      PROVE  BarrierInv'
  <2>1. PICK k \in 0..W-1 : /\ rest[phase][k] = {}
                            /\ owner' = [owner EXCEPT ![phase][k] = "done"]
    BY <1>7 DEF FinishPacket
  <2>2. UNCHANGED <<rest, epc, joinable>>
    BY <1>7 DEF FinishPacket
  <2> QED
    BY <2>1, <2>2 DEF BarrierInv, TypeInv, TypeOK
<1>8. ASSUME NEW w \in Workers, NEW phase \in Phases, NEW k \in 0..W-1, NEW x,
             WorkOn(w, phase, k, x)
      PROVE  BarrierInv'
  <2>1. rest' = [rest EXCEPT ![phase][k] = @ \ {x}] /\ UNCHANGED <<owner, epc, joinable>>
    BY <1>8 DEF WorkOn
  <2>2. \A p \in Phases, m \in 0..W-1 : rest'[p][m] \subseteq rest[p][m]
    BY <2>1 DEF TypeInv, ShapeInv
  <2> QED
    BY <2>1, <2>2 DEF BarrierInv
<1>9. ASSUME NEW w \in Workers, TickOne(w) \/ ApplyOne(w) \/ CheckOne(w)
      PROVE  BarrierInv'
  BY <1>8, <1>9 DEF TickOne, ApplyOne, CheckOne, Phases
<1>10. ASSUME NEW w \in Workers, NEW phase \in Phases, WorkerThrows(w, phase)
       PROVE  BarrierInv'
  BY <1>10 DEF WorkerThrows, BarrierInv
<1>11. ASSUME NEW c \in Controllers, StartLaunch(c)
       PROVE  BarrierInv'
  <2>1. CASE joinable
    BY <1>1, <1>11, <2>1 DEF StartLaunch
  <2>2. CASE ~joinable
    <3>1. epc \in {"off", "ended"} /\ epc' = "begin" /\ joinable' /\ UNCHANGED pool
      BY <1>11, <2>2 DEF StartLaunch, BarrierInv
    <3> QED
      BY <3>1, QuietBarrier DEF Joining, Phases
  <2> QED
    BY <2>1, <2>2
<1>12. ASSUME NEW c \in Controllers, StopReturn(c)
       PROVE  BarrierInv'
  BY <1>12 DEF StopReturn, BarrierInv, pool
<1>13. ASSUME NEW c \in Controllers, StartCheck(c) \/ StopCall(c)
       PROVE  BarrierInv'
  BY <1>1, <1>13 DEF StartCheck, StopCall
<1>14. ASSUME NEW o \in Objects \ Start, AddCheck(o) \/ AddMessage(o) \/ AddDirect(o)
       PROVE  BarrierInv'
  BY <1>1, <1>14 DEF AddCheck, AddMessage, AddDirect
<1>15. ASSUME NEW o \in Removable, RemoveCheck(o) \/ RemoveMessage(o) \/ RemoveDirect(o)
       PROVE  BarrierInv'
  BY <1>1, <1>15 DEF RemoveCheck, RemoveMessage, RemoveDirect
<1>16. CASE \E o \in Bots : LinkDrops(o)
  BY <1>1, <1>16 DEF LinkDrops
<1>17. CASE UNCHANGED vars
  BY <1>1, <1>17 DEF vars
<1> QED
  BY <1>2, <1>3, <1>4, <1>5, <1>6, <1>7, <1>9, <1>10, <1>11, <1>12, <1>13, <1>14, <1>15,
     <1>16, <1>17 DEF Next, EngineStep, WorkerStep, CallerStep

\* BarrierInv holds in every reachable state.
LEMMA BarrierCorrect == Spec => [](TypeInv /\ BarrierInv)
<1>1. Init => BarrierInv
  BY DEF Init, BarrierInv
<1> QED
  BY <1>1, InitType, NextType, NextBarrier, PTL DEF Spec

\* The joins keep the phases apart, with any number of workers, whatever callers
\* do, and also when workers throw.
THEOREM PhasesKeptApart == Spec => []PhaseBarrier
<1>1. TypeInv /\ BarrierInv => PhaseBarrier
  BY SimCoreAssumption DEF BarrierInv, PhaseBarrier, Busy, Has
<1> QED
  BY <1>1, BarrierCorrect, PTL
-----------------------------------------------------------------------------
(* Every piece of work once *)

\* What the packets of a phase still hold.
Left(phase) == UNION {rest[phase][k] : k \in 0..W-1}

\* The points of a turn before the packets of a phase are dealt out.
Ahead == [tick  |-> {"messages", "erase", "tick"},
          clsn  |-> {"messages", "erase", "tick", "join_tick", "clsn"},
          apply |-> {"messages", "erase", "tick", "join_tick", "clsn", "join_clsn",
                     "apply"}]

\* While the engine waits for a phase, its work is partitioned into what is
\* finished and what each packet still holds.
WorkInv ==
  /\ \A phase \in Phases, k \in 0..W-1 : rest[phase][k] \intersect worked[phase] = {}
  /\ \A phase \in Phases : \A k, m \in 0..W-1 :
       k # m => rest[phase][k] \intersect rest[phase][m] = {}
  /\ \A phase \in Phases :
       epc = Joining[phase] => Work(phase) = worked[phase] \union Left(phase)
  /\ \A phase \in Phases : epc = After[phase] => worked[phase] = Work(phase)
  /\ \A phase \in Phases : epc \in Ahead[phase] => worked[phase] = {}

\* The same, until a caller writes the map while the engine runs.
WorkSafe == crashed = "no" => WorkInv

\* What the phases need to know of the control points.
LEMMA PointOrder ==
  /\ \A p, q \in Phases : Joining[p] # After[q]
  /\ \A p \in Phases : Joining[p] \notin Ahead[p]
  /\ \A p, q \in Phases : Joining[q] \in Ahead[p] => q \in Ahead[p]
  /\ \A p, q \in Phases : After[q] \in Ahead[p] => Joining[q] \in Ahead[p]
  /\ \A p \in Phases : p \in Ahead[p]
  BY DEF Joining, After, Ahead, Phases

\* Dealing the work out makes a partition of it.
LEMMA PacketsPartition ==
  ASSUME TypeInv, NEW phase \in Phases
  PROVE  /\ \A k, m \in 0..W-1 : k # m => Packet(k, phase) \intersect Packet(m, phase) = {}
         /\ Work(phase) = UNION {Packet(k, phase) : k \in 0..W-1}
<1>1. IsFiniteSet(Work(phase))
  <2>1. IsFiniteSet(Objects) /\ IsFiniteSet(all)
    BY SimCoreAssumption, FS_Subset DEF TypeInv, TypeOK
  <2>2. IsFiniteSet(all \X all)
    BY <2>1, FS_Product
  <2>3. Pairs \intersect (all \X all) \in SUBSET (all \X all)
    OBVIOUS
  <2>4. IsFiniteSet(Pairs \intersect (all \X all))
    BY <2>2, <2>3, FS_Subset
  <2> QED
    BY <2>1, <2>4 DEF Work
<1> DEFINE rank(x) == Cardinality({y \in Work(phase) : Before(y, x, phase)})
<1>2. ASSUME NEW x \in Work(phase)
      PROVE  rank(x) % W \in 0..W-1
  <2>1. {y \in Work(phase) : Before(y, x, phase)} \in SUBSET Work(phase)
    OBVIOUS
  <2>2. rank(x) \in Nat
    BY <1>1, <2>1, FS_Subset, FS_CardinalityType
  <2> HIDE DEF rank
  <2> QED
    BY <2>2, WorkerCount
<1>3. \A k : Packet(k, phase) = {x \in Work(phase) : rank(x) % W = k}
  BY DEF Packet
<1> HIDE DEF rank
<1> QED
  BY <1>2, <1>3

\* A step that leaves the work alone and goes to a point where nothing new is
\* claimed.
LEMMA QuietWork ==
  ASSUME WorkInv, UNCHANGED <<rest, worked>>,
         \A phase \in Phases :
           /\ epc' # Joining[phase]
           /\ epc' = After[phase] => worked[phase] = Work(phase) /\ UNCHANGED all
           /\ epc' \in Ahead[phase] => epc \in Ahead[phase]
  PROVE  WorkInv'
<1>1. \A phase \in Phases : UNCHANGED all => UNCHANGED Work(phase)
  BY DEF Work
<1> QED
  BY <1>1 DEF WorkInv

\* WorkSafe is inductive, given the types and the barrier.
LEMMA NextWork == TypeInv /\ BarrierInv /\ WorkSafe /\ [Next]_vars => WorkSafe'
<1> SUFFICES ASSUME TypeInv, BarrierInv, WorkInv, [Next]_vars, crashed' = "no"
             PROVE  WorkInv'
  BY DEF WorkSafe, Next, vars
<1> USE DEF population, queues, pool, switches, callers, history
<1>1. ASSUME UNCHANGED <<rest, worked, epc, all>>
      PROVE  WorkInv'
  <2>1. \A phase \in Phases :
          UNCHANGED <<rest[phase], worked[phase], Work(phase), Left(phase)>>
    BY <1>1 DEF Left, Work
  <2> QED
    BY <1>1, <2>1 DEF WorkInv
<1>2. CASE TurnStart
  <2>1. /\ UNCHANGED <<rest, all>> /\ epc' = "messages"
        /\ \A phase \in Phases : worked'[phase] = {}
    BY <1>2 DEF TurnStart
  <2> QED
    BY <2>1 DEF WorkInv, Joining, After, Phases
<1>3. CASE \/ BeginRun \/ LeaveLoop \/ AddObject \/ MarkRemoved \/ MessagesDone
           \/ EraseDead \/ EndTurn \/ Report \/ ShutQueues \/ EndRun
  <2>1. /\ UNCHANGED <<rest, worked>>
        /\ \/ epc' \in {"top", "shut", "ending", "ended", "report"}
           \/ epc = "messages" /\ epc' \in {"messages", "erase"}
           \/ epc = "erase" /\ epc' = "tick"
    BY <1>3 DEF BeginRun, LeaveLoop, AddObject, MarkRemoved, TakeMessage, MessagesDone,
                EraseDead, EndTurn, Report, ShutQueues, EndRun
  <2> QED
    BY <2>1, QuietWork DEF Joining, After, Ahead, Phases
<1>4. ASSUME NEW phase \in Phases, StartPhase(phase)
      PROVE  WorkInv'
  <2>1. /\ epc = phase /\ epc' = Joining[phase]
        /\ rest' = [rest EXCEPT ![phase] = [k \in 0..W-1 |-> Packet(k, phase)]]
        /\ UNCHANGED <<all, worked>>
    BY <1>4 DEF StartPhase
  <2>2. \A k \in 0..W-1 : rest'[phase][k] = Packet(k, phase)
    BY <2>1 DEF TypeInv, ShapeInv
  <2>3. \A p \in Phases \ {phase} : rest'[p] = rest[p]
    BY <2>1 DEF TypeInv, ShapeInv
  <2>4. worked[phase] = {}
    BY <2>1, PointOrder DEF WorkInv
  <2>5. Left(phase)' = Work(phase)
    BY <2>2, PacketsPartition DEF Left
  <2>6. \A p \in Phases : Work(p)' = Work(p)
    BY <2>1 DEF Work
  <2>7. \A p \in Phases : \A k \in 0..W-1 : rest'[p][k] \intersect worked'[p] = {}
    BY <2>1, <2>3, <2>4 DEF WorkInv
  <2>8. \A p \in Phases : \A k, m \in 0..W-1 :
          k # m => rest'[p][k] \intersect rest'[p][m] = {}
    <3> TAKE p \in Phases
    <3>1. CASE p = phase
      BY <2>2, <3>1, PacketsPartition
    <3>2. CASE p # phase
      BY <2>3, <3>2 DEF WorkInv
    <3> QED
      BY <3>1, <3>2
  <2>9. \A p \in Phases : epc' = Joining[p] => p = phase
    BY <2>1, PhaseNames
  <2>10. \A p \in Phases : epc' # After[p] /\ (epc' \in Ahead[p] => epc \in Ahead[p])
    BY <2>1, PointOrder
  <2> QED
    BY <2>1, <2>4, <2>5, <2>6, <2>7, <2>8, <2>9, <2>10 DEF WorkInv
<1>5. ASSUME NEW phase \in Phases, EndPhase(phase)
      PROVE  WorkInv'
  <2>1. /\ epc = Joining[phase] /\ epc' = After[phase]
        /\ UNCHANGED <<rest, worked, all>>
        /\ \A k \in 0..W-1 : owner[phase][k] = "done"
    BY <1>5 DEF EndPhase
  <2>2. Left(phase) = {}
    BY <2>1 DEF BarrierInv, Left
  <2>3. worked[phase] = Work(phase)
    BY <2>1, <2>2 DEF WorkInv
  <2>4. \A p \in Phases : After[p] = After[phase] => p = phase
    BY DEF After, Phases
  <2> QED
    BY <2>1, <2>3, <2>4, PointOrder, QuietWork
<1>6. CASE ResolveOne
  BY <1>1, <1>6 DEF ResolveOne
<1>7. ASSUME NEW w \in Workers, NEW phase \in Phases,
             \/ TakePacket(w, phase) \/ FinishPacket(w, phase) \/ WorkerThrows(w, phase)
      PROVE  WorkInv'
  BY <1>1, <1>7 DEF TakePacket, FinishPacket, WorkerThrows
<1>8. ASSUME NEW w \in Workers, NEW phase \in Phases, NEW k \in 0..W-1,
             NEW x \in rest[phase][k], WorkOn(w, phase, k, x)
      PROVE  WorkInv'
  <2>1. /\ rest' = [rest EXCEPT ![phase][k] = @ \ {x}]
        /\ worked' = [worked EXCEPT ![phase] = @ \union {x}]
        /\ UNCHANGED <<epc, all>>
        /\ Has(w, phase, k)
    BY <1>8 DEF WorkOn
  <2>2. epc = Joining[phase]
    BY <2>1, SimCoreAssumption DEF BarrierInv, Has
  <2>3. /\ rest'[phase][k] = rest[phase][k] \ {x}
        /\ \A m \in 0..W-1 : m # k => rest'[phase][m] = rest[phase][m]
        /\ worked'[phase] = worked[phase] \union {x}
    BY <2>1 DEF TypeInv, ShapeInv
  <2>4. \A p \in Phases : p # phase => rest'[p] = rest[p] /\ worked'[p] = worked[p]
    BY <2>1 DEF TypeInv, ShapeInv
  <2>5. \A p \in Phases : Work(p)' = Work(p)
    BY <2>1 DEF Work
  <2>6. \A m \in 0..W-1 : rest'[phase][m] \intersect worked'[phase] = {}
    BY <2>3 DEF WorkInv
  <2>7. \A m, n \in 0..W-1 : m # n => rest'[phase][m] \intersect rest'[phase][n] = {}
    BY <2>3 DEF WorkInv
  <2>8. worked'[phase] \union Left(phase)' = worked[phase] \union Left(phase)
    BY <2>3 DEF Left
  <2>9. \A p \in Phases : epc' = Joining[p] => p = phase
    BY <2>1, <2>2, PhaseNames
  <2>10. \A p \in Phases : epc' # After[p] /\ (epc' \in Ahead[p] => p # phase)
    BY <2>1, <2>2, PointOrder
  <2>11. \A p \in Phases : epc' \in Ahead[p] => worked'[p] = {}
    BY <2>1, <2>4, <2>10 DEF WorkInv
  <2>12. \A p \in Phases : \A m \in 0..W-1 : rest'[p][m] \intersect worked'[p] = {}
    BY <2>4, <2>6 DEF WorkInv
  <2>13. \A p \in Phases : \A m, n \in 0..W-1 :
           m # n => rest'[p][m] \intersect rest'[p][n] = {}
    BY <2>4, <2>7 DEF WorkInv
  <2>14. Work(phase)' = worked'[phase] \union Left(phase)'
    BY <2>2, <2>5, <2>8 DEF WorkInv
  <2> QED
    BY <2>9, <2>10, <2>11, <2>12, <2>13, <2>14 DEF WorkInv
<1>9. ASSUME NEW w \in Workers, TickOne(w) \/ ApplyOne(w) \/ CheckOne(w)
      PROVE  WorkInv'
  BY <1>8, <1>9 DEF TickOne, ApplyOne, CheckOne, Phases
<1>10. ASSUME NEW c \in Controllers, StartLaunch(c)
       PROVE  WorkInv'
  <2>1. epc' = "begin" /\ UNCHANGED <<rest, worked, all>>
    BY <1>10 DEF StartLaunch
  <2> QED
    BY <2>1, QuietWork DEF Joining, After, Ahead, Phases
<1>11. ASSUME NEW c \in Controllers, StartCheck(c) \/ StopCall(c) \/ StopReturn(c)
       PROVE  WorkInv'
  BY <1>1, <1>11 DEF StartCheck, StopCall, StopReturn
<1>12. ASSUME NEW o \in Objects \ Start, AddCheck(o) \/ AddMessage(o)
       PROVE  WorkInv'
  BY <1>1, <1>12 DEF AddCheck, AddMessage
<1>13. ASSUME NEW o \in Removable, RemoveCheck(o) \/ RemoveMessage(o)
       PROVE  WorkInv'
  BY <1>1, <1>13 DEF RemoveCheck, RemoveMessage
<1>14. CASE \/ \E o \in Objects \ Start : AddDirect(o)
            \/ \E o \in Removable : RemoveDirect(o)
  <2>1. ~InRun /\ UNCHANGED <<rest, worked, epc>>
    BY <1>14 DEF AddDirect, RemoveDirect
  <2> QED
    BY <2>1, QuietWork DEF InRun, Joining, After, Ahead, Phases
<1>15. CASE \E o \in Bots : LinkDrops(o)
  BY <1>1, <1>15 DEF LinkDrops
<1>16. CASE UNCHANGED vars
  BY <1>1, <1>16 DEF vars
<1> QED
  BY <1>2, <1>3, <1>4, <1>5, <1>6, <1>7, <1>9, <1>10, <1>11, <1>12, <1>13, <1>14, <1>15,
     <1>16 DEF Next, EngineStep, WorkerStep, CallerStep

\* In every turn every object is ticked and applied once and every pair checked
\* once, for any number of objects and workers; no assumption is made on who
\* adds, removes, starts or stops, nor on workers that throw.
THEOREM EveryPieceOnce == Spec => []WorkExactlyOnce
<1>1. Init => WorkSafe
  BY DEF Init, WorkSafe, WorkInv, Joining, After, Ahead, Phases
<1>2. Spec => [](TypeInv /\ BarrierInv)
  BY BarrierCorrect
<1>3. Spec => []WorkSafe
  BY <1>1, <1>2, NextWork, PTL DEF Spec
<1>4. WorkSafe => WorkExactlyOnce
  BY DEF WorkSafe, WorkInv, WorkExactlyOnce
<1> QED
  BY <1>3, <1>4, PTL
-----------------------------------------------------------------------------
(* Removals find their objects *)

\* From the erasure to the end of the work no removal is in the queue.
NoRemovals == {"erase", "tick", "join_tick", "clsn", "join_clsn", "apply", "join_apply"}

\* A removal names an object that is there; the loop of turn_init reaches it
\* before the erasure; and collisions are between objects that are there.
RmInv ==
  /\ \A i \in 1..Len(messages) : messages[i].verb = "rm" =>
       /\ messages[i].id \in all
       /\ epc \notin NoRemovals
       /\ epc = "messages" => i <= budget
  /\ collisions \subseteq all \X all
  /\ \A k \in 0..W-1 : rest["clsn"][k] \subseteq all \X all
  /\ crashed # "null object"

\* Every removal in more names an object that is there.
Present(more) == \A i \in 1..Len(more) : more[i].verb = "rm" => more[i].id \in all

\* The same for the removals of one collision.
LEMMA RmIfPresent ==
  ASSUME NEW kill \in BOOLEAN, NEW o \in all
  PROVE  Present(RmIf(kill, o))
<1>1. CASE kill
  BY <1>1 DEF Present, RmIf, Rm
<1>2. CASE ~kill
  BY <1>2, EmptySeq DEF Present, RmIf
<1> QED
  BY <1>1, <1>2

\* Concatenation keeps it.
LEMMA ConcatPresent ==
  ASSUME NEW s \in Seq(Message), NEW t \in Seq(Message), Present(s), Present(t)
  PROVE  Present(s \o t)
<1> SUFFICES ASSUME NEW i \in 1..Len(s \o t), (s \o t)[i].verb = "rm"
             PROVE  (s \o t)[i].id \in all
  BY DEF Present
<1>1. /\ Len(s) \in Nat /\ Len(t) \in Nat /\ Len(s \o t) = Len(s) + Len(t)
      /\ (s \o t)[i] = IF i <= Len(s) THEN s[i] ELSE t[i - Len(s)]
  BY LenProperties, ConcatProperties
<1>2. CASE i <= Len(s)
  BY <1>1, <1>2 DEF Present
<1>3. CASE i > Len(s)
  <2>1. i - Len(s) \in 1..Len(t)
    BY <1>1, <1>3
  <2> QED
    BY <1>1, <1>3, <2>1 DEF Present
<1> QED
  BY <1>1, <1>2, <1>3

\* RmInv is inductive if nobody calls remove_obj() from outside.
LEMMA NextRm ==
  ASSUME Removable = {}
  PROVE  TypeInv /\ BarrierInv /\ RmInv /\ [Next]_vars => RmInv'
<1> SUFFICES ASSUME TypeInv, BarrierInv, RmInv, [Next]_vars PROVE RmInv'
  OBVIOUS
<1> USE DEF population, queues, pool, switches, callers, history
<1>1. messages \in Seq(Message) /\ Len(messages) \in Nat /\ budget \in 0..Len(messages)
  BY LenProperties DEF TypeInv, TypeOK
<1>2. ASSUME UNCHANGED <<messages, collisions, rest, crashed>>, all \subseteq all',
             epc' \notin NoRemovals \/ (epc \in NoRemovals /\ epc' \in NoRemovals),
             epc' = "messages" => epc = "messages" /\ UNCHANGED budget
      PROVE  RmInv'
  BY <1>2 DEF RmInv, NoRemovals
<1>3. CASE \/ BeginRun \/ LeaveLoop \/ EndTurn \/ Report \/ ShutQueues \/ EndRun
  BY <1>2, <1>3 DEF NoRemovals, BeginRun, LeaveLoop, EndTurn, Report, ShutQueues, EndRun
<1>4. CASE TurnStart
  <2>1. /\ epc' = "messages" /\ budget' = Len(messages)
        /\ UNCHANGED <<messages, all, collisions, rest, crashed>>
    BY <1>4 DEF TurnStart
  <2>2. \A i \in 1..Len(messages) : i <= Len(messages)
    BY <1>1
  <2> QED
    BY <2>1, <2>2 DEF RmInv, NoRemovals
<1>5. ASSUME TakeMessage, all \subseteq all', UNCHANGED rest, crashed' # "null object"
      PROVE  RmInv'
  <2>1. /\ Len(Tail(messages)) = Len(messages) - 1
        /\ \A i \in 1..Len(messages) - 1 : Tail(messages)[i] = messages[i + 1]
    <3>1. budget > 0
      BY <1>5 DEF TakeMessage
    <3>2. messages # <<>>
      BY <1>1, <3>1, EmptySeq
    <3>3. /\ Len(Tail(messages)) = Len(messages) - 1
          /\ \A i \in 1..Len(Tail(messages)) : Tail(messages)[i] = messages[i + 1]
      BY <1>1, <3>2, HeadTailProperties
    <3> QED
      BY <3>3
  <2>2. /\ epc = "messages" /\ epc' = "messages" /\ budget' = budget - 1
        /\ messages' = Tail(messages) /\ UNCHANGED collisions
    BY <1>5 DEF TakeMessage
  <2>3. ASSUME NEW i \in 1..Len(messages'), messages'[i].verb = "rm"
        PROVE  messages'[i].id \in all' /\ i <= budget'
    <3>1. i + 1 \in 1..Len(messages) /\ messages'[i] = messages[i + 1]
      BY <1>1, <2>1, <2>2
    <3>2. messages[i + 1].id \in all /\ i + 1 <= budget
      BY <2>2, <2>3, <3>1 DEF RmInv
    <3>3. messages'[i].id \in all'
      BY <1>5, <3>1, <3>2
    <3>4. i \in Int /\ budget \in Int
      BY <1>1
    <3> QED
      BY <2>2, <3>2, <3>3, <3>4
  <2> QED
    BY <1>5, <2>2, <2>3 DEF RmInv, NoRemovals
<1>6. CASE AddObject
  BY <1>5, <1>6 DEF AddObject, TakeMessage, RmInv
<1>7. CASE MarkRemoved
  <2>1. 1 \in 1..Len(messages) /\ Head(messages) = messages[1]
    <3>1. budget > 0
      BY <1>7 DEF MarkRemoved, TakeMessage
    <3> QED
      BY <1>1, <3>1
  <2>2. Head(messages).id \in all
    BY <1>7, <2>1 DEF MarkRemoved, RmInv
  <2>3. all' = all /\ crashed' = crashed /\ UNCHANGED rest
    BY <1>7, <2>2 DEF MarkRemoved, TakeMessage
  <2> QED
    BY <1>5, <1>7, <2>3 DEF MarkRemoved, RmInv
<1>8. CASE MessagesDone
  <2>1. \A i \in 1..Len(messages) : messages[i].verb # "rm"
    <3>1. \A i \in 1..Len(messages) : ~(i <= 0)
      BY <1>1
    <3> QED
      BY <1>8, <3>1 DEF MessagesDone, RmInv
  <2> QED
    BY <1>8, <2>1 DEF MessagesDone, RmInv
<1>9. CASE EraseDead
  <2>1. epc = "erase" /\ epc' = "tick" /\ collisions' = {}
        /\ UNCHANGED <<messages, rest, crashed>>
    BY <1>9 DEF EraseDead
  <2>2. \A k \in 0..W-1 : rest["clsn"][k] = {}
    BY <2>1 DEF BarrierInv, Joining, Phases
  <2>3. \A i \in 1..Len(messages) : messages[i].verb # "rm"
    BY <2>1 DEF RmInv, NoRemovals
  <2> QED
    BY <2>1, <2>2, <2>3 DEF RmInv
<1>10. ASSUME NEW phase \in Phases, StartPhase(phase)
       PROVE  RmInv'
  <2>1. /\ epc = phase /\ epc' = Joining[phase]
        /\ UNCHANGED <<messages, collisions, crashed, all>>
        /\ rest' = [rest EXCEPT ![phase] = [k \in 0..W-1 |-> Packet(k, phase)]]
    BY <1>10 DEF StartPhase
  <2>2. epc \in NoRemovals /\ epc' \in NoRemovals /\ epc' # "messages"
    BY <2>1 DEF NoRemovals, Joining, Phases
  <2>3. \A k \in 0..W-1 : rest'["clsn"][k] \subseteq all \X all
    <3>1. CASE phase = "clsn"
      <4>1. \A k : Packet(k, "clsn") \subseteq all \X all
        BY DEF Packet, Work
      <4>2. \A k \in 0..W-1 : rest'["clsn"][k] = Packet(k, "clsn")
        BY <2>1, <3>1 DEF TypeInv, ShapeInv
      <4> QED
        BY <4>1, <4>2
    <3>2. CASE phase # "clsn"
      <4>1. rest'["clsn"] = rest["clsn"]
        BY <2>1, <3>2 DEF TypeInv, ShapeInv
      <4> QED
        BY <4>1 DEF RmInv
    <3> QED
      BY <3>1, <3>2
  <2> QED
    BY <2>1, <2>2, <2>3 DEF RmInv
<1>11. ASSUME NEW phase \in Phases, EndPhase(phase)
       PROVE  RmInv'
  BY <1>2, <1>11 DEF EndPhase, After, Joining, NoRemovals, Phases
<1>12. CASE ResolveOne
  <2>1. PICK q \in collisions, killa, killb \in BOOLEAN :
          /\ collisions' = collisions \ {q}
          /\ messages' = messages \o RmIf(killa, q[1]) \o RmIf(killb, q[2])
    BY <1>12 DEF ResolveOne
  <2>2. q[1] \in all /\ q[2] \in all /\ all \subseteq Objects
    BY DEF RmInv, TypeInv, TypeOK
  <2>3. Present(messages)
    BY DEF RmInv, Present
  <2>4. RmIf(killa, q[1]) \in Seq(Message) /\ RmIf(killb, q[2]) \in Seq(Message)
    BY <2>2, RmIfType
  <2>5. Present(messages \o RmIf(killa, q[1]))
        /\ messages \o RmIf(killa, q[1]) \in Seq(Message)
    BY <1>1, <2>2, <2>3, <2>4, RmIfPresent, ConcatPresent, ConcatProperties
  <2>6. Present(messages \o RmIf(killa, q[1]) \o RmIf(killb, q[2]))
    BY <2>2, <2>4, <2>5, RmIfPresent, ConcatPresent
  <2>7. /\ epc = "resolve" /\ epc' = "resolve"
        /\ UNCHANGED <<all, rest, crashed>>
    BY <1>12 DEF ResolveOne
  <2> QED
    BY <2>1, <2>6, <2>7 DEF RmInv, Present, NoRemovals
<1>13. ASSUME NEW w \in Workers, NEW phase \in Phases,
              \/ TakePacket(w, phase) \/ FinishPacket(w, phase) \/ WorkerThrows(w, phase)
       PROVE  RmInv'
  BY <1>13 DEF RmInv, TakePacket, FinishPacket, WorkerThrows
<1>14. ASSUME NEW w \in Workers, NEW phase \in Phases, NEW k \in 0..W-1, NEW x,
              WorkOn(w, phase, k, x), collisions' \subseteq all \X all
       PROVE  RmInv'
  <2>1. /\ rest' = [rest EXCEPT ![phase][k] = @ \ {x}]
        /\ UNCHANGED <<all, messages, budget, epc, crashed>>
    BY <1>14 DEF WorkOn
  <2>2. \A m \in 0..W-1 : rest'["clsn"][m] \subseteq rest["clsn"][m]
    BY <2>1 DEF TypeInv, ShapeInv, Phases
  <2> QED
    BY <1>14, <2>1, <2>2 DEF RmInv
<1>15. ASSUME NEW w \in Workers, TickOne(w) \/ ApplyOne(w)
       PROVE  RmInv'
  BY <1>14, <1>15 DEF TickOne, ApplyOne, Phases, RmInv
<1>16. ASSUME NEW w \in Workers, CheckOne(w)
       PROVE  RmInv'
  <2>1. PICK k \in 0..W-1 : \E q \in rest["clsn"][k] :
          /\ WorkOn(w, "clsn", k, q)
          /\ collisions' \in {collisions, collisions \union {q}}
    BY <1>16 DEF CheckOne
  <2>2. collisions' \subseteq all \X all
    BY <2>1 DEF RmInv
  <2> QED
    BY <1>14, <2>1, <2>2 DEF Phases
<1>17. ASSUME NEW c \in Controllers,
              StartLaunch(c) \/ StartCheck(c) \/ StopCall(c) \/ StopReturn(c)
       PROVE  RmInv'
  BY <1>17 DEF StartLaunch, StartCheck, StopCall, StopReturn, RmInv, NoRemovals
<1>18. ASSUME NEW o \in Objects \ Start, AddMessage(o)
       PROVE  RmInv'
  <2>1. /\ Add(o) \in Message /\ Add(o).verb = "add"
        /\ messages' = Append(messages, Add(o))
        /\ UNCHANGED <<all, budget, collisions, epc, rest, crashed>>
    BY <1>18 DEF AddMessage, Add, Message
  <2>2. /\ Len(messages') = Len(messages) + 1
        /\ \A i \in 1..Len(messages) : messages'[i] = messages[i]
        /\ messages'[Len(messages) + 1] = Add(o)
    BY <1>1, <2>1, AppendProperties
  <2>3. ASSUME NEW i \in 1..Len(messages'), messages'[i].verb = "rm"
        PROVE  i \in 1..Len(messages) /\ messages'[i] = messages[i]
    BY <1>1, <2>1, <2>2, <2>3
  <2> QED
    BY <2>1, <2>3 DEF RmInv
<1>19. ASSUME NEW o \in Objects \ Start, AddCheck(o) \/ AddDirect(o)
       PROVE  RmInv'
  <2>1. all \subseteq all' /\ UNCHANGED <<messages, budget, collisions, epc, rest>>
    BY <1>19 DEF AddCheck, AddDirect
  <2>2. crashed' # "null object"
    BY <1>19 DEF AddCheck, AddDirect, RmInv
  <2>3. all \X all \subseteq all' \X all'
    BY <2>1
  <2> QED
    BY <2>1, <2>2, <2>3 DEF RmInv
<1>20. CASE \E o \in Bots : LinkDrops(o)
  BY <1>20 DEF LinkDrops, RmInv
<1>21. CASE UNCHANGED vars
  BY <1>21 DEF vars, RmInv
<1> QED
  BY <1>3, <1>4, <1>6, <1>7, <1>8, <1>9, <1>10, <1>11, <1>12, <1>13, <1>15, <1>16, <1>17,
     <1>18, <1>19, <1>20, <1>21 DEF Next, EngineStep, WorkerStep, CallerStep

\* If nobody calls remove_obj() from outside, every removal that a collision asks
\* for finds its object in the next turn, and turn_init() never goes through the
\* null pointer of an empty entry.
THEOREM RemovalsFindObjects ==
  ASSUME Removable = {}
  PROVE  Spec => [](RmTargetsPresent /\ RemoveNeverCrashes)
<1>1. Init => RmInv
  BY EmptySeq DEF Init, RmInv, Phases
<1>2. Spec => [](TypeInv /\ BarrierInv)
  BY BarrierCorrect
<1>3. Spec => []RmInv
  BY <1>1, <1>2, NextRm, PTL DEF Spec
<1>4. RmInv => RmTargetsPresent /\ RemoveNeverCrashes
  BY DEF RmInv, RmTargetsPresent, RemoveNeverCrashes
<1> QED
  BY <1>3, <1>4, PTL
-----------------------------------------------------------------------------
(* The sentenced are gone *)

\* The removal of o is in a queue; in the queue of messages.
AskedIn(s, o) == \E i \in 1..Len(s) : s[i] = Rm(o)
Asked(o) == AskedIn(messages, o)

\* From the ticks to the application nobody is sentenced.
Clean == {"join_tick", "clsn", "join_clsn", "apply"}

\* Who is sentenced by apply() is marked until the erasure, for apply() comes once
\* a turn; who is sentenced by a collision is marked, or its removal is in the
\* queue, which is empty of removals at the erasure. Who joins is not sentenced.
VerdictInv ==
  /\ \A o \in Objects \ all : verdict[o] = {}
  /\ \A o \in all :
       /\ epc \in Clean => verdict[o] \intersect {"apply", "collision"} = {}
       /\ epc = "tick" /\ verdict[o] \intersect {"apply", "collision"} # {}
            => EraseMaySkip /\ ~alive[o]
       /\ "apply" \in verdict[o] =>
            ~alive[o] /\ (epc = "join_apply" => o \in worked["apply"])
       /\ "collision" \in verdict[o] =>
            epc # "join_apply" /\ (~alive[o] \/ Asked(o))

\* A longer queue asks for the same removals and for those of its new part.
LEMMA LongerAsked ==
  ASSUME NEW s \in Seq(Message), NEW t \in Seq(Message), NEW o
  PROVE  AskedIn(s, o) \/ AskedIn(t, o) => AskedIn(s \o t, o)
<1>1. /\ Len(s) \in Nat /\ Len(t) \in Nat /\ Len(s \o t) = Len(s) + Len(t)
      /\ \A i \in 1..Len(s) + Len(t) :
           (s \o t)[i] = IF i <= Len(s) THEN s[i] ELSE t[i - Len(s)]
  BY LenProperties, ConcatProperties
<1>2. ASSUME NEW i \in 1..Len(s)
      PROVE  i \in 1..Len(s \o t) /\ (s \o t)[i] = s[i]
  BY <1>1
<1>3. ASSUME NEW i \in 1..Len(t)
      PROVE  i + Len(s) \in 1..Len(s \o t) /\ (s \o t)[i + Len(s)] = t[i]
  <2>1. i + Len(s) \in 1..Len(s) + Len(t) /\ ~(i + Len(s) <= Len(s))
        /\ i + Len(s) - Len(s) = i
    BY <1>1
  <2> QED
    BY <1>1, <2>1
<1> QED
  BY <1>2, <1>3 DEF AskedIn

\* Taking a message off the queue loses that removal only.
LEMMA ShorterAsked ==
  ASSUME messages \in Seq(Message), budget \in 0..Len(messages), TakeMessage, NEW o,
         Asked(o), Head(messages) # Rm(o)
  PROVE  Asked(o)'
<1>1. /\ budget > 0 /\ Len(messages) \in Nat /\ messages' = Tail(messages)
  BY LenProperties DEF TakeMessage
<1>2. messages # <<>>
  BY <1>1, EmptySeq
<1>3. /\ Len(Tail(messages)) = Len(messages) - 1
      /\ \A i \in 1..Len(Tail(messages)) : Tail(messages)[i] = messages[i + 1]
  BY <1>2, HeadTailProperties
<1>4. PICK i \in 1..Len(messages) : messages[i] = Rm(o)
  BY DEF Asked, AskedIn
<1>5. i # 1
  BY <1>4
<1>6. i - 1 \in 1..Len(Tail(messages)) /\ (i - 1) + 1 = i
  BY <1>1, <1>3, <1>5
<1>7. Tail(messages)[i - 1] = Rm(o)
  BY <1>3, <1>4, <1>6
<1> QED
  BY <1>1, <1>6, <1>7 DEF Asked, AskedIn

\* VerdictInv is inductive if nobody calls remove_obj() from outside.
LEMMA NextVerdict ==
  ASSUME Removable = {}
  PROVE  TypeInv /\ BarrierInv /\ WorkSafe /\ RmInv /\ VerdictInv /\ [Next]_vars
           => VerdictInv'
<1> SUFFICES ASSUME TypeInv, BarrierInv, WorkSafe, RmInv, VerdictInv, [Next]_vars
             PROVE  VerdictInv'
  OBVIOUS
<1> USE DEF population, queues, pool, switches, callers, history
<1>1. /\ messages \in Seq(Message) /\ budget \in 0..Len(messages)
      /\ all \subseteq Objects
      /\ alive \in [Objects -> BOOLEAN]
      /\ verdict \in [Objects -> SUBSET {"tick", "apply", "collision"}]
  BY DEF TypeInv, TypeOK
<1>2. ASSUME UNCHANGED <<all, alive, verdict>>, \A o \in Objects : Asked(o) => Asked(o)',
             epc' \in Clean => epc \in Clean,
             epc' = "tick" => epc = "tick",
             epc' = "join_apply" => epc = "join_apply" /\ UNCHANGED worked
      PROVE  VerdictInv'
  BY <1>1, <1>2 DEF VerdictInv
<1>3. UNCHANGED messages => \A o \in Objects : Asked(o) => Asked(o)'
  BY DEF Asked
<1>4. CASE \/ BeginRun \/ TurnStart \/ LeaveLoop \/ MessagesDone \/ EndTurn \/ Report
           \/ ShutQueues \/ EndRun
  BY <1>2, <1>3, <1>4 DEF Clean, BeginRun, TurnStart, LeaveLoop, MessagesDone, EndTurn,
                          Report, ShutQueues, EndRun
<1>5. CASE AddObject
  <2>1. /\ epc = "messages" /\ epc' = "messages" /\ UNCHANGED <<alive, verdict>>
        /\ all' = all \union {Head(messages).id} /\ Head(messages).verb = "add"
    BY <1>5 DEF AddObject, TakeMessage
  <2>2. \A o \in Objects : Asked(o) => Asked(o)'
    <3> SUFFICES ASSUME NEW o \in Objects, Asked(o) PROVE Asked(o)'
      OBVIOUS
    <3>1. Head(messages) # Rm(o)
      BY <2>1 DEF Rm
    <3> QED
      BY <1>1, <1>5, <3>1, ShorterAsked DEF AddObject
  <2>3. Head(messages).id \in Objects
    BY <1>1, <1>5, TakeMessageType DEF AddObject, Message
  <2> QED
    BY <1>1, <2>1, <2>2, <2>3 DEF VerdictInv, Clean
<1>6. CASE MarkRemoved
  <2>1. /\ epc = "messages" /\ epc' = "messages" /\ UNCHANGED verdict
        /\ Head(messages) \in Message /\ Head(messages).verb = "rm"
    BY <1>1, <1>6, TakeMessageType DEF MarkRemoved, TakeMessage
  <2>2. \A o : Asked(o) /\ Head(messages).id # o => Asked(o)'
    <3> SUFFICES ASSUME NEW o, Asked(o), Head(messages).id # o PROVE Asked(o)'
      OBVIOUS
    <3>1. Head(messages) # Rm(o)
      BY DEF Rm
    <3> QED
      BY <1>1, <1>6, <3>1, ShorterAsked DEF MarkRemoved
  <2>3. Head(messages).id \in all
    <3>1. budget > 0
      BY <1>6 DEF MarkRemoved, TakeMessage
    <3>2. 1 \in 1..Len(messages) /\ Head(messages) = messages[1]
      BY <1>1, <3>1, LenProperties
    <3> QED
      BY <2>1, <3>2 DEF RmInv
  <2>4. UNCHANGED all /\ alive' = [alive EXCEPT ![Head(messages).id] = FALSE]
    BY <1>6, <2>3 DEF MarkRemoved
  <2> QED
    BY <1>1, <2>1, <2>2, <2>3, <2>4 DEF VerdictInv, Clean
<1>7. CASE EraseDead
  <2>1. PICK erased \in SUBSET Dead :
          /\ IF EraseMaySkip
             THEN \A o \in Dead \ erased : \E q \in erased : q < o
             ELSE erased = Dead
          /\ all' = all \ erased
          /\ verdict' = [o \in Objects |-> IF o \in erased THEN {} ELSE verdict[o]]
    BY <1>7 DEF EraseDead
  <2>5. epc = "erase" /\ epc' = "tick" /\ UNCHANGED alive
    BY <1>7 DEF EraseDead
  <2>2. \A o : ~Asked(o)
    <3>1. \A i \in 1..Len(messages) : messages[i].verb # "rm"
      BY <2>5 DEF RmInv, NoRemovals
    <3>2. \A o : Rm(o).verb = "rm"
      BY DEF Rm
    <3> QED
      BY <3>1, <3>2 DEF Asked, AskedIn
  <2>3. ASSUME NEW o \in all', verdict'[o] \intersect {"apply", "collision"} # {}
        PROVE  EraseMaySkip /\ ~alive'[o]
    <3>1. o \in all /\ o \notin erased /\ verdict'[o] = verdict[o]
      BY <1>1, <2>1, <2>3
    <3>2. ~alive[o]
      BY <1>1, <2>2, <2>3, <3>1 DEF VerdictInv
    <3> QED
      BY <2>1, <2>5, <3>1, <3>2 DEF Dead
  <2>4. \A o \in Objects \ all' : verdict'[o] = {}
    BY <1>1, <2>1 DEF VerdictInv
  <2>6. \A o \in all' : /\ "apply" \in verdict'[o] => ~alive'[o]
                        /\ "collision" \in verdict'[o] => ~alive'[o]
    BY <2>3
  <2> QED
    BY <2>3, <2>4, <2>5, <2>6 DEF VerdictInv, Clean
<1>8. ASSUME NEW phase \in Phases, StartPhase(phase)
      PROVE  VerdictInv'
  <2>1. /\ epc = phase /\ epc' = Joining[phase]
        /\ verdict' = IF phase = "tick" THEN [o \in Objects |-> {}] ELSE verdict
        /\ UNCHANGED <<all, alive, messages, worked>>
    BY <1>8 DEF StartPhase
  <2>2. phase = "tick" \/ epc \in Clean
    BY <2>1 DEF Clean, Phases
  <2>3. \A o \in Objects \ all : verdict'[o] = {}
    BY <1>1, <2>1 DEF VerdictInv
  <2>4. \A o \in all : verdict'[o] \intersect {"apply", "collision"} = {}
    BY <1>1, <2>1, <2>2 DEF VerdictInv
  <2>5. epc' # "tick"
    BY <2>1 DEF Joining, Phases
  <2> QED
    BY <1>1, <2>1, <2>3, <2>4, <2>5 DEF VerdictInv
<1>9. ASSUME NEW phase \in Phases, EndPhase(phase)
      PROVE  VerdictInv'
  BY <1>2, <1>3, <1>9 DEF EndPhase, After, Joining, Clean, Phases
<1>10. CASE ResolveOne
  <2>1. PICK q \in collisions, killa, killb \in BOOLEAN :
          /\ messages' = messages \o RmIf(killa, q[1]) \o RmIf(killb, q[2])
          /\ verdict' = [o \in Objects |->
                           IF (killa /\ o = q[1]) \/ (killb /\ o = q[2])
                           THEN verdict[o] \union {"collision"} ELSE verdict[o]]
    BY <1>10 DEF ResolveOne
  <2>2. /\ epc = "resolve" /\ epc' = "resolve" /\ UNCHANGED <<all, alive>>
    BY <1>10 DEF ResolveOne
  <2>3. q[1] \in all /\ q[2] \in all
    BY DEF RmInv
  <2>4. RmIf(killa, q[1]) \in Seq(Message) /\ RmIf(killb, q[2]) \in Seq(Message)
    BY <1>1, <2>3, RmIfType
  <2>5. messages \o RmIf(killa, q[1]) \in Seq(Message)
    BY <1>1, <2>4, ConcatProperties
  <2>6. \A o \in Objects : Asked(o) => Asked(o)'
    BY <1>1, <2>1, <2>4, <2>5, LongerAsked DEF Asked
  <2>7. \A kill \in BOOLEAN, o \in Objects : kill => AskedIn(RmIf(kill, o), o)
    <3>1. \A o : 1 \in 1..Len(<<Rm(o)>>) /\ <<Rm(o)>>[1] = Rm(o)
      OBVIOUS
    <3> QED
      BY <3>1 DEF AskedIn, RmIf
  <2>8. killa => Asked(q[1])'
    BY <1>1, <2>1, <2>3, <2>4, <2>5, <2>7, LongerAsked DEF Asked
  <2>9. killb => Asked(q[2])'
    BY <1>1, <2>1, <2>3, <2>4, <2>5, <2>7, LongerAsked DEF Asked
  <2>10. \A o \in Objects \ all : verdict'[o] = {}
    BY <1>1, <2>1, <2>3 DEF VerdictInv
  <2>11. ASSUME NEW o \in all
         PROVE  /\ "apply" \in verdict'[o] => ~alive[o]
                /\ "collision" \in verdict'[o] => ~alive[o] \/ Asked(o)'
    <3>1. CASE (killa /\ o = q[1]) \/ (killb /\ o = q[2])
      <4>1. Asked(o)'
        BY <2>8, <2>9, <3>1
      <4>2. "apply" \in verdict'[o] => "apply" \in verdict[o]
        BY <1>1, <2>1
      <4> QED
        BY <4>1, <4>2 DEF VerdictInv
    <3>2. CASE ~((killa /\ o = q[1]) \/ (killb /\ o = q[2]))
      <4>1. verdict'[o] = verdict[o]
        BY <1>1, <2>1, <3>2
      <4> QED
        BY <1>1, <2>6, <4>1 DEF VerdictInv
    <3> QED
      BY <3>1, <3>2
  <2> QED
    BY <2>2, <2>10, <2>11 DEF VerdictInv, Clean
<1>11. ASSUME NEW w \in Workers, NEW phase \in Phases,
              \/ TakePacket(w, phase) \/ FinishPacket(w, phase) \/ WorkerThrows(w, phase)
       PROVE  VerdictInv'
  BY <1>2, <1>3, <1>11 DEF TakePacket, FinishPacket, WorkerThrows
<1>12. ASSUME NEW w \in Workers, NEW phase \in Phases, NEW k \in 0..W-1,
              NEW x \in rest[phase][k], WorkOn(w, phase, k, x), crashed = "no"
       PROVE  /\ epc = Joining[phase] /\ x \in Work(phase) /\ x \notin worked[phase]
              /\ worked' = [worked EXCEPT ![phase] = @ \union {x}]
              /\ UNCHANGED <<all, messages, epc>>
  <2>1. epc = Joining[phase]
    BY <1>12, SimCoreAssumption DEF WorkOn, Has, BarrierInv
  <2>2. x \in Work(phase) /\ x \notin worked[phase]
    BY <1>12, <2>1 DEF WorkSafe, WorkInv, Left
  <2> QED
    BY <1>12, <2>1, <2>2 DEF WorkOn
<1>13. ASSUME NEW w \in Workers, TickOne(w), crashed = "no"
       PROVE  VerdictInv'
  <2>1. PICK k \in 0..W-1 : \E o \in rest["tick"][k], kill \in BOOLEAN :
          /\ WorkOn(w, "tick", k, o)
          /\ verdict' = [verdict EXCEPT ![o] = IF kill THEN @ \union {"tick"} ELSE @]
    BY <1>13 DEF TickOne
  <2>2. PICK o \in rest["tick"][k], kill \in BOOLEAN :
          /\ WorkOn(w, "tick", k, o)
          /\ verdict' = [verdict EXCEPT ![o] = IF kill THEN @ \union {"tick"} ELSE @]
    BY <2>1
  <2>3. epc = "join_tick" /\ o \in all /\ UNCHANGED <<all, epc>>
    BY <1>12, <1>13, <2>2 DEF Phases, Joining, Work
  <2>4. \A p \in all : verdict[p] \intersect {"apply", "collision"} = {}
    BY <2>3 DEF VerdictInv, Clean
  <2>5. \A p \in all : verdict'[p] \intersect {"apply", "collision"} = {}
    BY <1>1, <2>2, <2>4
  <2>6. \A p \in Objects \ all : verdict'[p] = verdict[p]
    BY <1>1, <2>2, <2>3
  <2> QED
    BY <2>3, <2>5, <2>6 DEF VerdictInv
<1>14. ASSUME NEW w \in Workers, ApplyOne(w), crashed = "no"
       PROVE  VerdictInv'
  <2>1. PICK k \in 0..W-1 : \E o \in rest["apply"][k], kill \in BOOLEAN :
          /\ WorkOn(w, "apply", k, o)
          /\ alive' = [alive EXCEPT ![o] = ~kill]
          /\ verdict' = [verdict EXCEPT ![o] = IF kill THEN @ \union {"apply"} ELSE @]
    BY <1>14 DEF ApplyOne
  <2>2. PICK o \in rest["apply"][k], kill \in BOOLEAN :
          /\ WorkOn(w, "apply", k, o)
          /\ alive' = [alive EXCEPT ![o] = ~kill]
          /\ verdict' = [verdict EXCEPT ![o] = IF kill THEN @ \union {"apply"} ELSE @]
    BY <2>1
  <2>3. /\ epc = "join_apply" /\ epc' = "join_apply" /\ o \in all
        /\ o \notin worked["apply"] /\ UNCHANGED <<all, messages>>
        /\ worked' = [worked EXCEPT !["apply"] = @ \union {o}]
    BY <1>12, <1>14, <2>2 DEF Phases, Joining, Work
  <2>4. worked'["apply"] = worked["apply"] \union {o}
    BY <2>3 DEF TypeInv, ShapeInv, Phases
  <2>5. \A p \in Objects : p # o => verdict'[p] = verdict[p] /\ alive'[p] = alive[p]
    BY <1>1, <2>2
  <2>6. /\ alive'[o] = ~kill
        /\ verdict'[o] = IF kill THEN verdict[o] \union {"apply"} ELSE verdict[o]
    BY <1>1, <2>2, <2>3
  <2>7. "apply" \notin verdict[o] /\ \A p \in all : "collision" \notin verdict[p]
    BY <2>3 DEF VerdictInv
  <2>8. \A p \in all : "collision" \notin verdict'[p]
    BY <1>1, <2>5, <2>6, <2>7
  <2>9. \A p \in all : "apply" \in verdict'[p] => ~alive'[p] /\ p \in worked'["apply"]
    <3> TAKE p \in all
    <3>1. CASE p = o
      BY <2>4, <2>6, <2>7, <3>1
    <3>2. CASE p # o
      BY <1>1, <2>3, <2>4, <2>5, <3>2 DEF VerdictInv
    <3> QED
      BY <3>1, <3>2
  <2>10. \A p \in Objects \ all : verdict'[p] = {}
    BY <2>3, <2>5 DEF VerdictInv
  <2> QED
    BY <2>3, <2>8, <2>9, <2>10 DEF VerdictInv, Clean
<1>15. ASSUME NEW w \in Workers, CheckOne(w), crashed = "no"
       PROVE  VerdictInv'
  <2>1. epc = "join_clsn" /\ UNCHANGED <<all, alive, verdict, messages, epc>>
    BY <1>12, <1>15 DEF CheckOne, Phases, Joining
  <2> QED
    BY <1>2, <1>3, <2>1
<1>16. ASSUME NEW c \in Controllers,
              StartLaunch(c) \/ StartCheck(c) \/ StopCall(c) \/ StopReturn(c)
       PROVE  VerdictInv'
  BY <1>2, <1>3, <1>16 DEF StartLaunch, StartCheck, StopCall, StopReturn, Clean
<1>17. ASSUME NEW o \in Objects \ Start, AddMessage(o)
       PROVE  VerdictInv'
  <2>1. /\ Add(o) \in Message /\ messages' = Append(messages, Add(o))
        /\ UNCHANGED <<all, alive, verdict, epc, worked>>
    BY <1>17 DEF AddMessage, Add, Message
  <2>2. /\ Len(messages') = Len(messages) + 1 /\ Len(messages) \in Nat
        /\ \A i \in 1..Len(messages) : messages'[i] = messages[i]
    BY <1>1, <2>1, AppendProperties, LenProperties
  <2>3. ASSUME NEW p \in Objects, Asked(p)
        PROVE  Asked(p)'
    <3>1. PICK i \in 1..Len(messages) : messages[i] = Rm(p)
      BY <2>3 DEF Asked, AskedIn
    <3>2. i \in 1..Len(messages')
      BY <2>2
    <3>3. messages'[i] = Rm(p)
      BY <2>2, <3>1
    <3> QED
      BY <3>2, <3>3 DEF Asked, AskedIn
  <2> QED
    BY <1>2, <2>1, <2>3
<1>18. ASSUME NEW o \in Objects \ Start, AddDirect(o)
       PROVE  VerdictInv'
  <2>1. /\ all' = all \union {o}
        /\ UNCHANGED <<alive, verdict, messages, epc, worked>>
    BY <1>18 DEF AddDirect
  <2> QED
    BY <1>1, <1>3, <2>1 DEF VerdictInv
<1>19. CASE \/ \E o \in Objects \ Start : AddCheck(o)
            \/ \E o \in Bots : LinkDrops(o)
            \/ UNCHANGED vars
  BY <1>2, <1>3, <1>19 DEF AddCheck, LinkDrops, vars
<1> QED
  BY <1>4, <1>5, <1>6, <1>7, <1>8, <1>9, <1>10, <1>11, <1>13, <1>14, <1>15, <1>16, <1>17,
     <1>18, <1>19 DEF Next, EngineStep, WorkerStep, CallerStep

\* Whoever apply() or a collision sentenced is gone before the next turn's work,
\* or is marked still and was missed by the loop that erases under its own
\* iterator: with any objects and workers, whatever that loop comes to, as long as
\* nobody calls remove_obj() from outside.
THEOREM SentencedAreGone ==
  ASSUME Removable = {}
  PROVE  Spec => []VerdictObeyed
<1>1. Init => RmInv /\ VerdictInv /\ WorkSafe
  <2>1. Init => RmInv
    BY EmptySeq DEF Init, RmInv, Phases
  <2>2. Init => VerdictInv
    BY SimCoreAssumption DEF Init, VerdictInv, Clean
  <2>3. Init => WorkSafe
    BY DEF Init, WorkSafe, WorkInv, Joining, After, Ahead, Phases
  <2> QED
    BY <2>1, <2>2, <2>3
<1>2. Spec => [](TypeInv /\ BarrierInv)
  BY BarrierCorrect
<1>3. Spec => [](WorkSafe /\ RmInv)
  BY <1>1, <1>2, NextWork, NextRm, PTL DEF Spec
<1>4. Spec => []VerdictInv
  BY <1>1, <1>2, <1>3, NextVerdict, PTL DEF Spec
<1>5. VerdictInv => VerdictObeyed
  BY DEF VerdictInv, VerdictObeyed, Clean
<1> QED
  BY <1>4, <1>5, PTL
=============================================================================
