--------------------------- MODULE AbsQueueProofs ---------------------------
(***************************************************************************)
(* Proofs about AbsQueue for any sets of threads, any PushLimit and any    *)
(* mix of hold, release, shutdown and clear.                               *)
(***************************************************************************)
EXTENDS AbsQueue, FiniteSetTheorems, SequenceTheorems, TLAPS

-----------------------------------------------------------------------------
(* Types *)

\* What the producers' control points say of sent: without it TypeOK is not
\* inductive, because nothing else bounds the item PushCount makes.
SentInv ==
  \A p \in Producers :
    /\ ppc[p] = "count" => sent[p] < PushLimit
    /\ ppc[p] = "insert" => sent[p] >= 1

TypeInv == TypeOK /\ SentInv

\* The initial state is well typed.
LEMMA InitType == Init => TypeInv
<1> SUFFICES ASSUME Init PROVE TypeInv
  OBVIOUS
<1>1. buffer \in Seq(Items)
  BY EmptySeq DEF Init
<1>2. NothingSeen \in [of : {"completed", "inCount"}, val : Nat]
  BY DEF NothingSeen
<1>3. TypeOK
  <2>1. seen \in [Consumers \union Joiners -> [of : {"completed", "inCount"}, val : Nat]]
    BY <1>2 DEF Init
  <2>2. sent \in [Producers -> 0..PushLimit]
    BY QueueAssumption DEF Init
  <2> QED
    BY <1>1, <2>1, <2>2 DEF Init, TypeOK
<1>4. SentInv
  BY DEF Init, SentInv
<1> QED
  BY <1>3, <1>4 DEF TypeInv

\* No step of push() spoils a type.
LEMMA ProducerType ==
  ASSUME TypeInv, NEW p \in Producers, PushEnter(p) \/ ProducerStep(p)
  PROVE  TypeInv'
<1> USE QueueAssumption DEF TypeInv, TypeOK, SentInv, Items, counters, flags, history
<1>1. CASE PushEnter(p)
  BY <1>1 DEF PushEnter
<1>2. CASE PushCount(p)
  BY <1>2 DEF PushCount
<1>3. CASE PushInsert(p)
  <2>1. <<p, sent[p]>> \in Items
    BY <1>3 DEF PushInsert
  <2>2. buffer' \in Seq(Items)
    BY <1>3, <2>1, AppendProperties DEF PushInsert
  <2> QED
    BY <1>3, <2>2 DEF PushInsert
<1>4. CASE PushTest(p)
  BY <1>4 DEF PushTest
<1>5. CASE PushNotify(p)
  BY <1>5 DEF PushNotify, Asleep
<1> QED
  BY <1>1, <1>2, <1>3, <1>4, <1>5 DEF ProducerStep

\* No step of pop() or task_done() spoils a type.
LEMMA ConsumerType ==
  ASSUME TypeInv, NEW c \in Consumers, ConsumerStep(c) \/ SpuriousWake(c)
  PROVE  TypeInv'
<1> USE QueueAssumption DEF TypeInv, TypeOK, SentInv, counters, flags, history
<1>1. CASE PopTake(c)
  <2>1. buffer # <<>>
    BY <1>1 DEF PopTake, MustWait
  <2>2. Head(buffer) \in Items /\ Tail(buffer) \in Seq(Items)
    BY <2>1, HeadTailProperties
  <2> QED
    BY <1>1, <2>2 DEF PopTake
<1>2. CASE PopThrow(c)
  BY <1>2 DEF PopThrow
<1>3. CASE PopPark(c)
  BY <1>3 DEF PopPark
<1>4. CASE PopSleep(c)
  BY <1>4 DEF PopSleep
<1>5. CASE DoneCount(c)
  BY <1>5 DEF DoneCount
<1>6. CASE DoneRead1(c)
  BY <1>6 DEF DoneRead1, Counter
<1>7. CASE DoneRead2(c)
  BY <1>7 DEF DoneRead2, NothingSeen
<1>8. CASE DoneWake(c)
  BY <1>8 DEF DoneWake
<1>9. CASE SpuriousWake(c)
  BY <1>9 DEF SpuriousWake
<1> QED
  BY <1>1, <1>2, <1>3, <1>4, <1>5, <1>6, <1>7, <1>8, <1>9 DEF ConsumerStep

\* No step of join() spoils a type.
LEMMA JoinerType ==
  ASSUME TypeInv, NEW j \in Joiners,
         JoinCall(j) \/ JoinerStep(j) \/ JoinSpuriousWake(j)
  PROVE  TypeInv'
<1> USE QueueAssumption DEF TypeInv, TypeOK, SentInv, counters, flags, history
<1>1. CASE JoinCall(j)
  BY <1>1 DEF JoinCall
<1>2. CASE JoinLock(j)
  BY <1>2 DEF JoinLock
<1>3. CASE JoinRead1(j)
  BY <1>3 DEF JoinRead1, Counter
<1>4. CASE JoinReturn(j)
  BY <1>4 DEF JoinReturn, NothingSeen
<1>5. CASE JoinPark(j)
  BY <1>5 DEF JoinPark, NothingSeen
<1>6. CASE JoinSleep(j)
  BY <1>6 DEF JoinSleep
<1>7. CASE JoinSpuriousWake(j)
  BY <1>7 DEF JoinSpuriousWake
<1> QED
  BY <1>1, <1>2, <1>3, <1>4, <1>5, <1>6, <1>7 DEF JoinerStep

\* TypeInv is inductive.
LEMMA NextType == TypeInv /\ [Next]_vars => TypeInv'
<1> SUFFICES ASSUME TypeInv, [Next]_vars PROVE TypeInv'
  OBVIOUS
<1>1. ASSUME NEW g \in Gates, Hold(g) \/ Release(g) \/ ReleaseNotify(g)
      PROVE  TypeInv'
  <2>1. WakeAll \in [Consumers -> {"pop", "park", "asleep", "work", "read", "read2",
                                   "wake", "gone"}]
    BY DEF WakeAll, TypeInv, TypeOK
  <2> USE DEF TypeInv, TypeOK, SentInv, counters, flags, history
  <2>2. CASE Hold(g)
    BY <2>2 DEF Hold
  <2>3. CASE Release(g)
    BY <2>3 DEF Release
  <2>4. CASE ReleaseNotify(g)
    BY <2>4, <2>1 DEF ReleaseNotify
  <2> QED
    BY <1>1, <2>2, <2>3, <2>4
<1>2. CASE Shutdown \/ Clear
  BY <1>2, EmptySeq, ZenonT(60) DEF Shutdown, Clear, WakeAll, TypeInv, TypeOK, SentInv,
              counters, flags, history
<1>3. CASE UNCHANGED vars
  BY <1>3 DEF vars, TypeInv, TypeOK, SentInv, counters, flags, history
<1> QED
  BY <1>1, <1>2, <1>3, ProducerType, ConsumerType, JoinerType DEF Next

\* Every reachable state is well typed, whatever the threads and PushLimit.
THEOREM TypeCorrect == Spec => []TypeOK
<1>1. Spec => []TypeInv
  BY InitType, NextType, PTL DEF Spec
<1>2. TypeInv => TypeOK
  BY DEF TypeInv
<1> QED
  BY <1>1, <1>2, PTL
-----------------------------------------------------------------------------
(* Locks and shutdown *)

\* Who holds a mutex between two of its steps.
LockInv ==
  /\ \A c \in Consumers : cpc[c] = "park" <=> mylock = c
  /\ \A j \in Joiners : jpc[j] \in {"first", "second", "park"} <=> joinlock = j

\* LockInv is inductive, and shutdown() finds nobody parked.
LEMMA NextLocks ==
  ASSUME TypeInv, LockInv, ShutdownReleasesAll, [Next]_vars
  PROVE  LockInv' /\ ShutdownReleasesAll'
<1> USE QueueAssumption
    DEF TypeInv, TypeOK, LockInv, ShutdownReleasesAll, counters, flags, history
<1>1. ASSUME NEW p \in Producers, PushEnter(p) \/ ProducerStep(p)
      PROVE  LockInv' /\ ShutdownReleasesAll'
  BY <1>1 DEF PushEnter, ProducerStep, PushCount, PushInsert, PushTest, PushNotify,
              Asleep
<1>2. ASSUME NEW c \in Consumers,
             PopTake(c) \/ PopThrow(c) \/ PopPark(c) \/ PopSleep(c) \/ SpuriousWake(c)
      PROVE  LockInv' /\ ShutdownReleasesAll'
  BY <1>2 DEF PopTake, PopThrow, PopPark, PopSleep, SpuriousWake, MustWait
<1>3. ASSUME NEW c \in Consumers,
             DoneCount(c) \/ DoneRead1(c) \/ DoneRead2(c) \/ DoneWake(c)
      PROVE  LockInv' /\ ShutdownReleasesAll'
  BY <1>3 DEF DoneCount, DoneRead1, DoneRead2, DoneWake
<1>4. ASSUME NEW j \in Joiners, JoinCall(j) \/ JoinerStep(j) \/ JoinSpuriousWake(j)
      PROVE  LockInv' /\ ShutdownReleasesAll'
  <2>1. CASE JoinCall(j) \/ JoinRead1(j) \/ JoinPark(j) \/ JoinSpuriousWake(j)
    BY <2>1 DEF JoinCall, JoinRead1, JoinPark, JoinSpuriousWake
  <2>2. CASE JoinLock(j)
    BY <2>2 DEF JoinLock
  <2>3. CASE JoinReturn(j) \/ JoinSleep(j)
    <3>1. /\ jpc[j] \in {"second", "park"} /\ joinlock = j
          /\ joinlock' = NoThread /\ UNCHANGED <<cpc, mylock, ready>>
          /\ \E v \in {"returned", "asleep"} : jpc' = [jpc EXCEPT ![j] = v]
      BY <2>3 DEF JoinReturn, JoinSleep
    <3> QED
      BY <3>1
  <2> QED
    BY <1>4, <2>1, <2>2, <2>3 DEF JoinerStep
<1>5. ASSUME NEW g \in Gates, Hold(g) \/ Release(g) \/ ReleaseNotify(g)
      PROVE  LockInv' /\ ShutdownReleasesAll'
  BY <1>5 DEF Hold, Release, ReleaseNotify, WakeAll
<1>6. CASE Shutdown \/ Clear
  BY <1>6 DEF Shutdown, Clear, WakeAll
<1>7. CASE UNCHANGED vars
  BY <1>7 DEF vars
<1> QED
  BY <1>1, <1>2, <1>3, <1>4, <1>5, <1>6, <1>7 DEF Next, ConsumerStep

\* The mutexes are held as LockInv says, in every reachable state.
LEMMA LocksCorrect == Spec => [](TypeInv /\ LockInv /\ ShutdownReleasesAll)
<1>1. Init => LockInv /\ ShutdownReleasesAll
  BY QueueAssumption DEF Init, LockInv, ShutdownReleasesAll
<1> QED
  BY <1>1, InitType, NextType, NextLocks, PTL DEF Spec

\* No schedule leaves a consumer waiting in pop() on a queue that was shut down.
THEOREM ShutdownReleases == Spec => []ShutdownReleasesAll
  BY LocksCorrect, PTL

-----------------------------------------------------------------------------
(* Items and the counters join() reads *)

\* A counted item is in exactly one place, or was discarded: in its producer's
\* hand, in one slot of the buffer, or with one consumer.
NumberInv == \A i \in outstanding : i[2] <= sent[i[1]]

HandInv ==
  \A p \in Producers : ppc[p] = "insert" =>
    /\ <<p, sent[p]>> \in outstanding
    /\ \A k \in 1..Len(buffer) : buffer[k] # <<p, sent[p]>>
    /\ \A c \in Consumers : item[c] # <<p, sent[p]>>

BufferInv ==
  \A k \in 1..Len(buffer) :
    /\ buffer[k] \in outstanding
    /\ \A m \in 1..Len(buffer) : m # k => buffer[m] # buffer[k]
    /\ \A c \in Consumers : item[c] # buffer[k]

HeldInv ==
  \A c \in Consumers :
    /\ cpc[c] = "work" <=> item[c] # NoItem
    /\ cpc[c] = "work" => item[c] \in outstanding
    /\ \A d \in Consumers : cpc[c] = "work" /\ item[c] = item[d] => c = d

ItemInv == NumberInv /\ HandInv /\ BufferInv /\ HeldInv

\* The first conjunct of CountersAgree.
CountInv ==
  /\ IsFiniteSet(outstanding)
  /\ Cardinality(outstanding) = inCount - completed

\* The item in_count++ announces is new.
LEMMA PushCountItems ==
  ASSUME TypeInv, ItemInv, NEW p \in Producers, PushCount(p)
  PROVE  ItemInv' /\ <<p, sent[p] + 1>> \notin outstanding
<1> DEFINE new == <<p, sent[p] + 1>>
<1>1. /\ ppc[p] = "count" /\ ppc' = [ppc EXCEPT ![p] = "insert"]
      /\ sent' = [sent EXCEPT ![p] = sent[p] + 1]
      /\ outstanding' = outstanding \union {new}
      /\ UNCHANGED <<buffer, item, cpc>>
  BY DEF PushCount, TypeInv, TypeOK, counters, flags
<1>2. sent[p] \in Nat /\ sent'[p] = sent[p] + 1 /\ new # NoItem
  BY <1>1, QueueAssumption DEF TypeInv, TypeOK
<1>3. new \notin outstanding
  BY <1>2 DEF ItemInv, NumberInv
<1>4. \A k \in 1..Len(buffer) : buffer[k] # new
  BY <1>3 DEF ItemInv, BufferInv
<1>5. \A c \in Consumers : item[c] # new
  BY <1>2, <1>3 DEF ItemInv, HeldInv
<1>6. NumberInv'
  <2> SUFFICES ASSUME NEW i \in outstanding' PROVE i[2] <= sent'[i[1]]
    BY DEF NumberInv
  <2>1. CASE i = new
    BY <2>1, <1>2
  <2>2. CASE i \in outstanding
    BY <2>2, <1>1, QueueAssumption DEF ItemInv, NumberInv, TypeInv, TypeOK, Items
  <2> QED
    BY <2>1, <2>2, <1>1
<1>7. HandInv'
  <2> SUFFICES ASSUME NEW q \in Producers, ppc'[q] = "insert"
               PROVE  /\ <<q, sent'[q]>> \in outstanding'
                      /\ \A k \in 1..Len(buffer') : buffer'[k] # <<q, sent'[q]>>
                      /\ \A c \in Consumers : item'[c] # <<q, sent'[q]>>
    BY DEF HandInv
  <2>1. CASE q = p
    BY <2>1, <1>1, <1>2, <1>4, <1>5
  <2>2. CASE q # p
    BY <2>2, <1>1 DEF ItemInv, HandInv, TypeInv, TypeOK
  <2> QED
    BY <2>1, <2>2
<1>8. BufferInv' /\ HeldInv'
  BY <1>1 DEF ItemInv, BufferInv, HeldInv
<1> QED
  BY <1>3, <1>6, <1>7, <1>8 DEF ItemInv

\* Inserting moves an item from the hand to the buffer.
LEMMA PushInsertItems ==
  ASSUME TypeInv, ItemInv, NEW p \in Producers, PushInsert(p)
  PROVE  ItemInv'
<1> DEFINE new == <<p, sent[p]>>
<1>1. /\ ppc[p] = "insert" /\ ppc' = [ppc EXCEPT ![p] = "test"]
      /\ buffer' = Append(buffer, new)
      /\ UNCHANGED <<outstanding, sent, item, cpc>>
  BY DEF PushInsert, history
<1>2. new \in Items
  BY <1>1, QueueAssumption DEF TypeInv, TypeOK, SentInv, Items
<1>3. /\ Len(buffer) \in Nat /\ Len(buffer') = Len(buffer) + 1
      /\ \A k \in 1..Len(buffer) : buffer'[k] = buffer[k]
      /\ buffer'[Len(buffer) + 1] = new
  BY <1>1, <1>2, AppendProperties, LenProperties DEF TypeInv, TypeOK
<1>4. /\ new \in outstanding
      /\ \A k \in 1..Len(buffer) : buffer[k] # new
      /\ \A c \in Consumers : item[c] # new
  BY <1>1 DEF ItemInv, HandInv
<1>5. NumberInv' /\ HeldInv'
  BY <1>1 DEF ItemInv, NumberInv, HeldInv
<1>6. HandInv'
  <2> SUFFICES ASSUME NEW q \in Producers, ppc'[q] = "insert"
               PROVE  /\ <<q, sent[q]>> \in outstanding
                      /\ \A k \in 1..Len(buffer') : buffer'[k] # <<q, sent[q]>>
                      /\ \A c \in Consumers : item[c] # <<q, sent[q]>>
    BY <1>1 DEF HandInv
  <2>1. q # p /\ ppc[q] = "insert"
    BY <1>1 DEF TypeInv, TypeOK
  <2>2. <<q, sent[q]>> # new
    BY <2>1
  <2> QED
    BY <2>1, <2>2, <1>3 DEF ItemInv, HandInv
<1>7. BufferInv'
  <2> SUFFICES ASSUME NEW k \in 1..Len(buffer')
               PROVE  /\ buffer'[k] \in outstanding
                      /\ \A m \in 1..Len(buffer') : m # k => buffer'[m] # buffer'[k]
                      /\ \A c \in Consumers : item[c] # buffer'[k]
    BY <1>1 DEF BufferInv
  <2>1. CASE k = Len(buffer) + 1
    BY <2>1, <1>3, <1>4
  <2>2. CASE k \in 1..Len(buffer)
    <3>1. buffer'[k] = buffer[k] /\ buffer[k] # new
      BY <2>2, <1>3, <1>4
    <3> QED
      BY <2>2, <3>1, <1>3 DEF ItemInv, BufferInv
  <2> QED
    BY <2>1, <2>2, <1>3
<1> QED
  BY <1>5, <1>6, <1>7 DEF ItemInv

\* Taking moves the oldest item from the buffer to one consumer.
LEMMA PopTakeItems ==
  ASSUME TypeInv, ItemInv, NEW c \in Consumers, PopTake(c)
  PROVE  ItemInv'
<1>1. /\ cpc[c] = "pop" /\ cpc' = [cpc EXCEPT ![c] = "work"]
      /\ buffer # <<>>
      /\ item' = [item EXCEPT ![c] = Head(buffer)]
      /\ buffer' = Tail(buffer)
      /\ UNCHANGED <<outstanding, sent, ppc>>
  BY DEF PopTake, MustWait, history
<1>2. /\ Len(buffer) \in Nat /\ Len(buffer) >= 1
      /\ Len(buffer') = Len(buffer) - 1
      /\ \A k \in 1..Len(buffer') : buffer'[k] = buffer[k + 1]
      /\ Head(buffer) = buffer[1]
  BY <1>1, HeadTailProperties, LenProperties, EmptySeq DEF TypeInv, TypeOK
<1>3. /\ buffer[1] \in outstanding
      /\ \A m \in 1..Len(buffer) : m # 1 => buffer[m] # buffer[1]
      /\ \A d \in Consumers : item[d] # buffer[1]
  BY <1>2 DEF ItemInv, BufferInv
<1>4. buffer[1] # NoItem
  BY <1>3, QueueAssumption DEF TypeInv, TypeOK, Items
<1>5. item'[c] = buffer[1] /\ \A d \in Consumers \ {c} : item'[d] = item[d]
  BY <1>1, <1>2 DEF TypeInv, TypeOK
<1>6. NumberInv'
  BY <1>1 DEF ItemInv, NumberInv
<1>7. HandInv'
  <2> SUFFICES ASSUME NEW q \in Producers, ppc[q] = "insert"
               PROVE  /\ <<q, sent[q]>> \in outstanding
                      /\ \A k \in 1..Len(buffer') : buffer'[k] # <<q, sent[q]>>
                      /\ \A d \in Consumers : item'[d] # <<q, sent[q]>>
    BY <1>1 DEF HandInv
  <2>1. /\ <<q, sent[q]>> \in outstanding
        /\ \A k \in 1..Len(buffer) : buffer[k] # <<q, sent[q]>>
        /\ \A d \in Consumers : item[d] # <<q, sent[q]>>
    BY DEF ItemInv, HandInv
  <2> QED
    BY <2>1, <1>2, <1>5
<1>8. BufferInv'
  <2> SUFFICES ASSUME NEW k \in 1..Len(buffer')
               PROVE  /\ buffer'[k] \in outstanding
                      /\ \A m \in 1..Len(buffer') : m # k => buffer'[m] # buffer'[k]
                      /\ \A d \in Consumers : item'[d] # buffer'[k]
    BY <1>1 DEF BufferInv
  <2>1. k + 1 \in 1..Len(buffer) /\ buffer'[k] = buffer[k + 1]
    BY <1>2
  <2>2. /\ buffer[k + 1] \in outstanding
        /\ \A m \in 1..Len(buffer) : m # k + 1 => buffer[m] # buffer[k + 1]
        /\ \A d \in Consumers : item[d] # buffer[k + 1]
    BY <2>1 DEF ItemInv, BufferInv
  <2>3. \A m \in 1..Len(buffer') : m # k => buffer'[m] # buffer'[k]
    BY <2>1, <2>2, <1>2
  <2> QED
    BY <2>1, <2>2, <2>3, <1>3, <1>5
<1>9. HeldInv'
  <2> SUFFICES ASSUME NEW d \in Consumers
               PROVE  /\ cpc'[d] = "work" <=> item'[d] # NoItem
                      /\ cpc'[d] = "work" => item'[d] \in outstanding
                      /\ \A e \in Consumers :
                           cpc'[d] = "work" /\ item'[d] = item'[e] => d = e
    BY <1>1 DEF HeldInv
  <2>1. CASE d = c
    BY <2>1, <1>1, <1>3, <1>4, <1>5 DEF TypeInv, TypeOK
  <2>2. CASE d # c
    BY <2>2, <1>1, <1>3, <1>5 DEF TypeInv, TypeOK, ItemInv, HeldInv
  <2> QED
    BY <2>1, <2>2
<1> QED
  BY <1>6, <1>7, <1>8, <1>9 DEF ItemInv

\* completed++ finishes an item that was outstanding.
LEMMA DoneCountItems ==
  ASSUME TypeInv, ItemInv, NEW c \in Consumers, DoneCount(c)
  PROVE  ItemInv' /\ item[c] \in outstanding
<1>1. /\ cpc[c] = "work" /\ cpc' = [cpc EXCEPT ![c] = "read"]
      /\ item' = [item EXCEPT ![c] = NoItem]
      /\ outstanding' = outstanding \ {item[c]}
      /\ UNCHANGED <<buffer, sent, ppc>>
  BY DEF DoneCount
<1>2. item[c] \in outstanding /\ \A d \in Consumers \ {c} : item[d] # item[c]
  BY <1>1 DEF ItemInv, HeldInv
<1>3. NumberInv'
  BY <1>1 DEF ItemInv, NumberInv
<1>4. \A i \in outstanding : i # NoItem
  BY QueueAssumption DEF TypeInv, TypeOK, Items
<1>5. HandInv'
  BY <1>1, <1>4 DEF ItemInv, HandInv, TypeInv, TypeOK
<1>6. BufferInv'
  BY <1>1, <1>4 DEF ItemInv, BufferInv, TypeInv, TypeOK
<1>7. HeldInv'
  BY <1>1, <1>2 DEF ItemInv, HeldInv, TypeInv, TypeOK
<1> QED
  BY <1>2, <1>3, <1>5, <1>6, <1>7 DEF ItemInv

\* Emptying the buffer leaves every other item where it is.
LEMMA DiscardItems ==
  ASSUME TypeInv, ItemInv, Shutdown \/ Clear
  PROVE  ItemInv'
<1>1. /\ buffer' = <<>> /\ UNCHANGED <<outstanding, sent, ppc, item>>
      /\ \A c \in Consumers : cpc'[c] = "work" <=> cpc[c] = "work"
  BY DEF Shutdown, Clear, WakeAll, TypeInv, TypeOK, history
<1> QED
  BY <1>1 DEF ItemInv, NumberInv, HandInv, BufferInv, HeldInv

\* The steps that move no item and bring no thread into or out of a state in
\* which it has one.
LEMMA SameItems ==
  ASSUME TypeInv, ItemInv,
         UNCHANGED <<outstanding, sent, item, buffer>>,
         \A p \in Producers : ppc'[p] = "insert" <=> ppc[p] = "insert",
         \A c \in Consumers : cpc'[c] = "work" <=> cpc[c] = "work"
  PROVE  ItemInv'
  BY DEF ItemInv, NumberInv, HandInv, BufferInv, HeldInv

\* ItemInv is inductive.
LEMMA NextItems ==
  ASSUME TypeInv, ItemInv, [Next]_vars
  PROVE  ItemInv'
<1> USE DEF counters, flags, history
<1>1. ASSUME NEW p \in Producers, PushEnter(p) \/ PushTest(p) \/ PushNotify(p)
      PROVE  ItemInv'
  <2>1. /\ UNCHANGED <<outstanding, sent, item, buffer>>
        /\ \A q \in Producers : ppc'[q] = "insert" <=> ppc[q] = "insert"
        /\ \A c \in Consumers : cpc'[c] = "work" <=> cpc[c] = "work"
    BY <1>1 DEF PushEnter, PushTest, PushNotify, Asleep, TypeInv, TypeOK
  <2> QED
    BY <2>1, SameItems
<1>2. ASSUME NEW c \in Consumers,
             \/ PopThrow(c) \/ PopPark(c) \/ PopSleep(c) \/ SpuriousWake(c)
             \/ DoneRead1(c) \/ DoneRead2(c) \/ DoneWake(c)
      PROVE  ItemInv'
  <2>1. /\ UNCHANGED <<outstanding, sent, item, buffer, ppc>>
        /\ \E v \in {"gone", "park", "asleep", "pop", "read2", "wake"} :
             cpc' = [cpc EXCEPT ![c] = v]
        /\ cpc[c] # "work"
    BY <1>2 DEF PopThrow, PopPark, PopSleep, SpuriousWake, DoneRead1, DoneRead2,
                DoneWake
  <2>2. \A d \in Consumers : cpc'[d] = "work" <=> cpc[d] = "work"
    BY <2>1 DEF TypeInv, TypeOK
  <2> QED
    BY <2>1, <2>2, SameItems
<1>3. ASSUME NEW j \in Joiners, JoinCall(j) \/ JoinerStep(j) \/ JoinSpuriousWake(j)
      PROVE  ItemInv'
  <2>1. UNCHANGED <<outstanding, sent, item, buffer, ppc, cpc>>
    BY <1>3 DEF JoinCall, JoinerStep, JoinLock, JoinRead1, JoinReturn, JoinPark,
                JoinSleep, JoinSpuriousWake
  <2> QED
    BY <2>1, SameItems
<1>4. ASSUME NEW g \in Gates, Hold(g) \/ Release(g) \/ ReleaseNotify(g)
      PROVE  ItemInv'
  <2>1. /\ UNCHANGED <<outstanding, sent, item, buffer, ppc>>
        /\ \A c \in Consumers : cpc'[c] = "work" <=> cpc[c] = "work"
    BY <1>4 DEF Hold, Release, ReleaseNotify, WakeAll
  <2> QED
    BY <2>1, SameItems
<1>5. CASE UNCHANGED vars
  BY <1>5, SameItems DEF vars
<1> QED
  BY <1>1, <1>2, <1>3, <1>4, <1>5, PushCountItems, PushInsertItems, PopTakeItems,
     DoneCountItems, DiscardItems DEF Next, ProducerStep, ConsumerStep

\* CountInv is inductive, given ItemInv.
LEMMA NextCount ==
  ASSUME TypeInv, ItemInv, CountInv, [Next]_vars
  PROVE  CountInv'
<1>1. ASSUME NEW p \in Producers, PushCount(p)
      PROVE  CountInv'
  <2>1. /\ outstanding' = outstanding \union {<<p, sent[p] + 1>>}
        /\ inCount' = inCount + 1 /\ completed' = completed
    BY <1>1 DEF PushCount, TypeInv, TypeOK
  <2>2. <<p, sent[p] + 1>> \notin outstanding
    BY <1>1, PushCountItems
  <2>3. /\ IsFiniteSet(outstanding')
        /\ Cardinality(outstanding') = Cardinality(outstanding) + 1
    BY <2>1, <2>2, FS_AddElement DEF CountInv
  <2> QED
    BY <2>1, <2>3 DEF CountInv, TypeInv, TypeOK
<1>2. ASSUME NEW c \in Consumers, DoneCount(c)
      PROVE  CountInv'
  <2>1. /\ outstanding' = outstanding \ {item[c]}
        /\ inCount' = inCount /\ completed' = completed + 1
    BY <1>2 DEF DoneCount
  <2>2. item[c] \in outstanding
    BY <1>2, DoneCountItems
  <2>3. /\ IsFiniteSet(outstanding')
        /\ Cardinality(outstanding') = Cardinality(outstanding) - 1
    BY <2>1, <2>2, FS_RemoveElement DEF CountInv
  <2> QED
    BY <2>1, <2>3 DEF CountInv, TypeInv, TypeOK
<1>3. ASSUME UNCHANGED <<outstanding, inCount, completed>>
      PROVE  CountInv'
  BY <1>3 DEF CountInv
<1>4. ASSUME NEW p \in Producers,
             PushEnter(p) \/ PushInsert(p) \/ PushTest(p) \/ PushNotify(p)
      PROVE  CountInv'
  BY <1>3, <1>4 DEF PushEnter, PushInsert, PushTest, PushNotify, counters, history
<1>5. ASSUME NEW c \in Consumers,
             \/ PopTake(c) \/ PopThrow(c) \/ PopPark(c) \/ PopSleep(c) \/ SpuriousWake(c)
             \/ DoneRead1(c) \/ DoneRead2(c) \/ DoneWake(c)
      PROVE  CountInv'
  BY <1>3, <1>5 DEF PopTake, PopThrow, PopPark, PopSleep, SpuriousWake, DoneRead1,
                    DoneRead2, DoneWake, counters, history
<1>6. ASSUME NEW j \in Joiners, JoinCall(j) \/ JoinerStep(j) \/ JoinSpuriousWake(j)
      PROVE  CountInv'
  BY <1>3, <1>6 DEF JoinCall, JoinerStep, JoinLock, JoinRead1, JoinReturn, JoinPark,
                    JoinSleep, JoinSpuriousWake, counters, history
<1>7. ASSUME NEW g \in Gates, Hold(g) \/ Release(g) \/ ReleaseNotify(g)
      PROVE  CountInv'
  BY <1>3, <1>7 DEF Hold, Release, ReleaseNotify, counters, history
<1>8. CASE Shutdown \/ Clear \/ UNCHANGED vars
  BY <1>3, <1>8 DEF Shutdown, Clear, vars, counters, history
<1> QED
  BY <1>1, <1>2, <1>4, <1>5, <1>6, <1>7, <1>8 DEF Next, ProducerStep, ConsumerStep

\* Items and counters agree in every reachable state.
LEMMA ItemsCorrect == Spec => [](TypeInv /\ ItemInv /\ CountInv)
<1>1. Init => ItemInv /\ CountInv
  <2> SUFFICES ASSUME Init PROVE ItemInv /\ CountInv
    OBVIOUS
  <2>1. CountInv
    BY FS_EmptySet DEF Init, CountInv
  <2>2. ItemInv
    BY DEF Init, ItemInv, NumberInv, HandInv, BufferInv, HeldInv
  <2> QED
    BY <2>1, <2>2
<1> QED
  BY <1>1, InitType, NextType, NextItems, NextCount, PTL DEF Spec
-----------------------------------------------------------------------------
(* The counters *)

\* The second conjunct of CountersAgree.
WorkingInv ==
  /\ IsFiniteSet(Working)
  /\ Cardinality(Working) = outCount - completed

\* The other two.
StockInv ==
  /\ IsFiniteSet(InHand)
  /\ inCount - outCount >= Len(buffer) + Cardinality(InHand)
  /\ ~(CanShutdown \/ CanClear) => inCount - outCount = Len(buffer) + Cardinality(InHand)

\* pop() and task_done() bring a consumer to its item and away from it.
LEMMA WorkingSteps ==
  ASSUME TypeInv, WorkingInv, NEW c \in Consumers
  PROVE  /\ PopTake(c) => WorkingInv'
         /\ DoneCount(c) => WorkingInv'
<1>1. ASSUME PopTake(c) PROVE WorkingInv'
  <2>1. /\ cpc[c] = "pop" /\ cpc' = [cpc EXCEPT ![c] = "work"]
        /\ outCount' = outCount + 1 /\ completed' = completed
    BY <1>1 DEF PopTake
  <2>2. Working' = Working \union {c} /\ c \notin Working
    BY <2>1 DEF Working, TypeInv, TypeOK
  <2>3. IsFiniteSet(Working') /\ Cardinality(Working') = Cardinality(Working) + 1
    BY <2>2, FS_AddElement DEF WorkingInv
  <2> QED
    BY <2>1, <2>3 DEF WorkingInv, TypeInv, TypeOK
<1>2. ASSUME DoneCount(c) PROVE WorkingInv'
  <2>1. /\ cpc[c] = "work" /\ cpc' = [cpc EXCEPT ![c] = "read"]
        /\ outCount' = outCount /\ completed' = completed + 1
    BY <1>2 DEF DoneCount
  <2>2. Working' = Working \ {c} /\ c \in Working
    BY <2>1 DEF Working, TypeInv, TypeOK
  <2>3. IsFiniteSet(Working') /\ Cardinality(Working') = Cardinality(Working) - 1
    BY <2>2, FS_RemoveElement DEF WorkingInv
  <2> QED
    BY <2>1, <2>3 DEF WorkingInv, TypeInv, TypeOK
<1> QED
  BY <1>1, <1>2

\* An item in hand becomes an item in the buffer.
LEMMA StockPush ==
  ASSUME TypeInv, StockInv, NEW p \in Producers
  PROVE  /\ PushCount(p) => StockInv'
         /\ PushInsert(p) => StockInv'
<1>1. IsFiniteSet(InHand) /\ Cardinality(InHand) \in Nat /\ Len(buffer) \in Nat
  BY FS_CardinalityType, LenProperties DEF StockInv, TypeInv, TypeOK
<1>2. ASSUME PushCount(p) PROVE StockInv'
  <2> DEFINE new == <<p, sent[p] + 1>>
  <2>1. /\ ppc[p] = "count" /\ ppc' = [ppc EXCEPT ![p] = "insert"]
        /\ sent' = [sent EXCEPT ![p] = sent[p] + 1]
        /\ inCount' = inCount + 1 /\ UNCHANGED <<outCount, buffer>>
    BY <1>2 DEF PushCount, TypeInv, TypeOK
  <2>2. InHand' = InHand \union {new} /\ new \notin InHand
    BY <2>1 DEF InHand, TypeInv, TypeOK
  <2>3. IsFiniteSet(InHand') /\ Cardinality(InHand') = Cardinality(InHand) + 1
    BY <1>1, <2>2, FS_AddElement
  <2> QED
    BY <1>1, <2>1, <2>3 DEF StockInv, TypeInv, TypeOK
<1>3. ASSUME PushInsert(p) PROVE StockInv'
  <2> DEFINE old == <<p, sent[p]>>
  <2>1. /\ ppc[p] = "insert" /\ ppc' = [ppc EXCEPT ![p] = "test"]
        /\ buffer' = Append(buffer, old)
        /\ UNCHANGED <<sent, inCount, outCount>>
    BY <1>3 DEF PushInsert, counters
  <2>2. InHand' = InHand \ {old} /\ old \in InHand
    BY <2>1 DEF InHand, TypeInv, TypeOK
  <2>3. IsFiniteSet(InHand') /\ Cardinality(InHand') = Cardinality(InHand) - 1
    BY <1>1, <2>2, FS_RemoveElement
  <2>4. Len(buffer') = Len(buffer) + 1
    <3>1. buffer \in Seq(Items \union {old})
      BY DEF TypeInv, TypeOK
    <3> QED
      BY <2>1, <3>1, AppendProperties
  <2> QED
    BY <1>1, <2>1, <2>3, <2>4 DEF StockInv, TypeInv, TypeOK
<1> QED
  BY <1>2, <1>3

\* An item leaves the buffer when it is counted out.
LEMMA StockPop ==
  ASSUME TypeInv, StockInv, NEW c \in Consumers, PopTake(c)
  PROVE  StockInv'
<1>1. /\ buffer # <<>> /\ buffer' = Tail(buffer)
      /\ outCount' = outCount + 1 /\ UNCHANGED <<inCount, ppc, sent>>
  BY DEF PopTake, MustWait
<1>2. Len(buffer') = Len(buffer) - 1
  BY <1>1, HeadTailProperties DEF TypeInv, TypeOK
<1>3. InHand' = InHand
  BY <1>1 DEF InHand
<1>4. Cardinality(InHand) \in Nat /\ Len(buffer) \in Nat
  BY FS_CardinalityType, LenProperties DEF StockInv, TypeInv, TypeOK
<1> QED
  BY <1>1, <1>2, <1>3, <1>4 DEF StockInv, TypeInv, TypeOK

\* What is thrown away was counted in and is never counted out.
LEMMA StockDiscard ==
  ASSUME TypeInv, StockInv, Shutdown \/ Clear
  PROVE  StockInv'
<1>1. buffer' = <<>> /\ UNCHANGED <<inCount, outCount, ppc, sent>>
      /\ (CanShutdown \/ CanClear)
  BY DEF Shutdown, Clear, counters
<1>2. InHand' = InHand
  BY <1>1 DEF InHand
<1>3. Cardinality(InHand) \in Nat /\ Len(buffer) \in Nat /\ Len(buffer') = 0
  BY <1>1, FS_CardinalityType, LenProperties, EmptySeq DEF StockInv, TypeInv, TypeOK
<1> QED
  BY <1>1, <1>2, <1>3 DEF StockInv, TypeInv, TypeOK

\* No other step brings a consumer to an item or away from one.
LEMMA WorkingElsewhere ==
  ASSUME TypeInv, WorkingInv, [Next]_vars,
         \A c \in Consumers : ~PopTake(c) /\ ~DoneCount(c)
  PROVE  WorkingInv'
<1> USE DEF counters, flags, history
<1>1. SUFFICES /\ UNCHANGED <<outCount, completed>>
               /\ \A c \in Consumers : cpc'[c] = "work" <=> cpc[c] = "work"
  BY DEF WorkingInv, Working
<1>2. ASSUME NEW p \in Producers, PushEnter(p) \/ ProducerStep(p)
      PROVE  /\ UNCHANGED <<outCount, completed>>
             /\ \A c \in Consumers : cpc'[c] = "work" <=> cpc[c] = "work"
  BY <1>2 DEF PushEnter, ProducerStep, PushCount, PushInsert, PushTest, PushNotify,
              Asleep, TypeInv, TypeOK
<1>3. ASSUME NEW d \in Consumers, ConsumerStep(d) \/ SpuriousWake(d)
      PROVE  /\ UNCHANGED <<outCount, completed>>
             /\ \A c \in Consumers : cpc'[c] = "work" <=> cpc[c] = "work"
  BY <1>3 DEF ConsumerStep, PopThrow, PopPark, PopSleep, SpuriousWake, DoneRead1,
              DoneRead2, DoneWake, TypeInv, TypeOK
<1>4. ASSUME NEW j \in Joiners, JoinCall(j) \/ JoinerStep(j) \/ JoinSpuriousWake(j)
      PROVE  UNCHANGED <<outCount, completed, cpc>>
  BY <1>4 DEF JoinCall, JoinerStep, JoinLock, JoinRead1, JoinReturn, JoinPark,
              JoinSleep, JoinSpuriousWake
<1>5. ASSUME NEW g \in Gates, Hold(g) \/ Release(g) \/ ReleaseNotify(g)
      PROVE  /\ UNCHANGED <<outCount, completed>>
             /\ \A c \in Consumers : cpc'[c] = "work" <=> cpc[c] = "work"
  BY <1>5 DEF Hold, Release, ReleaseNotify, WakeAll
<1>6. CASE Shutdown \/ Clear \/ UNCHANGED vars
  BY <1>6 DEF Shutdown, Clear, WakeAll, vars
<1> QED
  BY <1>2, <1>3, <1>4, <1>5, <1>6 DEF Next

\* No other step moves an item.
LEMMA StockElsewhere ==
  ASSUME TypeInv, StockInv, [Next]_vars, ~Shutdown, ~Clear,
         \A p \in Producers : ~PushCount(p) /\ ~PushInsert(p),
         \A c \in Consumers : ~PopTake(c)
  PROVE  StockInv'
<1> USE DEF counters, flags, history
<1>1. SUFFICES /\ UNCHANGED <<inCount, outCount, buffer, sent>>
               /\ \A p \in Producers : ppc'[p] = "insert" <=> ppc[p] = "insert"
  <2>1. UNCHANGED sent /\ (\A p \in Producers : ppc'[p] = "insert" <=> ppc[p] = "insert")
          => InHand' = InHand
    BY DEF InHand
  <2> QED
    BY <2>1 DEF StockInv
<1>2. ASSUME NEW q \in Producers, PushEnter(q) \/ ProducerStep(q)
      PROVE  /\ UNCHANGED <<inCount, outCount, buffer, sent>>
             /\ \A p \in Producers : ppc'[p] = "insert" <=> ppc[p] = "insert"
  BY <1>2 DEF PushEnter, ProducerStep, PushTest, PushNotify, TypeInv, TypeOK
<1>3. ASSUME NEW c \in Consumers, ConsumerStep(c) \/ SpuriousWake(c)
      PROVE  UNCHANGED <<inCount, outCount, buffer, sent, ppc>>
  BY <1>3 DEF ConsumerStep, PopThrow, PopPark, PopSleep, SpuriousWake, DoneCount,
              DoneRead1, DoneRead2, DoneWake
<1>4. ASSUME NEW j \in Joiners, JoinCall(j) \/ JoinerStep(j) \/ JoinSpuriousWake(j)
      PROVE  UNCHANGED <<inCount, outCount, buffer, sent, ppc>>
  BY <1>4 DEF JoinCall, JoinerStep, JoinLock, JoinRead1, JoinReturn, JoinPark,
              JoinSleep, JoinSpuriousWake
<1>5. ASSUME NEW g \in Gates, Hold(g) \/ Release(g) \/ ReleaseNotify(g)
      PROVE  UNCHANGED <<inCount, outCount, buffer, sent, ppc>>
  BY <1>5 DEF Hold, Release, ReleaseNotify
<1>6. CASE UNCHANGED vars
  BY <1>6 DEF vars
<1> QED
  BY <1>2, <1>3, <1>4, <1>5, <1>6 DEF Next

\* The three public counters tell the truth about the items at every step, for
\* any number of threads.
THEOREM CountersTellTruth == Spec => []CountersAgree
<1>1. Init => WorkingInv /\ StockInv
  <2> SUFFICES ASSUME Init PROVE WorkingInv /\ StockInv
    OBVIOUS
  <2>1. Working = {} /\ InHand = {} /\ Len(buffer) = 0
    BY EmptySeq DEF Init, Working, InHand
  <2> QED
    BY <2>1, FS_EmptySet DEF Init, WorkingInv, StockInv
<1>2. TypeInv /\ WorkingInv /\ [Next]_vars => WorkingInv'
  BY WorkingSteps, WorkingElsewhere
<1>3. TypeInv /\ StockInv /\ [Next]_vars => StockInv'
  BY StockPush, StockPop, StockDiscard, StockElsewhere
<1>4. CountInv /\ WorkingInv /\ StockInv => CountersAgree
  BY DEF CountInv, WorkingInv, StockInv, CountersAgree
<1> QED
  BY <1>1, <1>2, <1>3, <1>4, ItemsCorrect, PTL DEF Spec

-----------------------------------------------------------------------------
(* join, when completed is the operand read first *)

\* A join() is owed only unfinished items.
OwedInv == \A j \in Joiners : owed[j] \subseteq outstanding

\* completed never decreases, so a first reading of it is a lower bound.
FirstReadInv ==
  \A j \in Joiners : jpc[j] = "second" =>
    seen[j].of = "completed" /\ seen[j].val <= completed

JoinInv == OwedInv /\ FirstReadInv /\ JoinDrains

\* When join() sees the counters equal, nothing is owed.
LEMMA JoinReturnDrains ==
  ASSUME TypeInv, CountInv, JoinInv, NEW j \in Joiners, JoinReturn(j)
  PROVE  owed[j] = {}
<1>1. seen[j].of = "completed" /\ seen[j].val <= completed /\ seen[j].val = inCount
  BY DEF JoinReturn, SeenEqual, JoinInv, FirstReadInv, Other, Counter
<1>2. Cardinality(outstanding) \in Nat
  BY FS_CardinalityType DEF CountInv
<1>3. seen[j].val \in Nat
  BY DEF TypeInv, TypeOK
<1>4. Cardinality(outstanding) = 0
  BY <1>1, <1>2, <1>3 DEF CountInv, TypeInv, TypeOK
<1>5. outstanding = {}
  BY <1>4, FS_EmptySet DEF CountInv
<1> QED
  BY <1>5 DEF JoinInv, OwedInv

\* JoinInv is inductive when completed is read first.
LEMMA NextJoin ==
  ASSUME FirstReads \subseteq {"completed"},
         TypeInv, CountInv, JoinInv, [Next]_vars
  PROVE  JoinInv'
<1> USE DEF counters, flags, history
<1>1. ASSUME NEW p \in Producers, PushEnter(p) \/ ProducerStep(p)
      PROVE  JoinInv'
  <2>1. /\ outstanding \subseteq outstanding'
        /\ UNCHANGED <<owed, jpc, seen, completed>>
    BY <1>1 DEF PushEnter, ProducerStep, PushCount, PushInsert, PushTest, PushNotify
  <2> QED
    BY <2>1 DEF JoinInv, OwedInv, FirstReadInv, JoinDrains
<1>2. ASSUME NEW c \in Consumers, DoneCount(c)
      PROVE  JoinInv'
  <2>1. /\ outstanding' = outstanding \ {item[c]}
        /\ owed' = [j \in Joiners |-> owed[j] \ {item[c]}]
        /\ completed' = completed + 1
        /\ UNCHANGED <<jpc, seen>>
    BY <1>2 DEF DoneCount
  <2>2. OwedInv' /\ JoinDrains'
    BY <2>1 DEF JoinInv, OwedInv, JoinDrains
  <2>3. FirstReadInv'
    BY <2>1 DEF JoinInv, FirstReadInv, TypeInv, TypeOK
  <2> QED
    BY <2>2, <2>3 DEF JoinInv
<1>3. ASSUME NEW c \in Consumers, DoneRead1(c) \/ DoneRead2(c)
      PROVE  JoinInv'
  <2>1. /\ \A j \in Joiners : seen'[j] = seen[j]
        /\ UNCHANGED <<outstanding, owed, jpc, completed>>
    BY <1>3, QueueAssumption DEF DoneRead1, DoneRead2, TypeInv, TypeOK
  <2> QED
    BY <2>1 DEF JoinInv, OwedInv, FirstReadInv, JoinDrains
<1>4. ASSUME NEW c \in Consumers, DoneWake(c)
      PROVE  JoinInv'
  <2>1. /\ jpc' = [j \in Joiners |-> IF jpc[j] = "asleep" THEN "lock" ELSE jpc[j]]
        /\ UNCHANGED <<outstanding, owed, seen, completed>>
    BY <1>4 DEF DoneWake
  <2> QED
    BY <2>1 DEF JoinInv, OwedInv, FirstReadInv, JoinDrains
<1>5. ASSUME NEW j \in Joiners, JoinCall(j)
      PROVE  JoinInv'
  BY <1>5 DEF JoinCall, JoinInv, OwedInv, FirstReadInv, JoinDrains, TypeInv, TypeOK
<1>6. ASSUME NEW j \in Joiners, JoinRead1(j)
      PROVE  JoinInv'
  <2>1. /\ jpc' = [jpc EXCEPT ![j] = "second"]
        /\ seen' = [seen EXCEPT ![j] = [of |-> "completed", val |-> completed]]
        /\ UNCHANGED <<outstanding, owed, completed>>
    BY <1>6 DEF JoinRead1, Counter
  <2>2. /\ seen'[j].of = "completed" /\ seen'[j].val = completed
        /\ \A k \in Joiners \ {j} : seen'[k] = seen[k]
    BY <2>1 DEF TypeInv, TypeOK
  <2> QED
    BY <2>1, <2>2 DEF JoinInv, OwedInv, FirstReadInv, JoinDrains, TypeInv, TypeOK
<1>7. ASSUME NEW j \in Joiners, JoinReturn(j)
      PROVE  JoinInv'
  <2>1. owed[j] = {}
    BY <1>7, JoinReturnDrains
  <2> QED
    BY <1>7, <2>1 DEF JoinReturn, JoinInv, OwedInv, FirstReadInv, JoinDrains,
                      TypeInv, TypeOK
<1>8. ASSUME NEW j \in Joiners,
             JoinLock(j) \/ JoinPark(j) \/ JoinSleep(j) \/ JoinSpuriousWake(j)
      PROVE  JoinInv'
  <2>1. /\ \E v \in {"first", "park", "asleep", "lock"} : jpc' = [jpc EXCEPT ![j] = v]
        /\ \A k \in Joiners \ {j} : seen'[k] = seen[k]
        /\ UNCHANGED <<outstanding, owed, completed>>
    BY <1>8 DEF JoinLock, JoinPark, JoinSleep, JoinSpuriousWake, TypeInv, TypeOK
  <2> QED
    BY <2>1 DEF JoinInv, OwedInv, FirstReadInv, JoinDrains, TypeInv, TypeOK
<1>9. ASSUME UNCHANGED <<outstanding, owed, jpc, seen, completed>>
      PROVE  JoinInv'
  BY <1>9 DEF JoinInv, OwedInv, FirstReadInv, JoinDrains
<1>10. ASSUME NEW c \in Consumers,
              PopTake(c) \/ PopThrow(c) \/ PopPark(c) \/ PopSleep(c) \/ SpuriousWake(c)
       PROVE  JoinInv'
  BY <1>9, <1>10 DEF PopTake, PopThrow, PopPark, PopSleep, SpuriousWake
<1>11. ASSUME NEW g \in Gates, Hold(g) \/ Release(g) \/ ReleaseNotify(g)
       PROVE  JoinInv'
  BY <1>9, <1>11 DEF Hold, Release, ReleaseNotify
<1>12. CASE Shutdown \/ Clear \/ UNCHANGED vars
  BY <1>9, <1>12 DEF Shutdown, Clear, vars
<1> QED
  BY <1>1, <1>2, <1>3, <1>4, <1>5, <1>6, <1>7, <1>8, <1>10, <1>11, <1>12
  DEF Next, ConsumerStep, JoinerStep

\* If completed is read before in_count, join() returns only when every item
\* announced before the call is finished, for any number of threads pushing,
\* working and joining meanwhile, and also when items are discarded.
THEOREM JoinReturnsDrained ==
  ASSUME FirstReads \subseteq {"completed"}
  PROVE  Spec => []JoinDrains
<1>1. Init => JoinInv
  BY DEF Init, JoinInv, OwedInv, FirstReadInv, JoinDrains
<1>2. TypeInv /\ CountInv /\ JoinInv /\ [Next]_vars => JoinInv'
  BY NextJoin
<1>3. JoinInv => JoinDrains
  BY DEF JoinInv
<1> QED
  BY <1>1, <1>2, <1>3, ItemsCorrect, PTL DEF Spec

-----------------------------------------------------------------------------
(* Wakeups of join *)

\* NoLostDone is inductive, given LockInv.
LEMMA NextNoLostDone ==
  ASSUME TypeInv, LockInv, CountInv, NoLostDone, [Next]_vars
  PROVE  NoLostDone'
<1> USE DEF counters, flags, history
<1>1. completed <= inCount
  BY FS_CardinalityType DEF CountInv, TypeInv, TypeOK
<1>2. ASSUME NEW p \in Producers, PushCount(p)
      PROVE  NoLostDone'
  <2>1. inCount' = inCount + 1 /\ completed' = completed
    BY <1>2 DEF PushCount
  <2>2. completed' # inCount'
    BY <1>1, <2>1 DEF TypeInv, TypeOK
  <2> QED
    BY <2>2 DEF NoLostDone
<1>3. ASSUME NEW c \in Consumers, DoneCount(c)
      PROVE  NoLostDone'
  <2>1. cpc'[c] = "read"
    BY <1>3 DEF DoneCount, TypeInv, TypeOK
  <2> QED
    BY <2>1 DEF NoLostDone, WillNotify
<1>4. ASSUME NEW c \in Consumers, DoneRead1(c)
      PROVE  NoLostDone'
  <2>1. PICK name \in FirstReads :
          seen' = [seen EXCEPT ![c] = [of |-> name, val |-> Counter(name)]]
    BY <1>4 DEF DoneRead1
  <2>2. cpc'[c] = "read2" /\ seen'[c] = [of |-> name, val |-> Counter(name)]
    BY <1>4, <2>1 DEF DoneRead1, TypeInv, TypeOK
  <2>3. UNCHANGED <<inCount, completed>>
    BY <1>4 DEF DoneRead1
  <2> QED
    BY <2>2, <2>3 DEF NoLostDone, WillNotify, SeenIsCurrent, Counter
<1>5. ASSUME NEW c \in Consumers, DoneRead2(c)
      PROVE  NoLostDone'
  <2>1. /\ cpc[c] = "read2"
        /\ cpc' = [cpc EXCEPT ![c] = IF SeenEqual(c) THEN "wake" ELSE "pop"]
        /\ \A t \in (Consumers \union Joiners) \ {c} : seen'[t] = seen[t]
        /\ UNCHANGED <<inCount, completed, jpc>>
    BY <1>5 DEF DoneRead2, TypeInv, TypeOK
  <2>2. CASE completed = inCount /\ SeenEqual(c)
    BY <2>1, <2>2 DEF NoLostDone, WillNotify, TypeInv, TypeOK
  <2>3. CASE completed = inCount /\ ~SeenEqual(c)
    <3>1. ~WillNotify(c)
      BY <2>1, <2>3 DEF WillNotify, SeenEqual, SeenIsCurrent, Counter, Other
    <3>2. ASSUME NEW d \in Consumers, WillNotify(d)
          PROVE  WillNotify(d)'
      <4>1. d # c /\ cpc'[d] = cpc[d] /\ seen'[d] = seen[d]
        BY <3>1, <3>2, <2>1 DEF TypeInv, TypeOK
      <4> QED
        BY <4>1, <3>2, <2>1 DEF WillNotify, SeenIsCurrent, Counter
    <3>3. \A j \in Joiners : SeenIsCurrent(j)' <=> SeenIsCurrent(j)
      BY <2>1, QueueAssumption DEF SeenIsCurrent, Counter
    <3> QED
      BY <3>2, <3>3, <2>1, <2>3 DEF NoLostDone
  <2>4. CASE completed # inCount
    BY <2>1, <2>4 DEF NoLostDone
  <2> QED
    BY <2>2, <2>3, <2>4
<1>6. ASSUME NEW c \in Consumers, DoneWake(c)
      PROVE  NoLostDone'
  <2>1. \A j \in Joiners : jpc[j] \notin {"first", "second", "park"}
    BY <1>6, QueueAssumption DEF DoneWake, LockInv
  <2>2. \A j \in Joiners : jpc'[j] \notin {"second", "park", "asleep"}
    BY <1>6, <2>1 DEF DoneWake
  <2> QED
    BY <2>2 DEF NoLostDone
\* The steps after which every notifier still is one.
<1>7. ASSUME UNCHANGED <<inCount, completed>>,
             \A c \in Consumers : WillNotify(c) => WillNotify(c)',
             NEW S \in SUBSET Joiners,
             \A j \in Joiners \ S : jpc'[j] = jpc[j] /\ seen'[j] = seen[j],
             \A j \in S : \/ jpc'[j] \notin {"second", "park", "asleep"}
                          \/ jpc'[j] = "second" /\ SeenIsCurrent(j)'
                          \/ jpc'[j] = "park" /\ jpc[j] = "second"
                             /\ (completed = inCount => ~SeenIsCurrent(j))
                          \/ jpc'[j] = "asleep" /\ jpc[j] = "park"
      PROVE  NoLostDone'
  <2> SUFFICES ASSUME completed = inCount, NEW j \in Joiners,
                      \/ jpc'[j] \in {"park", "asleep"}
                      \/ jpc'[j] = "second" /\ ~SeenIsCurrent(j)'
               PROVE  \E c \in Consumers : WillNotify(c)'
    BY <1>7 DEF NoLostDone
  <2>1. jpc[j] \in {"park", "asleep"} \/ (jpc[j] = "second" /\ ~SeenIsCurrent(j))
    <3>1. CASE j \in S
      BY <1>7, <3>1
    <3>2. CASE j \notin S
      BY <1>7, <3>2 DEF SeenIsCurrent, Counter
    <3> QED
      BY <3>1, <3>2
  <2> QED
    BY <1>7, <2>1 DEF NoLostDone
<1>8. ASSUME NEW j \in Joiners, JoinCall(j) \/ JoinerStep(j) \/ JoinSpuriousWake(j)
      PROVE  NoLostDone'
  <2>1. /\ UNCHANGED <<inCount, completed, cpc>>
        /\ \A t \in (Consumers \union Joiners) \ {j} : seen'[t] = seen[t]
        /\ \A k \in Joiners \ {j} : jpc'[k] = jpc[k]
    BY <1>8 DEF JoinCall, JoinerStep, JoinLock, JoinRead1, JoinReturn, JoinPark,
                JoinSleep, JoinSpuriousWake, TypeInv, TypeOK
  <2>2. \A c \in Consumers : WillNotify(c) => WillNotify(c)'
    BY <2>1, QueueAssumption DEF WillNotify, SeenIsCurrent, Counter
  <2>3. \/ jpc'[j] \notin {"second", "park", "asleep"}
        \/ jpc'[j] = "second" /\ SeenIsCurrent(j)'
        \/ jpc'[j] = "park" /\ jpc[j] = "second"
           /\ (completed = inCount => ~SeenIsCurrent(j))
        \/ jpc'[j] = "asleep" /\ jpc[j] = "park"
    <3>1. CASE JoinCall(j) \/ JoinLock(j) \/ JoinReturn(j) \/ JoinSpuriousWake(j)
      BY <3>1 DEF JoinCall, JoinLock, JoinReturn, JoinSpuriousWake, TypeInv, TypeOK
    <3>2. CASE JoinRead1(j)
      BY <3>2 DEF JoinRead1, SeenIsCurrent, Counter, TypeInv, TypeOK
    <3>3. CASE JoinPark(j)
      <4>1. jpc'[j] = "park" /\ jpc[j] = "second" /\ ~SeenEqual(j)
        BY <3>3 DEF JoinPark, TypeInv, TypeOK
      <4> QED
        BY <4>1 DEF SeenEqual, SeenIsCurrent, Counter, Other
    <3>4. CASE JoinSleep(j)
      BY <3>4 DEF JoinSleep, TypeInv, TypeOK
    <3> QED
      BY <1>8, <3>1, <3>2, <3>3, <3>4 DEF JoinerStep
  <2> QED
    BY <1>7, <2>1, <2>2, <2>3, {j} \in SUBSET Joiners
\* The remaining steps touch neither the joiners nor a consumer in task_done.
<1>9. ASSUME UNCHANGED <<inCount, completed, jpc, seen>>,
             \A c \in Consumers :
               cpc[c] \in {"read", "read2", "wake"} => cpc'[c] = cpc[c]
      PROVE  NoLostDone'
  <2>1. \A c \in Consumers : WillNotify(c) => WillNotify(c)'
    BY <1>9 DEF WillNotify, SeenIsCurrent, Counter
  <2> QED
    BY <1>7, <1>9, <2>1, {} \in SUBSET Joiners
<1>10. ASSUME NEW p \in Producers,
              PushEnter(p) \/ PushInsert(p) \/ PushTest(p) \/ PushNotify(p)
       PROVE  NoLostDone'
  <2>1. /\ UNCHANGED <<inCount, completed, jpc, seen>>
        /\ \A c \in Consumers :
             cpc[c] \in {"read", "read2", "wake"} => cpc'[c] = cpc[c]
    BY <1>10 DEF PushEnter, PushInsert, PushTest, PushNotify, Asleep, TypeInv, TypeOK
  <2> QED
    BY <2>1, <1>9
<1>11. ASSUME NEW c \in Consumers,
              PopTake(c) \/ PopThrow(c) \/ PopPark(c) \/ PopSleep(c) \/ SpuriousWake(c)
       PROVE  NoLostDone'
  <2>1. /\ UNCHANGED <<inCount, completed, jpc, seen>>
        /\ \A d \in Consumers :
             cpc[d] \in {"read", "read2", "wake"} => cpc'[d] = cpc[d]
    BY <1>11 DEF PopTake, PopThrow, PopPark, PopSleep, SpuriousWake, TypeInv, TypeOK
  <2> QED
    BY <2>1, <1>9
<1>12. ASSUME NEW g \in Gates, Hold(g) \/ Release(g) \/ ReleaseNotify(g)
       PROVE  NoLostDone'
  BY <1>9, <1>12 DEF Hold, Release, ReleaseNotify, WakeAll
<1>13. CASE Shutdown \/ Clear \/ UNCHANGED vars
  BY <1>9, <1>13 DEF Shutdown, Clear, WakeAll, vars
<1> QED
  BY <1>2, <1>3, <1>4, <1>5, <1>6, <1>8, <1>10, <1>11, <1>12, <1>13
  DEF Next, ProducerStep, ConsumerStep

\* The notification of the last task_done() is never lost, in whichever order
\* the two counters are read.
THEOREM NoDoneIsLost == Spec => []NoLostDone
<1>1. Init => NoLostDone
  BY DEF Init, NoLostDone
<1>2. TypeInv /\ LockInv /\ CountInv /\ NoLostDone /\ [Next]_vars => NoLostDone'
  BY NextNoLostDone
<1> QED
  BY <1>1, <1>2, ItemsCorrect, LocksCorrect, PTL DEF Spec
-----------------------------------------------------------------------------
(* Wakeups of pop *)

Awake == {c \in Consumers : cpc[c] = "pop"}
Notifying == {p \in Producers : ppc[p] \in {"test", "notify"}}
Waiting == {c \in Consumers : cpc[c] \in {"park", "asleep"}}

\* WakeupsSuffice, from the decision to wait on: it was made on an empty queue, and
\* mylock keeps the queue empty until the wait begins.
WakeInv ==
  /\ IsFiniteSet(Notifying)
  /\ \A c \in Consumers : cpc[c] = "park" => buffer = <<>>
  /\ Waiting # {} => Len(buffer) <= Cardinality(Awake) + Cardinality(Notifying)

\* A step of a queue that nobody holds leaves a wakeup for each item.
LEMMA NextWake ==
  ASSUME IsFiniteSet(Consumers), TypeInv, LockInv, ShutdownReleasesAll, WakeInv,
         ~blocked, [Next]_vars
  PROVE  WakeInv'
<1> USE DEF TypeInv, TypeOK, counters, flags, history
<1>1. /\ IsFiniteSet(Awake) /\ Cardinality(Awake) \in Nat
      /\ IsFiniteSet(Awake') /\ Cardinality(Awake') \in Nat
  <2>1. Awake \in SUBSET Consumers /\ Awake' \in SUBSET Consumers
    BY DEF Awake
  <2> QED
    BY <2>1, FS_Subset, FS_CardinalityType
<1>2. IsFiniteSet(Notifying) /\ Cardinality(Notifying) \in Nat /\ Len(buffer) \in Nat
  BY FS_CardinalityType, LenProperties DEF WakeInv
<1>3. ASSUME mylock = NoThread, NEW c \in Consumers
      PROVE  cpc[c] # "park"
  BY <1>3, QueueAssumption DEF LockInv
\* Nothing is queued, and the threads on their way to notify stay.
<1>4. ASSUME UNCHANGED <<buffer, ppc>>, Awake \subseteq Awake', Waiting' \subseteq Waiting,
             \A c \in Consumers : cpc'[c] = "park" => cpc[c] = "park"
      PROVE  WakeInv'
  <2>1. Notifying' = Notifying
    BY <1>4 DEF Notifying
  <2>2. Cardinality(Awake) <= Cardinality(Awake')
    BY <1>1, <1>4, FS_Subset
  <2> QED
    BY <1>1, <1>2, <1>4, <2>1, <2>2 DEF WakeInv
\* The queue is empty.
<1>5. ASSUME buffer' = <<>>, UNCHANGED ppc
      PROVE  WakeInv'
  <2>1. Notifying' = Notifying
    BY <1>5 DEF Notifying
  <2> QED
    BY <1>1, <1>2, <1>5, <2>1, EmptySeq DEF WakeInv
<1>6. ASSUME NEW p \in Producers, PushInsert(p)
      PROVE  WakeInv'
  <2>1. /\ ppc[p] = "insert" /\ ppc' = [ppc EXCEPT ![p] = "test"]
        /\ buffer' = Append(buffer, <<p, sent[p]>>)
        /\ mylock = NoThread /\ UNCHANGED cpc
    BY <1>6 DEF PushInsert
  <2>2. Notifying' = Notifying \union {p} /\ p \notin Notifying
    BY <2>1 DEF Notifying
  <2>3. IsFiniteSet(Notifying') /\ Cardinality(Notifying') = Cardinality(Notifying) + 1
    BY <1>2, <2>2, FS_AddElement
  <2>4. <<p, sent[p]>> \in Items
    BY <2>1 DEF SentInv, Items
  <2>5. Len(buffer') = Len(buffer) + 1
    BY <2>1, <2>4, AppendProperties
  <2>6. Awake' = Awake /\ Waiting' = Waiting
    BY <2>1 DEF Awake, Waiting
  <2> QED
    BY <1>1, <1>2, <1>3, <2>1, <2>3, <2>5, <2>6 DEF WakeInv
<1>7. ASSUME NEW p \in Producers, PushEnter(p) \/ PushCount(p) \/ PushTest(p)
      PROVE  WakeInv'
  <2>1. UNCHANGED <<buffer, cpc>> /\ Notifying' = Notifying
    BY <1>7 DEF PushEnter, PushCount, PushTest, Notifying
  <2> QED
    BY <2>1 DEF WakeInv, Awake, Waiting
<1>8. ASSUME NEW p \in Producers, PushNotify(p)
      PROVE  WakeInv'
  <2>1. /\ ppc[p] = "notify" /\ ppc' = [ppc EXCEPT ![p] = "idle"] /\ UNCHANGED buffer
        /\ \/ Asleep = {} /\ UNCHANGED cpc
           \/ \E c \in Asleep : cpc' = [cpc EXCEPT ![c] = "pop"]
    BY <1>8 DEF PushNotify
  <2>2. Notifying' = Notifying \ {p} /\ p \in Notifying
    BY <2>1 DEF Notifying
  <2>3. /\ IsFiniteSet(Notifying') /\ Cardinality(Notifying') = Cardinality(Notifying) - 1
        /\ Cardinality(Notifying') \in Nat
    BY <1>2, <2>2, FS_RemoveElement, FS_CardinalityType
  <2>4. CASE Asleep = {} /\ UNCHANGED cpc
    <3>1. Waiting # {} => buffer = <<>>
      BY <2>4 DEF WakeInv, Waiting, Asleep
    <3>2. Waiting' = Waiting /\ Awake' = Awake
      BY <2>4 DEF Waiting, Awake
    <3>3. Waiting # {} => Len(buffer') = 0
      BY <2>1, <3>1, EmptySeq
    <3>4. \A c \in Consumers : cpc'[c] = "park" => buffer' = <<>>
      BY <2>1, <2>4 DEF WakeInv
    <3> QED
      BY <1>1, <1>2, <2>3, <3>2, <3>3, <3>4 DEF WakeInv
  <2>5. ASSUME NEW c \in Asleep, cpc' = [cpc EXCEPT ![c] = "pop"]
        PROVE  WakeInv'
    <3>1. Awake' = Awake \union {c} /\ c \notin Awake /\ c \in Waiting
      BY <2>5 DEF Awake, Asleep, Waiting
    <3>2. Cardinality(Awake') = Cardinality(Awake) + 1
      BY <1>1, <3>1, FS_AddElement
    <3>3. \A d \in Consumers : cpc'[d] = "park" => cpc[d] = "park"
      BY <2>5 DEF Asleep
    <3> QED
      BY <1>1, <1>2, <2>1, <2>3, <3>1, <3>2, <3>3 DEF WakeInv
  <2> QED
    BY <2>1, <2>4, <2>5
<1>9. ASSUME NEW c \in Consumers, PopTake(c)
      PROVE  WakeInv'
  <2>1. /\ cpc[c] = "pop" /\ cpc' = [cpc EXCEPT ![c] = "work"] /\ buffer # <<>>
        /\ buffer' = Tail(buffer) /\ mylock = NoThread /\ UNCHANGED ppc
    BY <1>9 DEF PopTake, MustWait
  <2>2. Awake' = Awake \ {c} /\ c \in Awake /\ Waiting' = Waiting
    BY <2>1 DEF Awake, Waiting
  <2>3. Cardinality(Awake') = Cardinality(Awake) - 1
    BY <1>1, <2>2, FS_RemoveElement
  <2>4. Len(buffer') = Len(buffer) - 1
    BY <2>1, HeadTailProperties
  <2>5. Notifying' = Notifying
    BY <2>1 DEF Notifying
  <2>6. \A d \in Consumers : cpc'[d] # "park"
    BY <1>3, <2>1
  <2> QED
    BY <1>1, <1>2, <2>2, <2>3, <2>4, <2>5, <2>6 DEF WakeInv
<1>10. ASSUME NEW c \in Consumers, PopThrow(c)
       PROVE  WakeInv'
  <2>1. Waiting' = {} /\ UNCHANGED <<buffer, ppc>>
    BY <1>10 DEF PopThrow, ShutdownReleasesAll, Waiting
  <2>2. Notifying' = Notifying
    BY <2>1 DEF Notifying
  <2> QED
    BY <2>1, <2>2 DEF WakeInv, Waiting
<1>11. ASSUME NEW c \in Consumers, PopPark(c)
       PROVE  WakeInv'
  BY <1>5, <1>11 DEF PopPark, MustWait
<1>12. ASSUME NEW c \in Consumers,
              \/ PopSleep(c) \/ SpuriousWake(c) \/ DoneCount(c) \/ DoneRead1(c)
              \/ DoneRead2(c) \/ DoneWake(c)
       PROVE  WakeInv'
  <2>1. /\ UNCHANGED <<buffer, ppc>>
        /\ \/ UNCHANGED cpc
           \/ cpc[c] = "park" /\ cpc' = [cpc EXCEPT ![c] = "asleep"]
           \/ cpc[c] \in {"asleep", "work", "read", "read2", "wake"}
              /\ \E v \in {"pop", "read", "read2", "wake"} : cpc' = [cpc EXCEPT ![c] = v]
    BY <1>12 DEF PopSleep, SpuriousWake, DoneCount, DoneRead1, DoneRead2, DoneWake
  <2>2. /\ Awake \subseteq Awake' /\ Waiting' \subseteq Waiting
        /\ \A d \in Consumers : cpc'[d] = "park" => cpc[d] = "park"
    BY <2>1 DEF Awake, Waiting
  <2> QED
    BY <1>4, <2>1, <2>2
<1>13. ASSUME NEW j \in Joiners, JoinCall(j) \/ JoinerStep(j) \/ JoinSpuriousWake(j)
       PROVE  WakeInv'
  <2>1. UNCHANGED <<buffer, ppc, cpc>>
    BY <1>13 DEF JoinCall, JoinerStep, JoinLock, JoinRead1, JoinReturn, JoinPark,
                 JoinSleep, JoinSpuriousWake
  <2> QED
    BY <1>4, <2>1 DEF Awake, Waiting
<1>14. ASSUME NEW g \in Gates, Hold(g) \/ Release(g) \/ ReleaseNotify(g)
       PROVE  WakeInv'
  <2>1. UNCHANGED <<buffer, ppc>> /\ cpc' \in {cpc, WakeAll}
    BY <1>14 DEF Hold, Release, ReleaseNotify
  <2>2. /\ Awake \subseteq Awake' /\ Waiting' \subseteq Waiting
        /\ \A d \in Consumers : cpc'[d] = "park" => cpc[d] = "park"
    BY <2>1 DEF Awake, Waiting, WakeAll
  <2> QED
    BY <1>4, <2>1, <2>2
<1>15. CASE Shutdown \/ Clear
  BY <1>5, <1>15 DEF Shutdown, Clear
<1>16. CASE UNCHANGED vars
  BY <1>4, <1>16 DEF vars, Awake, Waiting
<1> QED
  BY <1>6, <1>7, <1>8, <1>9, <1>10, <1>11, <1>12, <1>13, <1>14, <1>15, <1>16
  DEF Next, ProducerStep, ConsumerStep

\* As long as nobody holds the queue, notify_one() after the unlock is enough for any
\* number of producers and consumers: an item never waits for a consumer that sleeps.
\* (hold() breaks it, and release() does not always repair it.)
THEOREM WakeupsAreEnough ==
  ASSUME IsFiniteSet(Consumers)
  PROVE  Spec /\ []~blocked => []WakeupsSuffice
<1>1. Init => WakeInv
  <2> SUFFICES ASSUME Init PROVE WakeInv
    OBVIOUS
  <2>1. Notifying = {} /\ Waiting = {}
    BY DEF Init, Notifying, Waiting
  <2> QED
    BY <2>1, FS_EmptySet DEF Init, WakeInv
<1>2. /\ TypeInv /\ LockInv /\ ShutdownReleasesAll /\ WakeInv /\ ~blocked /\ [Next]_vars
      => WakeInv'
  BY NextWake
<1>3. WakeInv => WakeupsSuffice
  BY DEF WakeInv, WakeupsSuffice, Awake, Notifying, Waiting
<1> QED
  BY <1>1, <1>2, <1>3, LocksCorrect, PTL DEF Spec
-----------------------------------------------------------------------------
(* The queue implements its contract *)

Joining == {j \in Joiners : jpc[j] \notin {"idle", "returned"}}
mapped == <<ready, sent, InHand, buffer, item, outstanding, Joining, owed>>

\* A step that changes nothing mapped is a stutter of the contract.
LEMMA MappedStutter ==
  ASSUME UNCHANGED mapped
  PROVE  UNCHANGED Contract!contractVars
  BY DEF mapped, Joining, Contract!contractVars

\* Every step of push() is one of the contract.
LEMMA PushRefines ==
  ASSUME TypeInv, ItemInv, NEW p \in Producers, PushEnter(p) \/ ProducerStep(p)
  PROVE  [Contract!Next]_(Contract!contractVars)
<1> USE DEF counters, flags, history
<1>1. CASE PushCount(p)
  <2>1. /\ ppc[p] = "count" /\ ppc' = [ppc EXCEPT ![p] = "insert"]
        /\ sent' = [sent EXCEPT ![p] = @ + 1] /\ sent[p] < PushLimit
        /\ outstanding' = outstanding \union {<<p, sent'[p]>>}
        /\ UNCHANGED <<ready, buffer, item, jpc, owed>>
    BY <1>1 DEF PushCount, TypeInv, SentInv
  <2>2. \A q \in Producers : q # p => ppc'[q] = ppc[q] /\ sent'[q] = sent[q]
    BY <2>1 DEF TypeInv, TypeOK
  <2>3. InHand' = InHand \union {<<p, sent'[p]>>}
    <3>1. ppc'[p] = "insert"
      BY <2>1 DEF TypeInv, TypeOK
    <3> QED
      BY <2>1, <2>2, <3>1 DEF InHand
  <2>4. \A i \in InHand : i[1] # p
    BY <2>1 DEF InHand
  <2>5. Contract!Announce(p)
    BY <2>1, <2>3, <2>4 DEF Contract!Announce
  <2> QED
    BY <2>5 DEF Contract!Next
<1>2. CASE PushInsert(p)
  <2>1. /\ ppc[p] = "insert" /\ ppc' = [ppc EXCEPT ![p] = "test"]
        /\ buffer' = Append(buffer, <<p, sent[p]>>)
        /\ UNCHANGED <<ready, sent, outstanding, item, jpc, owed>>
    BY <1>2 DEF PushInsert
  <2>2. InHand' = InHand \ {<<p, sent[p]>>}
    BY <2>1 DEF InHand, TypeInv, TypeOK
  <2>3. <<p, sent[p]>> \in InHand
    BY <2>1 DEF InHand
  <2>4. Contract!Put(<<p, sent[p]>>)
    BY <2>1, <2>2, <2>3 DEF Contract!Put
  <2> QED
    BY <2>3, <2>4 DEF Contract!Next
<1>3. CASE PushEnter(p) \/ PushTest(p) \/ PushNotify(p)
  <2>1. /\ UNCHANGED <<ready, sent, buffer, item, outstanding, jpc, owed>>
        /\ \A q \in Producers : ppc'[q] = "insert" <=> ppc[q] = "insert"
    BY <1>3 DEF PushEnter, PushTest, PushNotify, TypeInv, TypeOK
  <2>2. InHand' = InHand
    BY <2>1 DEF InHand
  <2> QED
    BY <2>1, <2>2, MappedStutter DEF mapped, Joining
<1> QED
  BY <1>1, <1>2, <1>3 DEF ProducerStep

\* Every step of pop() and task_done() is one of the contract.
LEMMA ConsumerRefines ==
  ASSUME TypeInv, ItemInv, NEW c \in Consumers, ConsumerStep(c) \/ SpuriousWake(c)
  PROVE  [Contract!Next]_(Contract!contractVars)
<1> USE DEF counters, flags, history
<1>1. CASE PopTake(c)
  <2>1. /\ ready /\ buffer # <<>> /\ item[c] = NoItem
        /\ item' = [item EXCEPT ![c] = Head(buffer)] /\ buffer' = Tail(buffer)
        /\ UNCHANGED <<ready, sent, ppc, outstanding, jpc, owed>>
    BY <1>1 DEF PopTake, MustWait, ItemInv, HeldInv
  <2>2. Contract!Get(c)
    BY <2>1 DEF Contract!Get, InHand
  <2> QED
    BY <2>2 DEF Contract!Next
<1>2. CASE DoneCount(c)
  <2>1. /\ item[c] # NoItem
        /\ item' = [item EXCEPT ![c] = NoItem]
        /\ outstanding' = outstanding \ {item[c]}
        /\ owed' = [j \in Joiners |-> owed[j] \ {item[c]}]
        /\ UNCHANGED <<ready, sent, ppc, buffer, jpc>>
    BY <1>2 DEF DoneCount, ItemInv, HeldInv
  <2>2. Contract!Finish(c)
    BY <2>1 DEF Contract!Finish, InHand
  <2> QED
    BY <2>2 DEF Contract!Next
<1>3. CASE DoneWake(c)
  <2>1. /\ UNCHANGED <<ready, sent, ppc, buffer, item, outstanding, owed>>
        /\ jpc' = [j \in Joiners |-> IF jpc[j] = "asleep" THEN "lock" ELSE jpc[j]]
    BY <1>3 DEF DoneWake
  <2>2. Joining' = Joining
    BY <2>1 DEF Joining
  <2> QED
    BY <2>1, <2>2, MappedStutter DEF mapped, InHand
<1>4. CASE \/ PopThrow(c) \/ PopPark(c) \/ PopSleep(c) \/ SpuriousWake(c)
           \/ DoneRead1(c) \/ DoneRead2(c)
  <2>1. UNCHANGED <<ready, sent, ppc, buffer, item, outstanding, jpc, owed>>
    BY <1>4 DEF PopThrow, PopPark, PopSleep, SpuriousWake, DoneRead1, DoneRead2
  <2> QED
    BY <2>1, MappedStutter DEF mapped, InHand, Joining
<1> QED
  BY <1>1, <1>2, <1>3, <1>4 DEF ConsumerStep

\* Every step of join() is one of the contract.
LEMMA JoinerRefines ==
  ASSUME TypeInv, CountInv, JoinInv, NEW j \in Joiners,
         JoinCall(j) \/ JoinerStep(j) \/ JoinSpuriousWake(j)
  PROVE  [Contract!Next]_(Contract!contractVars)
<1> USE DEF counters, flags, history
<1>1. CASE JoinCall(j)
  <2>1. /\ jpc[j] \in {"idle", "returned"} /\ jpc' = [jpc EXCEPT ![j] = "lock"]
        /\ owed' = [owed EXCEPT ![j] = outstanding]
        /\ UNCHANGED <<ready, sent, ppc, buffer, item, outstanding>>
    BY <1>1 DEF JoinCall
  <2>2. Joining' = Joining \union {j} /\ j \notin Joining
    BY <2>1 DEF Joining, TypeInv, TypeOK
  <2>3. Contract!CallJoin(j)
    BY <2>1, <2>2 DEF Contract!CallJoin, InHand, Joining
  <2> QED
    BY <2>3 DEF Contract!Next
<1>2. CASE JoinReturn(j)
  <2>1. /\ jpc[j] = "second" /\ jpc' = [jpc EXCEPT ![j] = "returned"]
        /\ UNCHANGED <<ready, sent, ppc, buffer, item, outstanding, owed>>
    BY <1>2 DEF JoinReturn
  <2>2. Joining' = Joining \ {j} /\ j \in Joining
    BY <2>1 DEF Joining, TypeInv, TypeOK
  <2>3. owed[j] = {}
    BY <1>2, JoinReturnDrains
  <2>4. Contract!ReturnJoin(j)
    BY <2>1, <2>2, <2>3 DEF Contract!ReturnJoin, InHand, Joining
  <2> QED
    BY <2>4 DEF Contract!Next
<1>3. CASE \/ JoinLock(j) \/ JoinRead1(j) \/ JoinPark(j) \/ JoinSleep(j)
           \/ JoinSpuriousWake(j)
  <2>1. /\ UNCHANGED <<ready, sent, ppc, buffer, item, outstanding, owed>>
        /\ jpc[j] \notin {"idle", "returned"}
        /\ \E v \in {"first", "second", "park", "asleep", "lock"} :
             jpc' = [jpc EXCEPT ![j] = v]
    BY <1>3 DEF JoinLock, JoinRead1, JoinPark, JoinSleep, JoinSpuriousWake
  <2>2. Joining' = Joining
    BY <2>1 DEF Joining, TypeInv, TypeOK
  <2> QED
    BY <2>1, <2>2, MappedStutter DEF mapped, InHand
<1> QED
  BY <1>1, <1>2, <1>3 DEF JoinerStep

\* If completed is read before in_count, every behaviour of the queue is one its
\* contract allows, for any sets of threads.
THEOREM QueueImplementsContract ==
  ASSUME FirstReads \subseteq {"completed"}
  PROVE  Spec => ImplementsContract
<1>1. Init => Contract!Init
  BY DEF Init, InHand, Contract!Init
<1>2. TypeInv /\ ItemInv /\ CountInv /\ JoinInv /\ [Next]_vars
        => [Contract!Next]_(Contract!contractVars)
  <2> SUFFICES ASSUME TypeInv, ItemInv, CountInv, JoinInv, [Next]_vars
               PROVE  [Contract!Next]_(Contract!contractVars)
    OBVIOUS
  <2>1. ASSUME NEW g \in Gates, Hold(g) \/ Release(g) \/ ReleaseNotify(g)
        PROVE  [Contract!Next]_(Contract!contractVars)
    <3>1. UNCHANGED <<ready, sent, ppc, buffer, item, outstanding, jpc, owed>>
      BY <2>1 DEF Hold, Release, ReleaseNotify, flags, history
    <3> QED
      BY <3>1, MappedStutter DEF mapped, InHand, Joining
  <2>2. CASE Shutdown \/ Clear
    <3>1. /\ ready' \in {ready, FALSE} /\ buffer' = <<>>
          /\ UNCHANGED <<sent, ppc, item, outstanding, jpc, owed>>
      BY <2>2 DEF Shutdown, Clear, flags, history
    <3>2. Contract!Discard
      BY <3>1 DEF Contract!Discard, InHand
    <3> QED
      BY <3>2 DEF Contract!Next
  <2>3. CASE UNCHANGED vars
    BY <2>3, MappedStutter DEF vars, flags, history, mapped, InHand, Joining
  <2> QED
    BY <2>1, <2>2, <2>3, PushRefines, ConsumerRefines, JoinerRefines DEF Next
<1>3. Init => JoinInv
  BY DEF Init, JoinInv, OwedInv, FirstReadInv, JoinDrains
<1>4. TypeInv /\ CountInv /\ JoinInv /\ [Next]_vars => JoinInv'
  BY NextJoin
<1> QED
  BY <1>1, <1>2, <1>3, <1>4, ItemsCorrect, PTL
  DEF Spec, ImplementsContract, Contract!Spec
=============================================================================
