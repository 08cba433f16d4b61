------------------------------ MODULE AbsQueue ------------------------------
(***************************************************************************)
(* The thread-safe work queue of common/abs_queue/abs_queue.h, which every *)
(* other part of the engine uses to hand work from thread to thread.       *)
(*                                                                         *)
(* A step is what one thread does between two points where another thread  *)
(* can see or change the queue: code under mylock or joinlock is one step, *)
(* and each access to an atomic outside a lock is a step of its own.       *)
(* outstanding and owed are history variables; no guard reads them.        *)
(***************************************************************************)
EXTENDS Integers, Sequences, FiniteSets

CONSTANTS Producers,    \* threads that push()
          Consumers,    \* threads that loop over pop(), work, task_done()
          Joiners,      \* threads that join()
          Gates,        \* threads that hold() and release()
          CanShutdown,  \* may the queue be shut down
          CanClear,     \* may the queue be cleared
          PushLimit,    \* bound: items one producer pushes
          FirstReads,   \* which operand of completed == in_count may be read first
          NoThread,     \* the owner of a free mutex
          NoItem        \* the item of a consumer that works on none

ASSUME QueueAssumption ==
  /\ PushLimit \in Nat
  /\ CanShutdown \in BOOLEAN
  /\ CanClear \in BOOLEAN
  /\ FirstReads \subseteq {"completed", "inCount"}
  /\ Consumers \intersect Joiners = {}
  /\ NoThread \notin Consumers \union Joiners
  /\ NoItem \notin Producers \X Nat

VARIABLES inCount, outCount, completed,  \* the public atomic counters
          buffer,                        \* the std::queue
          ready, blocked,                \* the atomic flags
          mylock, joinlock,              \* who holds each mutex between steps
          ppc, cpc, jpc, gpc,            \* where each thread is
          sent,                          \* sent[p]: items p has counted in
          item,                          \* item[c]: the item c works on
          seen,                          \* the first operand a thread has read
          outstanding, owed

counters == <<inCount, outCount, completed>>
flags == <<ready, blocked>>
history == <<outstanding, owed>>
vars == <<counters, buffer, flags, mylock, joinlock, ppc, cpc, jpc, gpc,
          sent, item, seen, history>>

Items == Producers \X (1..PushLimit)
NothingSeen == [of |-> "completed", val |-> 0]
Counter(name) == IF name = "completed" THEN completed ELSE inCount
Other(name) == IF name = "completed" THEN "inCount" ELSE "completed"
Asleep == {c \in Consumers : cpc[c] = "asleep"}

\* notify_all on signal: every sleeping consumer goes to re-evaluate pop's loop.
WakeAll == [c \in Consumers |-> IF cpc[c] = "asleep" THEN "pop" ELSE cpc[c]]

Init ==
  /\ inCount = 0 /\ outCount = 0 /\ completed = 0
  /\ buffer = <<>>
  /\ ready = TRUE /\ blocked = FALSE
  /\ mylock = NoThread /\ joinlock = NoThread
  /\ ppc = [p \in Producers |-> "idle"]
  /\ cpc = [c \in Consumers |-> "pop"]
  /\ jpc = [j \in Joiners |-> "idle"]
  /\ gpc = [g \in Gates |-> "idle"]
  /\ sent = [p \in Producers |-> 0]
  /\ item = [c \in Consumers |-> NoItem]
  /\ seen = [t \in Consumers \union Joiners |-> NothingSeen]
  /\ outstanding = {}
  /\ owed = [j \in Joiners |-> {}]

-----------------------------------------------------------------------------
(* push *)

\* ready is read outside the lock: the answer may be stale by the next step.
PushEnter(p) ==
  /\ ppc[p] = "idle" /\ sent[p] < PushLimit
  /\ ppc' = [ppc EXCEPT ![p] = IF ready THEN "count" ELSE "refused"]
  /\ UNCHANGED <<counters, buffer, flags, mylock, joinlock, cpc, jpc, gpc,
                 sent, item, seen, history>>

PushCount(p) ==
  /\ ppc[p] = "count"
  /\ ppc' = [ppc EXCEPT ![p] = "insert"]
  /\ inCount' = inCount + 1
  /\ sent' = [sent EXCEPT ![p] = @ + 1]
  /\ outstanding' = outstanding \union {<<p, sent'[p]>>}
  /\ UNCHANGED <<outCount, completed, buffer, flags, mylock, joinlock, cpc, jpc,
                 gpc, item, seen, owed>>

PushInsert(p) ==
  /\ ppc[p] = "insert" /\ mylock = NoThread
  /\ ppc' = [ppc EXCEPT ![p] = "test"]
  /\ buffer' = Append(buffer, <<p, sent[p]>>)
  /\ UNCHANGED <<counters, flags, mylock, joinlock, cpc, jpc, gpc, sent, item,
                 seen, history>>

\* Mutation of PushTest: notify only when the queue was empty before.
PushTest_OnlyFirst(p) ==
  /\ ppc[p] = "test"
  /\ ppc' = [ppc EXCEPT ![p] = IF blocked \/ Len(buffer) # 1 THEN "idle" ELSE "notify"]
  /\ UNCHANGED <<counters, buffer, flags, mylock, joinlock, cpc, jpc, gpc, sent,
                 item, seen, history>>

PushTest(p) ==
  /\ ppc[p] = "test"
  /\ ppc' = [ppc EXCEPT ![p] = IF blocked THEN "idle" ELSE "notify"]
  /\ UNCHANGED <<counters, buffer, flags, mylock, joinlock, cpc, jpc, gpc, sent,
                 item, seen, history>>

\* notify_one: any one sleeper, if there is one.
PushNotify(p) ==
  /\ ppc[p] = "notify"
  /\ ppc' = [ppc EXCEPT ![p] = "idle"]
  /\ \/ /\ Asleep = {}
        /\ UNCHANGED cpc
     \/ \E c \in Asleep : cpc' = [cpc EXCEPT ![c] = "pop"]
  /\ UNCHANGED <<counters, buffer, flags, mylock, joinlock, jpc, gpc, sent, item,
                 seen, history>>

-----------------------------------------------------------------------------
(* pop: the loop condition is evaluated with mylock held *)

MustWait == ready /\ (buffer = <<>> \/ blocked)

\* Mutation of PopTake: takes whatever is queued without looking at ready.
PopTake_AfterShutdown(c) ==
  /\ cpc[c] = "pop" /\ mylock = NoThread
  /\ ~MustWait /\ buffer # <<>>
  /\ cpc' = [cpc EXCEPT ![c] = "work"]
  /\ item' = [item EXCEPT ![c] = Head(buffer)]
  /\ buffer' = Tail(buffer)
  /\ outCount' = outCount + 1
  /\ UNCHANGED <<inCount, completed, flags, mylock, joinlock, ppc, jpc, gpc, sent,
                 seen, history>>

PopTake(c) ==
  /\ cpc[c] = "pop" /\ mylock = NoThread
  /\ ~MustWait /\ ready
  /\ cpc' = [cpc EXCEPT ![c] = "work"]
  /\ item' = [item EXCEPT ![c] = Head(buffer)]
  /\ buffer' = Tail(buffer)
  /\ outCount' = outCount + 1
  /\ UNCHANGED <<inCount, completed, flags, mylock, joinlock, ppc, jpc, gpc, sent,
                 seen, history>>

\* Mutation of PopThrow: out_count++ comes before the test of ready.
PopThrow_Counted(c) ==
  /\ cpc[c] = "pop" /\ mylock = NoThread
  /\ ~MustWait /\ ~ready
  /\ cpc' = [cpc EXCEPT ![c] = "gone"]
  /\ outCount' = outCount + 1
  /\ UNCHANGED <<inCount, completed, buffer, flags, mylock, joinlock, ppc, jpc, gpc,
                 sent, item, seen, history>>

\* queue_not_ready ends the loop of the thread that called pop().
PopThrow(c) ==
  /\ cpc[c] = "pop" /\ mylock = NoThread
  /\ ~MustWait /\ ~ready
  /\ cpc' = [cpc EXCEPT ![c] = "gone"]
  /\ UNCHANGED <<counters, buffer, flags, mylock, joinlock, ppc, jpc, gpc, sent,
                 item, seen, history>>

\* Mutation of PopPark: the lock is let go between the test and the wait.
PopPark_Unlocked(c) ==
  /\ cpc[c] = "pop" /\ mylock = NoThread
  /\ MustWait
  /\ cpc' = [cpc EXCEPT ![c] = "park"]
  /\ UNCHANGED <<counters, buffer, flags, mylock, joinlock, ppc, jpc, gpc, sent,
                 item, seen, history>>

\* Decided to wait; still holds mylock until the wait itself begins.
PopPark(c) ==
  /\ cpc[c] = "pop" /\ mylock = NoThread
  /\ MustWait
  /\ cpc' = [cpc EXCEPT ![c] = "park"]
  /\ mylock' = c
  /\ UNCHANGED <<counters, buffer, flags, joinlock, ppc, jpc, gpc, sent, item,
                 seen, history>>

PopSleep(c) ==
  /\ cpc[c] = "park"
  /\ cpc' = [cpc EXCEPT ![c] = "asleep"]
  /\ mylock' = NoThread
  /\ UNCHANGED <<counters, buffer, flags, joinlock, ppc, jpc, gpc, sent, item,
                 seen, history>>

\* condition_variable::wait may return without a notification.
SpuriousWake(c) ==
  /\ cpc[c] = "asleep"
  /\ cpc' = [cpc EXCEPT ![c] = "pop"]
  /\ UNCHANGED <<counters, buffer, flags, mylock, joinlock, ppc, jpc, gpc, sent,
                 item, seen, history>>

-----------------------------------------------------------------------------
(* task_done *)

DoneCount(c) ==
  /\ cpc[c] = "work"
  /\ cpc' = [cpc EXCEPT ![c] = "read"]
  /\ completed' = completed + 1
  /\ outstanding' = outstanding \ {item[c]}
  /\ owed' = [j \in Joiners |-> owed[j] \ {item[c]}]
  /\ item' = [item EXCEPT ![c] = NoItem]
  /\ UNCHANGED <<inCount, outCount, buffer, flags, mylock, joinlock, ppc, jpc, gpc,
                 sent, seen>>

\* completed == in_count reads two atomics one after the other, in an order
\* C++ leaves open.
DoneRead1(c) ==
  /\ cpc[c] = "read"
  /\ cpc' = [cpc EXCEPT ![c] = "read2"]
  /\ \E name \in FirstReads :
       seen' = [seen EXCEPT ![c] = [of |-> name, val |-> Counter(name)]]
  /\ UNCHANGED <<counters, buffer, flags, mylock, joinlock, ppc, jpc, gpc, sent,
                 item, history>>

SeenEqual(t) == seen[t].val = Counter(Other(seen[t].of))

DoneRead2(c) ==
  /\ cpc[c] = "read2"
  /\ cpc' = [cpc EXCEPT ![c] = IF SeenEqual(c) THEN "wake" ELSE "pop"]
  /\ seen' = [seen EXCEPT ![c] = NothingSeen]
  /\ UNCHANGED <<counters, buffer, flags, mylock, joinlock, ppc, jpc, gpc, sent,
                 item, history>>

\* Mutation of DoneWake: notify without joinlock.
DoneWake_NoLock(c) ==
  /\ cpc[c] = "wake"
  /\ cpc' = [cpc EXCEPT ![c] = "pop"]
  /\ jpc' = [j \in Joiners |-> IF jpc[j] = "asleep" THEN "lock" ELSE jpc[j]]
  /\ UNCHANGED <<counters, buffer, flags, mylock, joinlock, ppc, gpc, sent, item,
                 seen, history>>

DoneWake(c) ==
  /\ cpc[c] = "wake" /\ joinlock = NoThread
  /\ cpc' = [cpc EXCEPT ![c] = "pop"]
  /\ jpc' = [j \in Joiners |-> IF jpc[j] = "asleep" THEN "lock" ELSE jpc[j]]
  /\ UNCHANGED <<counters, buffer, flags, mylock, joinlock, ppc, gpc, sent, item,
                 seen, history>>

-----------------------------------------------------------------------------
(* join *)

JoinCall(j) ==
  /\ jpc[j] \in {"idle", "returned"}
  /\ jpc' = [jpc EXCEPT ![j] = "lock"]
  /\ owed' = [owed EXCEPT ![j] = outstanding]
  /\ UNCHANGED <<counters, buffer, flags, mylock, joinlock, ppc, cpc, gpc, sent,
                 item, seen, outstanding>>

\* Entering join(), and coming back from sigdone.wait().
JoinLock(j) ==
  /\ jpc[j] = "lock" /\ joinlock = NoThread
  /\ jpc' = [jpc EXCEPT ![j] = "first"]
  /\ joinlock' = j
  /\ UNCHANGED <<counters, buffer, flags, mylock, ppc, cpc, gpc, sent, item, seen,
                 history>>

JoinRead1(j) ==
  /\ jpc[j] = "first"
  /\ jpc' = [jpc EXCEPT ![j] = "second"]
  /\ \E name \in FirstReads :
       seen' = [seen EXCEPT ![j] = [of |-> name, val |-> Counter(name)]]
  /\ UNCHANGED <<counters, buffer, flags, mylock, joinlock, ppc, cpc, gpc, sent,
                 item, history>>

JoinReturn(j) ==
  /\ jpc[j] = "second" /\ SeenEqual(j)
  /\ jpc' = [jpc EXCEPT ![j] = "returned"]
  /\ joinlock' = NoThread
  /\ seen' = [seen EXCEPT ![j] = NothingSeen]
  /\ UNCHANGED <<counters, buffer, flags, mylock, ppc, cpc, gpc, sent, item,
                 history>>

JoinPark(j) ==
  /\ jpc[j] = "second" /\ ~SeenEqual(j)
  /\ jpc' = [jpc EXCEPT ![j] = "park"]
  /\ seen' = [seen EXCEPT ![j] = NothingSeen]
  /\ UNCHANGED <<counters, buffer, flags, mylock, joinlock, ppc, cpc, gpc, sent,
                 item, history>>

JoinSleep(j) ==
  /\ jpc[j] = "park"
  /\ jpc' = [jpc EXCEPT ![j] = "asleep"]
  /\ joinlock' = NoThread
  /\ UNCHANGED <<counters, buffer, flags, mylock, ppc, cpc, gpc, sent, item, seen,
                 history>>

\* Mutation of JoinSpuriousWake: an if where join() has a while.
JoinSpuriousWake_If(j) ==
  /\ jpc[j] = "asleep"
  /\ jpc' = [jpc EXCEPT ![j] = "returned"]
  /\ UNCHANGED <<counters, buffer, flags, mylock, joinlock, ppc, cpc, gpc, sent,
                 item, seen, history>>

JoinSpuriousWake(j) ==
  /\ jpc[j] = "asleep"
  /\ jpc' = [jpc EXCEPT ![j] = "lock"]
  /\ UNCHANGED <<counters, buffer, flags, mylock, joinlock, ppc, cpc, gpc, sent,
                 item, seen, history>>

-----------------------------------------------------------------------------
(* hold, release, shutdown, clear *)

Hold(g) ==
  /\ gpc[g] = "idle"
  /\ blocked' = TRUE
  /\ UNCHANGED <<counters, buffer, ready, mylock, joinlock, ppc, cpc, jpc, gpc,
                 sent, item, seen, history>>

\* The flag is cleared, and the sleepers notified, without mylock.
Release(g) ==
  /\ gpc[g] = "idle"
  /\ blocked' = FALSE
  /\ gpc' = [gpc EXCEPT ![g] = "notify"]
  /\ UNCHANGED <<counters, buffer, ready, mylock, joinlock, ppc, cpc, jpc, sent,
                 item, seen, history>>

ReleaseNotify(g) ==
  /\ gpc[g] = "notify"
  /\ gpc' = [gpc EXCEPT ![g] = "idle"]
  /\ cpc' = WakeAll
  /\ UNCHANGED <<counters, buffer, flags, mylock, joinlock, ppc, jpc, sent, item,
                 seen, history>>

\* Mutation of Shutdown: ready is cleared without mylock.
Shutdown_NoLock ==
  /\ CanShutdown
  /\ ready' = FALSE
  /\ buffer' = <<>>
  /\ cpc' = WakeAll
  /\ UNCHANGED <<counters, blocked, mylock, joinlock, ppc, jpc, gpc, sent, item,
                 seen, history>>

Shutdown ==
  /\ CanShutdown /\ mylock = NoThread
  /\ ready' = FALSE
  /\ buffer' = <<>>
  /\ cpc' = WakeAll
  /\ UNCHANGED <<counters, blocked, mylock, joinlock, ppc, jpc, gpc, sent, item,
                 seen, history>>

Clear ==
  /\ CanClear /\ mylock = NoThread
  /\ buffer' = <<>>
  /\ UNCHANGED <<counters, flags, mylock, joinlock, ppc, cpc, jpc, gpc, sent, item,
                 seen, history>>

-----------------------------------------------------------------------------

ProducerStep(p) == PushCount(p) \/ PushInsert(p) \/ PushTest(p) \/ PushNotify(p)

ConsumerStep(c) ==
  \/ PopTake(c) \/ PopThrow(c) \/ PopPark(c) \/ PopSleep(c)
  \/ DoneCount(c) \/ DoneRead1(c) \/ DoneRead2(c) \/ DoneWake(c)

JoinerStep(j) ==
  JoinLock(j) \/ JoinRead1(j) \/ JoinReturn(j) \/ JoinPark(j) \/ JoinSleep(j)

Next ==
  \/ \E p \in Producers : PushEnter(p) \/ ProducerStep(p)
  \/ \E c \in Consumers : ConsumerStep(c) \/ SpuriousWake(c)
  \/ \E j \in Joiners : JoinCall(j) \/ JoinerStep(j) \/ JoinSpuriousWake(j)
  \/ \E g \in Gates : Hold(g) \/ Release(g) \/ ReleaseNotify(g)
  \/ Shutdown
  \/ Clear

\* A thread inside an operation keeps running, and is not passed over for ever
\* when it waits for a mutex that keeps being freed; nothing makes a caller
\* start push(), join(), hold(), release(), shutdown() or clear().
Fairness ==
  /\ \A p \in Producers : SF_vars(ProducerStep(p))
  /\ \A c \in Consumers : SF_vars(ConsumerStep(c))
  /\ \A j \in Joiners : SF_vars(JoinerStep(j))
  /\ \A g \in Gates : WF_vars(ReleaseNotify(g))

Spec == Init /\ [][Next]_vars
FairSpec == Spec /\ Fairness
-----------------------------------------------------------------------------
(* Properties *)

\* Every variable keeps the type the class and its threads give it.
TypeOK ==
  /\ inCount \in Nat /\ outCount \in Nat /\ completed \in Nat
  /\ buffer \in Seq(Items)
  /\ ready \in BOOLEAN /\ blocked \in BOOLEAN
  /\ mylock \in Consumers \union {NoThread}
  /\ joinlock \in Joiners \union {NoThread}
  /\ ppc \in [Producers -> {"idle", "count", "insert", "test", "notify", "refused"}]
  /\ cpc \in [Consumers -> {"pop", "park", "asleep", "work", "read", "read2",
                            "wake", "gone"}]
  /\ jpc \in [Joiners -> {"idle", "lock", "first", "second", "park", "asleep",
                          "returned"}]
  /\ gpc \in [Gates -> {"idle", "notify"}]
  /\ sent \in [Producers -> 0..PushLimit]
  /\ item \in [Consumers -> Items \union {NoItem}]
  /\ seen \in [Consumers \union Joiners -> [of : {"completed", "inCount"}, val : Nat]]
  /\ outstanding \subseteq Items
  /\ owed \in [Joiners -> SUBSET Items]

InHand == {<<p, sent[p]>> : p \in {q \in Producers : ppc[q] = "insert"}}
Working == {c \in Consumers : cpc[c] = "work"}

\* The counters join() and the sockets' statistics read tell the truth about
\* the items: in_count - completed is the number of unfinished items,
\* out_count - completed the number being worked on, and what was counted in
\* and not taken out is queued, in a push() in progress, or was discarded.
CountersAgree ==
  /\ inCount - completed = Cardinality(outstanding)
  /\ outCount - completed = Cardinality(Working)
  /\ inCount - outCount >= Len(buffer) + Cardinality(InHand)
  /\ ~(CanShutdown \/ CanClear) =>
       inCount - outCount = Len(buffer) + Cardinality(InHand)

\* join() has returned: every item announced before the call is finished, the
\* ones whose push() had counted but not yet queued them included
\* (abs_queue.h:105-113).
JoinDrains == \A j \in Joiners : jpc[j] = "returned" => owed[j] = {}

\* t has read one counter, and what it read is still that counter's value.
SeenIsCurrent(t) == seen[t].val = Counter(seen[t].of)

WillNotify(c) ==
  \/ cpc[c] \in {"read", "wake"}
  \/ cpc[c] = "read2" /\ SeenIsCurrent(c)

\* join() tests the counters under joinlock, but task_done() raises completed
\* without it. No wakeup is lost all the same: when the last item is finished
\* while a thread sleeps in join(), or is about to, some worker is still on
\* its way to sigdone.notify_all().
NoLostDone ==
  completed = inCount =>
    \A j \in Joiners :
      (jpc[j] \in {"park", "asleep"} \/ (jpc[j] = "second" /\ ~SeenIsCurrent(j)))
        => \E c \in Consumers : WillNotify(c)

\* shutdown() leaves nobody waiting in pop(), not even a consumer that had
\* decided to wait just before, and not even while the queue is held.
ShutdownReleasesAll ==
  ~ready => \A c \in Consumers : cpc[c] \notin {"park", "asleep"}

\* push() notifies after it has released mylock. Still, while anybody sleeps
\* in pop(), a wakeup or a consumer already awake is there for every queued
\* item: items are never left to one consumer while others sleep.
WakeupsSuffice ==
  (\E c \in Consumers : cpc[c] = "asleep") =>
    Len(buffer) <= Cardinality({c \in Consumers : cpc[c] = "pop"})
                   + Cardinality({p \in Producers : ppc[p] \in {"test", "notify"}})

\* The queue implements its contract.
Contract == INSTANCE QueueContract WITH
  open <- ready,
  pushed <- sent,
  inHand <- InHand,
  queue <- buffer,
  held <- item,
  joining <- {j \in Joiners : jpc[j] \notin {"idle", "returned"}}

\* Every step of push, pop, task_done, join, hold, release, shutdown and clear
\* is a step the contract allows, or changes nothing the contract mentions.
ImplementsContract == Contract!Spec

\* Nobody holds the queue and nobody discards what is in it.
Undisturbed == []~blocked /\ []ready /\ ~CanClear

\* Every item counted in is popped and finished: no lost notification leaves
\* it in the queue for ever.
ItemsFinish ==
  Undisturbed => \A i \in Items : (i \in outstanding) ~> (i \notin outstanding)

\* A call of join() ends (when nothing is discarded and pushing comes to an end).
JoinReturns ==
  Undisturbed => \A j \in Joiners : (jpc[j] = "lock") ~> (jpc[j] = "returned")
=============================================================================
