--------------------------- MODULE QueueContract ---------------------------
(***************************************************************************)
(* What common/abs_queue promises its callers, with no lock, no counter    *)
(* and no condition variable: items of one producer are delivered in the   *)
(* order it pushed them, each to one consumer; nothing is delivered after  *)
(* the queue is shut down; and join() returns only when every item that    *)
(* was pushed (or was being pushed) when join() was called has been        *)
(* finished with task_done().                                              *)
(***************************************************************************)
EXTENDS Naturals, Sequences

CONSTANTS Producers, Consumers, Joiners, PushLimit, NoItem

VARIABLES open,         \* the queue has not been shut down
          pushed,       \* pushed[p]: how many items p has announced
          inHand,       \* items announced by a producer, not yet in the queue
          queue,        \* items waiting, oldest first
          held,         \* held[c]: the item c works on, or NoItem
          outstanding,  \* items announced and not yet finished
          joining,      \* threads inside join()
          owed          \* owed[j]: items join() must still wait for

contractVars == <<open, pushed, inHand, queue, held, outstanding, joining, owed>>

Items == Producers \X (1..PushLimit)

Init ==
  /\ open = TRUE
  /\ pushed = [p \in Producers |-> 0]
  /\ inHand = {}
  /\ queue = <<>>
  /\ held = [c \in Consumers |-> NoItem]
  /\ outstanding = {}
  /\ joining = {}
  /\ owed = [j \in Joiners |-> {}]

\* A producer commits to its next item; it has at most one in hand.
Announce(p) ==
  /\ pushed[p] < PushLimit
  /\ \A i \in inHand : i[1] # p
  /\ pushed' = [pushed EXCEPT ![p] = @ + 1]
  /\ inHand' = inHand \union {<<p, pushed'[p]>>}
  /\ outstanding' = outstanding \union {<<p, pushed'[p]>>}
  /\ UNCHANGED <<open, queue, held, joining, owed>>

Put(i) ==
  /\ i \in inHand
  /\ queue' = Append(queue, i)
  /\ inHand' = inHand \ {i}
  /\ UNCHANGED <<open, pushed, held, outstanding, joining, owed>>

Get(c) ==
  /\ open
  /\ queue # <<>>
  /\ held[c] = NoItem
  /\ held' = [held EXCEPT ![c] = Head(queue)]
  /\ queue' = Tail(queue)
  /\ UNCHANGED <<open, pushed, inHand, outstanding, joining, owed>>

Finish(c) ==
  /\ held[c] # NoItem
  /\ held' = [held EXCEPT ![c] = NoItem]
  /\ outstanding' = outstanding \ {held[c]}
  /\ owed' = [j \in Joiners |-> owed[j] \ {held[c]}]
  /\ UNCHANGED <<open, pushed, inHand, queue, joining>>

\* Items dropped here are never finished, so a join() that is owed one of
\* them never returns.
Discard ==
  /\ queue' = <<>>
  /\ open' \in {open, FALSE}
  /\ UNCHANGED <<pushed, inHand, held, outstanding, joining, owed>>

CallJoin(j) ==
  /\ j \notin joining
  /\ joining' = joining \union {j}
  /\ owed' = [owed EXCEPT ![j] = outstanding]
  /\ UNCHANGED <<open, pushed, inHand, queue, held, outstanding>>

ReturnJoin(j) ==
  /\ j \in joining
  /\ owed[j] = {}
  /\ joining' = joining \ {j}
  /\ UNCHANGED <<open, pushed, inHand, queue, held, outstanding, owed>>

Next ==
  \/ \E p \in Producers : Announce(p)
  \/ \E i \in inHand : Put(i)
  \/ \E c \in Consumers : Get(c) \/ Finish(c)
  \/ Discard
  \/ \E j \in Joiners : CallJoin(j) \/ ReturnJoin(j)

Spec == Init /\ [][Next]_contractVars
=============================================================================
