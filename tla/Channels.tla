------------------------------ MODULE Channels ------------------------------
(***************************************************************************)
(* How the threads of the program find the queue "sim_output": through the *)
(* channel manager (common/ipc_channel), a std::map without a lock, behind *)
(* common/singleton, which tests its pointer before and after it takes a   *)
(* mutex. (The pointer is not atomic either; loads and stores are taken in *)
(* program order here.)                                                    *)
(***************************************************************************)
EXTENDS Naturals

Users == {"main", "writer", "engine"}

VARIABLES me,     \* the singleton's pointer: a number of an instance, or 0
          made,   \* instances made
          found,  \* where each user is on its way to the queue
          mine,   \* the instance a user got, or 0
          keyed   \* instances that hold the queue

channels == <<me, made, found, mine, keyed>>

ChannelsInit ==
  /\ me = 0 /\ made = 0
  /\ found = [t \in Users |-> "test"] /\ mine = [t \in Users |-> 0]
  /\ keyed = {}

\* The test that avoids the mutex.
Test(t) ==
  /\ found[t] = "test"
  /\ mine' = [mine EXCEPT ![t] = me]
  /\ found' = [found EXCEPT ![t] = IF me = 0 THEN "lock" ELSE "find"]
  /\ UNCHANGED <<me, made, keyed>>

\* Mutation of Construct: the pointer is not tested again.
Construct_Untested(t) ==
  /\ found[t] = "lock"
  /\ made' = made + 1 /\ me' = made'
  /\ mine' = [mine EXCEPT ![t] = me'] /\ found' = [found EXCEPT ![t] = "find"]
  /\ UNCHANGED keyed

\* Under the mutex: a second test, and the instance.
Construct(t) ==
  /\ found[t] = "lock"
  /\ IF me = 0 THEN made' = made + 1 /\ me' = made' ELSE UNCHANGED <<me, made>>
  /\ mine' = [mine EXCEPT ![t] = me'] /\ found' = [found EXCEPT ![t] = "find"]
  /\ UNCHANGED keyed

\* channels[name] searches the map while another thread inserts: undefined.
Races(t) ==
  found[t] = "find" /\ \E u \in Users \ {t} : found[u] = "insert" /\ mine[u] = mine[t]

Find(t) ==
  /\ found[t] = "find" /\ ~Races(t)
  /\ found' = [found EXCEPT ![t] = IF mine[t] \in keyed THEN "have" ELSE "insert"]
  /\ UNCHANGED <<me, made, mine, keyed>>

Insert(t) ==
  /\ found[t] = "insert"
  /\ keyed' = keyed \union {mine[t]}
  /\ found' = [found EXCEPT ![t] = "have"]
  /\ UNCHANGED <<me, made, mine>>

Finds(t) == Test(t) \/ Construct(t) \/ Find(t) \/ Insert(t)

\* Whoever has the queue has the same one, so that reports reach the writer and
\* main() waits for the queue they are in: two first calls of get_reference() at
\* once make one instance (singleton.h:88-103).
OneChannel ==
  \A t, u \in Users : found[t] = "have" /\ found[u] = "have" => mine[t] = mine[u]
=============================================================================
