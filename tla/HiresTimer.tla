---------------------------- MODULE HiresTimer ----------------------------
(***************************************************************************)
(* hirez_timer (common/timer). A timer keeps when it was started; here it   *)
(* keeps how long ago that was, and whoever lets time pass advances it.     *)
(***************************************************************************)
EXTENDS Integers

Timers == [running : BOOLEAN, elapsed : Nat, age : Nat]

Fresh == [running |-> FALSE, elapsed |-> 0, age |-> 0]

Reset(t) == Fresh

\* A running timer is left alone. What an earlier stop() measured is kept.
Start(t, init) == IF t.running THEN t ELSE [t EXCEPT !.running = TRUE, !.age = init]

Interval(t) == IF t.running THEN t.elapsed + t.age ELSE t.elapsed

Advance(t, time) == IF t.running THEN [t EXCEPT !.age = @ + time] ELSE t
=============================================================================
