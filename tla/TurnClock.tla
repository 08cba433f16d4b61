----------------------------- MODULE TurnClock -----------------------------
(***************************************************************************)
(* How run_sim (sim_core.cpp:418-462) keeps the turns on the wall clock:   *)
(* the work of a turn is timed, a turn that took a quanta or more ends the *)
(* run, and otherwise the engine sleeps for nexttime - wallclock, an       *)
(* unsigned 64-bit difference handed to usleep(), which takes 32 bits.     *)
(*                                                                         *)
(* Only slack, the true difference nexttime - wallclock, is kept.          *)
(***************************************************************************)
EXTENDS HiresTimer

CONSTANTS Ticks,      \* quanta_duration in microseconds
          TurnTimes,  \* what a turn may take up to the measurement
          MaxLag,     \* bound: time from the measurement to the subtraction
          MaxLate,    \* bound: how late usleep() returns
          Wide,       \* 2^64: unsigned long long
          Narrow      \* 2^32: useconds_t

ASSUME ClockAssumption ==
  /\ Ticks \in Nat \ {0} /\ TurnTimes \subseteq Nat /\ MaxLag \in Nat /\ MaxLate \in Nat
  /\ Wide \in Nat /\ Narrow \in Nat
  /\ Ticks < Narrow /\ Narrow <= Wide

VARIABLES pc,         \* where the loop is
          slack,      \* nexttime - wallclock
          turnclock,  \* the timer of the turn
          elapsed,    \* what it measured
          tosleep     \* the argument of usleep()

vars == <<pc, slack, turnclock, elapsed, tosleep>>

Init ==
  /\ pc = "turn"
  /\ slack = Ticks
  /\ turnclock = Start(Fresh, 0)
  /\ elapsed = 0
  /\ tosleep = 0

Turn ==
  /\ pc = "turn"
  /\ pc' = "check"
  /\ \E w \in TurnTimes :
       /\ turnclock' = Advance(Start(Reset(turnclock), 0), w)
       /\ slack' = slack - w
  /\ elapsed' = Interval(turnclock')
  /\ UNCHANGED tosleep

Overrun ==
  /\ pc = "check" /\ elapsed >= Ticks
  /\ pc' = "ended"
  /\ UNCHANGED <<slack, turnclock, elapsed, tosleep>>

\* Mutation of ToSleep: the rest of this quanta, wherever the wall clock is.
ToSleep_Relative ==
  /\ pc = "check" /\ elapsed < Ticks
  /\ pc' = "sleep"
  /\ \E lag \in 0..MaxLag : slack' = slack - lag /\ turnclock' = Advance(turnclock, lag)
  /\ tosleep' = Ticks - elapsed
  /\ UNCHANGED elapsed

\* The report has been stored between the measurement and this subtraction.
ToSleep ==
  /\ pc = "check" /\ elapsed < Ticks
  /\ pc' = "sleep"
  /\ \E lag \in 0..MaxLag : slack' = slack - lag /\ turnclock' = Advance(turnclock, lag)
  /\ tosleep' = slack' % Wide
  /\ UNCHANGED elapsed

\* usleep(tosleep); nexttime += ticks
Sleep ==
  /\ pc = "sleep"
  /\ pc' = "turn"
  /\ \E late \in 0..MaxLate :
       LET slept == (tosleep % Narrow) + late
       IN slack' = slack - slept + Ticks /\ turnclock' = Advance(turnclock, slept)
  /\ UNCHANGED <<elapsed, tosleep>>

Next == Turn \/ Overrun \/ ToSleep \/ Sleep

Spec == Init /\ [][Next]_vars

-----------------------------------------------------------------------------
(* Properties *)

\* "sleep until the next turn by the wall clock" (sim_core.cpp:459): the engine
\* never sleeps longer than one quanta.
SleepsWithinQuanta == pc = "sleep" => tosleep <= Ticks

\* The turns keep their pace, though usleep() comes back late and turns overrun:
\* a turn starts no later than its own wakeup was, for the lateness of the turns
\* before it is slept off (sim_core.cpp:459-462).
NoDrift == pc = "turn" => slack >= Ticks - MaxLate

\* "measures the actual gonculation time" (sim_core.cpp:421): no turn is charged
\* with the time of another, or with the engine's sleep, however often the one
\* timer is used; an overrun is the overrun of a single turn.
MeasuresOneTurn == elapsed \in TurnTimes \union {0}
=============================================================================
