-------------------------- MODULE TurnClockProofs --------------------------
(* When the pacing of the turns is sound, for every quanta and every width. *)
EXTENDS TurnClock, TLAPS

\* Time enough is left in every turn that is not an overrun, a late wakeup included.
PaceBudget == \A w \in TurnTimes : w < Ticks => w + MaxLag + MaxLate <= Ticks

\* Where slack is at each control point.
ClockInv ==
  /\ pc \in {"turn", "check", "sleep", "ended"}
  /\ slack \in Int /\ elapsed \in Nat /\ tosleep \in Int
  /\ turnclock \in Timers
  /\ pc = "turn" => slack \in (Ticks - MaxLate)..Ticks
  /\ elapsed \in TurnTimes \union {0}
  /\ pc = "check" => /\ elapsed \in TurnTimes
                     /\ slack \in (Ticks - MaxLate - elapsed)..Ticks
  /\ pc = "sleep" => slack \in 0..Ticks /\ tosleep = slack

\* The modulus of a small number is the number.
LEMMA ModSmall == \A m \in Nat, n \in Nat : m < n => m % n = m
  OBVIOUS

\* A timer that is reset and started has been running for as long as passes.
LEMMA StartedFresh ==
  ASSUME NEW t, NEW w \in Nat
  PROVE  /\ Start(Reset(t), 0) = [running |-> TRUE, elapsed |-> 0, age |-> 0]
         /\ Advance(Start(Reset(t), 0), w) = [running |-> TRUE, elapsed |-> 0, age |-> w]
<1>1. Fresh.running = FALSE /\ Fresh.elapsed = 0 /\ Fresh.age = 0
  BY DEF Fresh
<1>2. Start(Fresh, 0) = [Fresh EXCEPT !.running = TRUE, !.age = 0]
  BY <1>1, Zenon DEF Start
<1>3. Start(Fresh, 0) = [running |-> TRUE, elapsed |-> 0, age |-> 0]
  BY <1>2 DEF Fresh
<1> DEFINE S == Start(Fresh, 0)
<1>4. S.running = TRUE /\ S.age = 0
  BY <1>3
<1>5. Advance(S, w) = [S EXCEPT !.age = S.age + w]
  BY <1>4, Zenon DEF Advance
<1>6. S.age + w = w
  BY <1>4
<1>7. Advance(S, w) = [running |-> TRUE, elapsed |-> 0, age |-> w]
  <2> HIDE DEF S
  <2> QED
    BY <1>3, <1>5, <1>6 DEF S
<1> QED
  BY <1>3, <1>7 DEF Reset

\* Time passing keeps a timer a timer.
LEMMA AdvanceType == \A t \in Timers, d \in Nat : Advance(t, d) \in Timers
  BY DEF Timers, Advance

\* If lateness and lag fit into what the longest turn leaves of a quanta, the
\* subtraction never wraps, the engine never sleeps longer than a quanta, and
\* no turn starts later than one wakeup's lateness; every measurement is of one turn.
THEOREM PaceIsKept ==
  ASSUME PaceBudget
  PROVE  Spec => [](SleepsWithinQuanta /\ NoDrift /\ MeasuresOneTurn)
<1> USE ClockAssumption
<1>1. Init => ClockInv
  <2>1. [running |-> TRUE, elapsed |-> 0, age |-> 0] \in Timers
    BY DEF Timers
  <2>2. Start(Fresh, 0) \in Timers
    <3>1. Start(Reset(0), 0) = [running |-> TRUE, elapsed |-> 0, age |-> 0]
      BY StartedFresh
    <3> QED
      BY <2>1, <3>1 DEF Reset
  <2> QED
    BY <2>2 DEF Init, ClockInv
<1>2. ClockInv /\ [Next]_vars => ClockInv'
  <2> SUFFICES ASSUME ClockInv, [Next]_vars PROVE ClockInv'
    OBVIOUS
  <2>1. CASE Turn
    <3>1. PICK w \in TurnTimes :
            /\ turnclock' = Advance(Start(Reset(turnclock), 0), w)
            /\ slack' = slack - w
      BY <2>1 DEF Turn
    <3>2. turnclock' = [running |-> TRUE, elapsed |-> 0, age |-> w]
      BY <3>1, StartedFresh
    <3>3. elapsed' = Interval(turnclock')
      BY <2>1 DEF Turn
    <3>4. Interval(turnclock') = turnclock'.elapsed + turnclock'.age
      BY <3>2, Zenon DEF Interval
    <3>5. elapsed' = w /\ turnclock' \in Timers
      BY <3>2, <3>3, <3>4 DEF Timers
    <3>6. pc = "turn" /\ pc' = "check" /\ UNCHANGED tosleep
      BY <2>1 DEF Turn
    <3> QED
      BY <3>1, <3>5, <3>6 DEF ClockInv
  <2>2. CASE Overrun
    BY <2>2 DEF Overrun, ClockInv
  <2>3. CASE ToSleep
    <3>1. PICK lag \in 0..MaxLag :
            slack' = slack - lag /\ turnclock' = Advance(turnclock, lag)
      BY <2>3 DEF ToSleep
    <3>2. slack' \in 0..Ticks
      <4>1. elapsed \in TurnTimes /\ elapsed < Ticks /\ slack \in (Ticks - MaxLate - elapsed)..Ticks
        BY <2>3 DEF ToSleep, ClockInv
      <4>2. elapsed + MaxLag + MaxLate <= Ticks
        BY <4>1, PaceBudget DEF PaceBudget
      <4> QED
        BY <3>1, <4>1, <4>2
    <3>3. tosleep' = slack'
      BY <2>3, <3>2, ModSmall DEF ToSleep
    <3>4. turnclock' \in Timers
      BY <3>1, AdvanceType DEF ClockInv
    <3> QED
      BY <2>3, <3>2, <3>3, <3>4 DEF ToSleep, ClockInv
  <2>4. CASE Sleep
    <3>1. slack \in 0..Ticks /\ tosleep % Narrow = slack
      BY <2>4, ModSmall DEF Sleep, ClockInv
    <3>2. PICK late \in 0..MaxLate :
            LET slept == (tosleep % Narrow) + late
            IN slack' = slack - slept + Ticks /\ turnclock' = Advance(turnclock, slept)
      BY <2>4 DEF Sleep
    <3>3. turnclock' \in Timers
      BY <3>1, <3>2, AdvanceType DEF ClockInv
    <3> QED
      BY <2>4, <3>1, <3>2, <3>3 DEF Sleep, ClockInv
  <2>5. CASE UNCHANGED vars
    BY <2>5 DEF vars, ClockInv
  <2> QED
    BY <2>1, <2>2, <2>3, <2>4, <2>5 DEF Next
<1>3. ClockInv => SleepsWithinQuanta /\ NoDrift /\ MeasuresOneTurn
  BY DEF ClockInv, SleepsWithinQuanta, NoDrift, MeasuresOneTurn
<1> QED
  BY <1>1, <1>2, <1>3, PTL DEF Spec
=============================================================================
