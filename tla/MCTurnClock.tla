---------------------------- MODULE MCTurnClock ----------------------------
(* An instance of TurnClock for TLC, in units that keep the integers small:  *)
(* turns that leave room for the report and a late wakeup, and overruns.     *)
EXTENDS TurnClock

MCTurnTimes == (0..34) \union {40, 45}
=============================================================================
