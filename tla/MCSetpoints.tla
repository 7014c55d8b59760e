---------------------------- MODULE MCSetpoints ----------------------------
(* What Home Assistant holds when the device boots, for TLC: a setpoint that *)
(* equals the default of the display, and one that is unavailable.           *)
EXTENDS Setpoints

MCFirstState == {[cool |-> NaN, heat |-> HeatDefault]}
=============================================================================
