---------------------------- MODULE MCWheelDrive ----------------------------
(* Velocities up to five units, one request and its reverse.  The limited   *)
(* velocity comes down by two units per sample, as in motor_config.h twice  *)
(* as fast as it goes up, so a direction change takes three samples to 0.   *)
(* With the gains (1, 1) the PI correction reaches the stall threshold and  *)
(* outlasts the way down, with (0, 0), the default, the output is the       *)
(* feedforward alone.                                                       *)
EXTENDS WheelDrive

MCTargets == {-5, 0, 5}
MCGains == {[kp |-> 0, ki |-> 0], [kp |-> 1, ki |-> 1]}
=============================================================================
