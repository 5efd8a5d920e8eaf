---------------------------- MODULE MCCartDrive ----------------------------
(* Both watchdogs with short timeouts, and a clock just long enough.  No   *)
(* step asks which wheel stalled, so the causes are interchangeable.       *)
EXTENDS CartDrive, TLC

CONSTANTS stand, fast
MCVelocity == {stand, fast}
CauseSymmetry == Permutations(Cause)
=============================================================================
