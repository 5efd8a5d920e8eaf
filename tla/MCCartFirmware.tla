--------------------------- MODULE MCCartFirmware ---------------------------
(* A small controller: one velocity besides 0, a queue the inputs of a      *)
(* single loop pass can fill.                                              *)
EXTENDS CartFirmware

CONSTANTS stand, fast
MCVelocity == {stand, fast}
=============================================================================
