-------------------------- MODULE MCAppEventQueue --------------------------
(* A ring of three slots: the indices wrap in every position.              *)
EXTENDS AppEventQueue

CONSTANTS stand, slow, fast
MCVelocity == {stand, slow, fast}
=============================================================================
