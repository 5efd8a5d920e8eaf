-------------------------- MODULE MCCartConnection --------------------------
(***************************************************************************)
(* A small instance of CartConnection: two request threads.                *)
(***************************************************************************)
EXTENDS CartConnection

CONSTANTS r1, r2

MCRequests == {r1, r2}
=============================================================================
