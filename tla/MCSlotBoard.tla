---------------------------- MODULE MCSlotBoard ----------------------------
(***************************************************************************)
(* A small instance of SlotBoard: two slots, a book of each of two zones,  *)
(* and a tag that is not in the catalogue.                                 *)
(***************************************************************************)
EXTENDS SlotBoard, TLC

CONSTANTS s1, s2, b1, b2, unknown, z1, z2

MCSlots == {s1, s2}
MCBooks == {b1, b2, unknown}
MCRegistered == {b1, b2}
MCZones == {z1, z2}
MCHome == b1 :> z1 @@ b2 :> z2
MCSymmetry == Permutations(MCSlots)
=============================================================================
