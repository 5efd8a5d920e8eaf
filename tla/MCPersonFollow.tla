--------------------------- MODULE MCPersonFollow ---------------------------
(***************************************************************************)
(* A small instance of PersonFollow: the librarian, who comes back under a *)
(* number of her own and under another one, and a stranger.                *)
(***************************************************************************)
EXTENDS PersonFollow, TLC

CONSTANTS first, second, other, librarian, stranger, stand, fast

MCTracks == {first, second, other}
MCPeople == {librarian, stranger}
MCOwner == first :> librarian @@ second :> librarian @@ other :> stranger
MCVelocity == {stand, fast}
=============================================================================
