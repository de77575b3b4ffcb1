--------------------------- MODULE MCMoveHandshake ---------------------------
(* Model values for the handshake: two reachable points and one that is not. *)
EXTENDS MoveHandshake
CONSTANTS a, b, far
MCPoints == {a, b, far}
MCReachable == {a, b}
=============================================================================
