------------------------------ MODULE MCClient ------------------------------
(* Client on two rooms, in one of which a message was sent before. *)
EXTENDS Client, TLC

CONSTANTS r1, r2

MCRoom == {r1, r2}
MCBefore == r1 :> 0 @@ r2 :> 1
=============================================================================
