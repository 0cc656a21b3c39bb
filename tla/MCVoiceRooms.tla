---------------------------- MODULE MCVoiceRooms ----------------------------
(* Three users, one of whom joins a second time, and enough VoiceRoom      *)
(* objects for every join to make its own.                                 *)
EXTENDS VoiceRooms, TLC

CONSTANTS alice, bob, carol, a1, a2, b1, b2, c1

CallerThree == a1 :> alice @@ a2 :> alice @@ b1 :> bob @@ b2 :> bob @@ c1 :> carol
CallerTwo == a1 :> alice @@ a2 :> alice @@ b1 :> bob
AnyRoom == Permutations(Room)
=============================================================================
