----------------------------- MODULE MCDelivery -----------------------------
(* A sender who reconnects and a recipient who joins late and reconnects,  *)
(* at a broker that is started again; and the same two as members from the *)
(* start who both send, for the counters.                                  *)
EXTENDS Delivery, TLC

CONSTANTS alice, bob, a1, a2, b1, b2

OwnerTwo == a1 :> alice @@ a2 :> alice @@ b1 :> bob @@ b2 :> bob
SayTwice == alice :> 2 @@ bob :> 0
SelectTwice == alice :> 2 @@ bob :> 0
FounderTwo == <<alice>>

OwnerPair == a1 :> alice @@ b1 :> bob
SayPair == alice :> 2 @@ bob :> 1
SelectPair == alice :> 2 @@ bob :> 1
FounderPair == <<alice, bob>>
=============================================================================
