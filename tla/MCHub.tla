------------------------------- MODULE MCHub -------------------------------
(* Two sets of connections: alice connecting twice, so that a reconnection *)
(* can meet the registration of the connection before it, while invitation *)
(* requests push to her; and alice and bob pushing to each other.          *)
EXTENDS Hub, TLC

CONSTANTS alice, bob, a1, a2, b1

OwnerTwice == a1 :> alice @@ a2 :> alice
AloneTwice == alice :> {}
MaxRpcTwice == a1 :> 2 @@ a2 :> 1

OwnerPair == a1 :> alice @@ b1 :> bob
FriendsPair == alice :> {bob} @@ bob :> {alice}
MaxRpcPair == a1 :> 1 @@ b1 :> 0
OwnerOne == a1 :> alice
MaxRpcOne == a1 :> 3
=============================================================================
