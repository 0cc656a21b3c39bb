------------------------------ MODULE Standing ------------------------------
(***************************************************************************)
(* What the room tables promise, with no transaction in sight: in each     *)
(* room a user stands nowhere, is invited, is a member or is the admin.    *)
(* A room comes into being with its admin in it; an invitation reaches     *)
(* only a user with no standing in a room that exists; only an invited     *)
(* user becomes a member; nobody loses a standing.  Module Membership      *)
(* implements this with five tables and concurrent transactions.           *)
(***************************************************************************)
CONSTANTS User, Room

VARIABLE standing

Rank == {"none", "invited", "member", "admin"}

Exists(r) == \E u \in User : standing[r][u] = "admin"

StandingInit == standing = [r \in Room |-> [u \in User |-> "none"]]

Found(r, u) == /\ \A v \in User : standing[r][v] = "none"
               /\ standing' = [standing EXCEPT ![r][u] = "admin"]

Bid(r, u) == /\ Exists(r)
             /\ standing[r][u] = "none"
             /\ standing' = [standing EXCEPT ![r][u] = "invited"]

Enter(r, u) == /\ standing[r][u] = "invited"
               /\ standing' = [standing EXCEPT ![r][u] = "member"]

StandingNext == \E r \in Room, u \in User :
                   Found(r, u) \/ Bid(r, u) \/ Enter(r, u)

StandingSpec == StandingInit /\ [][StandingNext]_standing
=============================================================================
