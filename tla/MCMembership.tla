---------------------------- MODULE MCMembership ----------------------------
(* One room, two users of whom one is registered, and four requests.  The  *)
(* requests are interchangeable, but no symmetry is declared: the run also *)
(* checks liveness.                                                        *)
EXTENDS Membership
=============================================================================
