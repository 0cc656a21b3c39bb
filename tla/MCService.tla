----------------------------- MODULE MCService -----------------------------
(* Four requests against a name and a room, and two processes that start   *)
(* in turn or at once, on a database an earlier release has left.          *)
EXTENDS Service, TLC

CONSTANTS broker, migrate

AnyRequest == Permutations(Request)
=============================================================================
