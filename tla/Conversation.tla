---------------------------- MODULE Conversation ----------------------------
(***************************************************************************)
(* What a room promises its users, with no connection, queue or counter in *)
(* sight: a message is said once, and from then on may reach each other    *)
(* user who has joined, and the history, at most once, after the earlier   *)
(* messages of its sender that get there.  The history has one row for     *)
(* each number of a sender, and never loses or changes one.  Module        *)
(* Delivery implements this across reconnections, restarts of the broker   *)
(* and statements that fail.  That a message gets anywhere is not promised.*)
(***************************************************************************)
EXTENDS Naturals, Sequences

CONSTANT User

VARIABLES said,    \* the numbers of the messages a user has said, in order
          got,     \* what has reached each user, in order
          stored,  \* the history, in order
          joined   \* the users who have joined

conversation == <<said, got, stored, joined>>

(* Nothing of the sender of m in s is m or said after it. *)
Follows(m, s) == \A i \in DOMAIN s : s[i].from = m.from => s[i].k < m.k

Number(m) == said[m.from][m.k]

ConversationInit ==
  /\ said = [u \in User |-> <<>>]
  /\ got = [u \in User |-> <<>>]
  /\ stored = <<>>
  /\ joined \subseteq User

Enter(u) ==
  /\ u \notin joined
  /\ joined' = joined \cup {u}
  /\ UNCHANGED <<said, got, stored>>

(* A number may be used again, but is never beyond the messages there are. *)
Utter(u) ==
  /\ \E n \in 0 .. Len(said[u]) : said' = [said EXCEPT ![u] = Append(@, n)]
  /\ UNCHANGED <<got, stored, joined>>

Reach(m, u) ==
  /\ u \in joined \ {m.from}
  /\ Follows(m, got[u])
  /\ got' = [got EXCEPT ![u] = Append(@, m)]
  /\ UNCHANGED <<said, stored, joined>>

Keep(m) ==
  /\ Follows(m, stored)
  /\ \A i \in DOMAIN stored : stored[i].from = m.from => Number(stored[i]) # Number(m)
  /\ stored' = Append(stored, m)
  /\ UNCHANGED <<said, got, joined>>

ConversationNext ==
  \/ \E u \in User : Enter(u) \/ Utter(u)
  \/ \E s \in User : \E k \in 1 .. Len(said[s]) :
       LET m == [from |-> s, k |-> k] IN
       Keep(m) \/ \E u \in User : Reach(m, u)

ConversationSpec == ConversationInit /\ [][ConversationNext]_conversation
=============================================================================
