------------------------------ MODULE Ratchet ------------------------------
(***************************************************************************)
(* The message keys of shellapp/keys.  The keys of one user in one room    *)
(* form a chain, each derived from the one before, so a key is the number  *)
(* of its place on the chain, and a RoomKeyChain is, for each user, the    *)
(* number of the last key derived.  A message carries a label, the count   *)
(* its sender gave it, and was encrypted under some key; it opens under no *)
(* other.                                                                  *)
(***************************************************************************)
EXTENDS Naturals, Sequences

(* GetUserKey with the chain at c: the key for count n, and where the      *)
(* chain is afterwards.  A chain is never turned back: for an earlier      *)
(* count it gives the key it is at.                                        *)
GetUserKey(c, n) == IF c < n THEN n ELSE c

(* EncryptMessageWithRoomKey: the message for count n, encrypted under the *)
(* key the chain at c gives for it.                                        *)
Sealed(c, n) == [label |-> n, key |-> GetUserKey(c, n)]

(* DecryptMessageWithRoomKey and DecryptHistoricalMessage. *)
Opens(c, m) == GetUserKey(c, m.label) = m.key

(* Where a new chain is after the first i messages of s. *)
After(s) ==
  LET at[i \in 0 .. Len(s)] == IF i = 0 THEN 0 ELSE GetUserKey(at[i - 1], s[i].label)
  IN  at

(* GetUserDecryptableRoomMessages with a limit of n, for messages that are  *)
(* in the order of their rows.                                             *)
Latest(s, n) == SubSeq(s, IF n < Len(s) THEN Len(s) - n + 1 ELSE 1, Len(s))

(* What loadRoomHistory shows of the messages s of one user: those that    *)
(* open when a new chain is led through all of them in turn.               *)
Opened(s) == {i \in 1 .. Len(s) : Opens(After(s)[i - 1], s[i])}
=============================================================================
