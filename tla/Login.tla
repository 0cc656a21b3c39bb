------------------------------- MODULE Login -------------------------------
(***************************************************************************)
(* Logging in to the broker (broker/handler/v0_login.go): a client asks    *)
(* for a challenge, signs it, and gets a token for it, its name and its    *)
(* password.  The challenges are kept in memory.  Who may get a token is   *)
(* told by the users table, which registrations of module Membership write *)
(* at the same time.                                                       *)
(*                                                                         *)
(* A password and a key pair are those of one registration, and an account *)
(* has those of the registration that created it, so "account" stands for  *)
(* both columns.                                                           *)
(***************************************************************************)
EXTENDS Membership

VARIABLES loginChallenges,  \* the cache: challenges, named by the request that got them
          login,            \* requests for challenges and tokens, and how far they have come
          tokens            \* history: the tokens issued, with whose credentials

loginVars == <<loginChallenges, login, tokens>>

Holder == Request \cup {"seed"}
NoLogin == [at |-> "new", user |-> Nobody, holder |-> "seed", challenge |-> Nobody]

LoginTypeOK ==
  /\ loginChallenges \subseteq Request
  /\ login \in [Request -> [at : {"new", "remove", "password", "signature", "done"},
                            user : User \cup {Nobody}, holder : Holder,
                            challenge : Request \cup {Nobody}]]
  /\ tokens \subseteq User \X Holder

LoginInit == /\ loginChallenges = {}
             /\ login = [q \in Request |-> NoLogin]
             /\ tokens = {}

LoginGoto(q, at) == login' = [login EXCEPT ![q].at = at]

(* challenge. *)
Challenge(q) ==
  /\ login[q].at = "new"
  /\ loginChallenges' = loginChallenges \cup {q}
  /\ LoginGoto(q, "done")
  /\ UNCHANGED tokens

(* Five minutes later. *)
Expire(c) == /\ c \in loginChallenges
             /\ loginChallenges' = loginChallenges \ {c}
             /\ UNCHANGED <<login, tokens>>

(* Whose credentials a client that logs in as u may have: those of one who *)
(* has tried to register the name.                                         *)
Credentials(u) == {q \in Request : req[q].op = "register" /\ req[q].user = u}
                    \cup {h \in {"seed"} : u \in Seeded}

(* login: the challenge is looked up... *)
GetChallenge(q, u, h, c) ==
  /\ login[q].at = "new"
  /\ h \in Credentials(u)
  /\ login[c].at = "done" /\ login[c].challenge = Nobody
  /\ login' = [login EXCEPT ![q] =
       [at |-> IF c \in loginChallenges THEN "remove" ELSE "done",
        user |-> u, holder |-> h, challenge |-> c]]
  /\ UNCHANGED <<loginChallenges, tokens>>

Owns(q) == account[login[q].user] = login[q].holder

(* Mutant of RemoveChallenge: a login with a wrong password leaves it. *)
RemoveIfOwned(q) ==
  /\ login[q].at = "remove"
  /\ loginChallenges' = IF Owns(q) THEN loginChallenges \ {login[q].challenge}
                         ELSE loginChallenges
  /\ LoginGoto(q, "password")
  /\ UNCHANGED tokens

(* ... and removed. *)
RemoveChallenge(q) ==
  /\ login[q].at = "remove"
  /\ loginChallenges' = loginChallenges \ {login[q].challenge}
  /\ LoginGoto(q, "password")
  /\ UNCHANGED tokens

ValidateUserPassword(q) ==
  /\ login[q].at = "password"
  /\ \/ Owns(q) /\ LoginGoto(q, "signature")
     \/ (~Owns(q) \/ MayFail) /\ LoginGoto(q, "done")
  /\ UNCHANGED <<loginChallenges, tokens>>

(* The public key is fetched, the signature verified and a token issued. *)
VerifySignature(q) ==
  /\ login[q].at = "signature"
  /\ LoginGoto(q, "done")
  /\ \/ Owns(q) /\ tokens' = tokens \cup {<<login[q].user, login[q].holder>>}
     \/ (~Owns(q) \/ MayFail) /\ UNCHANGED tokens
  /\ UNCHANGED loginChallenges

LoginServe(q) == RemoveChallenge(q) \/ ValidateUserPassword(q) \/ VerifySignature(q)
LoginArrive(q) ==
  \/ Challenge(q)
  \/ \E u \in User, h \in Holder, c \in Request : GetChallenge(q, u, h, c)

-----------------------------------------------------------------------------
(* However registrations of a name race with logins, and however the       *)
(* broker fails, tokens for a name go only to the one whose password and   *)
(* key the account has, and the account stays theirs.                      *)
TokensOfHolder == \A t \in tokens : account[t[1]] = t[2]

(* A challenge serves one login, or a few that overlap: once a login has   *)
(* gone past removing it, whether it then fails or not, and whatever the   *)
(* broker did in between, no other login finds it, and none that failed to *)
(* find it will.                                                           *)
ChallengesSpent ==
  \A q \in Request : login[q].challenge \in loginChallenges => login[q].at = "remove"
=============================================================================
