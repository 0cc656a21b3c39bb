----------------------------- MODULE Membership -----------------------------
(***************************************************************************)
(* Accounts, rooms, invitations and room keys: the HTTP requests that      *)
(* write to the database (broker/handler, broker/core/rooms.go,            *)
(* broker/core/broker.go) and the statements they run                      *)
(* (broker/database/queries_rooms.go, queries_users.go).                   *)
(*                                                                         *)
(* Requests run concurrently, each on its own connection at PostgreSQL's   *)
(* default READ COMMITTED isolation: a statement sees the rows committed   *)
(* when it starts and its own transaction's, and an INSERT whose primary   *)
(* key another open transaction has inserted waits for that transaction to *)
(* end.  Which rows an open transaction has inserted is told by how far it *)
(* has come; they reach the tables when it commits, and a statement that   *)
(* fails rolls all of them back.                                           *)
(***************************************************************************)
EXTENDS Naturals, FiniteSets

CONSTANTS User,       \* user names
          Room,       \* room ids (random UUIDs: never generated twice)
          Request,    \* HTTP requests, each served once
          Seeded,     \* users registered at the start
          Nobody,     \* SQL null: neither a user nor a room nor a request
          MayFail     \* whether statements and commits may fail

ASSUME MembershipAssumption == /\ Seeded \subseteq User
                               /\ Nobody \notin User \cup Room \cup Request
                               /\ "seed" \notin Request \cup {Nobody}
                               /\ MayFail \in BOOLEAN

VARIABLES account,   \* users: the request that created the row, or Nobody
          creator,   \* rooms: created_by_user_id, or Nobody
          member,    \* room_members: joined_at null or not
          role,      \* user_room_roles
          version,   \* room_key_versions
          key,       \* user_room_keys: the versions a user has a copy of
          req,       \* the requests and how far they have come
          answer,    \* what each request was answered
          notified   \* invitation notices pushed to users

db == <<account, creator, member, role, version, key>>
vars == <<account, creator, member, role, version, key, req, answer, notified>>

Role == {"admin", "member"}
Op == {"none", "register", "create", "invite", "accept"}
Step == {"new", "insert", "open", "version", "member", "role", "key",
         "commit", "notify", "done"}
Unsent == [op |-> "none", at |-> "new", room |-> Nobody, user |-> Nobody, ver |-> 0]

TypeOK ==
  /\ account \in [User -> Request \cup {"seed", Nobody}]
  /\ creator \in [Room -> User \cup {Nobody}]
  /\ member \in [Room -> [User -> {"none", "pending", "joined"}]]
  /\ role \in [Room -> [User -> SUBSET Role]]
  /\ version \in [Room -> SUBSET (Nat \ {0})]
  /\ key \in [Room -> [User -> SUBSET (Nat \ {0})]]
  /\ req \in [Request -> [op : Op, at : Step, room : Room \cup {Nobody},
                          user : User \cup {Nobody}, ver : Nat]]
  /\ answer \in [Request -> {"none", "created", "already", "ok", "failed"}]
  /\ notified \subseteq Room \X User

Init ==
  /\ account = [u \in User |-> IF u \in Seeded THEN "seed" ELSE Nobody]
  /\ creator = [r \in Room |-> Nobody]
  /\ member = [r \in Room |-> [u \in User |-> "none"]]
  /\ role = [r \in Room |-> [u \in User |-> {}]]
  /\ version = [r \in Room |-> {}]
  /\ key = [r \in Room |-> [u \in User |-> {}]]
  /\ req = [q \in Request |-> Unsent]
  /\ answer = [q \in Request |-> "none"]
  /\ notified = {}

Registered == {u \in User : account[u] # Nobody}

(* The request arrives and its first step leaves it at the given step. *)
Begin(q, op, r, u, step) ==
  /\ req[q].at = "new"
  /\ req' = [req EXCEPT ![q] =
               [op |-> op, at |-> step, room |-> r, user |-> u, ver |-> 0]]

(* withSignature lets a request of u in if u has a public key.  Tokens and *)
(* signatures are those of a client that has logged in.                    *)
Signed(u) == u \in Registered

Goto(q, step) == req' = [req EXCEPT ![q].at = step]
Reply(q, result) == answer' = [answer EXCEPT ![q] = result]

(* A statement or the commit of the transaction fails, or the client hangs *)
(* up and cancels the request: it is rolled back and answered with an      *)
(* error.                                                                  *)
Rollback(q) == Goto(q, "done") /\ Reply(q, "failed") /\ UNCHANGED <<db, notified>>

DbFails(q) ==
  /\ MayFail
  /\ req[q].at \notin {"new", "done", "notify"}
  /\ Rollback(q)

-----------------------------------------------------------------------------
(* RegisterUser: look the name up, and insert it if that finds nothing or  *)
(* fails.                                                                  *)

Register(q, u) ==
  /\ \/ /\ u \in Registered
        /\ Begin(q, "register", Nobody, u, "done")
        /\ Reply(q, "already")
     \/ /\ u \notin Registered \/ MayFail
        /\ Begin(q, "register", Nobody, u, "insert")
        /\ UNCHANGED answer
  /\ UNCHANGED <<db, notified>>

(* Mutant of CreateUser: INSERT ... ON CONFLICT DO UPDATE. *)
UpsertUser(q) ==
  /\ req[q].at = "insert"
  /\ account' = [account EXCEPT ![req[q].user] = q]
  /\ Goto(q, "done")
  /\ Reply(q, "created")
  /\ UNCHANGED <<creator, member, role, version, key, notified>>

(* CreateUser: username is unique, so the second of two INSERTs fails. *)
CreateUser(q) ==
  LET u == req[q].user IN
  /\ req[q].at = "insert"
  /\ IF u \in Registered
     THEN Rollback(q)
     ELSE /\ account' = [account EXCEPT ![u] = q]
          /\ Goto(q, "done")
          /\ \/ Reply(q, "created")
             \/ MayFail /\ Reply(q, "failed")    \* inserted, answer lost
          /\ UNCHANGED <<creator, member, role, version, key, notified>>

-----------------------------------------------------------------------------
(* createRoom: five INSERTs under a fresh room id, then the commit. *)

CreateRoom(q, r, u) ==
  /\ Signed(u)
  /\ creator[r] = Nobody
  /\ \A p \in Request : req[p].at = "open" => req[p].room # r
  /\ Begin(q, "create", r, u, "open")
  /\ UNCHANGED <<db, answer, notified>>

(* Mutant of CommitRoom: joined_at is not set. *)
CommitRoomPending(q) ==
  LET r == req[q].room
      u == req[q].user IN
  /\ req[q].at = "open"
  /\ creator' = [creator EXCEPT ![r] = u]
  /\ member' = [member EXCEPT ![r][u] = "pending"]
  /\ role' = [role EXCEPT ![r][u] = {"admin"}]
  /\ version' = [version EXCEPT ![r] = {1}]
  /\ key' = [key EXCEPT ![r][u] = {1}]
  /\ Goto(q, "done") /\ Reply(q, "ok")
  /\ UNCHANGED <<account, notified>>

CommitRoom(q) ==
  LET r == req[q].room
      u == req[q].user IN
  /\ req[q].at = "open"
  /\ creator' = [creator EXCEPT ![r] = u]
  /\ member' = [member EXCEPT ![r][u] = "joined"]
  /\ role' = [role EXCEPT ![r][u] = {"admin"}]
  /\ version' = [version EXCEPT ![r] = {1}]
  /\ key' = [key EXCEPT ![r][u] = {1}]
  /\ Goto(q, "done")
  /\ \/ Reply(q, "ok")
     \/ MayFail /\ Reply(q, "failed")    \* committed, answer lost
  /\ UNCHANGED <<account, notified>>

-----------------------------------------------------------------------------
(* BrokerInviteUser: the invited user is looked up; then InviteUserToRoom  *)
(* runs in one transaction; then the user is notified.                     *)

Invite(q, r, u) ==
  /\ \/ /\ u \in Registered
        /\ Begin(q, "invite", r, u, "version")
        /\ UNCHANGED answer
     \/ /\ u \notin Registered \/ MayFail
        /\ Begin(q, "invite", r, u, "done")
        /\ Reply(q, "failed")
  /\ UNCHANGED <<db, notified>>

(* SELECT MAX(version_num): fails on NULL if the room has no version. *)
ReadVersion(q) ==
  LET versions == version[req[q].room] IN
  /\ req[q].at = "version"
  /\ \/ versions = {} /\ Rollback(q)
     \/ \E v \in versions :
          /\ \A w \in versions : w <= v
          /\ req' = [req EXCEPT ![q] = [@ EXCEPT !.at = "member", !.ver = v]]
          /\ UNCHANGED <<db, answer, notified>>

(* Mutant of Holds: the SELECT before the INSERT takes a shared lock on the *)
(* user's place in the room, so two invitations wait for each other.       *)
HoldsEarly(p, r, u) == /\ req[p].at \in {"member", "role", "key", "commit"}
                       /\ req[p].room = r
                       /\ req[p].user = u

(* Transaction p is open and has inserted u's row of room_members for r. *)
Holds(p, r, u) == /\ req[p].at \in {"role", "key", "commit"}
                  /\ req[p].room = r
                  /\ req[p].user = u

(* Mutant of InsertMember: the user is notified before the commit. *)
InsertAndNotify(q) ==
  LET r == req[q].room
      u == req[q].user IN
  /\ req[q].at = "member"
  /\ \A p \in Request \ {q} : ~Holds(p, r, u)
  /\ IF member[r][u] # "none" THEN Rollback(q)
     ELSE /\ Goto(q, "role")
          /\ notified' = notified \cup {<<r, u>>}
          /\ UNCHANGED <<db, answer>>

(* INSERT INTO room_members: waits for a rival transaction to end; fails   *)
(* if the row exists.                                                      *)
InsertMember(q) ==
  LET r == req[q].room
      u == req[q].user IN
  /\ req[q].at = "member"
  /\ \A p \in Request \ {q} : ~Holds(p, r, u)
  /\ IF member[r][u] # "none" THEN Rollback(q)
     ELSE Goto(q, "role") /\ UNCHANGED <<db, answer, notified>>

InsertRole(q) ==
  /\ req[q].at = "role"
  /\ IF "member" \in role[req[q].room][req[q].user] THEN Rollback(q)
     ELSE Goto(q, "key") /\ UNCHANGED <<db, answer, notified>>

(* The key row refers to a version row by foreign key. *)
InsertKey(q) ==
  LET r == req[q].room
      v == req[q].ver IN
  /\ req[q].at = "key"
  /\ IF v \in key[r][req[q].user] \/ v \notin version[r] THEN Rollback(q)
     ELSE Goto(q, "commit") /\ UNCHANGED <<db, answer, notified>>

CommitInvite(q) ==
  LET r == req[q].room
      u == req[q].user IN
  /\ req[q].at = "commit"
  /\ member' = [member EXCEPT ![r][u] = "pending"]
  /\ role' = [role EXCEPT ![r][u] = @ \cup {"member"}]
  /\ key' = [key EXCEPT ![r][u] = @ \cup {req[q].ver}]
  /\ \/ Goto(q, "notify") /\ UNCHANGED answer
     \/ MayFail /\ Goto(q, "done") /\ Reply(q, "failed")  \* committed, answer lost
  /\ UNCHANGED <<account, creator, version, notified>>

(* sendNotification, after the commit. *)
Notify(q) ==
  /\ req[q].at = "notify"
  /\ notified' = notified \cup {<<req[q].room, req[q].user>>}
  /\ Goto(q, "done")
  /\ Reply(q, "ok")
  /\ UNCHANGED db

-----------------------------------------------------------------------------
(* Mutant of MarkJoined: whoever has no row is given one. *)
UpsertJoined(r, u) == member' = [member EXCEPT ![r][u] = "joined"]

(* AcceptRoomInvite: one UPDATE of the pending row, if there is one; the   *)
(* answer is the same either way.                                          *)
MarkJoined(r, u) ==
  member' = [member EXCEPT ![r][u] = IF @ = "pending" THEN "joined" ELSE @]

Accept(q, r, u) ==
  /\ Signed(u)
  /\ Begin(q, "accept", r, u, "done")
  /\ \/ /\ MarkJoined(r, u)
        /\ Reply(q, "ok")
     \/ /\ MayFail
        /\ Reply(q, "failed")
        /\ UNCHANGED member \/ MarkJoined(r, u)  \* failed, or done and the answer lost
  /\ UNCHANGED <<account, creator, role, version, key, notified>>

-----------------------------------------------------------------------------
Arrive(q) == \E u \in User :
               \/ Register(q, u)
               \/ \E r \in Room : CreateRoom(q, r, u) \/ Invite(q, r, u) \/ Accept(q, r, u)

Serve(q) == \/ CreateUser(q) \/ CommitRoom(q)
            \/ ReadVersion(q) \/ InsertMember(q) \/ InsertRole(q) \/ InsertKey(q)
            \/ CommitInvite(q) \/ Notify(q)

Next == \E q \in Request : Arrive(q) \/ Serve(q) \/ DbFails(q)
Spec == Init /\ [][Next]_vars

(* A request that has arrived is served on: neither the Go scheduler nor   *)
(* the database keeps it waiting, except behind a rival transaction.  No   *)
(* failure is owed: a request stuck behind a rival is not helped by one.   *)
Fairness == \A q \in Request : WF_vars(Serve(q))
FairSpec == Spec /\ Fairness

-----------------------------------------------------------------------------
(* What the read requests return. *)

ListUserRooms(u) == {r \in Room : member[r][u] = "joined"}
ListPendingInvites(u) == {r \in Room : member[r][u] = "pending"}

(* getRoomKey answers with the newest of these, and fails if there is none. *)
RoomKeys(u, r) == key[r][u]

-----------------------------------------------------------------------------
(* Properties. *)

(* Nobody is half a member.  In every room listed to a user, joined or     *)
(* pending, the user has exactly one role and a key, of a version the room *)
(* has; in every other room neither.                                       *)
WholeMembers ==
  \A u \in User, r \in Room :
    IF r \in ListUserRooms(u) \cup ListPendingInvites(u)
    THEN /\ \E x \in Role : role[r][u] = {x}
         /\ RoomKeys(u, r) # {}
         /\ RoomKeys(u, r) \subseteq version[r]
    ELSE role[r][u] = {} /\ RoomKeys(u, r) = {}

(* A room has one admin, its creator, who has joined and stays so whatever *)
(* invitations are sent or fail; a room that was not created is empty.     *)
CreatorAdministers ==
  \A r \in Room, u \in User :
    /\ "admin" \in role[r][u] <=> creator[r] = u
    /\ creator[r] = u => member[r][u] = "joined"
    /\ creator[r] = Nobody => member[r][u] = "none"

(* A user who was notified of an invitation can act on it: the row is      *)
(* committed by then, and an accept finds it.                              *)
NoticeIsActionable ==
  \A n \in notified : member[n[1]][n[2]] # "none"

(* An account belongs to one request for ever: of all the requests to      *)
(* register a name, at most one is told it created the account, and that   *)
(* one's password and public key are those stored.                         *)
OneAccountPerName ==
  \A q \in Request : answer[q] = "created" => account[req[q].user] = q

(* What the rows of a user in a room amount to, if they are in order.      *)
StandingOf(r, u) ==
  CASE member[r][u] = "none" /\ role[r][u] = {} /\ key[r][u] = {} -> "none"
    [] member[r][u] = "pending" /\ role[r][u] = {"member"} /\ key[r][u] = {1} -> "invited"
    [] member[r][u] = "joined" /\ role[r][u] = {"member"} /\ key[r][u] = {1} -> "member"
    [] member[r][u] = "joined" /\ role[r][u] = {"admin"} /\ key[r][u] = {1} -> "admin"
    [] OTHER -> "broken"
S == INSTANCE Standing
       WITH standing <- [r \in Room |-> [u \in User |-> StandingOf(r, u)]]

(* However requests interleave and fail, the tables step as Standing       *)
(* allows.                                                                 *)
ImplementsStanding == S!StandingSpec

(* Every request that was received is answered: a transaction waits only   *)
(* for one that does end.                                                  *)
AllAnswered == \A q \in Request : req[q].at # "new" ~> answer[q] # "none"

(* Registering a name answers with the account that has it, whoever        *)
(* created it.                                                             *)
RegisterAnswers == \A q \in Request : req[q].op = "register" => answer[q] # "failed"
=============================================================================
