-------------------------- MODULE MembershipProofs --------------------------
(***************************************************************************)
(* The room tables stay in order and implement Standing, and an account    *)
(* has one maker, for any number of users, rooms and concurrent requests.  *)
(***************************************************************************)
EXTENDS Membership, TLAPS

(* The rows of a user in a room, and the versions of a room. *)
RowInOrder(r, u) ==
  \/ /\ creator[r] = u
     /\ member[r][u] = "joined" /\ role[r][u] = {"admin"} /\ key[r][u] = {1}
  \/ /\ creator[r] # u
     /\ member[r][u] = "none" /\ role[r][u] = {} /\ key[r][u] = {}
  \/ /\ creator[r] # u /\ creator[r] # Nobody
     /\ member[r][u] \in {"pending", "joined"}
     /\ role[r][u] = {"member"} /\ key[r][u] = {1}

TablesInOrder ==
  \A r \in Room : /\ version[r] = IF creator[r] = Nobody THEN {} ELSE {1}
                  /\ \A u \in User : RowInOrder(r, u)

(* What a request relies on at each of its steps. *)
OnRoom == {"open", "version", "member", "role", "key", "commit", "notify"}
Holding == {"role", "key", "commit"}

RequestInOrder(q) ==
  /\ req[q].at = "insert" => req[q].user \in User
  /\ req[q].at \in OnRoom => req[q].room \in Room /\ req[q].user \in User
  /\ req[q].at = "open" => creator[req[q].room] = Nobody
  /\ req[q].at \in Holding \cup {"member"} =>
       req[q].ver = 1 /\ creator[req[q].room] # Nobody
  /\ req[q].at \in Holding => member[req[q].room][req[q].user] = "none"
  /\ req[q].at = "notify" => member[req[q].room][req[q].user] # "none"
  /\ answer[q] # "none" => req[q].at = "done"
  /\ answer[q] = "created" => req[q].user \in User /\ account[req[q].user] = q

RequestsInOrder == \A q \in Request : RequestInOrder(q)

(* Two transactions never hold the same room or the same row. *)
Exclusive ==
  \A p, q \in Request :
    p # q /\ req[p].room = req[q].room =>
      /\ ~(req[p].at = "open" /\ req[q].at = "open")
      /\ ~(req[p].at \in Holding /\ req[q].at \in Holding /\ req[p].user = req[q].user)

IInv == /\ TypeOK
        /\ TablesInOrder
        /\ RequestsInOrder
        /\ Exclusive
        /\ NoticeIsActionable

RequestRecord == [op : Op, at : Step, room : Room \cup {Nobody},
                  user : User \cup {Nobody}, ver : Nat]
Answer == {"none", "created", "already", "ok", "failed"}

LEMMA InitIInv == Init => IInv
<1> SUFFICES ASSUME Init PROVE IInv
  OBVIOUS
<1> USE MembershipAssumption DEF Init
<1>1. TypeOK
  BY DEF TypeOK, Unsent, Op, Step
<1>2. TablesInOrder
  BY DEF TablesInOrder, RowInOrder
<1>3. RequestsInOrder /\ Exclusive
  BY DEF RequestsInOrder, RequestInOrder, Exclusive, OnRoom, Holding, Unsent
<1>4. NoticeIsActionable
  BY DEF NoticeIsActionable
<1>5. QED
  BY <1>1, <1>2, <1>3, <1>4 DEF IInv

-----------------------------------------------------------------------------
(* What one step does to the requests. *)

Others(q) == \A p \in Request \ {q} : req'[p] = req[p] /\ answer'[p] = answer[p]

LEMMA GotoFacts ==
  ASSUME TypeOK, NEW q \in Request, NEW step \in Step, Goto(q, step)
  PROVE  /\ req' \in [Request -> RequestRecord]
         /\ \A p \in Request \ {q} : req'[p] = req[p]
         /\ req'[q].at = step
         /\ req'[q].room = req[q].room
         /\ req'[q].user = req[q].user
         /\ req'[q].ver = req[q].ver
<1>1. req \in [Request -> RequestRecord]
  BY DEF TypeOK, RequestRecord
<1>2. req' = [req EXCEPT ![q] = [req[q] EXCEPT !.at = step]]
  BY <1>1 DEF Goto
<1>3. [req[q] EXCEPT !.at = step] \in RequestRecord
  BY <1>1 DEF RequestRecord
<1>4. QED
  BY <1>1, <1>2, <1>3 DEF RequestRecord

LEMMA BeginFacts ==
  ASSUME TypeOK, NEW q \in Request, NEW op \in Op, NEW r \in Room \cup {Nobody},
         NEW u \in User, NEW step \in Step, Begin(q, op, r, u, step)
  PROVE  /\ req' \in [Request -> RequestRecord]
         /\ \A p \in Request \ {q} : req'[p] = req[p]
         /\ req[q].at = "new"
         /\ req'[q].at = step /\ req'[q].room = r /\ req'[q].user = u
BY DEF TypeOK, Begin, RequestRecord

LEMMA ReplyFacts ==
  ASSUME TypeOK, NEW q \in Request, NEW a \in Answer, Reply(q, a)
  PROVE  /\ answer' \in [Request -> Answer]
         /\ \A p \in Request \ {q} : answer'[p] = answer[p]
         /\ answer'[q] = a
BY DEF TypeOK, Reply, Answer

(* A step of q that touches no table preserves the invariant if it leaves  *)
(* q in order and takes no room or row that another transaction holds.     *)
LEMMA QuietStep ==
  ASSUME IInv, NEW q \in Request, UNCHANGED <<db, notified>>, Others(q),
         req' \in [Request -> RequestRecord],
         answer' \in [Request -> Answer],
         RequestInOrder(q)',
         Exclusive'
  PROVE  IInv'
<1>1. TypeOK'
  BY DEF IInv, TypeOK, db, RequestRecord, Answer
<1>2. TablesInOrder' /\ NoticeIsActionable'
  BY DEF IInv, TablesInOrder, RowInOrder, NoticeIsActionable, db
<1>3. ASSUME NEW p \in Request \ {q} PROVE RequestInOrder(p)'
  BY DEF IInv, RequestsInOrder, RequestInOrder, Others, db
<1>4. QED
  BY <1>1, <1>2, <1>3 DEF IInv, RequestsInOrder

(* No new exclusion arises when q holds no more than it held. *)
LEMMA StillExclusive ==
  ASSUME IInv, NEW q \in Request, Others(q),
         req'[q].at # "open",
         req'[q].at \in Holding => /\ req[q].at \in Holding
                                   /\ req'[q].room = req[q].room
                                   /\ req'[q].user = req[q].user
  PROVE  Exclusive'
BY DEF IInv, Exclusive, Others

LEMMA RollbackStep ==
  ASSUME IInv, NEW q \in Request, req[q].at \notin {"new", "done"}, Rollback(q)
  PROVE  IInv'
<1>1. TypeOK /\ "done" \in Step /\ "failed" \in Answer
  BY DEF IInv, Step, Answer
<1>2. Goto(q, "done") /\ Reply(q, "failed") /\ UNCHANGED <<db, notified>>
  BY DEF Rollback
<1>3. /\ Others(q) /\ req' \in [Request -> RequestRecord]
      /\ answer' \in [Request -> Answer]
      /\ req'[q].at = "done" /\ answer'[q] = "failed"
  BY <1>1, <1>2, GotoFacts, ReplyFacts DEF Others
<1>4. RequestInOrder(q)'
  BY <1>3 DEF RequestInOrder, OnRoom, Holding
<1>5. Exclusive'
  BY <1>3, StillExclusive DEF Holding
<1>6. QED
  BY <1>2, <1>3, <1>4, <1>5, QuietStep

-----------------------------------------------------------------------------
LEMMA RegisterStep ==
  ASSUME IInv, NEW q \in Request, NEW u \in User, Register(q, u)
  PROVE  IInv'
<1>1. TypeOK /\ UNCHANGED <<db, notified>> /\ answer \in [Request -> Answer]
  BY DEF IInv, Register, TypeOK, Answer
<1>2. CASE Begin(q, "register", Nobody, u, "done") /\ Reply(q, "already")
  <2>1. /\ Others(q) /\ req' \in [Request -> RequestRecord]
        /\ answer' \in [Request -> Answer]
        /\ req'[q].at = "done" /\ answer'[q] = "already"
    BY <1>1, <1>2, BeginFacts, ReplyFacts DEF Others, Op, Step, Answer
  <2>2. RequestInOrder(q)' /\ Exclusive'
    BY <2>1, StillExclusive DEF RequestInOrder, OnRoom, Holding
  <2>3. QED
    BY <1>1, <2>1, <2>2, QuietStep
<1>3. CASE Begin(q, "register", Nobody, u, "insert") /\ UNCHANGED answer
  <2>1. /\ Others(q) /\ req' \in [Request -> RequestRecord]
        /\ answer' \in [Request -> Answer]
        /\ req[q].at = "new" /\ req'[q].at = "insert" /\ req'[q].user = u
    <3>1. Begin(q, "register", Nobody, u, "insert") /\ answer' = answer
      BY <1>3
    <3>2. "register" \in Op /\ "insert" \in Step /\ Nobody \in Room \cup {Nobody}
      BY DEF Op, Step
    <3>3. QED
      BY <1>1, <3>1, <3>2, BeginFacts DEF Others
  <2>2. answer'[q] = "none"
    BY <1>3, <2>1 DEF IInv, RequestsInOrder, RequestInOrder
  <2>3. RequestInOrder(q)' /\ Exclusive'
    BY <2>1, <2>2, StillExclusive DEF RequestInOrder, OnRoom, Holding
  <2>4. QED
    BY <1>1, <2>1, <2>3, QuietStep
<1>4. QED
  BY <1>2, <1>3 DEF Register

LEMMA CreateRoomStep ==
  ASSUME IInv, NEW q \in Request, NEW r \in Room, NEW u \in User,
         CreateRoom(q, r, u)
  PROVE  IInv'
<1>1. TypeOK /\ UNCHANGED <<db, answer, notified>> /\ answer \in [Request -> Answer]
  BY DEF IInv, CreateRoom, TypeOK, Answer
<1>2. /\ Others(q) /\ req' \in [Request -> RequestRecord]
      /\ req[q].at = "new"
      /\ req'[q].at = "open" /\ req'[q].room = r /\ req'[q].user = u
  BY <1>1, BeginFacts DEF CreateRoom, Others, Op, Step
<1>3. answer'[q] = "none"
  BY <1>1, <1>2 DEF IInv, RequestsInOrder, RequestInOrder
<1>4. creator'[r] = Nobody
  BY <1>1 DEF CreateRoom, db
<1>5. RequestInOrder(q)'
  BY <1>2, <1>3, <1>4 DEF RequestInOrder, OnRoom, Holding
<1>6. Exclusive'
  BY <1>2 DEF CreateRoom, IInv, Exclusive, Others, Holding
<1>7. QED
  BY <1>1, <1>2, <1>5, <1>6, QuietStep

LEMMA InviteStep ==
  ASSUME IInv, NEW q \in Request, NEW r \in Room, NEW u \in User,
         Invite(q, r, u)
  PROVE  IInv'
<1>1. TypeOK /\ UNCHANGED <<db, notified>> /\ answer \in [Request -> Answer]
  BY DEF IInv, Invite, TypeOK, Answer
<1>2. CASE Begin(q, "invite", r, u, "version") /\ UNCHANGED answer
  <2>1. /\ Others(q) /\ req' \in [Request -> RequestRecord]
        /\ answer' \in [Request -> Answer]
        /\ req[q].at = "new"
        /\ req'[q].at = "version" /\ req'[q].room = r /\ req'[q].user = u
    BY <1>1, <1>2, BeginFacts DEF Others, Op, Step
  <2>2. answer'[q] = "none"
    BY <1>2, <2>1 DEF IInv, RequestsInOrder, RequestInOrder
  <2>3. RequestInOrder(q)' /\ Exclusive'
    BY <2>1, <2>2, StillExclusive DEF RequestInOrder, OnRoom, Holding
  <2>4. QED
    BY <1>1, <2>1, <2>3, QuietStep
<1>3. CASE Begin(q, "invite", r, u, "done") /\ Reply(q, "failed")
  <2>1. /\ Others(q) /\ req' \in [Request -> RequestRecord]
        /\ answer' \in [Request -> Answer]
        /\ req'[q].at = "done" /\ answer'[q] = "failed"
    BY <1>1, <1>3, BeginFacts, ReplyFacts DEF Others, Op, Step, Answer
  <2>2. RequestInOrder(q)' /\ Exclusive'
    BY <2>1, StillExclusive DEF RequestInOrder, OnRoom, Holding
  <2>3. QED
    BY <1>1, <2>1, <2>2, QuietStep
<1>4. QED
  BY <1>2, <1>3 DEF Invite

-----------------------------------------------------------------------------
LEMMA ReadVersionStep ==
  ASSUME IInv, NEW q \in Request, ReadVersion(q)
  PROVE  IInv'
<1>1. /\ TypeOK /\ req[q].at = "version" /\ answer[q] = "none"
      /\ req[q].room \in Room /\ req[q].user \in User
  BY DEF IInv, ReadVersion, RequestsInOrder, RequestInOrder, OnRoom, TypeOK
<1>2. CASE Rollback(q)
  BY <1>1, <1>2, RollbackStep
<1>3. ASSUME NEW v \in version[req[q].room],
             req' = [req EXCEPT ![q] = [@ EXCEPT !.at = "member", !.ver = v]],
             UNCHANGED <<db, answer, notified>>
      PROVE  IInv'
  <2>1. v = 1 /\ creator[req[q].room] # Nobody
    BY <1>1, <1>3 DEF IInv, TablesInOrder
  <2>2. /\ req \in [Request -> RequestRecord] /\ req[q] \in RequestRecord
        /\ answer \in [Request -> Answer]
    BY <1>1 DEF TypeOK, RequestRecord, Answer
  <2>3. req' = [req EXCEPT ![q] = [req[q] EXCEPT !.at = "member", !.ver = 1]]
    BY <1>3, <2>1, <2>2
  <2>4. /\ [req[q] EXCEPT !.at = "member", !.ver = 1] \in RequestRecord
        /\ [req[q] EXCEPT !.at = "member", !.ver = 1].at = "member"
        /\ [req[q] EXCEPT !.at = "member", !.ver = 1].ver = 1
        /\ [req[q] EXCEPT !.at = "member", !.ver = 1].room = req[q].room
        /\ [req[q] EXCEPT !.at = "member", !.ver = 1].user = req[q].user
    BY <2>2 DEF RequestRecord, Step
  <2>5. /\ Others(q) /\ req' \in [Request -> RequestRecord]
        /\ req'[q].at = "member" /\ req'[q].ver = 1
        /\ req'[q].room = req[q].room /\ req'[q].user = req[q].user
    BY <1>3, <2>2, <2>3, <2>4 DEF Others
  <2>6. answer'[q] = "none" /\ creator' = creator /\ answer' \in [Request -> Answer]
    BY <1>1, <1>3, <2>2 DEF db
  <2>7. RequestInOrder(q)'
    BY <1>1, <2>1, <2>5, <2>6 DEF RequestInOrder, OnRoom, Holding
  <2>8. Exclusive'
    BY <2>5, StillExclusive DEF Holding
  <2>9. QED
    BY <1>3, <2>5, <2>6, <2>7, <2>8, QuietStep
<1>4. QED
  BY <1>2, <1>3 DEF ReadVersion

(* What is known of a request at one of the statements of InviteUserToRoom *)
(* that goes on to the next without touching a table.                      *)
LEMMA AdvanceFacts ==
  ASSUME IInv, NEW q \in Request, NEW step \in Step,
         req[q].at \notin {"new", "done"},
         Goto(q, step), UNCHANGED <<db, answer, notified>>
  PROVE  /\ Others(q) /\ req' \in [Request -> RequestRecord]
         /\ answer' \in [Request -> Answer]
         /\ req'[q].at = step /\ req'[q].room = req[q].room
         /\ req'[q].user = req[q].user /\ req'[q].ver = req[q].ver
         /\ answer'[q] = "none"
         /\ creator' = creator /\ member' = member
<1>1. TypeOK /\ answer \in [Request -> Answer] /\ answer[q] = "none"
  BY DEF IInv, TypeOK, Answer, RequestsInOrder, RequestInOrder
<1>2. QED
  BY <1>1, GotoFacts DEF Others, db

LEMMA InsertMemberStep ==
  ASSUME IInv, NEW q \in Request, InsertMember(q)
  PROVE  IInv'
<1>1. req[q].at = "member" /\ RequestInOrder(q)
  BY DEF IInv, InsertMember, RequestsInOrder
<1>2. CASE Rollback(q)
  BY <1>1, <1>2, RollbackStep
<1>3. CASE /\ member[req[q].room][req[q].user] = "none"
           /\ Goto(q, "role") /\ UNCHANGED <<db, answer, notified>>
  <2>1. /\ Others(q) /\ req' \in [Request -> RequestRecord]
        /\ answer' \in [Request -> Answer]
        /\ req'[q].at = "role" /\ req'[q].room = req[q].room
        /\ req'[q].user = req[q].user /\ req'[q].ver = req[q].ver
        /\ answer'[q] = "none"
        /\ creator' = creator /\ member' = member
    BY <1>1, <1>3, AdvanceFacts DEF Step
  <2>2. RequestInOrder(q)'
    BY <1>1, <1>3, <2>1 DEF RequestInOrder, OnRoom, Holding
  <2>3. \A p \in Request \ {q} : ~Holds(p, req[q].room, req[q].user)
    BY DEF InsertMember
  <2>4. Exclusive'
    BY <2>1, <2>3 DEF IInv, Exclusive, Others, Holding, Holds
  <2>5. QED
    BY <1>3, <2>1, <2>2, <2>4, QuietStep
<1>4. QED
  BY <1>2, <1>3 DEF InsertMember

LEMMA InsertRoleKeyStep ==
  ASSUME IInv, NEW q \in Request, InsertRole(q) \/ InsertKey(q)
  PROVE  IInv'
<1>1. req[q].at \in {"role", "key"} /\ RequestInOrder(q)
  BY DEF IInv, InsertRole, InsertKey, RequestsInOrder
<1>2. CASE Rollback(q)
  BY <1>1, <1>2, RollbackStep
<1>3. ASSUME NEW step \in {"key", "commit"},
             Goto(q, step), UNCHANGED <<db, answer, notified>>
      PROVE  IInv'
  <2>1. /\ Others(q) /\ req' \in [Request -> RequestRecord]
        /\ answer' \in [Request -> Answer]
        /\ req'[q].at = step /\ req'[q].room = req[q].room
        /\ req'[q].user = req[q].user /\ req'[q].ver = req[q].ver
        /\ answer'[q] = "none"
        /\ creator' = creator /\ member' = member
    BY <1>1, <1>3, AdvanceFacts DEF Step
  <2>2. RequestInOrder(q)'
    BY <1>1, <2>1 DEF RequestInOrder, OnRoom, Holding
  <2>3. Exclusive'
    BY <1>1, <2>1, StillExclusive DEF Holding
  <2>4. QED
    BY <1>3, <2>1, <2>2, <2>3, QuietStep
<1>4. QED
  BY <1>2, <1>3 DEF InsertRole, InsertKey

-----------------------------------------------------------------------------
(* The steps that touch tables. *)

LEMMA CreateUserStep ==
  ASSUME IInv, NEW q \in Request, CreateUser(q)
  PROVE  IInv'
<1> DEFINE u == req[q].user
<1>1. /\ req[q].at = "insert" /\ RequestInOrder(q) /\ u \in User
      /\ TypeOK /\ q # Nobody
  BY MembershipAssumption DEF IInv, CreateUser, RequestsInOrder, RequestInOrder
<1>2. CASE Rollback(q)
  BY <1>1, <1>2, RollbackStep
<1>3. CASE ~Rollback(q)
  <2>1. /\ account[u] = Nobody
        /\ account' = [account EXCEPT ![u] = q]
        /\ Goto(q, "done")
        /\ UNCHANGED <<creator, member, role, version, key, notified>>
    BY <1>1, <1>3 DEF CreateUser, Registered
  <2> PICK a \in {"created", "failed"} : Reply(q, a)
    BY <1>1, <1>3 DEF CreateUser
  <2>2. /\ Others(q) /\ req' \in [Request -> RequestRecord]
        /\ answer' \in [Request -> Answer]
        /\ req'[q].at = "done" /\ req'[q].user = u /\ answer'[q] \in {"created", "failed"}
    BY <1>1, <2>1, GotoFacts, ReplyFacts DEF Others, Step, Answer
  <2>3. /\ account' \in [User -> Request \cup {"seed", Nobody}]
        /\ account'[u] = q
        /\ \A v \in User : account[v] # Nobody => account'[v] = account[v]
    BY <1>1, <2>1 DEF TypeOK
  <2>4. TypeOK'
    BY <2>1, <2>2, <2>3 DEF IInv, TypeOK, RequestRecord, Answer
  <2>5. TablesInOrder' /\ NoticeIsActionable'
    BY <2>1 DEF IInv, TablesInOrder, RowInOrder, NoticeIsActionable
  <2>6. RequestInOrder(q)'
    BY <1>1, <2>2, <2>3 DEF RequestInOrder, OnRoom, Holding
  <2>7. ASSUME NEW p \in Request \ {q} PROVE RequestInOrder(p)'
    <3>1. RequestInOrder(p) /\ req'[p] = req[p] /\ answer'[p] = answer[p]
      BY <2>2 DEF IInv, RequestsInOrder, Others
    <3>2. answer[p] = "created" => account'[req[p].user] = p
      BY <2>3, <3>1, MembershipAssumption DEF RequestInOrder
    <3>3. QED
      BY <2>1, <3>1, <3>2 DEF RequestInOrder
  <2>8. Exclusive'
    BY <2>2, StillExclusive DEF Holding
  <2>9. QED
    BY <2>4, <2>5, <2>6, <2>7, <2>8 DEF IInv, RequestsInOrder
<1>4. QED
  BY <1>2, <1>3

LEMMA CommitRoomStep ==
  ASSUME IInv, NEW q \in Request, CommitRoom(q)
  PROVE  IInv'
<1> DEFINE r == req[q].room
           u == req[q].user
<1>1. /\ req[q].at = "open" /\ r \in Room /\ u \in User
      /\ creator[r] = Nobody /\ TypeOK /\ u # Nobody
  BY MembershipAssumption
     DEF IInv, CommitRoom, RequestsInOrder, RequestInOrder, OnRoom
<1>2. PICK a \in {"ok", "failed"} : Goto(q, "done") /\ Reply(q, a)
  BY DEF CommitRoom
<1>3. /\ Others(q) /\ req' \in [Request -> RequestRecord]
      /\ answer' \in [Request -> Answer]
      /\ req'[q].at = "done" /\ answer'[q] \in {"ok", "failed"}
  BY <1>1, <1>2, GotoFacts, ReplyFacts DEF Others, Step, Answer
<1>4. /\ creator' = [creator EXCEPT ![r] = u]
      /\ member' = [member EXCEPT ![r] = [member[r] EXCEPT ![u] = "joined"]]
      /\ role' = [role EXCEPT ![r] = [role[r] EXCEPT ![u] = {"admin"}]]
      /\ version' = [version EXCEPT ![r] = {1}]
      /\ key' = [key EXCEPT ![r] = [key[r] EXCEPT ![u] = {1}]]
      /\ account' = account /\ notified' = notified
  BY DEF CommitRoom
<1>5. creator' \in [Room -> User \cup {Nobody}]
  BY <1>1, <1>4 DEF TypeOK
<1>6. member' \in [Room -> [User -> {"none", "pending", "joined"}]]
  <2>1. [member[r] EXCEPT ![u] = "joined"] \in [User -> {"none", "pending", "joined"}]
    BY <1>1 DEF TypeOK
  <2>2. QED
    BY <1>1, <1>4, <2>1 DEF TypeOK
<1>7. role' \in [Room -> [User -> SUBSET Role]]
  <2>1. [role[r] EXCEPT ![u] = {"admin"}] \in [User -> SUBSET Role]
    BY <1>1 DEF TypeOK, Role
  <2>2. QED
    BY <1>1, <1>4, <2>1 DEF TypeOK
<1>8. version' \in [Room -> SUBSET (Nat \ {0})] /\ key' \in [Room -> [User -> SUBSET (Nat \ {0})]]
  <2>1. [key[r] EXCEPT ![u] = {1}] \in [User -> SUBSET (Nat \ {0})]
    BY <1>1 DEF TypeOK
  <2>2. key' \in [Room -> [User -> SUBSET (Nat \ {0})]]
    BY <1>1, <1>4, <2>1 DEF TypeOK
  <2>3. version' \in [Room -> SUBSET (Nat \ {0})]
    BY <1>1, <1>4 DEF TypeOK
  <2>4. QED
    BY <2>2, <2>3
<1>9. TypeOK'
  BY <1>1, <1>3, <1>4, <1>5, <1>6, <1>7, <1>8 DEF TypeOK, RequestRecord, Answer
<1>10. /\ creator'[r] = u /\ version'[r] = {1}
       /\ member'[r][u] = "joined" /\ role'[r][u] = {"admin"} /\ key'[r][u] = {1}
       /\ \A v \in User \ {u} : /\ member'[r][v] = member[r][v]
                               /\ role'[r][v] = role[r][v]
                               /\ key'[r][v] = key[r][v]
       /\ \A s \in Room \ {r} : /\ creator'[s] = creator[s] /\ version'[s] = version[s]
                               /\ member'[s] = member[s] /\ role'[s] = role[s]
                               /\ key'[s] = key[s]
  BY <1>1, <1>4 DEF TypeOK
<1>11. TablesInOrder'
  <2>1. ASSUME NEW s \in Room, NEW v \in User PROVE RowInOrder(s, v)'
    <3>1. RowInOrder(s, v)
      BY DEF IInv, TablesInOrder
    <3>2. CASE s # r
      BY <1>10, <3>1, <3>2 DEF RowInOrder
    <3>3. CASE s = r /\ v = u
      BY <1>10, <3>3 DEF RowInOrder
    <3>4. CASE s = r /\ v # u
      <4>1. member[r][v] = "none" /\ role[r][v] = {} /\ key[r][v] = {}
        BY <1>1, <3>1, <3>4, MembershipAssumption DEF RowInOrder
      <4>2. creator'[r] # v
        BY <1>10, <3>4
      <4>3. QED
        BY <1>10, <3>4, <4>1, <4>2 DEF RowInOrder
    <3>5. QED
      BY <3>2, <3>3, <3>4
  <2>2. ASSUME NEW s \in Room
        PROVE  version'[s] = IF creator'[s] = Nobody THEN {} ELSE {1}
    <3>1. CASE s = r
      BY <1>1, <1>10, <3>1
    <3>2. CASE s # r
      <4>1. version[s] = IF creator[s] = Nobody THEN {} ELSE {1}
        BY DEF IInv, TablesInOrder
      <4>2. QED
        BY <1>10, <3>2, <4>1
    <3>3. QED
      BY <3>1, <3>2
  <2>3. QED
    BY <2>1, <2>2 DEF TablesInOrder
<1>12. ASSUME NEW p \in Request PROVE RequestInOrder(p)'
  <2>1. CASE p = q
    BY <1>3, <2>1 DEF RequestInOrder, OnRoom, Holding
  <2>2. CASE p # q
    <3>1. RequestInOrder(p) /\ req'[p] = req[p] /\ answer'[p] = answer[p]
      BY <1>3, <2>2 DEF IInv, RequestsInOrder, Others
    <3>2. CASE req[p].at \in OnRoom /\ req[p].room = r
      <4>1. req[p].at # "open"
        BY <1>1, <2>2, <3>2 DEF IInv, Exclusive
      <4>2. req[p].at \notin Holding \cup {"member"}
        BY <1>1, <3>1, <3>2 DEF RequestInOrder
      <4>3. req[p].at = "notify" => member'[r][req[p].user] # "none"
        BY <1>1, <1>10, <3>1, <3>2 DEF RequestInOrder
      <4>4. QED
        BY <1>4, <3>1, <3>2, <4>1, <4>2, <4>3 DEF RequestInOrder, OnRoom, Holding
    <3>3. CASE ~(req[p].at \in OnRoom /\ req[p].room = r)
      BY <1>4, <1>10, <3>1, <3>3 DEF RequestInOrder, OnRoom, Holding
    <3>4. QED
      BY <3>2, <3>3
  <2>3. QED
    BY <2>1, <2>2
<1>13. Exclusive'
  BY <1>3, StillExclusive DEF Holding
<1>14. NoticeIsActionable'
  BY <1>1, <1>4, <1>10 DEF IInv, NoticeIsActionable, TypeOK
<1>15. QED
  BY <1>9, <1>11, <1>12, <1>13, <1>14 DEF IInv, RequestsInOrder

LEMMA CommitInviteStep ==
  ASSUME IInv, NEW q \in Request, CommitInvite(q)
  PROVE  IInv'
<1> DEFINE r == req[q].room
           u == req[q].user
<1>1. /\ req[q].at = "commit" /\ r \in Room /\ u \in User /\ req[q].ver = 1
      /\ creator[r] # Nobody /\ member[r][u] = "none" /\ TypeOK
      /\ answer[q] = "none"
  BY DEF IInv, CommitInvite, RequestsInOrder, RequestInOrder, OnRoom, Holding
<1>2. RowInOrder(r, u) /\ creator[r] # u /\ role[r][u] = {} /\ key[r][u] = {}
  BY <1>1 DEF IInv, TablesInOrder, RowInOrder
<1>3. /\ Others(q) /\ req' \in [Request -> RequestRecord]
      /\ answer' \in [Request -> Answer]
      /\ req'[q].room = r /\ req'[q].user = u
      /\ \/ req'[q].at = "notify" /\ answer'[q] = "none"
         \/ req'[q].at = "done" /\ answer'[q] = "failed"
  <2>1. CASE Goto(q, "notify") /\ UNCHANGED answer
    BY <1>1, <2>1, GotoFacts DEF Others, Step, TypeOK, Answer
  <2>2. CASE Goto(q, "done") /\ Reply(q, "failed")
    BY <1>1, <2>2, GotoFacts, ReplyFacts DEF Others, Step, Answer
  <2>3. QED
    BY <2>1, <2>2 DEF CommitInvite
<1>4. /\ member' = [member EXCEPT ![r] = [member[r] EXCEPT ![u] = "pending"]]
      /\ role' = [role EXCEPT ![r] = [role[r] EXCEPT ![u] = role[r][u] \cup {"member"}]]
      /\ key' = [key EXCEPT ![r] = [key[r] EXCEPT ![u] = key[r][u] \cup {1}]]
      /\ UNCHANGED <<account, creator, version, notified>>
  BY <1>1 DEF CommitInvite, TypeOK
<1>5. member' \in [Room -> [User -> {"none", "pending", "joined"}]]
  <2>1. [member[r] EXCEPT ![u] = "pending"] \in [User -> {"none", "pending", "joined"}]
    BY <1>1 DEF TypeOK
  <2>2. QED
    BY <1>1, <1>4, <2>1 DEF TypeOK
<1>6. role' \in [Room -> [User -> SUBSET Role]]
  <2>1. [role[r] EXCEPT ![u] = role[r][u] \cup {"member"}] \in [User -> SUBSET Role]
    BY <1>1, <1>2 DEF TypeOK, Role
  <2>2. QED
    BY <1>1, <1>4, <2>1 DEF TypeOK
<1>7. key' \in [Room -> [User -> SUBSET (Nat \ {0})]]
  <2>1. [key[r] EXCEPT ![u] = key[r][u] \cup {1}] \in [User -> SUBSET (Nat \ {0})]
    BY <1>1, <1>2 DEF TypeOK
  <2>2. QED
    BY <1>1, <1>4, <2>1 DEF TypeOK
<1>8. TypeOK'
  BY <1>1, <1>3, <1>4, <1>5, <1>6, <1>7 DEF TypeOK, RequestRecord, Answer
<1>9. /\ member'[r][u] = "pending" /\ role'[r][u] = {"member"} /\ key'[r][u] = {1}
      /\ \A v \in User \ {u} : /\ member'[r][v] = member[r][v]
                              /\ role'[r][v] = role[r][v]
                              /\ key'[r][v] = key[r][v]
      /\ \A s \in Room \ {r} : /\ member'[s] = member[s] /\ role'[s] = role[s]
                              /\ key'[s] = key[s]
  <2>1. role[r][u] \cup {"member"} = {"member"} /\ key[r][u] \cup {1} = {1}
    BY <1>2
  <2>2. QED
    BY <1>1, <1>4, <2>1 DEF TypeOK
<1>10. TablesInOrder'
  <2>1. ASSUME NEW s \in Room, NEW v \in User PROVE RowInOrder(s, v)'
    <3>1. RowInOrder(s, v) /\ creator' = creator
      BY <1>4 DEF IInv, TablesInOrder
    <3>2. CASE s = r /\ v = u
      BY <1>1, <1>2, <1>9, <3>1, <3>2 DEF RowInOrder
    <3>3. CASE ~(s = r /\ v = u)
      BY <1>9, <3>1, <3>3 DEF RowInOrder
    <3>4. QED
      BY <3>2, <3>3
  <2>2. QED
    BY <1>4, <2>1 DEF IInv, TablesInOrder
<1>11. ASSUME NEW p \in Request PROVE RequestInOrder(p)'
  <2>1. CASE p = q
    BY <1>1, <1>3, <1>9, <2>1 DEF RequestInOrder, OnRoom, Holding
  <2>2. CASE p # q
    <3>1. RequestInOrder(p) /\ req'[p] = req[p] /\ answer'[p] = answer[p]
      BY <1>3, <2>2 DEF IInv, RequestsInOrder, Others
    <3>2. CASE req[p].at \in OnRoom /\ req[p].room = r /\ req[p].user = u
      <4>1. req[p].at \notin Holding
        BY <1>1, <2>2, <3>2 DEF IInv, Exclusive, Holding
      <4>2. QED
        BY <1>4, <1>9, <3>1, <3>2, <4>1 DEF RequestInOrder, OnRoom, Holding
    <3>3. CASE ~(req[p].at \in OnRoom /\ req[p].room = r /\ req[p].user = u)
      BY <1>4, <1>9, <3>1, <3>3 DEF RequestInOrder, OnRoom, Holding
    <3>4. QED
      BY <3>2, <3>3
  <2>3. QED
    BY <2>1, <2>2
<1>12. Exclusive'
  BY <1>3, StillExclusive DEF Holding
<1>13. NoticeIsActionable'
  BY <1>1, <1>4, <1>9 DEF IInv, NoticeIsActionable, TypeOK
<1>14. QED
  BY <1>8, <1>10, <1>11, <1>12, <1>13 DEF IInv, RequestsInOrder

LEMMA NotifyStep ==
  ASSUME IInv, NEW q \in Request, Notify(q)
  PROVE  IInv'
<1>1. /\ req[q].at = "notify" /\ req[q].room \in Room /\ req[q].user \in User
      /\ member[req[q].room][req[q].user] # "none" /\ TypeOK
  BY DEF IInv, Notify, RequestsInOrder, RequestInOrder, OnRoom
<1>2. /\ Others(q) /\ req' \in [Request -> RequestRecord]
      /\ answer' \in [Request -> Answer]
      /\ req'[q].at = "done" /\ answer'[q] = "ok"
  BY <1>1, GotoFacts, ReplyFacts DEF Notify, Others, Step, Answer
<1>3. UNCHANGED db /\ notified' = notified \cup {<<req[q].room, req[q].user>>}
  BY DEF Notify
<1>4. TypeOK'
  BY <1>1, <1>2, <1>3 DEF TypeOK, db, RequestRecord, Answer
<1>5. TablesInOrder' /\ NoticeIsActionable'
  BY <1>1, <1>3 DEF IInv, TablesInOrder, RowInOrder, NoticeIsActionable, db
<1>6. RequestInOrder(q)' /\ Exclusive'
  BY <1>2, StillExclusive DEF RequestInOrder, OnRoom, Holding
<1>7. ASSUME NEW p \in Request \ {q} PROVE RequestInOrder(p)'
  BY <1>2, <1>3 DEF IInv, RequestsInOrder, RequestInOrder, Others, db
<1>8. QED
  BY <1>4, <1>5, <1>6, <1>7 DEF IInv, RequestsInOrder

LEMMA AcceptStep ==
  ASSUME IInv, NEW q \in Request, NEW r \in Room, NEW u \in User, Accept(q, r, u)
  PROVE  IInv'
<1>1. /\ TypeOK /\ UNCHANGED <<account, creator, role, version, key, notified>>
      /\ member' = member \/ MarkJoined(r, u)
  BY DEF IInv, Accept
<1>2. PICK a \in {"ok", "failed"} : Begin(q, "accept", r, u, "done") /\ Reply(q, a)
  BY DEF Accept
<1>3. /\ Others(q) /\ req' \in [Request -> RequestRecord]
      /\ answer' \in [Request -> Answer]
      /\ req'[q].at = "done" /\ answer'[q] \in {"ok", "failed"}
  BY <1>1, <1>2, BeginFacts, ReplyFacts DEF Others, Op, Step, Answer
<1>4. /\ member' \in [Room -> [User -> {"none", "pending", "joined"}]]
      /\ \A s \in Room, v \in User :
           \/ member'[s][v] = member[s][v]
           \/ member[s][v] = "pending" /\ member'[s][v] = "joined"
  <2>1. CASE member' = member
    BY <1>1, <2>1 DEF TypeOK
  <2>2. CASE MarkJoined(r, u)
    <3> DEFINE row == [member[r] EXCEPT
                         ![u] = IF member[r][u] = "pending" THEN "joined" ELSE member[r][u]]
    <3>1. member' = [member EXCEPT ![r] = row]
      BY <1>1, <2>2 DEF MarkJoined, TypeOK
    <3>2. /\ row \in [User -> {"none", "pending", "joined"}]
          /\ \A v \in User : \/ row[v] = member[r][v]
                             \/ member[r][v] = "pending" /\ row[v] = "joined"
      BY <1>1 DEF TypeOK
    <3> HIDE DEF row
    <3>3. QED
      BY <1>1, <3>1, <3>2 DEF TypeOK
  <2>3. QED
    BY <1>1, <2>1, <2>2
<1>5. TypeOK'
  BY <1>1, <1>3, <1>4 DEF TypeOK, RequestRecord, Answer
<1>6. TablesInOrder'
  <2>1. ASSUME NEW s \in Room, NEW v \in User PROVE RowInOrder(s, v)'
    <3>1. RowInOrder(s, v)
      BY DEF IInv, TablesInOrder
    <3>2. QED
      BY <1>1, <1>4, <3>1 DEF RowInOrder
  <2>2. QED
    BY <1>1, <2>1 DEF IInv, TablesInOrder
<1>7. RequestInOrder(q)' /\ Exclusive'
  BY <1>3, StillExclusive DEF RequestInOrder, OnRoom, Holding
<1>8. ASSUME NEW p \in Request \ {q} PROVE RequestInOrder(p)'
  <2>1. RequestInOrder(p) /\ req'[p] = req[p] /\ answer'[p] = answer[p]
    BY <1>3 DEF IInv, RequestsInOrder, Others
  <2>2. CASE req[p].at \in OnRoom
    BY <1>1, <1>4, <2>1, <2>2 DEF RequestInOrder, OnRoom, Holding
  <2>3. CASE req[p].at \notin OnRoom
    BY <1>1, <2>1, <2>3 DEF RequestInOrder, OnRoom, Holding
  <2>4. QED
    BY <2>2, <2>3
<1>9. NoticeIsActionable'
  BY <1>1, <1>4 DEF IInv, NoticeIsActionable, TypeOK
<1>10. QED
  BY <1>5, <1>6, <1>7, <1>8, <1>9 DEF IInv, RequestsInOrder

-----------------------------------------------------------------------------
LEMMA NextIInv == IInv /\ [Next]_vars => IInv'
<1> SUFFICES ASSUME IInv, [Next]_vars PROVE IInv'
  OBVIOUS
<1>1. CASE UNCHANGED vars
  BY <1>1 DEF vars, IInv, TypeOK, TablesInOrder, RowInOrder, RequestsInOrder,
              RequestInOrder, Exclusive, NoticeIsActionable
<1>2. ASSUME NEW q \in Request, Arrive(q) PROVE IInv'
  BY <1>2, RegisterStep, CreateRoomStep, InviteStep, AcceptStep DEF Arrive
<1>3. ASSUME NEW q \in Request, Serve(q) PROVE IInv'
  BY <1>3, CreateUserStep, CommitRoomStep, ReadVersionStep, InsertMemberStep,
     InsertRoleKeyStep, CommitInviteStep, NotifyStep DEF Serve
<1>4. ASSUME NEW q \in Request, DbFails(q) PROVE IInv'
  BY <1>4, RollbackStep DEF DbFails
<1>5. QED
  BY <1>1, <1>2, <1>3, <1>4 DEF Next

THEOREM Invariant == Spec => []IInv
BY InitIInv, NextIInv, PTL DEF Spec

(* Every state the requests can reach is well typed. *)
THEOREM TypeCorrect == Spec => []TypeOK
<1>1. IInv => TypeOK
  BY DEF IInv
<1>2. QED
  BY <1>1, Invariant, PTL

LEMMA WholeRows == IInv => WholeMembers
<1> SUFFICES ASSUME IInv, NEW u \in User, NEW r \in Room
             PROVE  IF r \in ListUserRooms(u) \cup ListPendingInvites(u)
                    THEN /\ \E x \in Role : role[r][u] = {x}
                         /\ RoomKeys(u, r) # {}
                         /\ RoomKeys(u, r) \subseteq version[r]
                    ELSE role[r][u] = {} /\ RoomKeys(u, r) = {}
  BY DEF WholeMembers
<1>1. RowInOrder(r, u) /\ version[r] = IF creator[r] = Nobody THEN {} ELSE {1}
  BY DEF IInv, TablesInOrder
<1>2. u # Nobody
  BY MembershipAssumption
<1>3. QED
  BY <1>1, <1>2 DEF RowInOrder, ListUserRooms, ListPendingInvites, RoomKeys, Role

(* No interleaving of requests, failures and lost answers leaves a user    *)
(* with half a membership: a row without its role or key, or a role or key *)
(* without its row.                                                        *)
THEOREM MembershipIsWhole == Spec => []WholeMembers
BY WholeRows, Invariant, PTL

(* The creator of a room, and nobody else, is its admin and stays joined.  *)
THEOREM CreatorStays == Spec => []CreatorAdministers
<1>1. IInv => CreatorAdministers
  <2> SUFFICES ASSUME IInv, NEW r \in Room, NEW u \in User
               PROVE  /\ "admin" \in role[r][u] <=> creator[r] = u
                      /\ creator[r] = u => member[r][u] = "joined"
                      /\ creator[r] = Nobody => member[r][u] = "none"
    BY DEF CreatorAdministers
  <2>1. RowInOrder(r, u) /\ u # Nobody
    BY MembershipAssumption DEF IInv, TablesInOrder
  <2>2. QED
    BY <2>1 DEF RowInOrder
<1>2. QED
  BY <1>1, Invariant, PTL

(* Whoever was notified of an invitation has its committed row.            *)
THEOREM NoticesHold == Spec => []NoticeIsActionable
<1>1. IInv => NoticeIsActionable
  BY DEF IInv
<1>2. QED
  BY <1>1, Invariant, PTL

(* Two requests to register a name are never both told that they created   *)
(* it, and the one that was keeps the account.                             *)
THEOREM OneMaker == Spec => []OneAccountPerName
<1>1. IInv => OneAccountPerName
  BY DEF IInv, RequestsInOrder, RequestInOrder, OneAccountPerName
<1>2. QED
  BY <1>1, Invariant, PTL

-----------------------------------------------------------------------------
(* Refinement. *)

Stand == [r \in Room |-> [u \in User |-> StandingOf(r, u)]]

LEMMA StandingValue ==
  ASSUME IInv, NEW r \in Room, NEW u \in User
  PROVE  StandingOf(r, u) = IF creator[r] = u THEN "admin"
                            ELSE IF member[r][u] = "none" THEN "none"
                            ELSE IF member[r][u] = "pending" THEN "invited"
                            ELSE "member"
<1>1. RowInOrder(r, u)
  BY DEF IInv, TablesInOrder
<1>2. QED
  BY <1>1 DEF RowInOrder, StandingOf

LEMMA StandOne ==
  ASSUME NEW r \in Room, NEW u \in User, NEW x, StandingOf(r, u)' = x,
         \A s \in Room, v \in User :
           s # r \/ v # u => StandingOf(s, v)' = StandingOf(s, v)
  PROVE  Stand' = [Stand EXCEPT ![r][u] = x]
<1>1. Stand' = [s \in Room |-> [v \in User |-> StandingOf(s, v)']]
  BY DEF Stand
<1>2. [Stand EXCEPT ![r][u] = x]
        = [s \in Room |-> [v \in User |-> IF s = r /\ v = u THEN x ELSE StandingOf(s, v)]]
  BY DEF Stand
<1>3. ASSUME NEW s \in Room
      PROVE  [v \in User |-> StandingOf(s, v)']
               = [v \in User |-> IF s = r /\ v = u THEN x ELSE StandingOf(s, v)]
  OBVIOUS
<1>4. QED
  BY <1>1, <1>2, <1>3

LEMMA StandingInitially == Init => S!StandingInit
<1> SUFFICES ASSUME Init PROVE S!StandingInit
  OBVIOUS
<1>1. ASSUME NEW r \in Room, NEW u \in User PROVE StandingOf(r, u) = "none"
  BY DEF Init, StandingOf
<1>2. QED
  BY <1>1 DEF S!StandingInit

LEMMA StandingStep == IInv /\ IInv' /\ [Next]_vars => [S!StandingNext]_Stand
<1> SUFFICES ASSUME IInv, IInv', [Next]_vars PROVE [S!StandingNext]_Stand
  OBVIOUS
<1>1. ASSUME UNCHANGED <<member, role, key>> PROVE Stand' = Stand
  BY <1>1 DEF Stand, StandingOf
<1>2. ASSUME NEW q \in Request, CommitRoom(q) PROVE S!StandingNext
  <2>1. PICK r \in Room, u \in User :
          r = req[q].room /\ u = req[q].user /\ creator[r] = Nobody
    BY <1>2 DEF IInv, CommitRoom, RequestsInOrder, RequestInOrder, OnRoom
  <2>2. /\ creator'[r] = u
        /\ \A s \in Room, v \in User : s # r \/ v # u =>
             member'[s][v] = member[s][v] /\ role'[s][v] = role[s][v] /\ key'[s][v] = key[s][v]
    BY <1>2, <2>1 DEF CommitRoom, IInv, TypeOK
  <2>3. \A v \in User : StandingOf(r, v) = "none"
    BY <2>1, MembershipAssumption DEF IInv, TablesInOrder, RowInOrder, StandingOf
  <2>4. StandingOf(r, u)' = "admin"
    <3>1. RowInOrder(r, u)'
      BY <2>1 DEF IInv, TablesInOrder
    <3>2. QED
      BY <2>1, <2>2, <3>1 DEF RowInOrder, StandingOf
  <2>5. \A s \in Room, v \in User : s # r \/ v # u => StandingOf(s, v)' = StandingOf(s, v)
    BY <2>2 DEF StandingOf
  <2>6. Stand' = [Stand EXCEPT ![r][u] = "admin"]
    BY <2>1, <2>4, <2>5, StandOne
  <2>7. \A v \in User : Stand[r][v] = "none"
    BY <2>1, <2>3 DEF Stand
  <2>8. QED
    BY <2>1, <2>6, <2>7 DEF S!StandingNext, S!Found, Stand
<1>3. ASSUME NEW q \in Request, CommitInvite(q) PROVE S!StandingNext
  <2>1. PICK r \in Room, u \in User :
          /\ r = req[q].room /\ u = req[q].user
          /\ creator[r] \in User /\ member[r][u] = "none"
    BY <1>3 DEF IInv, CommitInvite, RequestsInOrder, RequestInOrder, OnRoom, Holding, TypeOK
  <2>2. creator[r] # u /\ StandingOf(r, u) = "none"
    BY <2>1, MembershipAssumption DEF IInv, TablesInOrder, RowInOrder, StandingOf
  <2>3. StandingOf(r, creator[r]) = "admin"
    BY <2>1, StandingValue
  <2>4. /\ creator' = creator /\ member'[r][u] = "pending"
        /\ \A s \in Room, v \in User : s # r \/ v # u =>
             member'[s][v] = member[s][v] /\ role'[s][v] = role[s][v] /\ key'[s][v] = key[s][v]
    BY <1>3, <2>1 DEF CommitInvite, IInv, TypeOK
  <2>5. StandingOf(r, u)' = "invited"
    <3>1. RowInOrder(r, u)'
      BY <2>1 DEF IInv, TablesInOrder
    <3>2. QED
      BY <2>2, <2>4, <3>1 DEF RowInOrder, StandingOf
  <2>6. \A s \in Room, v \in User : s # r \/ v # u => StandingOf(s, v)' = StandingOf(s, v)
    BY <2>4 DEF StandingOf
  <2>7. Stand' = [Stand EXCEPT ![r][u] = "invited"]
    BY <2>1, <2>5, <2>6, StandOne
  <2>8. Stand[r][u] = "none" /\ Stand[r][creator[r]] = "admin"
    BY <2>1, <2>2, <2>3 DEF Stand
  <2>9. S!Exists(r)
    BY <2>1, <2>8 DEF S!Exists, Stand
  <2>10. S!Bid(r, u)
    BY <2>7, <2>8, <2>9 DEF S!Bid, Stand
  <2>11. QED
    BY <2>1, <2>10 DEF S!StandingNext
<1>4. ASSUME NEW q \in Request, NEW r \in Room, NEW u \in User, Accept(q, r, u)
      PROVE  S!StandingNext \/ Stand' = Stand
  <2>1. UNCHANGED <<creator, role, key>>
    BY <1>4 DEF Accept
  <2>2. CASE member' = member
    BY <1>1, <2>1, <2>2
  <2>3. CASE MarkJoined(r, u) /\ member[r][u] # "pending"
    <3>1. member' = member
      BY <2>3 DEF MarkJoined, IInv, TypeOK
    <3>2. QED
      BY <1>1, <2>1, <3>1
  <2>4. CASE MarkJoined(r, u) /\ member[r][u] = "pending"
    <3>1. /\ member'[r][u] = "joined"
          /\ \A s \in Room, v \in User : s # r \/ v # u => member'[s][v] = member[s][v]
      BY <2>4 DEF MarkJoined, IInv, TypeOK
    <3>2. RowInOrder(r, u) /\ creator[r] # u
      BY <2>4 DEF IInv, TablesInOrder, RowInOrder
    <3>3. StandingOf(r, u) = "invited"
      BY <2>4, <3>2 DEF RowInOrder, StandingOf
    <3>4. StandingOf(r, u)' = "member"
      <4>1. role'[r][u] = {"member"} /\ key'[r][u] = {1}
        BY <2>1, <2>4, <3>2 DEF RowInOrder
      <4>2. QED
        BY <3>1, <4>1 DEF StandingOf
    <3>5. \A s \in Room, v \in User : s # r \/ v # u => StandingOf(s, v)' = StandingOf(s, v)
      BY <2>1, <3>1 DEF StandingOf
    <3>6. Stand' = [Stand EXCEPT ![r][u] = "member"] /\ Stand[r][u] = "invited"
      BY <3>3, <3>4, <3>5, StandOne DEF Stand
    <3>7. QED
      BY <3>6 DEF S!StandingNext, S!Enter, Stand
  <2>5. QED
    BY <1>4, <2>2, <2>3, <2>4 DEF Accept
<1>5. CASE UNCHANGED vars
  BY <1>1, <1>5 DEF vars
<1>6. ASSUME NEW q \in Request, Arrive(q) PROVE S!StandingNext \/ Stand' = Stand
  <2>1. ASSUME NEW u \in User, Register(q, u) PROVE Stand' = Stand
    BY <1>1, <2>1 DEF Register, db
  <2>2. ASSUME NEW u \in User, NEW r \in Room, CreateRoom(q, r, u) \/ Invite(q, r, u)
        PROVE  Stand' = Stand
    BY <1>1, <2>2 DEF CreateRoom, Invite, db
  <2>3. QED
    BY <1>4, <1>6, <2>1, <2>2 DEF Arrive
<1>7. ASSUME NEW q \in Request, Serve(q) \/ DbFails(q) PROVE S!StandingNext \/ Stand' = Stand
  <2>1. CASE CreateUser(q)
    BY <1>1, <2>1 DEF CreateUser, Rollback, db
  <2>2. CASE ReadVersion(q) \/ InsertMember(q) \/ InsertRole(q) \/ InsertKey(q)
    BY <1>1, <2>2 DEF ReadVersion, InsertMember, InsertRole, InsertKey, Rollback, db
  <2>3. CASE Notify(q) \/ DbFails(q)
    BY <1>1, <2>3 DEF Notify, DbFails, Rollback, db
  <2>4. QED
    BY <1>2, <1>3, <1>7, <2>1, <2>2, <2>3 DEF Serve
<1>8. QED
  BY <1>5, <1>6, <1>7 DEF Next

(* Concurrent requests on five tables implement Standing, in which a user  *)
(* is invited, joins or founds a room in one step and never falls back.    *)
THEOREM MembershipImplementsStanding == Spec => ImplementsStanding
<1>1. Spec => []IInv
  BY Invariant
<1>2. IInv /\ IInv' /\ [Next]_vars
        => [S!StandingNext]_[r \in Room |-> [u \in User |-> StandingOf(r, u)]]
  BY StandingStep DEF Stand
<1>3. QED
  BY <1>1, <1>2, StandingInitially, PTL DEF Spec, ImplementsStanding, S!StandingSpec
=============================================================================
