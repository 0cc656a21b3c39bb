---------------------------- MODULE ServiceProofs ----------------------------
(***************************************************************************)
(* The broker serves on the whole schema only, a start is stopped by a     *)
(* migration only for one of three causes, tokens go to the holder of      *)
(* the account, challenges are spent, and the tables of Membership stay in *)
(* order across the ends of the broker, for any number of processes,       *)
(* migrations, users, rooms and requests.                                  *)
(***************************************************************************)
EXTENDS Service, MembershipProofs, TLAPS

Below(n) == 0 .. n - 1

ProcessRecord == [at : {"down", "migrate", "serve"},
                  from : 0 .. Migration, next : 0 .. Migration,
                  misread : BOOLEAN, beside : BOOLEAN]

(* The state of the database and what each process relies on. *)
MigrationTypeOK ==
  /\ applied \subseteq Number
  /\ \E k \in 0 .. Migration : migration_version \subseteq {k, Migration}
  /\ main \in [Process -> ProcessRecord]

ProcessInOrder(p) ==
  LET m == main[p] IN
  /\ m.from <= m.next
  /\ m.at = "migrate" =>
       /\ Below(m.next) \subseteq applied
       /\ m.from = Migration => Migration \in migration_version
  /\ m.at # "migrate" => m.from = m.next
  /\ m.at = "serve" => Migration \in migration_version

(* Whatever is applied is noted, or about to be, or was cut short. *)
AppliedAccounted ==
  \A n \in applied :
    \/ n < CurrentVersion
    \/ \E p \in Process : main[p].from <= n /\ n < main[p].next
    \/ n \in cutShort

(* What a process will find applied that it has not applied itself: unless *)
(* another has migrated beside it, its version was noted after them.       *)
FindsForCause(p) ==
  main[p].at = "migrate" =>
    \A n \in applied : n >= main[p].next =>
      main[p].misread \/ main[p].beside \/ n \in cutShort

(* Of two that migrate each was beside the other. *)
Together == \A p, q \in Migrating : p # q => main[p].beside

MInv == /\ MigrationTypeOK
        /\ \A v \in migration_version : Below(v) \subseteq applied
        /\ \A p \in Process : ProcessInOrder(p)
        /\ AppliedAccounted
        /\ Together
        /\ \A p \in Process : FindsForCause(p)

LEMMA VersionFacts ==
  ASSUME MigrationTypeOK
  PROVE  /\ CurrentVersion \in 0 .. Migration
         /\ migration_version = {} => CurrentVersion = 0
         /\ migration_version # {} => CurrentVersion \in migration_version
         /\ \A v \in migration_version : v \in 0 .. Migration /\ v <= CurrentVersion
<1>1. PICK k \in 0 .. Migration : migration_version \subseteq {k, Migration}
  BY DEF MigrationTypeOK
<1>2. CASE migration_version = {}
  BY <1>2, MigrationAssumption DEF CurrentVersion
<1>3. CASE migration_version # {}
  <2>1. \E v \in migration_version : \A w \in migration_version : w <= v
    <3>1. CASE Migration \in migration_version
      <4>1. \A w \in migration_version : w <= Migration
        BY <1>1, MigrationAssumption
      <4>2. QED
        BY <3>1, <4>1
    <3>2. CASE Migration \notin migration_version
      <4>1. \A w \in migration_version : w = k
        BY <1>1, <3>2
      <4>2. k <= k
        BY MigrationAssumption
      <4>3. QED
        BY <1>3, <4>1, <4>2
    <3>3. QED
      BY <3>1, <3>2
  <2>2. /\ CurrentVersion \in migration_version
        /\ \A w \in migration_version : w <= CurrentVersion
    BY <1>3, <2>1 DEF CurrentVersion
  <2>3. QED
    BY <1>1, <1>3, <2>2, MigrationAssumption
<1>4. QED
  BY <1>2, <1>3

LEMMA ProcessType ==
  ASSUME NEW a \in {"down", "migrate", "serve"}, NEW f \in 0 .. Migration,
         NEW n \in 0 .. Migration, NEW m \in BOOLEAN, NEW b \in BOOLEAN
  PROVE  [at |-> a, from |-> f, next |-> n, misread |-> m, beside |-> b] \in ProcessRecord
BY DEF ProcessRecord

LEMMA DownType ==
  ASSUME NEW a \in {"down", "migrate", "serve"}
  PROVE  Down \in ProcessRecord /\ [Down EXCEPT !.at = a] \in ProcessRecord
<1>1. 0 \in 0 .. Migration /\ "down" \in {"down", "migrate", "serve"} /\ FALSE \in BOOLEAN
  BY MigrationAssumption
<1>2. Down \in ProcessRecord
  BY <1>1, ProcessType, Zenon DEF Down
<1>3. QED
  BY <1>2 DEF ProcessRecord

LEMMA InitMInv == MigrationsInit => MInv
<1> SUFFICES ASSUME MigrationsInit PROVE MInv
  OBVIOUS
<1> USE MigrationAssumption
<1>1. PICK n \in Earlier : /\ applied = 0 .. n - 1
                           /\ migration_version = {n} \ {0}
                           /\ main = [p \in Process |-> Down]
  BY DEF MigrationsInit
<1>2. n \in 0 .. Migration
  OBVIOUS
<1>3. MigrationTypeOK
  BY <1>1, <1>2 DEF MigrationTypeOK, ProcessRecord, Number, Down
<1>4. \A v \in migration_version : Below(v) \subseteq applied
  BY <1>1 DEF Below
<1>5. \A p \in Process : ProcessInOrder(p)
  BY <1>1 DEF ProcessInOrder, Down
<1>6. AppliedAccounted
  <2>1. n # 0 => CurrentVersion = n
    BY <1>1, <1>3, VersionFacts
  <2>2. QED
    BY <1>1, <1>2, <2>1 DEF AppliedAccounted
<1>7. Together /\ \A p \in Process : FindsForCause(p)
  BY <1>1 DEF Together, Migrating, FindsForCause, Down
<1>8. QED
  BY <1>3, <1>4, <1>5, <1>6, <1>7 DEF MInv

-----------------------------------------------------------------------------
(* The steps of a process. *)

LEMMA StartStep == ASSUME MInv, NEW p \in Process, Start(p) PROVE MInv'
<1> USE MigrationAssumption
<1>1. MigrationTypeOK
  BY DEF MInv
<1>2. PICK v \in {0, CurrentVersion} : Launch(p, v, v)
  BY DEF Start
<1>3. /\ UNCHANGED <<applied, migration_version, cutShort>>
      /\ main[p].at = "down" /\ v \in 0 .. Migration
  BY <1>1, VersionFacts DEF Start
<1>4. main'[p] = [at |-> "migrate", from |-> v, next |-> v,
                  misread |-> v # CurrentVersion, beside |-> Migrating # {}]
  BY <1>2 DEF Launch
<1>a. /\ main'[p].at = "migrate" /\ main'[p].from = v /\ main'[p].next = v
      /\ main'[p].misread = (v # CurrentVersion)
      /\ main'[p].beside = (Migrating # {})
  BY <1>4
<1>5. \A q \in Process \ {p} :
        /\ main'[q] = [main[q] EXCEPT !.beside = q \in Migrating]
        /\ main'[q].at = main[q].at /\ main'[q].from = main[q].from
        /\ main'[q].next = main[q].next /\ main'[q].misread = main[q].misread
        /\ main'[q].beside <=> q \in Migrating
  BY <1>1, <1>2 DEF Launch, MigrationTypeOK, ProcessRecord
<1>6. MigrationTypeOK'
  <2>1. ASSUME NEW q \in Process PROVE main'[q] \in ProcessRecord
    <3> DEFINE m == v # CurrentVersion
               b == Migrating # {}
    <3>1. /\ m \in BOOLEAN /\ b \in BOOLEAN /\ "migrate" \in {"down", "migrate", "serve"}
          /\ main'[p] = [at |-> "migrate", from |-> v, next |-> v, misread |-> m, beside |-> b]
      BY <1>4
    <3> HIDE DEF m, b
    <3>2. main'[p] \in ProcessRecord
      BY <1>3, <3>1, ProcessType
    <3>3. CASE q # p
      <4>1. (q \in Migrating) \in BOOLEAN
        OBVIOUS
      <4>2. QED
        BY <1>1, <1>5, <3>3, <4>1 DEF MigrationTypeOK, ProcessRecord
    <3>4. QED
      BY <3>2, <3>3
  <2>2. main' = [q \in Process |-> main'[q]]
    BY <1>2 DEF Launch
  <2>3. QED
    BY <1>1, <1>3, <2>1, <2>2 DEF MigrationTypeOK
<1>7. Below(v) \subseteq applied /\ (v = Migration => Migration \in migration_version)
  BY <1>1, VersionFacts DEF MInv, Below
<1>8. ASSUME NEW q \in Process PROVE ProcessInOrder(q)'
  <2>1. CASE q = p
    BY <1>3, <1>4, <1>7, <2>1 DEF ProcessInOrder
  <2>2. CASE q # p
    BY <1>3, <1>5, <2>2 DEF MInv, ProcessInOrder
  <2>3. QED
    BY <2>1, <2>2
<1>9. CurrentVersion' = CurrentVersion /\ main[p].from = main[p].next
  BY <1>3 DEF CurrentVersion, MInv, ProcessInOrder
<1>10. ASSUME NEW n \in applied, NEW q \in Process, main[q].from <= n, n < main[q].next
       PROVE  q # p /\ q \in Migrating /\ main'[q].from <= n /\ n < main'[q].next
  <2>1. main[q].from # main[q].next
    BY <1>1, <1>10 DEF MigrationTypeOK, ProcessRecord, Number
  <2>2. QED
    BY <1>5, <1>9, <1>10, <2>1 DEF MInv, ProcessInOrder, Migrating
<1>11. AppliedAccounted'
  BY <1>3, <1>9, <1>10 DEF MInv, AppliedAccounted
<1>12. Together'
  <2>1. \A q \in Process \ {p} : q \in Migrating' => q \in Migrating /\ main'[q].beside
    BY <1>5 DEF Migrating
  <2>2. \A q \in Process \ {p} : q \in Migrating' => main'[p].beside
    <3>1. ASSUME NEW q \in Process \ {p}, q \in Migrating' PROVE Migrating # {}
      BY <2>1, <3>1
    <3>2. QED
      BY <1>a, <3>1
  <2>3. QED
    BY <2>1, <2>2 DEF Together, Migrating
<1>13. ASSUME NEW q \in Process PROVE FindsForCause(q)'
  <2>1. CASE q = p
    <3>1. ASSUME NEW n \in applied, n >= v, v = CurrentVersion, Migrating = {}
          PROVE  n \in cutShort
      <4>1. ~(n < CurrentVersion)
        BY <1>1, <1>3, <3>1 DEF MigrationTypeOK, Number
      <4>2. QED
        BY <1>10, <3>1, <4>1 DEF MInv, AppliedAccounted
    <3>2. main'[p].misread \/ main'[p].beside \/ (v = CurrentVersion /\ Migrating = {})
      BY <1>a
    <3>3. \A n \in applied : n >= main'[p].next =>
            main'[p].misread \/ main'[p].beside \/ n \in cutShort
      BY <1>a, <3>1, <3>2
    <3>4. QED
      BY <1>3, <2>1, <3>3 DEF FindsForCause
  <2>2. CASE q # p
    BY <1>5, <2>2 DEF FindsForCause, Migrating
  <2>3. QED
    BY <2>1, <2>2
<1>14. QED
  BY <1>3, <1>6, <1>8, <1>11, <1>12, <1>13 DEF MInv, Below

(* A process that stops accounts for what it has applied. *)
LEMMA StopStep ==
  ASSUME MInv, NEW p \in Process, Stop(p), UNCHANGED <<applied, migration_version>>
  PROVE  MInv'
<1> USE MigrationAssumption
<1>1. /\ MigrationTypeOK
      /\ main' = [main EXCEPT ![p] = Down]
      /\ cutShort' = cutShort \cup {n \in Number : main[p].from <= n /\ n < main[p].next}
  BY DEF MInv, Stop
<1>2. MigrationTypeOK'
  BY <1>1 DEF MigrationTypeOK, ProcessRecord, Down
<1>3. ASSUME NEW q \in Process PROVE ProcessInOrder(q)'
  <2>1. CASE q = p
    BY <1>1, <2>1 DEF MigrationTypeOK, ProcessInOrder, Down
  <2>2. CASE q # p
    BY <1>1, <2>2 DEF MInv, MigrationTypeOK, ProcessInOrder
  <2>3. QED
    BY <2>1, <2>2
<1>4. AppliedAccounted'
  <2>1. CurrentVersion' = CurrentVersion
    BY DEF CurrentVersion
  <2>2. ASSUME NEW n \in applied, NEW q \in Process, main[q].from <= n, n < main[q].next
        PROVE  main'[q] = main[q] \/ n \in cutShort'
    <3>1. CASE q = p
      BY <1>1, <2>2, <3>1 DEF MigrationTypeOK
    <3>2. CASE q # p
      BY <1>1, <3>2 DEF MigrationTypeOK
    <3>3. QED
      BY <3>1, <3>2
  <2>3. QED
    BY <1>1, <2>1, <2>2 DEF MInv, AppliedAccounted
<1>5. Together' /\ \A q \in Process : FindsForCause(q)'
  <2>1. \A q \in Process : main'[q].at = "migrate" => q # p /\ main'[q] = main[q]
    BY <1>1 DEF MigrationTypeOK, Down
  <2>2. QED
    BY <1>1, <2>1 DEF MInv, Together, Migrating, FindsForCause
<1>6. QED
  BY <1>2, <1>3, <1>4, <1>5 DEF MInv, Below

LEMMA ApplyStep == ASSUME MInv, NEW p \in Process, Apply(p) PROVE MInv'
<1> USE MigrationAssumption
<1> DEFINE n == main[p].next
<1>1. /\ MigrationTypeOK /\ n \in Nat /\ n < Migration /\ main[p].at = "migrate"
      /\ UNCHANGED migration_version
  BY DEF MInv, MigrationTypeOK, ProcessRecord, Apply
<1>2. CASE n \in OnceOnly \cap applied
  BY <1>2, StopStep DEF Apply
<1>3. CASE n \notin OnceOnly \cap applied
  <2>1. /\ applied' = applied \cup {n}
        /\ main' = [main EXCEPT ![p].next = n + 1]
        /\ UNCHANGED cutShort
    BY <1>3 DEF Apply
  <2>2. main'[p] = [main[p] EXCEPT !.next = n + 1] /\ \A q \in Process \ {p} : main'[q] = main[q]
    BY <1>1, <2>1 DEF MigrationTypeOK
  <2>3. MigrationTypeOK'
    BY <1>1, <2>1 DEF MigrationTypeOK, ProcessRecord, Number
  <2>4. \A v \in migration_version' : Below(v) \subseteq applied'
    BY <1>1, <2>1 DEF MInv
  <2>5. ASSUME NEW q \in Process PROVE ProcessInOrder(q)'
    <3>1. CASE q = p
      <4>1. /\ main'[p].at = "migrate" /\ main'[p].from = main[p].from
            /\ main'[p].next = n + 1
        BY <1>1, <2>2 DEF MigrationTypeOK
      <4>2. main[p].from \in Nat /\ ProcessInOrder(p)
        BY <1>1 DEF MInv, MigrationTypeOK, ProcessRecord
      <4>3. QED
        BY <1>1, <2>1, <3>1, <4>1, <4>2 DEF ProcessInOrder, Below
    <3>2. CASE q # p
      BY <1>1, <2>1, <2>2, <3>2 DEF MInv, ProcessInOrder
    <3>3. QED
      BY <3>1, <3>2
  <2>6. AppliedAccounted'
    <3>1. CurrentVersion' = CurrentVersion
      BY <1>1 DEF CurrentVersion
    <3>2. main'[p].from <= n /\ n < main'[p].next
      BY <1>1, <2>2 DEF MInv, MigrationTypeOK, ProcessInOrder
    <3>3. ASSUME NEW k \in applied, NEW q \in Process, main[q].from <= k, k < main[q].next
          PROVE  main'[q].from <= k /\ k < main'[q].next
      BY <1>1, <2>2, <3>3 DEF MigrationTypeOK, ProcessRecord, Number
    <3>4. QED
      BY <2>1, <3>1, <3>2, <3>3 DEF MInv, AppliedAccounted
  <2>7. \A q \in Process : /\ main'[q].at = main[q].at
                          /\ main'[q].misread = main[q].misread
                          /\ main'[q].beside = main[q].beside
    BY <1>1, <2>2 DEF MigrationTypeOK, ProcessRecord
  <2>8. Together'
    BY <2>7 DEF MInv, Together, Migrating
  <2>9. ASSUME NEW q \in Process PROVE FindsForCause(q)'
    <3>1. CASE q = p
      <4>1. \A k \in applied' : k >= n + 1 => k \in applied /\ k >= n
        BY <1>1, <2>1 DEF MigrationTypeOK, Number
      <4>2. main'[p].next = n + 1
        BY <1>1, <2>2 DEF MigrationTypeOK
      <4>3. QED
        BY <1>1, <2>1, <2>7, <3>1, <4>1, <4>2 DEF MInv, FindsForCause
    <3>2. CASE q # p
      <4>1. main[q].at = "migrate" => main[q].beside
        BY <1>1, <3>2 DEF MInv, Together, Migrating
      <4>2. QED
        BY <2>7, <4>1 DEF FindsForCause
    <3>3. QED
      BY <3>1, <3>2
  <2>10. QED
    BY <2>3, <2>4, <2>5, <2>6, <2>8, <2>9 DEF MInv
<1>4. QED
  BY <1>2, <1>3

LEMMA RecordStep == ASSUME MInv, NEW p \in Process, Record(p) PROVE MInv'
<1> USE MigrationAssumption
<1>1. /\ MigrationTypeOK /\ main[p].at = "migrate" /\ main[p].next = Migration
      /\ UNCHANGED <<applied, cutShort>>
  BY DEF MInv, Record
<1>2. migration_version' = migration_version \cup {Migration}
  <2>1. CASE main[p].from < Migration
    BY <2>1 DEF Record
  <2>2. CASE ~(main[p].from < Migration)
    <3>1. main[p].from = Migration
      BY <1>1, <2>2 DEF MigrationTypeOK, ProcessRecord
    <3>2. Migration \in migration_version
      BY <1>1, <3>1 DEF MInv, ProcessInOrder
    <3>3. QED
      BY <2>2, <3>2 DEF Record
  <2>3. QED
    BY <2>1, <2>2
<1>3. PICK at \in {"down", "serve"} :
        main' = [main EXCEPT ![p] = [Down EXCEPT !.at = at]]
  <2>1. CASE p \in MigrateOnly \/ Serving
    <3>1. Down = [Down EXCEPT !.at = "down"]
      BY DEF Down
    <3>2. QED
      BY <2>1, <3>1 DEF Record, Goes
  <2>2. CASE ~(p \in MigrateOnly \/ Serving)
    BY <2>2 DEF Record, Goes
  <2>3. QED
    BY <2>1, <2>2
<1>4. MigrationTypeOK'
  <2>1. PICK k \in 0 .. Migration : migration_version \subseteq {k, Migration}
    BY <1>1 DEF MigrationTypeOK
  <2>2. migration_version' \subseteq {k, Migration}
    BY <1>2, <2>1
  <2>3. [Down EXCEPT !.at = at] \in ProcessRecord
    BY <1>3, DownType
  <2>4. main' \in [Process -> ProcessRecord]
    BY <1>1, <1>3, <2>3 DEF MigrationTypeOK
  <2>5. QED
    BY <1>1, <2>1, <2>2, <2>4 DEF MigrationTypeOK, Record
<1>5. Below(Migration) \subseteq applied
  BY <1>1 DEF MInv, ProcessInOrder
<1>6. ASSUME NEW q \in Process PROVE ProcessInOrder(q)'
  <2>1. CASE q = p
    BY <1>1, <1>2, <1>3, <2>1 DEF MigrationTypeOK, ProcessInOrder, Down
  <2>2. CASE q # p
    BY <1>1, <1>2, <1>3, <2>2 DEF MInv, MigrationTypeOK, ProcessInOrder
  <2>3. QED
    BY <2>1, <2>2
<1>7. CurrentVersion' = Migration
  <2>1. /\ Migration \in migration_version'
        /\ \A v \in migration_version' : v \in 0 .. Migration
    BY <1>1, <1>2, VersionFacts
  <2>2. \A v \in migration_version' : v <= Migration
    BY <2>1
  <2>3. /\ CurrentVersion' \in migration_version'
        /\ \A w \in migration_version' : w <= CurrentVersion'
    BY <2>1, <2>2 DEF CurrentVersion
  <2>4. QED
    BY <2>1, <2>3
<1>8. AppliedAccounted'
  BY <1>1, <1>4, <1>7 DEF MigrationTypeOK, Number, AppliedAccounted
<1>9. Together' /\ \A q \in Process : FindsForCause(q)'
  <2>1. \A q \in Process : main'[q].at = "migrate" => q # p /\ main'[q] = main[q]
    BY <1>1, <1>3 DEF MigrationTypeOK, Down
  <2>2. QED
    BY <1>1, <2>1 DEF MInv, Together, Migrating, FindsForCause
<1>10. QED
  BY <1>1, <1>2, <1>4, <1>5, <1>6, <1>8, <1>9 DEF MInv

-----------------------------------------------------------------------------
(* Logins.  An account, once there is one, keeps its maker. *)

AccountTypeOK == account \in [User -> Holder \cup {Nobody}]

LInv == AccountTypeOK /\ LoginTypeOK /\ TokensOfHolder
        /\ \A q \in Request : login[q].at \in {"remove", "password", "signature"} =>
                                login[q].user \in User

LEMMA InitLInv == Init /\ LoginInit => LInv
BY MembershipAssumption
   DEF Init, LoginInit, LInv, AccountTypeOK, LoginTypeOK, TokensOfHolder, Holder, NoLogin

LEMMA AccountStep ==
  ASSUME AccountTypeOK, NEW q \in Request, Arrive(q) \/ Serve(q) \/ DbFails(q)
  PROVE  /\ AccountTypeOK'
         /\ \A u \in User : account[u] # Nobody => account'[u] = account[u]
<1>1. CASE CreateUser(q)
  <2>1. CASE req[q].user \in Registered
    BY <1>1, <2>1 DEF CreateUser, Rollback, db, AccountTypeOK
  <2>2. CASE req[q].user \notin Registered
    BY <1>1, <2>2 DEF CreateUser, Registered, AccountTypeOK, Holder
  <2>3. QED
    BY <2>1, <2>2
<1>2. CASE ~CreateUser(q)
  <2>1. UNCHANGED account
    BY <1>2 DEF Arrive, Serve, Register, CreateRoom, Invite, Accept, CommitRoom,
                ReadVersion, InsertMember, InsertRole, InsertKey, CommitInvite, Notify,
                DbFails, Rollback, db
  <2>2. QED
    BY <2>1 DEF AccountTypeOK
<1>3. QED
  BY <1>1, <1>2

LEMMA RequestStep ==
  ASSUME LInv, NEW q \in Request, Arrive(q) \/ Serve(q) \/ DbFails(q), UNCHANGED loginVars
  PROVE  LInv'
<1>1. /\ AccountTypeOK'
      /\ \A u \in User : account[u] # Nobody => account'[u] = account[u]
  BY AccountStep DEF LInv
<1>2. TokensOfHolder'
  <2>1. \A t \in tokens : t[1] \in User /\ t[2] \in Holder
    BY DEF LInv, LoginTypeOK
  <2>2. QED
    BY <1>1, <2>1, MembershipAssumption DEF LInv, TokensOfHolder, loginVars, Holder
<1>3. QED
  BY <1>1, <1>2 DEF LInv, LoginTypeOK, loginVars

LEMMA LoginStep ==
  ASSUME LInv, NEW q \in Request, LoginArrive(q) \/ LoginServe(q) \/ Expire(q),
         UNCHANGED account
  PROVE  LInv'
<1>0. LoginTypeOK /\ AccountTypeOK' /\ TokensOfHolder
  BY DEF LInv, AccountTypeOK
<1>1. CASE Challenge(q) \/ RemoveChallenge(q) \/ ValidateUserPassword(q)
  <2>1. PICK at \in {"password", "signature", "done"} :
          /\ login' = [login EXCEPT ![q].at = at]
          /\ at # "done" => login[q].user \in User
    BY <1>1 DEF Challenge, RemoveChallenge, ValidateUserPassword, LoginGoto, LInv
  <2>2. UNCHANGED tokens /\ loginChallenges' \subseteq Request
    BY <1>0, <1>1 DEF Challenge, RemoveChallenge, ValidateUserPassword, LoginTypeOK
  <2>3. QED
    BY <1>0, <2>1, <2>2 DEF LInv, LoginTypeOK, TokensOfHolder
<1>2. CASE Expire(q)
  BY <1>0, <1>2 DEF Expire, LInv, LoginTypeOK, TokensOfHolder
<1>3. CASE \E u \in User, h \in Holder, c \in Request : GetChallenge(q, u, h, c)
  BY <1>0, <1>3 DEF GetChallenge, LInv, LoginTypeOK, TokensOfHolder
<1>4. CASE VerifySignature(q)
  <2>1. /\ login' = [login EXCEPT ![q].at = "done"] /\ UNCHANGED loginChallenges
        /\ login[q].user \in User /\ login[q].holder \in Holder
    BY <1>0, <1>4 DEF VerifySignature, LoginGoto, LInv, LoginTypeOK
  <2>2. tokens' \in {tokens, tokens \cup {<<login[q].user, login[q].holder>>}}
    BY <1>4 DEF VerifySignature
  <2>3. TokensOfHolder'
    BY <1>0, <1>4 DEF VerifySignature, Owns, TokensOfHolder
  <2>4. LoginTypeOK'
    BY <1>0, <2>1, <2>2 DEF LoginTypeOK
  <2>5. QED
    BY <1>0, <2>1, <2>3, <2>4 DEF LInv, LoginTypeOK
<1>5. QED
  BY <1>1, <1>2, <1>3, <1>4 DEF LoginArrive, LoginServe

LEMMA DropStep == ASSUME LInv, DropRequests PROVE LInv'
<1>1. /\ login' = [q \in Request |-> IF login[q].at = "new" THEN login[q]
                                     ELSE [login[q] EXCEPT !.at = "done"]]
      /\ loginChallenges' = {}
      /\ UNCHANGED <<account, tokens>>
  BY DEF DropRequests, db
<1>2. LoginTypeOK'
  BY <1>1 DEF LInv, LoginTypeOK
<1>3. QED
  BY <1>1, <1>2 DEF LInv, LoginTypeOK, AccountTypeOK, TokensOfHolder

-----------------------------------------------------------------------------
(* Challenges.  One that a login names has been asked for, so it is not    *)
(* given out again.                                                        *)

Asked ==
  \A q \in Request : login[q].challenge \in Request => login[login[q].challenge].at # "new"

CInv == LoginTypeOK /\ Asked /\ ChallengesSpent

LEMMA ChallengeStep ==
  ASSUME CInv, NEW q \in Request, LoginArrive(q) \/ LoginServe(q) \/ Expire(q)
  PROVE  Asked' /\ ChallengesSpent'
<1>0. /\ \A p \in Request : /\ login[p].challenge \in Request
                              => login[login[p].challenge].at # "new"
                            /\ login[p].challenge \in loginChallenges
                              => login[p].at = "remove"
      /\ loginChallenges \subseteq Request
  BY DEF CInv, Asked, ChallengesSpent, LoginTypeOK
<1>1. CASE Challenge(q)
  <2>1. /\ login[q].at = "new" /\ loginChallenges' = loginChallenges \cup {q}
        /\ \A p \in Request : /\ login'[p].challenge = login[p].challenge
                              /\ login'[p].at = IF p = q THEN "done" ELSE login[p].at
    BY <1>1 DEF Challenge, LoginGoto, CInv, LoginTypeOK
  <2>2. Asked'
    BY <1>0, <2>1 DEF Asked
  <2>3. ChallengesSpent'
    BY <1>0, <2>1 DEF ChallengesSpent
  <2>4. QED
    BY <2>2, <2>3
<1>2. CASE Expire(q)
  BY <1>0, <1>2 DEF Expire, Asked, ChallengesSpent
<1>3. ASSUME NEW u \in User, NEW h \in Holder, NEW c \in Request, GetChallenge(q, u, h, c)
      PROVE  Asked' /\ ChallengesSpent'
  <2>1. /\ login[q].at = "new" /\ login[c].at = "done" /\ UNCHANGED loginChallenges
        /\ login'[q].challenge = c /\ login'[q].at \in {"remove", "done"}
        /\ c \in loginChallenges => login'[q].at = "remove"
        /\ \A p \in Request \ {q} : login'[p] = login[p]
    BY <1>3 DEF GetChallenge, CInv, LoginTypeOK
  <2>2. Asked'
    BY <1>0, <2>1 DEF Asked
  <2>3. ChallengesSpent'
    BY <1>0, <2>1 DEF ChallengesSpent
  <2>4. QED
    BY <2>2, <2>3
<1>4. CASE LoginServe(q)
  <2>1. /\ \A p \in Request \ {q} : login'[p] = login[p]
        /\ login'[q].challenge = login[q].challenge
        /\ login'[q].at # "new"
        /\ loginChallenges' \subseteq loginChallenges
        /\ login[q].challenge \notin loginChallenges'
    <3>1. PICK at \in {"password", "signature", "done"} : LoginGoto(q, at)
      BY <1>4 DEF LoginServe, RemoveChallenge, ValidateUserPassword, VerifySignature
    <3>2. /\ \A p \in Request \ {q} : login'[p] = login[p]
          /\ login'[q].challenge = login[q].challenge
          /\ login'[q].at # "new"
      BY <3>1 DEF LoginGoto, CInv, LoginTypeOK
    <3>3. CASE RemoveChallenge(q)
      BY <3>2, <3>3 DEF RemoveChallenge
    <3>4. CASE ValidateUserPassword(q) \/ VerifySignature(q)
      <4>1. login[q].at # "remove" /\ UNCHANGED loginChallenges
        BY <3>4 DEF ValidateUserPassword, VerifySignature
      <4>2. QED
        BY <1>0, <3>2, <4>1
    <3>5. QED
      BY <1>4, <3>3, <3>4 DEF LoginServe
  <2>2. Asked'
    BY <1>0, <2>1 DEF Asked
  <2>3. ChallengesSpent'
    BY <1>0, <2>1 DEF ChallengesSpent
  <2>4. QED
    BY <2>2, <2>3
<1>5. QED
  BY <1>1, <1>2, <1>3, <1>4 DEF LoginArrive

(* No challenge outlives the process that gave it out. *)
LEMMA DropForgets ==
  ASSUME CInv, DropRequests
  PROVE  Asked' /\ ChallengesSpent'
<1>1. /\ \A q \in Request : login'[q] = IF login[q].at = "new" THEN login[q]
                                        ELSE [login[q] EXCEPT !.at = "done"]
      /\ loginChallenges' = {}
  BY DEF DropRequests
<1>2. \A q \in Request : /\ login'[q].challenge = login[q].challenge
                         /\ login[q].at # "new" => login'[q].at # "new"
  <2> SUFFICES ASSUME NEW q \in Request
               PROVE  /\ login'[q].challenge = login[q].challenge
                      /\ login[q].at # "new" => login'[q].at # "new"
    OBVIOUS
  <2>1. CASE login[q].at = "new"
    BY <1>1, <2>1
  <2>2. CASE login[q].at # "new"
    <3>1. login'[q] = [login[q] EXCEPT !.at = "done"]
      BY <1>1, <2>2
    <3>2. QED
      BY <3>1 DEF CInv, LoginTypeOK
  <2>3. QED
    BY <2>1, <2>2
<1>3. QED
  BY <1>1, <1>2 DEF CInv, Asked, ChallengesSpent

-----------------------------------------------------------------------------
(* The requests on the tables, across the end of the process. *)

(* Whatever a request is answered by, the tables are as Membership says.   *)
LEMMA HandleStep ==
  ASSUME NEW q \in Request, Handle(q)
  PROVE  [Next]_vars
BY DEF Handle, Next

(* The end of a process leaves the requests that had arrived done, their   *)
(* answers failed unless they were given, and the tables as they were.     *)
LEMMA DropKeepsTables ==
  ASSUME IInv, DropRequests
  PROVE  IInv' /\ Stand' = Stand
<1>1. /\ req \in [Request -> RequestRecord] /\ answer \in [Request -> Answer]
      /\ UNCHANGED <<db, notified>>
  BY DEF IInv, TypeOK, RequestRecord, Answer, DropRequests
<1>2. \A q \in Request :
        /\ req'[q] = IF req[q].at = "new" THEN req[q] ELSE [req[q] EXCEPT !.at = "done"]
        /\ answer'[q] = IF req[q].at \in {"new", "done"} THEN answer[q] ELSE "failed"
  BY DEF DropRequests
<1>3. req' \in [Request -> RequestRecord] /\ answer' \in [Request -> Answer]
  <2>1. \A q \in Request : [req[q] EXCEPT !.at = "done"] \in RequestRecord
    BY <1>1 DEF RequestRecord, Step
  <2>2. "failed" \in Answer
    BY DEF Answer
  <2>3. QED
    BY <1>1, <2>1, <2>2 DEF DropRequests
<1>4. TypeOK'
  BY <1>1, <1>3 DEF IInv, TypeOK, db, RequestRecord, Answer
<1>5. TablesInOrder' /\ NoticeIsActionable'
  BY <1>1 DEF IInv, TablesInOrder, RowInOrder, NoticeIsActionable, db
<1>6. \A q \in Request : /\ req'[q].at \in {"new", "done"}
                         /\ req[q].at # "new" => req'[q].at = "done"
                         /\ req[q].at = "new" => req'[q] = req[q]
                         /\ req'[q].user = req[q].user
  <2> SUFFICES ASSUME NEW q \in Request
               PROVE  /\ req'[q].at \in {"new", "done"}
                      /\ req[q].at # "new" => req'[q].at = "done"
                      /\ req[q].at = "new" => req'[q] = req[q]
                      /\ req'[q].user = req[q].user
    OBVIOUS
  <2>1. CASE req[q].at = "new"
    BY <1>2, <2>1
  <2>2. CASE req[q].at # "new"
    <3>1. req[q] \in RequestRecord /\ req'[q] = [req[q] EXCEPT !.at = "done"]
      BY <1>1, <1>2, <2>2
    <3>2. req'[q].at = "done" /\ req'[q].user = req[q].user
      BY <3>1 DEF RequestRecord
    <3>3. QED
      BY <2>2, <3>2
  <2>3. QED
    BY <2>1, <2>2
<1>7. ASSUME NEW q \in Request PROVE RequestInOrder(q)'
  <2>1. RequestInOrder(q) /\ account' = account
    BY <1>1 DEF IInv, RequestsInOrder, db
  <2>2. answer'[q] # "none" => req'[q].at = "done"
    BY <1>2, <1>6, <2>1 DEF RequestInOrder
  <2>3. answer'[q] = "created" => answer[q] = "created"
    BY <1>2
  <2>4. QED
    BY <1>6, <2>1, <2>2, <2>3 DEF RequestInOrder, OnRoom, Holding
<1>8. Exclusive'
  BY <1>6 DEF Exclusive, Holding
<1>9. Stand' = Stand
  BY <1>1 DEF Stand, StandingOf, db
<1>10. QED
  BY <1>4, <1>5, <1>7, <1>8, <1>9 DEF IInv, RequestsInOrder

(* A step of the service is one of Membership, or leaves it alone, or is   *)
(* the end of the process that serves.                                     *)
LEMMA ServiceStep ==
  ASSUME [ServiceNext]_serviceVars
  PROVE  [Next]_vars \/ DropRequests
<1>1. CASE UNCHANGED serviceVars
  BY <1>1 DEF serviceVars, httpVars
<1>2. ASSUME NEW p \in Process, Main(p) PROVE UNCHANGED vars \/ DropRequests
  BY <1>2 DEF Main, httpVars
<1>3. QED
  BY <1>1, <1>2, HandleStep DEF ServiceNext

-----------------------------------------------------------------------------
(* The service as a whole. *)

SInv == MInv /\ LInv /\ CInv /\ IInv

LEMMA NextSInv == ASSUME SInv, [ServiceNext]_serviceVars PROVE SInv'
<1>1. ASSUME NEW q \in Request, Handle(q) PROVE SInv'
  <2>1. MInv'
    BY <1>1 DEF Handle, SInv, MInv, MigrationTypeOK, ProcessInOrder, AppliedAccounted,
                CurrentVersion, Together, Migrating, FindsForCause, Below, migrationVars
  <2>2. LInv'
    BY <1>1, RequestStep, LoginStep DEF Handle, SInv, vars
  <2>3. CInv'
    <3>1. CASE UNCHANGED loginVars
      BY <3>1 DEF SInv, CInv, LoginTypeOK, Asked, ChallengesSpent, loginVars
    <3>2. CASE LoginArrive(q) \/ LoginServe(q) \/ Expire(q)
      BY <2>2, <3>2, ChallengeStep DEF SInv, CInv, LInv
    <3>3. QED
      BY <1>1, <3>1, <3>2 DEF Handle
  <2>4. IInv'
    BY <1>1, HandleStep, NextIInv DEF SInv
  <2>5. QED
    BY <2>1, <2>2, <2>3, <2>4 DEF SInv
<1>2. ASSUME UNCHANGED httpVars PROVE LInv' /\ CInv' /\ IInv'
  <2>1. LInv' /\ CInv'
    BY <1>2 DEF SInv, LInv, CInv, AccountTypeOK, LoginTypeOK, TokensOfHolder, Asked,
                ChallengesSpent, httpVars, vars, loginVars
  <2>2. IInv'
    BY <1>2, NextIInv DEF SInv, httpVars
  <2>3. QED
    BY <2>1, <2>2
<1>3. ASSUME NEW p \in Process, Main(p) PROVE SInv'
  <2>1. CASE (Start(p) \/ Apply(p) \/ Record(p)) /\ UNCHANGED httpVars
    BY <1>2, <2>1, StartStep, ApplyStep, RecordStep DEF SInv
  <2>2. CASE Exit(p) /\ IF main[p].at = "serve" THEN DropRequests ELSE UNCHANGED httpVars
    <3>1. MInv'
      BY <2>2, StopStep DEF Exit, SInv
    <3>2. CASE DropRequests
      <4>1. LInv' /\ IInv'
        BY <3>2, DropStep, DropKeepsTables DEF SInv
      <4>2. CInv'
        BY <3>2, <4>1, DropForgets DEF SInv, LInv, CInv
      <4>3. QED
        BY <3>1, <4>1, <4>2 DEF SInv
    <3>3. CASE UNCHANGED httpVars
      BY <1>2, <3>1, <3>3 DEF SInv
    <3>4. QED
      BY <2>2, <3>2, <3>3
  <2>3. QED
    BY <1>3, <2>1, <2>2 DEF Main
<1>4. CASE UNCHANGED serviceVars
  <2>1. MInv'
    BY <1>4 DEF serviceVars, migrationVars, SInv, MInv, MigrationTypeOK, ProcessInOrder,
                AppliedAccounted, CurrentVersion, Together, Migrating, FindsForCause, Below
  <2>2. QED
    BY <1>2, <1>4, <2>1 DEF serviceVars, SInv
<1>5. QED
  BY <1>1, <1>3, <1>4 DEF ServiceNext

LEMMA Invariance == ServiceSpec => []SInv
<1>1. ServiceInit => SInv
  <2>1. Init /\ LoginInit => CInv
    BY InitLInv, MembershipAssumption
       DEF LInv, CInv, LoginInit, NoLogin, Asked, ChallengesSpent
  <2>2. QED
    BY <2>1, InitMInv, InitLInv, InitIInv DEF ServiceInit, SInv
<1>2. QED
  BY <1>1, NextSInv, PTL DEF ServiceSpec

-----------------------------------------------------------------------------
(* main serves on the whole schema, with its version noted, whatever       *)
(* starts went before or go on beside it.                                  *)
THEOREM WholeSchema == ServiceSpec => []ServesWholeSchema
<1>1. ASSUME SInv PROVE ServesWholeSchema
  <2> SUFFICES ASSUME Serving PROVE applied = Number /\ CurrentVersion = Migration
    BY DEF ServesWholeSchema
  <2> USE MigrationAssumption
  <2>1. Migration \in migration_version
    BY <1>1 DEF SInv, MInv, ProcessInOrder, Serving
  <2>2. Below(Migration) \subseteq applied /\ applied \subseteq Number
    BY <1>1, <2>1 DEF SInv, MInv, MigrationTypeOK
  <2>3. CurrentVersion = Migration
    BY <1>1, <2>1, VersionFacts DEF SInv, MInv
  <2>4. QED
    BY <2>2, <2>3 DEF Below, Number
<1>2. QED
  BY <1>1, Invariance, PTL

(* RunMigrations meets a migration that cannot be repeated and is applied  *)
(* already only if its reading of the version failed, another process      *)
(* migrated while it did, or one was cut short after that migration: a     *)
(* start alone, after starts that were not cut short, gets through.        *)
THEOREM StopsForCause == ServiceSpec => []StoppedForCause
<1>1. ASSUME SInv PROVE StoppedForCause
  <2> SUFFICES ASSUME NEW p \in Process, main[p].at = "migrate",
                      main[p].next \in OnceOnly \cap applied
               PROVE  main[p].misread \/ main[p].beside \/ main[p].next \in cutShort
    BY DEF StoppedForCause
  <2>1. main[p].next >= main[p].next
    BY <1>1, MigrationAssumption DEF SInv, MInv, MigrationTypeOK, ProcessRecord
  <2>2. QED
    BY <1>1, <2>1 DEF SInv, MInv, FindsForCause
<1>2. QED
  BY <1>1, Invariance, PTL

(* login issues tokens only to the maker of an account, which stays so.    *)
THEOREM TokensStay == ServiceSpec => []TokensOfHolder
<1>1. SInv => TokensOfHolder
  BY DEF SInv, LInv
<1>2. QED
  BY <1>1, Invariance, PTL
(* No login finds a challenge that another has gone past removing, or that *)
(* it has not found before, across the ends of the broker too.             *)
THEOREM ChallengesAreSpent == ServiceSpec => []ChallengesSpent
<1>1. SInv => ChallengesSpent
  BY DEF SInv, CInv
<1>2. QED
  BY <1>1, Invariance, PTL

(* However the broker ends and starts again between the statements of a    *)
(* request, nobody is half a member: an invitation that was under way has  *)
(* left all of its rows or none.                                           *)
THEOREM MembersStayWhole == ServiceSpec => []WholeMembers
<1>1. SInv => WholeMembers
  BY WholeRows DEF SInv
<1>2. QED
  BY <1>1, Invariance, PTL

(* An account outlives the process that created it, and stays its maker's. *)
THEOREM AccountsStay == ServiceSpec => []OneAccountPerName
<1>1. SInv => OneAccountPerName
  BY DEF SInv, IInv, RequestsInOrder, RequestInOrder, OneAccountPerName
<1>2. QED
  BY <1>1, Invariance, PTL

(* The service, with its starts and ends, implements Standing as the       *)
(* requests alone do: a restart moves nobody's standing.                   *)
THEOREM ServiceImplementsStanding == ServiceSpec => ImplementsStanding
<1>1. ServiceInit => S!StandingInit
  BY StandingInitially DEF ServiceInit
<1>2. SInv /\ SInv' /\ [ServiceNext]_serviceVars
        => [S!StandingNext]_[r \in Room |-> [u \in User |-> StandingOf(r, u)]]
  <2>1. ASSUME SInv, SInv', [ServiceNext]_serviceVars PROVE [S!StandingNext]_Stand
    BY <2>1, ServiceStep, StandingStep, DropKeepsTables DEF SInv
  <2>2. QED
    BY <2>1 DEF Stand
<1>3. QED
  BY <1>1, <1>2, Invariance, PTL DEF ServiceSpec, ImplementsStanding, S!StandingSpec
=============================================================================
