------------------------------ MODULE Service ------------------------------
(***************************************************************************)
(* The broker's HTTP service: main migrates the database (Migrations), the *)
(* handlers of Membership and Login run side by side, and a process that   *)
(* ends takes the requests and challenges it holds with it; only the       *)
(* tables stay.                                                            *)
(***************************************************************************)
EXTENDS Login, Migrations

httpVars == <<vars, loginVars>>
serviceVars == <<httpVars, migrationVars>>

ServiceInit == Init /\ LoginInit /\ MigrationsInit

(* The routes: each request is one of either module. *)
Handle(q) ==
  /\ Serving
  /\ \/ /\ login[q].at = "new"
        /\ Arrive(q) \/ Serve(q) \/ DbFails(q)
        /\ UNCHANGED loginVars
     \/ /\ req[q].at = "new"
        /\ LoginArrive(q) \/ LoginServe(q)
        /\ UNCHANGED vars
     \/ /\ Expire(q)
        /\ UNCHANGED vars
  /\ UNCHANGED migrationVars

(* Mutant of DropRequests: the statements run on the connection instead of *)
(* the transaction, so what an invitation has inserted stays.              *)
DropHalfWay ==
  /\ req' = [q \in Request |-> IF req[q].at = "new" THEN req[q]
                                ELSE [req[q] EXCEPT !.at = "done"]]
  /\ answer' = [q \in Request |-> IF req[q].at \in {"new", "done"} THEN answer[q]
                                   ELSE "failed"]
  /\ member' = [r \in Room |-> [u \in User |->
                  IF \E q \in Request : Holds(q, r, u) THEN "pending" ELSE member[r][u]]]
  /\ loginChallenges' = {}
  /\ login' = [q \in Request |-> IF login[q].at = "new" THEN login[q]
                                  ELSE [login[q] EXCEPT !.at = "done"]]
  /\ UNCHANGED <<account, creator, role, version, key, notified, tokens>>

(* Open transactions are rolled back, and clients see their connection     *)
(* fail; the challenges are forgotten.                                     *)
DropRequests ==
  /\ req' = [q \in Request |-> IF req[q].at = "new" THEN req[q]
                                ELSE [req[q] EXCEPT !.at = "done"]]
  /\ answer' = [q \in Request |-> IF req[q].at \in {"new", "done"} THEN answer[q]
                                   ELSE "failed"]
  /\ loginChallenges' = {}
  /\ login' = [q \in Request |-> IF login[q].at = "new" THEN login[q]
                                  ELSE [login[q] EXCEPT !.at = "done"]]
  /\ UNCHANGED <<db, notified, tokens>>

Main(p) ==
  \/ /\ Start(p) \/ Apply(p) \/ Record(p)
     /\ UNCHANGED httpVars
  \/ /\ Exit(p)
     /\ IF main[p].at = "serve" THEN DropRequests ELSE UNCHANGED httpVars

ServiceNext == (\E q \in Request : Handle(q)) \/ \E p \in Process : Main(p)
ServiceSpec == ServiceInit /\ [][ServiceNext]_serviceVars
=============================================================================
