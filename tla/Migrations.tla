----------------------------- MODULE Migrations -----------------------------
(***************************************************************************)
(* The start of a broker (broker/main.go): RunMigrations                   *)
(* (broker/database/migrate.go) brings the schema up to date and notes the *)
(* version; then the broker serves, or, run with --migrate-only, exits.    *)
(* Migrations are numbered from 0.  Each runs in a transaction of its own, *)
(* and the version is a row of its own, written after the last of them.    *)
(***************************************************************************)
EXTENDS Naturals

CONSTANTS Process,      \* processes that run main
          MigrateOnly,  \* those with --migrate-only
          Migration,    \* how many migrations there are
          OnceOnly,     \* those that fail when applied again
          Earlier,      \* how many migrations an earlier release may have run
          MaxStart      \* bound: starts of a process

ASSUME MigrationAssumption == /\ MigrateOnly \subseteq Process
                              /\ Migration \in Nat \ {0}
                              /\ OnceOnly \subseteq Nat
                              /\ Earlier \subseteq 0 .. Migration
                              /\ MaxStart \in Nat

VARIABLES applied,            \* migrations whose effect is in the schema
          migration_version,  \* the rows of this table
          main,               \* where each process is; and, as history, if its
                              \* reading of the version failed, and if another
                              \* migrated while it did
          starts,             \* how often processes were started
          cutShort            \* history: migrations applied by a process that
                              \* stopped before it noted the version

migrationVars == <<applied, migration_version, main, starts, cutShort>>

Number == 0 .. Migration - 1
Down == [at |-> "down", from |-> 0, next |-> 0, misread |-> FALSE, beside |-> FALSE]

MigrationsInit ==
  \E n \in Earlier :
    /\ applied = 0 .. n - 1
    /\ migration_version = {n} \ {0}
    /\ main = [p \in Process |-> Down]
    /\ starts = 0
    /\ cutShort = {}

(* MAX(version_num), or 0. *)
CurrentVersion == IF migration_version = {} THEN 0
                  ELSE CHOOSE v \in migration_version : \A w \in migration_version : w <= v

Migrating == {q \in Process : main[q].at = "migrate"}

(* p takes the version for v, and n for the first migration to apply. *)
Launch(p, v, n) ==
  main' = [q \in Process |->
             IF q = p
             THEN [at |-> "migrate", from |-> v, next |-> n,
                   misread |-> v # CurrentVersion, beside |-> Migrating # {}]
             ELSE [main[q] EXCEPT !.beside = q \in Migrating]]

(* Mutant of Start: migrations are numbered from 1. *)
StartAfter(p) ==
  /\ main[p].at = "down"
  /\ starts < MaxStart
  /\ starts' = starts + 1
  /\ \E v \in {0, CurrentVersion} :
       Launch(p, v, IF v < Migration THEN v + 1 ELSE v)
  /\ UNCHANGED <<applied, migration_version, cutShort>>

(* main, up to the reading of the version.  An error there is taken for a  *)
(* new database.                                                           *)
Start(p) ==
  /\ main[p].at = "down"
  /\ starts < MaxStart
  /\ starts' = starts + 1
  /\ \E v \in {0, CurrentVersion} : Launch(p, v, v)
  /\ UNCHANGED <<applied, migration_version, cutShort>>

(* The process ends: log.Fatal, a crash, or the operator. *)
Stop(p) ==
  /\ main' = [main EXCEPT ![p] = Down]
  /\ cutShort' = cutShort \cup {n \in Number : main[p].from <= n /\ n < main[p].next}

(* applyMigration: all of its statements or none. *)
Apply(p) ==
  LET n == main[p].next IN
  /\ main[p].at = "migrate"
  /\ n < Migration
  /\ IF n \in OnceOnly \cap applied
     THEN Stop(p) /\ UNCHANGED applied
     ELSE /\ applied' = applied \cup {n}
          /\ main' = [main EXCEPT ![p].next = n + 1]
          /\ UNCHANGED cutShort
  /\ UNCHANGED <<migration_version, starts>>

Serving == \E p \in Process : main[p].at = "serve"

(* What comes after RunMigrations; only one broker can have the address. *)
Goes(p) == main' = [main EXCEPT ![p] =
  IF p \in MigrateOnly \/ Serving THEN Down ELSE [Down EXCEPT !.at = "serve"]]

(* Mutant of Record: a process that only migrates ends before the version  *)
(* is noted.                                                               *)
RecordByBroker(p) ==
  /\ main[p].at = "migrate" /\ main[p].next = Migration
  /\ migration_version' = IF main[p].from < Migration /\ p \notin MigrateOnly
                          THEN migration_version \cup {Migration}
                          ELSE migration_version
  /\ Goes(p)
  /\ UNCHANGED <<applied, starts, cutShort>>

(* The version is noted, if anything was applied. *)
Record(p) ==
  /\ main[p].at = "migrate" /\ main[p].next = Migration
  /\ migration_version' = IF main[p].from < Migration
                          THEN migration_version \cup {Migration}
                          ELSE migration_version
  /\ Goes(p)
  /\ UNCHANGED <<applied, starts, cutShort>>

(* A process stops in whatever it is doing; a failing statement ends it    *)
(* too.                                                                    *)
Exit(p) == /\ main[p].at # "down"
           /\ Stop(p)
           /\ UNCHANGED <<applied, migration_version, starts>>

-----------------------------------------------------------------------------
(* Properties. *)

(* A broker serves only on the whole schema, with its version noted, in    *)
(* whatever state earlier and concurrent starts have left the database.    *)
ServesWholeSchema == Serving => applied = Number /\ CurrentVersion = Migration

(* A start that meets a migration which cannot be repeated and is in the   *)
(* schema already, and so ends there, has one of three causes: it failed   *)
(* to read the version and took the database for a new one; another        *)
(* process migrated while it did; or a process was cut short between this  *)
(* migration and the noting of the version, after which every start ends   *)
(* here.  A start alone, after starts that ran to their end, that reads    *)
(* the version is not stopped.                                             *)
StoppedForCause ==
  \A p \in Process :
    main[p].at = "migrate" /\ main[p].next \in OnceOnly \cap applied =>
      main[p].misread \/ main[p].beside \/ main[p].next \in cutShort
=============================================================================
