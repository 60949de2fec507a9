----------------------------- MODULE Deployment -----------------------------
(***************************************************************************)
(* The schema of the PostgreSQL store and what brings it about: Alembic    *)
(* upgrades and downgrades, the tables the seeding script creates when     *)
(* they are missing, and the container's start command, which upgrades,    *)
(* seeds and serves, each if the one before succeeded.  Operators downgrade*)
(* and seed by hand in any order, while the API serves or not.             *)
(*                                                                         *)
(* The revisions a command runs are one transaction.  A command may die    *)
(* anywhere, and so may the API; an operator brings the stack up again.    *)
(***************************************************************************)
EXTENDS Naturals, Sequences

CONSTANTS Commands,   \* what operators run, of those below
          MaxFaults   \* bound on crashes and on commands but the start

ASSUME DeploymentAssumption ==
    /\ "start" \in Commands
    /\ Commands \subseteq {"start", "seed", "downgrade one", "downgrade base"}
    /\ MaxFaults \in Nat

VARIABLES
    db,       \* the schema, committed
    work,     \* the schema as the running transaction sees it
    todo,     \* the statements it has left
    command,  \* the last command run
    pc,       \* how far it is
    api,      \* does the API serve?
    faults    \* crashes, and commands but the start, so far

dvars == <<db, work, todo, command, pc, api, faults>>

(* The tables with what they reference; columns are abstracted, but for    *)
(* whether cases.score may be NULL.                                        *)
References == [accounts       |-> {},
               counterparties |-> {},
               model_versions |-> {},
               transactions   |-> {"accounts", "counterparties"},
               cases          |-> {"model_versions", "transactions"},
               audit_log      |-> {"cases"},
               dispositions   |-> {"cases"},
               rule_hits      |-> {"cases"}]
Tables == DOMAIN References

(* trigger: audit_log is append-only; unscored: a case has no score. *)
Blank == [tables |-> {}, trigger |-> FALSE, score_nullable |-> FALSE,
          revision |-> "none", unscored |-> FALSE]

DInit == /\ db = Blank /\ work = Blank
         /\ todo = <<>>
         /\ command = "none" /\ pc = "idle"
         /\ api = FALSE
         /\ faults = 0

-----------------------------------------------------------------------------
Stmt(op, arg) == [op |-> op, arg |-> arg]

Create(ts) == [i \in DOMAIN ts |-> Stmt("create table", ts[i])]
Drop(ts)   == [i \in DOMAIN ts |-> Stmt("drop table", ts[i])]

(* Mutant: the cases are created before the transactions they are about.  *)
UpgradeCasesFirst ==
    Create(<<"accounts", "counterparties", "model_versions", "cases",
             "transactions", "audit_log", "dispositions", "rule_hits">>)
      \o <<Stmt("create trigger", "audit_log"), Stmt("stamp", "0001")>>

Upgrade0001 ==
    Create(<<"accounts", "counterparties", "model_versions", "transactions",
             "cases", "audit_log", "dispositions", "rule_hits">>)
      \o <<Stmt("create trigger", "audit_log"), Stmt("stamp", "0001")>>

Downgrade0001 ==
    <<Stmt("drop trigger", "audit_log")>>
      \o Drop(<<"rule_hits", "dispositions", "audit_log", "cases",
                "transactions", "model_versions", "counterparties", "accounts">>)
      \o <<Stmt("stamp", "none")>>

Upgrade0002   == <<Stmt("nullable", TRUE), Stmt("stamp", "0002")>>
Downgrade0002 == <<Stmt("nullable", FALSE), Stmt("stamp", "0001")>>

(* alembic upgrade head: the revisions the database does not have yet. *)
ToHead(revision) == CASE revision = "none" -> Upgrade0001 \o Upgrade0002
                      [] revision = "0001" -> Upgrade0002
                      [] revision = "0002" -> <<>>

ToBase(revision) == CASE revision = "none" -> <<>>
                      [] revision = "0001" -> Downgrade0001
                      [] revision = "0002" -> Downgrade0002 \o Downgrade0001

OneDown(revision) == CASE revision = "none" -> <<>>
                       [] revision = "0001" -> Downgrade0001
                       [] revision = "0002" -> Downgrade0002

(* What PostgreSQL makes of a statement, and when it refuses one.          *)
Applies(s, d) ==
    CASE s.op = "create table"   -> s.arg \notin d.tables /\ References[s.arg] \subseteq d.tables
      [] s.op = "drop table"     -> s.arg \in d.tables /\ \A t \in d.tables :
                                                              s.arg \notin References[t]
      [] s.op = "create trigger" -> s.arg \in d.tables /\ ~d.trigger
      [] s.op = "drop trigger"   -> s.arg \in d.tables
      [] s.op = "nullable"       -> "cases" \in d.tables /\ (s.arg \/ ~d.unscored)
      [] s.op = "stamp"          -> TRUE

Executed(s, d) ==
    CASE s.op = "create table" -> [d EXCEPT !.tables = @ \cup {s.arg}]
      [] s.op = "drop table"   ->
            IF s.arg = "cases"
            THEN [d EXCEPT !.tables = @ \ {s.arg}, !.score_nullable = FALSE,
                           !.unscored = FALSE]
            ELSE [d EXCEPT !.tables = @ \ {s.arg}]
      [] s.op = "create trigger" -> [d EXCEPT !.trigger = TRUE]
      [] s.op = "drop trigger"   -> [d EXCEPT !.trigger = FALSE]
      [] s.op = "nullable"       -> [d EXCEPT !.score_nullable = s.arg]
      [] s.op = "stamp"          -> [d EXCEPT !.revision = s.arg]

-----------------------------------------------------------------------------
Begin(c, statements) ==
    /\ pc \in {"idle", "failed"} /\ c \in Commands
    /\ command' = c
    /\ todo' = statements
    /\ work' = db
    /\ pc' = IF c = "seed" THEN "seeding" ELSE "migrating"
    /\ faults' = IF c = "start" THEN faults ELSE faults + 1
    /\ UNCHANGED <<db, api>>

(* Mutant: the container starts without the upgrade. *)
StartUpWithoutUpgrade == ~api /\ Begin("start", <<>>)

(* The container's command: it runs in place of the API it replaces. *)
StartUp == ~api /\ Begin("start", ToHead(db.revision))

(* What operators run by hand, on a store the API serves from or not. *)
Operate == /\ faults < MaxFaults
           /\ \/ Begin("downgrade base", ToBase(db.revision))
              \/ Begin("downgrade one", OneDown(db.revision))
              \/ Begin("seed", <<>>)

(* Mutant: every statement commits, as on a store without transactional DDL*)
ExecuteAutocommitted ==
    /\ pc = "migrating" /\ todo # <<>>
    /\ IF Applies(Head(todo), work)
       THEN /\ work' = Executed(Head(todo), work)
            /\ db' = work'
            /\ todo' = Tail(todo)
            /\ UNCHANGED pc
       ELSE pc' = "failed" /\ todo' = <<>> /\ UNCHANGED <<db, work>>
    /\ UNCHANGED <<command, api, faults>>

(* The next statement; a refused one rolls the whole migration back. *)
Execute ==
    /\ pc = "migrating" /\ todo # <<>>
    /\ IF Applies(Head(todo), work)
       THEN /\ work' = Executed(Head(todo), work)
            /\ todo' = Tail(todo)
            /\ UNCHANGED pc
       ELSE pc' = "failed" /\ todo' = <<>> /\ work' = db
    /\ UNCHANGED <<db, command, api, faults>>

CommitMigration ==
    /\ pc = "migrating" /\ todo = <<>>
    /\ db' = work
    /\ pc' = IF command = "start" THEN "seeding" ELSE "idle"
    /\ UNCHANGED <<work, todo, command, api, faults>>

(* create_all: the models' tables that are missing, and nothing of Alembic;*)
(* in the models cases.score may be NULL.                                  *)
CreateAll ==
    /\ pc = "seeding"
    /\ db' = [db EXCEPT !.tables = Tables,
                        !.score_nullable = @ \/ "cases" \notin db.tables]
    /\ work' = db'
    /\ pc' = "created"
    /\ UNCHANGED <<todo, command, api, faults>>

(* The demo cases, which have no score, unless they are there; then the    *)
(* container's command serves.                                             *)
Seed ==
    /\ pc = "created"
    /\ IF db.unscored \/ db.score_nullable
       THEN /\ db' = [db EXCEPT !.unscored = TRUE]
            /\ pc' = "idle"
            /\ api' = (api \/ command = "start")
       ELSE pc' = "failed" /\ UNCHANGED <<db, api>>
    /\ work' = db'
    /\ UNCHANGED <<todo, command, faults>>

(* The command dies. *)
Crash ==
    /\ pc \notin {"idle", "failed"} /\ faults < MaxFaults
    /\ pc' = "idle" /\ todo' = <<>> /\ work' = db
    /\ faults' = faults + 1
    /\ UNCHANGED <<db, command, api>>

(* The API dies, or its container is stopped. *)
ApiDies ==
    /\ api /\ faults < MaxFaults
    /\ api' = FALSE
    /\ faults' = faults + 1
    /\ UNCHANGED <<db, work, todo, command, pc>>

DNext == \/ StartUp \/ Operate
         \/ Execute \/ CommitMigration \/ CreateAll \/ Seed
         \/ Crash \/ ApiDies

(* A command that runs goes on, and the stack is brought up until it       *)
(* serves: compose restarts nothing by itself, an operator does.           *)
DSpec == /\ DInit /\ [][DNext]_dvars
         /\ WF_dvars(Execute) /\ WF_dvars(CommitMigration)
         /\ WF_dvars(CreateAll) /\ WF_dvars(Seed) /\ WF_dvars(StartUp)

-----------------------------------------------------------------------------
(* The schema of the revision stamped in it. *)
AsStamped(d) ==
    /\ d.tables = IF d.revision = "none" THEN {} ELSE Tables
    /\ d.trigger = (d.revision # "none")
    /\ d.score_nullable = (d.revision = "0002")

(* What create_all makes of a store that was never migrated. *)
Unstamped(d) ==
    d.tables = Tables /\ ~d.trigger /\ d.score_nullable /\ d.revision = "none"

(* Whatever ran in whatever order and was cut short or refused, no table is*)
(* left half of a migration: the store is what its stamp says, or what     *)
(* create_all made.  A start never serves from the latter, nor from an old *)
(* revision, so never without the audit log's trigger.                     *)
AtItsRevision ==
    /\ AsStamped(db) \/ Unstamped(db)
    /\ api /\ command = "start" => AsStamped(db) /\ db.revision = "0002"

(* A command is refused for three causes only: a downgrade would make the  *)
(* score of unscored cases mandatory; a seeding finds it mandatory; a start*)
(* finds the tables create_all made.  The statements of each revision find *)
(* the tables they need and leave none that is needed.                     *)
RefusalsHaveACause ==
    pc = "failed" =>
        \/ db.unscored /\ command \in {"downgrade one", "downgrade base"}
        \/ db.revision = "0001" /\ command = "seed"
        \/ Unstamped(db) /\ command = "start"

(* Whatever was cut short, the stack serves once it is brought up again,   *)
(* unless create_all came before the first migration.                      *)
TheStackComesUp == ~api ~> (api \/ Unstamped(db))
=============================================================================
