----------------------------- MODULE Migrations -----------------------------
(***************************************************************************)
(* The migration of nexmind.db that the daemon, and every command of the   *)
(* command line that opens the database, runs when it starts.  The runner  *)
(* reads the versions in _migrations and applies the migration it does not *)
(* find there: a batch of CREATE statements that are committed one by one, *)
(* and then the row in _migrations.                                        *)
(***************************************************************************)
EXTENDS Naturals, FiniteSets

CONSTANTS
  Starters,   \* processes that open the database
  Statements, \* how many statements the batch has
  MaxStarts,  \* bound: process starts
  MayFail     \* may a process die, or a statement fail, in a migration?

ASSUME MigrationsAssumption ==
  Statements \in Nat \ {0} /\ MaxStarts \in Nat /\ MayFail \in BOOLEAN

VARIABLES
  created,   \* the statements of the batch whose object exists
  recorded,  \* has _migrations the row of the migration?
  stage,     \* stage[p]: where the process is
  next,      \* next[p]: the statement it executes next
  starts,    \* how many starts there were
  torn       \* did a process die or fail within a migration?

migVars == <<created, recorded, stage, next, starts, torn>>

MigInit ==
  /\ created = {}
  /\ recorded = FALSE
  /\ stage = [p \in Starters |-> "off"]
  /\ next = [p \in Starters |-> 1]
  /\ starts = 0
  /\ torn = FALSE

-----------------------------------------------------------------------------
(* Database::open, run_migrations: _migrations is created if need be and   *)
(* the applied versions are read.                                          *)
ReadApplied(p) ==
  /\ stage[p] = "off"
  /\ starts < MaxStarts
  /\ starts' = starts + 1
  /\ stage' = [stage EXCEPT ![p] = IF recorded THEN "up" ELSE "batch"]
  /\ next' = [next EXCEPT ![p] = 1]
  /\ UNCHANGED <<created, recorded, torn>>

(* CREATE TABLE, CREATE INDEX: there is no IF NOT EXISTS. *)
CreateNext(p) ==
  /\ stage[p] = "batch"
  /\ next[p] \in 1 .. Statements
  /\ next[p] \notin created
  /\ created' = created \cup {next[p]}
  /\ next' = [next EXCEPT ![p] = @ + 1]
  /\ UNCHANGED <<recorded, stage, starts, torn>>

(* The object exists already: run_migrations, and with it the start, fails.*)
ObjectExists(p) ==
  /\ stage[p] = "batch"
  /\ next[p] \in created
  /\ stage' = [stage EXCEPT ![p] = "off"]
  /\ UNCHANGED <<created, recorded, next, starts, torn>>

(* Slip: an error of the INSERT is ignored. *)
RecordBestEffort(p) ==
  /\ stage[p] = "batch"
  /\ next[p] > Statements
  /\ recorded' \in {recorded, TRUE}
  /\ stage' = [stage EXCEPT ![p] = "up"]
  /\ UNCHANGED <<created, next, starts, torn>>

(* INSERT INTO _migrations. *)
RecordMigration(p) ==
  /\ stage[p] = "batch"
  /\ next[p] > Statements
  /\ recorded' = TRUE
  /\ stage' = [stage EXCEPT ![p] = "up"]
  /\ UNCHANGED <<created, next, starts, torn>>

(* A statement fails, or the process dies, before the row is written. *)
Interrupted(p) ==
  /\ MayFail
  /\ stage[p] = "batch"
  /\ stage' = [stage EXCEPT ![p] = "off"]
  /\ torn' = TRUE
  /\ UNCHANGED <<created, recorded, next, starts>>

Stop(p) ==
  /\ stage[p] = "up"
  /\ stage' = [stage EXCEPT ![p] = "off"]
  /\ UNCHANGED <<created, recorded, next, starts, torn>>

MigNext == \E p \in Starters :
  \/ ReadApplied(p) \/ CreateNext(p) \/ ObjectExists(p)
  \/ RecordMigration(p) \/ Interrupted(p) \/ Stop(p)

MigSpec == MigInit /\ [][MigNext]_migVars

-----------------------------------------------------------------------------
MigTypeOK ==
  /\ created \subseteq 1 .. Statements
  /\ recorded \in BOOLEAN
  /\ stage \in [Starters -> {"off", "batch", "up"}]
  /\ next \in [Starters -> 1 .. Statements + 1]
  /\ starts \in 0 .. MaxStarts
  /\ torn \in BOOLEAN

(* Nobody works on half a schema: when a process is up, every statement of *)
(* the migration was executed, whichever processes started together, died  *)
(* in the middle or found the objects of another.                          *)
UpOnWholeSchema ==
  (\E p \in Starters : stage[p] = "up") => created = 1 .. Statements

(* Starting the daemon and the command line together is harmless, and only *)
(* an interruption is not: when nobody is migrating any more and objects   *)
(* exist, the migration is on record, and the next start succeeds, unless  *)
(* a process died or failed within the batch (after which every start      *)
(* finds an object that exists, and fails).                                *)
RacingStartsComplete ==
  (\A p \in Starters : stage[p] # "batch") /\ created # {} => recorded \/ torn

(* Both: a daemon that is up works on the whole schema, and starts that    *)
(* race on one database leave a schema that the next start accepts.        *)
StartsComplete == UpOnWholeSchema /\ RacingStartsComplete
=============================================================================
