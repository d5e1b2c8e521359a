----------------------------- MODULE Migrations -----------------------------
(***************************************************************************)
(* scripts/migrate.js: every run executes every file again, keeps no       *)
(* record of what was run, and takes three error codes for "already done". *)
(* The statements of a file are sent together, so a file that fails leaves *)
(* nothing.  Of the schema, what the files that are not written with       *)
(* IF NOT EXISTS make: the first tables, the renaming of persona_knowledge *)
(* and the versions of match_knowledge.  PostgreSQL is external.           *)
(***************************************************************************)
EXTENDS Integers, Sequences

CONSTANT MaxMigrations  \* runs of the script

VARIABLES
  schema,     \* the tables, the function of four arguments, the one of eight
              \* with access rules, the shim
  migration,  \* the run: the file it is at, 0 between runs; runs left
  completed,  \* ghost: a run completed
  refusedAt,  \* ghost: files at which a run ended
  hollow      \* ghost: a file was skipped of which nothing is there

migrationVars == <<schema, migration, completed, refusedAt, hollow>>

\* "003" stands for 003 and 004, "008" for 008 to 031.
MIGRATIONS == <<"001", "002", "003", "005", "006", "007", "008", "032">>
Tables == {"persona", "persona_knowledge", "knowledge_base", "knowledge_chunk", "acl"}
NoSchema == [tables |-> {}, old |-> "none", acl |-> FALSE, shim |-> FALSE]

MigrationTypeOK ==
  /\ schema \in [tables : SUBSET Tables, old : {"none", "002", "006"}, acl : BOOLEAN,
                 shim : BOOLEAN]
  /\ migration \in [at : 0..Len(MIGRATIONS), left : 0..MaxMigrations]
  /\ completed \in BOOLEAN /\ hollow \in BOOLEAN
  /\ refusedAt \subseteq {MIGRATIONS[i] : i \in DOMAIN MIGRATIONS}

MigrationInit ==
  /\ schema = NoSchema /\ migration = [at |-> 0, left |-> MaxMigrations]
  /\ completed = FALSE /\ refusedAt = {} /\ hollow = FALSE

-----------------------------------------------------------------------------
\* The error PostgreSQL answers a file with, if any.  A function in SQL is
\* checked when it is made: the tables it reads must be there.
ErrorOf(file, s) ==
  CASE file = "001" /\ "persona" \in s.tables -> "42P07"
    [] file = "002" /\ s.old = "006" -> "42P13"
    [] file = "002" /\ s.old # "006" /\ "persona_knowledge" \notin s.tables -> "42P01"
    [] file = "005" /\ {"persona_knowledge", "knowledge_chunk"} \subseteq s.tables -> "42P07"
    [] file = "005" /\ {"persona_knowledge", "knowledge_chunk"} \cap s.tables = {} -> "42P01"
    [] file = "006" /\ s.shim -> "42723"
    [] OTHER -> "none"
Applied(file, s) ==
  CASE file = "001" -> [s EXCEPT !.tables = @ \cup {"persona", "persona_knowledge"}]
    [] file = "002" -> [s EXCEPT !.old = "002"]
    [] file = "003" -> [s EXCEPT !.tables = @ \cup {"knowledge_base"}]
    [] file = "005" -> [s EXCEPT !.tables = (@ \ {"persona_knowledge"}) \cup {"knowledge_chunk"}]
    [] file = "006" -> [s EXCEPT !.old = "006", !.shim = TRUE]
    [] file = "007" -> [s EXCEPT !.shim = FALSE]
    [] file = "008" -> [s EXCEPT !.tables = @ \cup {"acl"}]
    [] file = "032" -> [s EXCEPT !.old = "none", !.acl = TRUE]
Skippable(code) == code \in {"42P07", "42P13", "42723"}
\* What a skipped file was to make is there, or a later one took its place.
InPlace(file, s) ==
  CASE file = "001" -> "persona" \in s.tables
    [] file = "002" -> s.old # "none" \/ s.acl
    [] file = "005" -> "knowledge_chunk" \in s.tables
    [] file = "006" -> s.old = "006" \/ s.acl
    [] OTHER -> TRUE

StartMigrate ==
  /\ migration.at = 0 /\ migration.left > 0
  /\ migration' = [at |-> 1, left |-> migration.left - 1]
  /\ UNCHANGED <<schema, completed, refusedAt, hollow>>
PassFile ==
  LET last == migration.at = Len(MIGRATIONS)
  IN  /\ migration' = [migration EXCEPT !.at = IF last THEN 0 ELSE @ + 1]
      /\ completed' = (completed \/ last)
RunFile ==
  LET file == MIGRATIONS[migration.at]  code == ErrorOf(file, schema)
  IN  /\ migration.at > 0
      /\ IF code = "none"
         THEN schema' = Applied(file, schema) /\ PassFile /\ UNCHANGED <<refusedAt, hollow>>
         ELSE /\ UNCHANGED schema
              /\ IF Skippable(code)
                 THEN PassFile /\ hollow' = (hollow \/ ~InPlace(file, schema)) /\ UNCHANGED refusedAt
                 ELSE /\ migration' = [migration EXCEPT !.at = 0]
                      /\ refusedAt' = refusedAt \cup {file} /\ UNCHANGED <<completed, hollow>>
\* The connection is lost or the script is stopped between two files.
MigrationStops ==
  /\ migration.at > 0 /\ migration' = [migration EXCEPT !.at = 0]
  /\ UNCHANGED <<schema, completed, refusedAt, hollow>>

MigrationNext == StartMigrate \/ RunFile \/ MigrationStops
MigrationSpec == MigrationInit /\ [][MigrationNext]_migrationVars

-----------------------------------------------------------------------------
\* What an uninterrupted run leaves.
Migrated == [tables |-> Tables \ {"persona_knowledge"}, old |-> "none", acl |-> TRUE,
             shim |-> FALSE]
(* However often the script is run and wherever it stops, a database on    *)
(* which it completed is what one run leaves and stays so; a file is       *)
(* skipped when what it makes is there; the searches never find two        *)
(* versions of match_knowledge; and only 002 ends a run, the one file that *)
(* names a table 005 renamed.  It ends every run from 005 to 006, and      *)
(* every run after a complete one.                                         *)
MigrationsConverge ==
  /\ completed => schema = Migrated
  /\ ~hollow
  /\ schema.acl => schema.old = "none"
  /\ refusedAt \subseteq {"002"}
  /\ refusedAt # {} => "knowledge_chunk" \in schema.tables
=============================================================================
