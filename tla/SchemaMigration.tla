--------------------------- MODULE SchemaMigration ---------------------------
(***************************************************************************)
(* The versioned migration of core/schema_migration.py (upgrade_database    *)
(* and its thirteen steps), the operator's adoption of a restored database  *)
(* (deletion_adopt.py) and the start of an engine on what they leave        *)
(* (api.py _initialize_db, ensure_watermark).                              *)
(*                                                                         *)
(* A database is what the steps can tell apart: which tables exist and are *)
(* protected by row-level security, the state of every added column and    *)
(* index, the recorded versions, the watermark row and the beliefs.  A     *)
(* step is `needed', a list of durable stages (each one transaction or one *)
(* autocommitted statement) and `verify'; a crash or an error falls        *)
(* between two stages.                                                     *)
(*                                                                         *)
(* Left out: the legacy purpose that labels old rows, timeouts and retries *)
(* inside a stage (a stage may fail), the metabolism columns of            *)
(* core/migrate.py.  An engine is started and stopped by the operator who  *)
(* migrates, so never while a migration runs; on PostgreSQL the previous   *)
(* release keeps writing while it runs.                                    *)
(***************************************************************************)
EXTENDS Integers, Sequences, FiniteSets

CONSTANTS
  Belief,          \* the beliefs of the database before the migration
  Dialects,        \* the dialects in play: {"sqlite", "postgresql"} or less
  Releases,        \* the releases whose databases are migrated, by version
  MaxLives,        \* bound: watermark rows ever minted
  MaxCrashes,      \* bound: migrations killed
  MaxErrors,       \* bound: stages that fail for reasons of their own
  MaxWrites,       \* bound: rows the previous release inserts meanwhile
  MaxRestores      \* bound: restores of the archive and downgrades

Latest == 13
Step == 1 .. Latest
Life == 1 .. MaxLives
NoLife == 0

ASSUME DialectAssumption == Dialects \subseteq {"sqlite", "postgresql"}
ASSUME ReleaseAssumption == Releases \subseteq 0 .. Latest
ASSUME MigrationBounds ==
  MaxLives \in Nat \ {0} /\ {MaxCrashes, MaxErrors, MaxWrites, MaxRestores} \subseteq Nat
ASSUME BeliefAssumption == "no genesis" \notin Belief

VARIABLES
  backend,   \* the dialect of the deployment, never changes
  db,        \* the main database
  job,       \* the migration that runs
  bak,       \* SQLite: the .pre-migration.bak file
  archive,   \* the operator's backup from before the deployment
  log,       \* the deletion log of every database life; NoGenesis without one
  minted,    \* lives ever minted
  engine,    \* is an engine serving
  deleted,   \* history: beliefs whose deletion was acknowledged
  forced,    \* history: a new lineage was asked for in so many words
  spent      \* faults and writes so far

migrationVars == <<backend, db, job, bak, archive, log, minted, engine, deleted, forced, spent>>

OnPg == backend = "postgresql"

Tables == {"base", "beliefs", "purpose", "audit", "generations", "sync"}
Columns == {"tenant", "jobPurpose", "evidencePurpose", "snapshotPurpose",
            "summaryPurpose", "unions", "snapGeneration", "globalId"}
Indexes == {"pending", "tenantUser", "tenantBelief", "globalId"}
Legacy == {"userIndex", "beliefIndex"}

NoGenesis == <<"no genesis">>
NoFile == [file |-> "none"]
NoRow == [life |-> NoLife, applied |-> 0]
Idle == [step |-> 0, todo |-> <<>>, entered |-> FALSE, adopt |-> NoLife, fresh |-> FALSE]

(*************************** shapes of a database **************************)

Since(t) == CASE t \in {"base", "beliefs"} -> 0 [] t = "purpose" -> 6
              [] t = "audit" -> 8 [] t = "generations" -> 11 [] t = "sync" -> 13

ColumnSince(c) == CASE c = "tenant" -> 1 [] c = "jobPurpose" -> 6
                    [] c \in {"evidencePurpose", "snapshotPurpose"} -> 7
                    [] c = "summaryPurpose" -> 9 [] c = "unions" -> 10
                    [] c = "snapGeneration" -> 11 [] c = "globalId" -> 12

IndexSince(i) == CASE i = "pending" -> 4 [] i = "tenantUser" -> 5
                   [] i = "tenantBelief" -> 9 [] i = "globalId" -> 12

\* A database the release with version v left: every step up to v done.
Shape(v, d, beliefs) ==
  [tables    |-> {t \in Tables : Since(t) <= v},
   protected |-> IF d = "postgresql" /\ v >= 3 THEN {t \in Tables : Since(t) <= v} ELSE {},
   roles     |-> d = "postgresql" /\ v >= 3,
   untenanted |-> IF v = 0 THEN {"base", "beliefs"} ELSE {},
   composite |-> d = "postgresql" /\ v >= 2,
   col       |-> [c \in Columns |-> IF ColumnSince(c) > v THEN "absent"
                                    ELSE IF c = "snapGeneration" THEN "nullable" ELSE "notnull"],
   unfilled  |-> {},
   idx       |-> [i \in Indexes |-> IF IndexSince(i) > v THEN "absent" ELSE "valid"],
   legacy    |-> (IF v < 5 THEN {"userIndex"} ELSE {}) \cup (IF v < 9 THEN {"beliefIndex"} ELSE {}),
   temp      |-> {},
   versions  |-> 1 .. v,
   wmTable   |-> v >= 11,
   wm        |-> IF v >= 11 THEN [life |-> 1, applied |-> 0] ELSE NoRow,
   beliefs   |-> beliefs]

\* A database without tables: a new file, or a new PostgreSQL schema.
Empty(d) == [Shape(0, d, {}) EXCEPT !.tables = {}, !.untenanted = {}, !.legacy = {}]

\* What create_all makes of the tables that are missing: the model's shape.
\* SQLite reports no index for a UNIQUE constraint.
CreateAll(d) ==
  LET new == Tables \ d.tables
      own == [c \in Columns |-> IF c \in {"jobPurpose", "evidencePurpose", "snapshotPurpose",
                                          "summaryPurpose", "unions", "snapGeneration", "tenant"}
                                THEN "base" ELSE "beliefs"]
  IN [d EXCEPT !.tables = Tables,
       !.col = [c \in Columns |-> IF own[c] \notin new THEN @[c]
                                  ELSE IF c = "snapGeneration" THEN "nullable" ELSE "notnull"],
       !.idx = [i \in Indexes |-> IF "base" \in new /\ i # "globalId" THEN "valid" ELSE @[i]]]

HasData(d) == d.beliefs # {}
Version(d) == IF d.versions = {} THEN 0 ELSE CHOOSE v \in d.versions : \A w \in d.versions : w <= v

(****************************** the steps **********************************)

ColumnsThere(cs, d) == \A c \in cs : d.col[c] # "absent"
TablesThere(ts, d) == ts \subseteq d.tables
Posture(ts, d) == OnPg => d.roles /\ ts \subseteq d.tables /\ ts \subseteq d.protected

Do(op, on) == [op |-> op, on |-> on]

\* A step: is apply needed, the durable stages of apply in order, what verify
\* asks before the version is recorded.  A "column" stage is the code's
\* `if column not in _table_columns(...)', expanded when it is reached.
AStep(needed, stages, verified) == [needed |-> needed, stages |-> stages, verified |-> verified]

Step1Tenancy(d) ==
  AStep(d.untenanted # {},
        IF OnPg THEN <<Do("tenantColumns", ""), Do("fill", "tenant"), Do("seal", "tenant")>>
        ELSE <<Do("rebuild", "beliefs"), Do("rebuild", "base")>>,
        d.untenanted = {} /\ "tenant" \notin d.unfilled)

Step2TenantPrimaryKeys(d) ==
  AStep(OnPg /\ d.tables # {} /\ ~d.composite,
        IF OnPg THEN <<Do("compositeKey", "")>> ELSE <<>>,
        OnPg => d.tables = {} \/ d.composite)

Step3RowLevelSecurity(d) ==
  AStep(OnPg /\ ~Posture(Tables, d),
        IF OnPg THEN <<Do("roles", ""), Do("protect", Tables)>> ELSE <<>>,
        Posture(Tables, d))

Step4PendingJobsIndex(d) ==
  AStep(d.idx["pending"] # "valid", <<Do("index", "pending")>>, d.idx["pending"] = "valid")

Step5TenantUserIndexes(d) ==
  LET replaced == d.idx["tenantUser"] = "valid" /\ "userIndex" \notin d.legacy
  IN AStep("base" \in d.tables /\ ~replaced,
           <<Do("index", "tenantUser"), Do("dropIndex", "userIndex")>>,
           "base" \in d.tables => replaced)

Step6PurposeAuthorization(d) ==
  AStep(~TablesThere({"purpose"}, d) \/ ~ColumnsThere({"jobPurpose"}, d),
        <<Do("table", "purpose"), Do("column", "jobPurpose"), Do("protect", {"purpose"})>>,
        ColumnsThere({"jobPurpose"}, d) /\ Posture({"purpose"}, d))

Step7SourcePurpose(d) ==
  AStep(~ColumnsThere({"evidencePurpose", "snapshotPurpose"}, d),
        <<Do("column", "evidencePurpose"), Do("column", "snapshotPurpose")>>,
        d.col["evidencePurpose"] = "notnull" /\ d.col["snapshotPurpose"] = "notnull")

Step8AccessAudit(d) ==
  AStep(~TablesThere({"audit"}, d),
        <<Do("table", "audit"), Do("protect", {"audit"})>>,
        TablesThere({"audit"}, d) /\ Posture({"audit"}, d))

Step9RecallVisibility(d) ==
  AStep(~ColumnsThere({"summaryPurpose"}, d) \/ d.idx["tenantBelief"] # "valid",
        <<Do("index", "tenantBelief"), Do("dropIndex", "beliefIndex"), Do("column", "summaryPurpose")>>,
        /\ ColumnsThere({"summaryPurpose"}, d)
        /\ d.idx["tenantBelief"] = "valid" /\ "beliefIndex" \notin d.legacy)

Step10DerivedProvenance(d) ==
  AStep(~ColumnsThere({"unions"}, d), <<Do("column", "unions")>>, ColumnsThere({"unions"}, d))

Step11DeletionReplay(d) ==
  LET made == TablesThere({"generations"}, d) /\ ColumnsThere({"snapGeneration"}, d) /\ d.wmTable
  IN AStep(~made \/ d.wm = NoRow,
           <<Do("table", "generations"), Do("column", "snapGeneration"), Do("wmTable", ""),
             Do("mint", ""), Do("protect", {"generations"})>>,
           made /\ Posture({"generations"}, d))

Step12BeliefGlobalId(d) ==
  LET made == /\ d.col["globalId"] # "absent" /\ "globalId" \notin d.unfilled
              /\ OnPg => d.col["globalId"] = "notnull"
              /\ d.idx["globalId"] = "valid"
  IN AStep("beliefs" \in d.tables /\ ~made,
           <<Do("column", "globalId"), Do("fill", "globalId"), Do("reseal", "globalId"),
             Do("index", "globalId")>>,
           "beliefs" \in d.tables => made)

Step13SyncState(d) ==
  AStep(~TablesThere({"sync"}, d),
        <<Do("table", "sync"), Do("protect", {"sync"})>>,
        TablesThere({"sync"}, d) /\ Posture({"sync"}, d))

Steps(n, d) ==
  CASE n = 1  -> Step1Tenancy(d)           [] n = 2  -> Step2TenantPrimaryKeys(d)
    [] n = 3  -> Step3RowLevelSecurity(d)  [] n = 4  -> Step4PendingJobsIndex(d)
    [] n = 5  -> Step5TenantUserIndexes(d) [] n = 6  -> Step6PurposeAuthorization(d)
    [] n = 7  -> Step7SourcePurpose(d)     [] n = 8  -> Step8AccessAudit(d)
    [] n = 9  -> Step9RecallVisibility(d)  [] n = 10 -> Step10DerivedProvenance(d)
    [] n = 11 -> Step11DeletionReplay(d)   [] n = 12 -> Step12BeliefGlobalId(d)
    [] n = 13 -> Step13SyncState(d)

\* What a "column" stage stands for once it is known whether the column is
\* there.  PostgreSQL adds it nullable, fills it and proves it NOT NULL; the
\* unions are not filled, the generation stays nullable, global_id has its own
\* stages.  SQLite adds it NOT NULL with its default.
ColumnStages(c, d) ==
  IF d.col[c] # "absent" THEN <<>>
  ELSE IF ~OnPg \/ c \in {"snapGeneration", "globalId"} THEN <<Do("add", c)>>
  ELSE IF c = "unions" THEN <<Do("add", c), Do("seal", c)>>
  ELSE <<Do("add", c), Do("fill", c), Do("seal", c)>>

\* Mutant: tables are created without checkfirst.
FeasibleNoCheckfirst(s, d) ==
  CASE s.op \in {"seal", "reseal"} -> s.on \notin d.unfilled
    [] s.op = "table" -> s.on \notin d.tables
    [] s.op = "rebuild" -> s.on \notin d.temp /\ (s.on = "beliefs" => Cardinality(d.beliefs) <= 1)
    [] OTHER -> TRUE

\* Can a stage be carried out, and what it leaves: NOT NULL is refused over
\* NULLs, a unique index over equal values; the rebuild gives every belief the
\* one global_id its default made for the statement, and cannot create a
\* temporary table that an earlier attempt left.
Feasible(s, d) ==
  CASE s.op \in {"seal", "reseal"} -> s.on \notin d.unfilled
    [] s.op = "compositeKey" -> "tenant" \notin d.unfilled
    [] s.op = "index" -> (IF s.on = "globalId" THEN "beliefs" ELSE "base") \in d.tables
    [] s.op = "rebuild" -> /\ s.on \notin d.temp
                           /\ s.on = "beliefs" => Cardinality(d.beliefs) <= 1
    [] OTHER -> TRUE

RebuildTable(t, d) ==
  LET ours == IF t = "beliefs" THEN {"globalId"} ELSE Columns \ {"globalId"}
  IN [d EXCEPT !.untenanted = @ \ {t},
       !.col = [c \in Columns |-> IF c \notin ours THEN @[c]
                                  ELSE IF c = "snapGeneration" THEN "nullable" ELSE "notnull"],
       !.idx = [i \in Indexes |-> IF t = "base" /\ i # "globalId" THEN "valid" ELSE @[i]],
       !.legacy = IF t = "base" THEN {} ELSE @]

AddTenantColumns(d) ==
  [d EXCEPT !.untenanted = {}, !.col["tenant"] = "nullable",
            !.unfilled = IF HasData(d) THEN @ \cup {"tenant"} ELSE @]

\* PostgreSQL adds a nullable column; SQLite one that is NOT NULL with a default,
\* the empty marker for global_id.
AddColumn(c, d) ==
  [d EXCEPT !.col[c] = IF OnPg \/ c = "snapGeneration" THEN "nullable" ELSE "notnull",
            !.unfilled = IF HasData(d) /\ c # "snapGeneration" /\ (OnPg \/ c = "globalId")
                         THEN @ \cup {c} ELSE @]

Backfill(c, d) == [d EXCEPT !.unfilled = @ \ {c}]

\* ADD CHECK NOT VALID, VALIDATE, SET NOT NULL, DROP CHECK, in one transaction.
ProveNotNull(c, d) == [d EXCEPT !.col[c] = "notnull"]

SwapPrimaryKey(d) == [d EXCEPT !.composite = TRUE, !.col["tenant"] = "notnull"]

\* ENABLE and FORCE row-level security, policies, ownership, of what is there.
RlsPlan(ts, d) == IF OnPg THEN [d EXCEPT !.protected = @ \cup (ts \cap d.tables)] ELSE d

BuildIndex(i, d) == [d EXCEPT !.idx[i] = "valid"]

After(s, d) ==
  CASE s.op = "tenantColumns" -> AddTenantColumns(d)
    [] s.op = "rebuild"       -> RebuildTable(s.on, d)
    [] s.op = "add"           -> AddColumn(s.on, d)
    [] s.op = "fill"          -> Backfill(s.on, d)
    [] s.op \in {"seal", "reseal"} -> ProveNotNull(s.on, d)
    [] s.op = "compositeKey"  -> SwapPrimaryKey(d)
    [] s.op = "roles"         -> [d EXCEPT !.roles = TRUE]
    [] s.op = "protect"       -> RlsPlan(s.on, d)
    [] s.op = "index"         -> BuildIndex(s.on, d)
    [] s.op = "dropIndex"     -> [d EXCEPT !.legacy = @ \ {s.on}]
    [] s.op = "table"         -> [d EXCEPT !.tables = @ \cup {s.on}]
    [] s.op = "wmTable"       -> [d EXCEPT !.wmTable = TRUE]

(************************** upgrade_database *******************************)

\* SQLite copies the file over the previous .bak, whatever state it is in.
BackupSqlite == bak' = IF OnPg THEN bak ELSE db

\* upgrade_database: the backup, then every step above the recorded version.  With
\* adopt # NoLife the operator runs deletion_adopt and minting is suppressed;
\* fresh is new_lineage.
StartUpgrade(adopt, fresh) ==
  /\ job = Idle /\ ~engine
  /\ BackupSqlite
  /\ job' = IF Version(db) = Latest THEN Idle
            ELSE [Idle EXCEPT !.step = Version(db) + 1, !.adopt = adopt, !.fresh = fresh]
  /\ UNCHANGED <<backend, db, archive, log, minted, engine, deleted, forced, spent>>

\* `applied = step.needed(engine)'.
EnterStep ==
  /\ job.step \in Step /\ ~job.entered
  /\ job' = [job EXCEPT !.entered = TRUE,
                        !.todo = IF Steps(job.step, db).needed
                                   THEN Steps(job.step, db).stages ELSE <<>>]
  /\ UNCHANGED <<backend, db, bak, archive, log, minted, engine, deleted, forced, spent>>

\* The except branch: SQLite copies the backup back, PostgreSQL keeps what is
\* committed (a build that failed leaves an invalid index).
Abandon(d) ==
  /\ job' = Idle
  /\ db' = IF OnPg THEN d ELSE bak

\* What an interrupted stage may leave: PostgreSQL an invalid index, SQLite the
\* temporary table of a rebuild (its CREATE commits before the INSERT).
Debris(s, d) ==
  {d} \cup (IF OnPg /\ s.op = "index" /\ d.idx[s.on] # "valid"
            THEN {[d EXCEPT !.idx[s.on] = "invalid"]} ELSE {})
      \cup (IF s.op = "rebuild" THEN {[d EXCEPT !.temp = @ \cup {s.on}]} ELSE {})

Pending == job.entered /\ job.todo # <<>>

\* Mutant: the migration does not ask the log for earlier lives.
LogNotAsked == FALSE

LogKnowsLives == \E l \in Life : log[l] # NoGenesis
MustAdopt == HasData(db) /\ LogKnowsLives

\* One stage of apply other than the watermark row.
RunStage ==
  /\ Pending /\ Head(job.todo).op # "mint"
  /\ LET s == Head(job.todo) IN
       IF s.op = "column"
       THEN /\ job' = [job EXCEPT !.todo = ColumnStages(s.on, db) \o Tail(@)]
            /\ db' = db
       ELSE IF Feasible(s, db)
       THEN /\ job' = [job EXCEPT !.todo = Tail(@)]
            /\ db' = After(s, db)
       ELSE Abandon(db)
  /\ UNCHANGED <<backend, bak, archive, log, minted, engine, deleted, forced, spent>>

\* _mint_watermark_row: nothing for an adoption or when the row is there; over
\* data only if the deletion log knows no earlier life, or by new_lineage.
MintRow ==
  /\ Pending /\ Head(job.todo).op = "mint"
  /\ LET skip == job.adopt # NoLife \/ db.wm # NoRow IN
       IF ~skip /\ MustAdopt /\ ~job.fresh
       THEN Abandon(db) /\ UNCHANGED <<minted, forced>>
       ELSE /\ ~skip => minted < MaxLives
            /\ minted' = IF skip THEN minted ELSE minted + 1
            /\ db' = IF skip THEN db ELSE [db EXCEPT !.wm = [life |-> minted + 1, applied |-> 0]]
            /\ forced' = (forced \/ (~skip /\ MustAdopt))
            /\ job' = [job EXCEPT !.todo = Tail(@)]
  /\ UNCHANGED <<backend, bak, archive, log, engine, deleted, spent>>

\* A stage raises: a lock timeout, a full disk, a broken connection.
StageFails ==
  /\ Pending /\ spent.errors < MaxErrors
  /\ \E d \in Debris(Head(job.todo), db) : Abandon(d)
  /\ spent' = [spent EXCEPT !.errors = @ + 1]
  /\ UNCHANGED <<backend, bak, archive, log, minted, engine, deleted, forced>>

\* Mutant: the version row carries the number of the next step.
VerifyStepOffByOne ==
  /\ job.entered /\ job.todo = <<>>
  /\ IF Steps(job.step, db).verified
     THEN /\ db' = [db EXCEPT !.versions = @ \cup {job.step + 1}]
          /\ job' = IF job.step = Latest /\ job.adopt = NoLife THEN Idle
                    ELSE [job EXCEPT !.step = @ + 1, !.entered = FALSE]
     ELSE Abandon(db)
  /\ UNCHANGED <<backend, bak, archive, log, minted, engine, deleted, forced, spent>>

\* Mutant: the version is recorded without verify.
VerifyStepUnchecked ==
  /\ job.entered /\ job.todo = <<>>
  /\ db' = [db EXCEPT !.versions = @ \cup {job.step}]
  /\ job' = IF job.step = Latest /\ job.adopt = NoLife THEN Idle
            ELSE [job EXCEPT !.step = @ + 1, !.entered = FALSE]
  /\ UNCHANGED <<backend, bak, archive, log, minted, engine, deleted, forced, spent>>

\* step.verify, then _record_version; a raise abandons the run.
VerifyStep ==
  /\ job.entered /\ job.todo = <<>>
  /\ IF Steps(job.step, db).verified
     THEN /\ db' = [db EXCEPT !.versions = @ \cup {job.step}]
          /\ job' = IF job.step = Latest /\ job.adopt = NoLife THEN Idle
                    ELSE [job EXCEPT !.step = @ + 1, !.entered = FALSE]
     ELSE Abandon(db)
  /\ UNCHANGED <<backend, bak, archive, log, minted, engine, deleted, forced, spent>>

\* The process is killed: no except branch runs, on either dialect.
Crash ==
  /\ job # Idle /\ spent.crashes < MaxCrashes
  /\ job' = Idle
  /\ db' \in IF Pending THEN Debris(Head(job.todo), db) ELSE {db}
  /\ spent' = [spent EXCEPT !.crashes = @ + 1]
  /\ UNCHANGED <<backend, bak, archive, log, minted, engine, deleted, forced>>

\* PostgreSQL: the previous release inserts rows while the migration runs.  It
\* names none of the new columns, so a nullable one is NULL; global_id has no
\* server default and refuses the row once it is NOT NULL.
OldWrite ==
  /\ OnPg /\ job # Idle /\ HasData(db) /\ spent.writes < MaxWrites
  /\ db.col["globalId"] # "notnull"
  /\ db' = [db EXCEPT !.unfilled = @ \cup {c \in Columns \ {"snapGeneration"} : db.col[c] = "nullable"}]
  /\ spent' = [spent EXCEPT !.writes = @ + 1]
  /\ UNCHANGED <<backend, job, bak, archive, log, minted, engine, deleted, forced>>

\* downgrade_database: whatever the last upgrade copied.
Downgrade ==
  /\ ~OnPg /\ job = Idle /\ ~engine /\ bak # NoFile /\ spent.restores < MaxRestores
  /\ db' = bak
  /\ spent' = [spent EXCEPT !.restores = @ + 1]
  /\ UNCHANGED <<backend, job, bak, archive, log, minted, engine, deleted, forced>>

(*********************** adoption, engines, deletions **********************)

\* deletion_adopt: below the latest version it migrates first.
StartAdopt(l) ==
  /\ log[l] # NoGenesis
  /\ IF Version(db) < Latest THEN StartUpgrade(l, FALSE)
     ELSE /\ job = Idle /\ ~engine
          /\ job' = [Idle EXCEPT !.step = Latest + 1, !.adopt = l]
          /\ UNCHANGED <<backend, db, bak, archive, log, minted, engine, deleted, forced, spent>>

\* adopt_watermark: refuses when there is a row.
WriteAdoptedRow ==
  /\ job.step = Latest + 1
  /\ job' = Idle
  /\ db' = IF db.wm # NoRow THEN db
           ELSE [db EXCEPT !.wmTable = TRUE, !.wm = [life |-> job.adopt, applied |-> 0]]
  /\ UNCHANGED <<backend, bak, archive, log, minted, engine, deleted, forced, spent>>

\* The beliefs that the entries of a log above a position delete.
Above(l, n) == {l[i] : i \in (n + 1) .. Len(l)}

\* Mutant: the genesis entry is not written.
EntriesNoGenesis(l) == log[l]

\* ensure_genesis, then read_from.
EntriesOf(l) == IF log[l] = NoGenesis THEN <<>> ELSE log[l]

\* ensure_watermark: the row that is there, or a new life for a database
\* without data; a database with data and no row is refused.
Claimed(d) ==
  IF d.wm # NoRow \/ HasData(d) THEN d ELSE [d EXCEPT !.wm = [life |-> minted + 1, applied |-> 0]]

\* The app role runs no DDL: it refuses to serve an unprotected schema.
PrepareRuntimeEngine == OnPg => Posture(Tables, db)

\* _initialize_db: PostgreSQL checks tables and posture and runs no DDL, SQLite
\* creates what is missing; then the watermark, the genesis entry and the
\* replay, which reads every column of the model.
StartEngine ==
  /\ job = Idle /\ ~engine
  /\ PrepareRuntimeEngine
  /\ db.wm = NoRow /\ ~HasData(db) => minted < MaxLives
  /\ LET d == Claimed([(IF OnPg THEN db ELSE CreateAll(db)) EXCEPT !.wmTable = TRUE])
         l == d.wm.life
         entries == EntriesOf(l)
         behind == d.wm.applied < Len(entries)
     IN IF d.wm = NoRow \/ (behind /\ ~ColumnsThere(Columns, d))
        THEN /\ db' = d
             /\ UNCHANGED <<log, minted, engine>>
        ELSE /\ minted' = IF db.wm = NoRow THEN minted + 1 ELSE minted
             /\ log' = [log EXCEPT ![l] = entries]
             /\ db' = [d EXCEPT !.beliefs = @ \ Above(entries, d.wm.applied),
                                !.wm.applied = Len(entries)]
             /\ engine' = TRUE
  /\ UNCHANGED <<backend, job, bak, archive, deleted, forced, spent>>

StopEngine ==
  /\ engine
  /\ engine' = FALSE
  /\ UNCHANGED <<backend, db, job, bak, archive, log, minted, deleted, forced, spent>>

\* A deletion through a serving engine: the row goes, the log gains an entry and
\* the watermark follows (DeletionReplay has the steps of it).
Delete(b) ==
  /\ engine /\ b \in db.beliefs /\ ColumnsThere(Columns, db)
  /\ LET l == db.wm.life IN
       /\ log' = [log EXCEPT ![l] = Append(@, b)]
       /\ db' = [db EXCEPT !.beliefs = @ \ {b}, !.wm.applied = Len(log[l]) + 1]
  /\ deleted' = deleted \cup {b}
  /\ UNCHANGED <<backend, job, bak, archive, minted, engine, forced, spent>>

\* The operator puts the backup from before the deployment back.
Restore ==
  /\ job = Idle /\ ~engine /\ spent.restores < MaxRestores
  /\ db' = archive
  /\ spent' = [spent EXCEPT !.restores = @ + 1]
  /\ UNCHANGED <<backend, job, bak, archive, log, minted, engine, deleted, forced>>

(******************************* the spec **********************************)

MigrationInit ==
  /\ backend \in Dialects
  /\ db \in {Shape(v, backend, bs) : v \in Releases, bs \in SUBSET Belief} \cup {Empty(backend)}
  /\ job = Idle /\ bak = NoFile /\ archive = db
  /\ minted = IF db.wm = NoRow THEN 0 ELSE 1
  /\ log = [l \in Life |-> IF l <= minted THEN <<>> ELSE NoGenesis]
  /\ engine = FALSE /\ deleted = {} /\ forced = FALSE
  /\ spent = [crashes |-> 0, errors |-> 0, writes |-> 0, restores |-> 0]

MigrationNext ==
  \/ \E fresh \in BOOLEAN : StartUpgrade(NoLife, fresh)
  \/ EnterStep \/ RunStage \/ MintRow \/ StageFails \/ VerifyStep \/ Crash
  \/ OldWrite \/ Downgrade
  \/ \E l \in Life : StartAdopt(l)
  \/ WriteAdoptedRow
  \/ StartEngine \/ StopEngine
  \/ \E b \in Belief : Delete(b)
  \/ Restore

MigrationSpec == MigrationInit /\ [][MigrationNext]_migrationVars

\* A started migration goes on.  The operator is not held to any order, but one
\* whose database is below the latest version stops the engine and, sooner or
\* later, runs the migration again (a retry is what the contract expects).
Retry == Version(db) < Latest /\ StartUpgrade(NoLife, FALSE)
MakeRoom == Version(db) < Latest /\ StopEngine

Fairness ==
  /\ WF_migrationVars(EnterStep \/ RunStage \/ MintRow \/ VerifyStep \/ WriteAdoptedRow)
  /\ WF_migrationVars(MakeRoom) /\ SF_migrationVars(Retry)

LiveSpec == MigrationSpec /\ Fairness

(***************************** properties **********************************)

Database ==
  [tables : SUBSET Tables, protected : SUBSET Tables, roles : BOOLEAN,
   untenanted : SUBSET {"base", "beliefs"}, composite : BOOLEAN,
   col : [Columns -> {"absent", "nullable", "notnull"}], unfilled : SUBSET Columns,
   idx : [Indexes -> {"absent", "invalid", "valid"}], legacy : SUBSET Legacy,
   temp : SUBSET {"base", "beliefs"}, versions : SUBSET Step, wmTable : BOOLEAN,
   wm : [life : Life \cup {NoLife}, applied : Nat], beliefs : SUBSET Belief]

\* Every variable holds a value of its kind: a database is made of known tables,
\* columns and indexes, a log of deletions of known beliefs.
MigrationTypeOK ==
  /\ backend \in Dialects /\ db \in Database /\ archive \in Database
  /\ bak = NoFile \/ bak \in Database
  /\ job.step \in 0 .. (Latest + 1) /\ job.adopt \in Life \cup {NoLife}
  /\ minted \in 0 .. MaxLives /\ engine \in BOOLEAN /\ forced \in BOOLEAN
  /\ \A l \in Life : log[l] = NoGenesis \/ \A i \in DOMAIN log[l] : log[l][i] \in Belief
  /\ deleted \subseteq Belief

\* A recorded version is a promise about the catalog: whatever was killed, failed,
\* restored, adopted or created by an engine since, what the verify of each
\* recorded step asks of the catalog holds (of the rows it need not, see
\* RecordedIsComplete; step 3 for the tables of its time).
CatalogBacksVersion ==
  \A n \in db.versions :
    IF n = 3 THEN Posture({"base", "beliefs"}, db) ELSE Steps(n, [db EXCEPT !.unfilled = {}]).verified

\* A serving engine's database belongs to a life that the deletion log knows, and
\* has applied all of it: only so is a later restore recognised.
ServingIsBound ==
  engine => /\ db.wm # NoRow /\ log[db.wm.life] # NoGenesis
            /\ db.wm.applied = Len(log[db.wm.life])

\* What was deleted is not in the database an engine serves, through upgrades,
\* downgrades, restores of backups older than the watermark and adoptions, unless
\* the operator asked for a new lineage (WatermarkMissing, _mint_or_refuse).
DeletedStaysDeleted == engine /\ ~forced => db.beliefs \cap deleted = {}

\* On SQLite a database with tenant columns reaches the latest version however
\* often the migration is killed or fails, or waits for an adoption.
SqliteUpgradeArrives ==
  (~OnPg /\ db.tables # {} /\ db.untenanted = {}) =>
    []<>(Version(db) = Latest \/ (MustAdopt /\ db.wm = NoRow))

\* "re-running after a partial failure either continues [...] or is a no-op": a
\* version that is recorded has its columns filled (schema_migration.py:26-29).
RecordedIsComplete ==
  \A c \in db.unfilled : ColumnSince(c) \notin db.versions
=============================================================================
