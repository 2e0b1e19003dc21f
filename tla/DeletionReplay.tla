--------------------------- MODULE DeletionReplay ---------------------------
(***************************************************************************)
(* The deletion log of mirror_memory and its replay after a restore.        *)
(*                                                                         *)
(* A deletion removes rows of the main database and is recorded, before    *)
(* its commit, in a log kept outside that database (core/deletion.py).     *)
(* The main database carries a watermark, the seq of the last entry it has  *)
(* applied, which rolls back with every backup.  A process that starts     *)
(* (an engine) or ticks (a worker) compares the watermark with the log's    *)
(* tail and re-applies what a restored backup has missed (core/replay.py).  *)
(*                                                                         *)
(* One database life, one log, one tenant.  A row stands for a deletable item with all  *)
(* its dependants (a belief with its events, links and ledger; a session    *)
(* summary); its name is its fingerprint, the hash of table, id and        *)
(* creation instant, so a row is born once and is never born again.        *)
(***************************************************************************)
EXTENDS Integers, Sequences, FiniteSets

CONSTANTS
  Row,               \* fingerprints
  User,
  Owner,             \* the user a row belongs to
  Summary,           \* the rows that are session summaries
  Engine,            \* processes that serve requests
  Worker,            \* processes that only reconcile and work on jobs
  NoNode,            \* the replay lock when nobody holds it
  Exclusive,         \* TRUE: SQLite, one write transaction at a time, and the
                     \* file log; FALSE: PostgreSQL, row locks, and its log
  PruneDuringReplay, \* may the compaction pass run while a process replays
  LogMayRollBack,    \* may the operator bring back an older copy of the log
  MaxLog,            \* bound: entries in the log
  MaxBackups,        \* bound: backups kept
  MaxFaults          \* bound: crashes, replay errors, restores, log losses

Node == Engine \cup Worker

ASSUME RowAssumption == /\ User # {}
                        /\ Owner \in [Row -> User]
                        /\ Summary \subseteq Row
ASSUME NodeAssumption == /\ NoNode \notin Node
                         /\ Engine \cap Worker = {}
ASSUME ModeAssumption == /\ Exclusive \in BOOLEAN
                         /\ PruneDuringReplay \in BOOLEAN
                         /\ LogMayRollBack \in BOOLEAN
ASSUME BoundAssumption == MaxLog \in Nat /\ MaxBackups \in Nat /\ MaxFaults \in Nat

VARIABLES
  rows,       \* the committed rows of the main database
  gen,        \* per user, the committed rows of mm_deletion_generations
  stray,      \* such rows stored under the empty tenant, that no request reads
  wm,         \* the watermark's applied_seq, in the main database
  log,        \* every entry ever appended, at its seq
  tail,       \* the log now on disk is log[1..tail]
  checkpoint, \* the entries at or below it have been pruned
  backups,    \* the backups of the main database the operator holds
  pc,         \* per process: where its reconciliation stands
  applied,    \* per process: its local variable `applied`, then its cursor
  goal,       \* per process: its local variable `tail_seq`
  lock,       \* the replay lock
  tx,         \* per process: the deletion transaction it runs
  born,       \* history: the rows ever inserted
  done,       \* history: the seqs of the deletions acknowledged to a caller
  misplaced,  \* history: every row ever stored under the empty tenant
  faults      \* how many faults have happened

db == <<rows, gen, stray, wm>>
history == <<born, done, misplaced>>
logVars == <<log, tail, checkpoint>>
nodeVars == <<pc, applied, goal, lock>>
vars == <<rows, gen, stray, wm, log, tail, checkpoint, backups, pc, applied, goal,
          lock, tx, born, done, misplaced, faults>>

Scope == {"user", "belief", "session"}
TxStage == {"idle", "gen", "insert", "log", "wm", "commit"}
Reconciling == {"check", "compare", "locked", "apply"}

Entry == [scope : Scope, user : User, fps : SUBSET Row, gen : Nat]
Tx == [pc : TxStage, scope : Scope, user : User,
       fps : SUBSET Row, del : SUBSET Row, gen : Nat, seq : Nat]
Image == [rows : SUBSET Row, gen : [User -> SUBSET Nat],
          stray : SUBSET (User \X Nat), wm : Nat]

TypeOK ==
  /\ rows \in SUBSET Row
  /\ gen \in [User -> SUBSET Nat]
  /\ stray \in SUBSET (User \X Nat)
  /\ wm \in Nat
  /\ log \in Seq(Entry)
  /\ tail \in 0..Len(log)
  /\ checkpoint \in 0..tail
  /\ backups \in SUBSET Image
  /\ pc \in [Node -> Reconciling \cup {"down", "serving"}]
  /\ applied \in [Node -> Nat]
  /\ goal \in [Node -> Nat]
  /\ lock \in Node \cup {NoNode}
  /\ tx \in [Engine -> Tx]
  /\ born \in SUBSET Row
  /\ done \in SUBSET (1..Len(log))
  /\ misplaced \in SUBSET (User \X Nat)
  /\ faults \in Nat

-----------------------------------------------------------------------------
Larger(a, b) == IF a > b THEN a ELSE b

\* g is the highest generation of user u that requests read; 0 without one.
Latest(u, g) ==
  /\ g \in gen[u] \cup {0}
  /\ \A h \in gen[u] : h <= g

NoTx == [pc |-> "idle", scope |-> "user", user |-> CHOOSE u \in User : TRUE,
         fps |-> {}, del |-> {}, gen |-> 0, seq |-> 0]
Active == {n \in Engine : tx[n].pc # "idle"}
EndTx(n) == tx' = [tx EXCEPT ![n] = NoTx]

\* SQLite admits a writer only while no write transaction is open.
MayWrite == Exclusive => Active = {}

\* Transaction m has inserted the generation row (u, g) and not committed.
HoldsGeneration(m, u, g) ==
  /\ tx[m].pc \in {"log", "wm", "commit"} /\ tx[m].scope # "session"
  /\ tx[m].user = u /\ tx[m].gen = g

\* Transaction m has written u's revision row: FORGET compares and sets it
\* first of all, a user-scope deletion touches it after the generation.
HoldsRevision(m, u) ==
  /\ tx[m].user = u
  /\ \/ tx[m].scope = "belief" /\ tx[m].pc # "idle"
     \/ tx[m].scope = "user" /\ tx[m].pc \in {"wm", "commit"}

Init ==
  /\ rows = {} /\ gen = [u \in User |-> {}] /\ stray = {} /\ wm = 0
  /\ log = <<>> /\ tail = 0 /\ checkpoint = 0
  /\ backups = {}
  /\ pc = [n \in Node |-> "down"]
  /\ applied = [n \in Node |-> 0]
  /\ goal = [n \in Node |-> 0]
  /\ lock = NoNode
  /\ tx = [n \in Engine |-> NoTx]
  /\ born = {} /\ done = {} /\ misplaced = {} /\ faults = 0

-----------------------------------------------------------------------------
(* Requests served by an engine.                                           *)

\* observe: a new row of the main database, committed.
Observe(n, r) ==
  /\ pc[n] = "serving" /\ tx[n].pc = "idle" /\ MayWrite
  /\ r \notin born
  /\ rows' = rows \cup {r}
  /\ born' = born \cup {r}
  /\ UNCHANGED <<gen, stray, wm, logVars, backups, nodeVars, tx, done, misplaced, faults>>

\* The rows a deletion of a scope takes: everything of the user, or one item.
DeletionTargets(scope, u) ==
  LET mine == {r \in rows : Owner[r] = u}
  IN  CASE scope = "user"    -> {mine}
        [] scope = "belief"  -> {{r} : r \in mine \ Summary}
        [] scope = "session" -> {{r} : r \in mine \cap Summary}

\* The transaction opens with the invocation's audit row, which takes SQLite's
\* write lock; the cascade collects the fingerprints and deletes.  A row
\* another open transaction has deleted makes the DELETE wait for it.
BeginDeletion(n, scope, u) ==
  /\ pc[n] = "serving" /\ tx[n].pc = "idle" /\ MayWrite
  /\ Len(log) + Cardinality(Active) < MaxLog
  /\ scope = "belief" => \A m \in Active : ~HoldsRevision(m, u)
  /\ \E fps \in DeletionTargets(scope, u) :
       /\ \A m \in Active : tx[m].del \cap fps = {}
       /\ tx' = [tx EXCEPT ![n] =
            [pc |-> IF scope = "session" THEN "log" ELSE "gen", scope |-> scope,
             user |-> u, fps |-> fps, del |-> fps, gen |-> 0, seq |-> 0]]
  /\ UNCHANGED <<db, logVars, backups, nodeVars, history, faults>>

\* bump_deletion_generation: the highest committed generation, plus one ...
ReadGeneration(n) ==
  /\ tx[n].pc = "gen"
  /\ \E g \in gen[tx[n].user] \cup {0} :
       /\ Latest(tx[n].user, g)
       /\ tx' = [tx EXCEPT ![n].pc = "insert", ![n].gen = g + 1]
  /\ UNCHANGED <<db, logVars, backups, nodeVars, history, faults>>

\* Mutant: the generation has no primary key.
InsertGenerationNoKey(n) ==
  /\ tx[n].pc = "insert"
  /\ tx' = [tx EXCEPT ![n].pc = "log"]
  /\ UNCHANGED <<db, logVars, backups, nodeVars, history, faults>>

\* ... inserted under the primary key; the insert waits for an open
\* transaction that has inserted the same key.
InsertGeneration(n) ==
  /\ tx[n].pc = "insert"
  /\ tx[n].gen \notin gen[tx[n].user]
  /\ \A m \in Active \ {n} : ~HoldsGeneration(m, tx[n].user, tx[n].gen)
  /\ tx' = [tx EXCEPT ![n].pc = "log"]
  /\ UNCHANGED <<db, logVars, backups, nodeVars, history, faults>>

\* The key is taken: session.rollback() and another round.  The rollback takes
\* the cascade back as well; the fingerprints are a Python list and stay.
\* Inside the Publisher's savepoint (FORGET) it ends in a refusal.
GenerationConflict(n) ==
  /\ tx[n].pc = "insert"
  /\ tx[n].gen \in gen[tx[n].user]
  /\ IF tx[n].scope = "belief"
       THEN EndTx(n)
       ELSE tx' = [tx EXCEPT ![n].pc = "gen", ![n].del = {}, ![n].gen = 0]
  /\ UNCHANGED <<db, logVars, backups, nodeVars, history, faults>>

\* _append_deletion_log, first half: the entry is on disk before the commit.
\* The revision row is touched first and waits for its holder; a session
\* deletion reads the user's current generation for its entry.
AppendLog(n) ==
  /\ tx[n].pc = "log"
  /\ tx[n].scope = "user" =>
       \A m \in Active \ {n} : ~HoldsRevision(m, tx[n].user)
  /\ \E g \in gen[tx[n].user] \cup {0, tx[n].gen} :
       /\ IF tx[n].scope = "session" THEN Latest(tx[n].user, g) ELSE g = tx[n].gen
       /\ log' = Append(SubSeq(log, 1, tail),
                        [scope |-> tx[n].scope, user |-> tx[n].user,
                         fps |-> tx[n].fps, gen |-> g])
       /\ tail' = tail + 1
       /\ tx' = [tx EXCEPT ![n].pc = "wm", ![n].gen = g, ![n].seq = tail + 1]
  /\ UNCHANGED <<db, checkpoint, backups, nodeVars, history, faults>>

\* Mutant: the watermark is written on a connection of its own.
AdvanceWatermarkAlone(n) ==
  /\ tx[n].pc = "wm"
  /\ \A m \in Active : tx[m].pc # "commit"
  /\ wm' = tx[n].seq
  /\ tx' = [tx EXCEPT ![n].pc = "commit"]
  /\ UNCHANGED <<rows, gen, stray, logVars, backups, nodeVars, history, faults>>

\* Second half: the watermark, a single row whose update waits for any open
\* transaction that has updated it.
AdvanceWatermark(n) ==
  /\ tx[n].pc = "wm"
  /\ \A m \in Active : tx[m].pc # "commit"
  /\ tx' = [tx EXCEPT ![n].pc = "commit"]
  /\ UNCHANGED <<db, logVars, backups, nodeVars, history, faults>>

\* Transaction n waits for a row that transaction m holds.
WaitsFor(n, m) ==
  /\ n # m
  /\ \/ tx[n].pc = "insert" /\ HoldsGeneration(m, tx[n].user, tx[n].gen)
     \/ /\ tx[n].pc = "log" /\ tx[n].scope = "user"
        /\ HoldsRevision(m, tx[n].user)

\* FORGET takes the revision, then the generation; a user-scope deletion takes
\* them the other way round.  PostgreSQL ends one of the two.
DeadlockVictim(n) ==
  /\ \E m \in Active : WaitsFor(n, m) /\ WaitsFor(m, n)
  /\ EndTx(n)
  /\ UNCHANGED <<db, logVars, backups, nodeVars, history, faults>>

\* session.commit(), and the caller is told that the deletion is done.
CommitDeletion(n) ==
  /\ tx[n].pc = "commit"
  /\ rows' = rows \ tx[n].del
  /\ gen' = [gen EXCEPT ![tx[n].user] =
                IF tx[n].scope = "session" THEN @ ELSE @ \cup {tx[n].gen}]
  /\ wm' = tx[n].seq
  /\ done' = done \cup {tx[n].seq}
  /\ EndTx(n)
  /\ UNCHANGED <<stray, logVars, backups, nodeVars, born, misplaced, faults>>

\* The request fails (a lock timeout, a full disk, a lost connection); the
\* main transaction is rolled back, an entry already appended stays.
AbortDeletion(n) ==
  /\ tx[n].pc # "idle"
  /\ faults < MaxFaults
  /\ EndTx(n)
  /\ faults' = faults + 1
  /\ UNCHANGED <<db, logVars, backups, nodeVars, history>>

-----------------------------------------------------------------------------
(* reconcile: an engine's startup check, a worker's check at every tick.   *)

Goto(n, where) == pc' = [pc EXCEPT ![n] = where]

\* reconcile returns or raises, and its local variables are gone.
Leave(n, where) ==
  /\ Goto(n, where)
  /\ applied' = [applied EXCEPT ![n] = 0]
  /\ goal' = [goal EXCEPT ![n] = 0]

\* An engine is started, or a worker's tick begins.
StartCheck(n) ==
  /\ pc[n] = "down" \/ (n \in Worker /\ pc[n] = "serving")
  /\ Goto(n, "check")
  /\ UNCHANGED <<db, logVars, backups, applied, goal, lock, tx, history, faults>>

\* ensure_watermark: the local `applied`.
ReadWatermark(n) ==
  /\ pc[n] = "check"
  /\ Goto(n, "compare")
  /\ applied' = [applied EXCEPT ![n] = wm]
  /\ UNCHANGED <<db, logVars, backups, goal, lock, tx, history, faults>>

\* The chain's head is read (`tail_seq`), then its checkpoint: a watermark
\* below the checkpoint (DeletionLogPruned) or beyond the tail
\* (DeletionLogStale) is refused.
Refuse(n) ==
  /\ pc[n] = "compare"
  /\ applied[n] < checkpoint \/ applied[n] > tail
  /\ Leave(n, "down")
  /\ UNCHANGED <<db, logVars, backups, lock, tx, history, faults>>

\* Mutant: a stale log passes for an up-to-date one.
InSyncOrStale(n) ==
  /\ pc[n] = "compare"
  /\ applied[n] >= tail
  /\ Leave(n, "serving")
  /\ UNCHANGED <<db, logVars, backups, lock, tx, history, faults>>

InSync(n) ==
  /\ pc[n] = "compare"
  /\ applied[n] = tail
  /\ Leave(n, "serving")
  /\ UNCHANGED <<db, logVars, backups, lock, tx, history, faults>>

\* Mutant: the checkpoint is not looked at.
BehindAnyCheckpoint(n) ==
  /\ pc[n] = "compare"
  /\ applied[n] < tail

Behind(n) ==
  /\ pc[n] = "compare"
  /\ applied[n] >= checkpoint /\ applied[n] < tail

LockFree == lock = NoNode

\* The lock is not waited for: ReplayPending.
LockBusy(n) ==
  /\ Behind(n) /\ ~LockFree
  /\ Leave(n, "down")
  /\ UNCHANGED <<db, logVars, backups, lock, tx, history, faults>>

TakeLock(n) ==
  /\ Behind(n) /\ LockFree
  /\ lock' = n
  /\ goal' = [goal EXCEPT ![n] = tail]
  /\ Goto(n, "locked")
  /\ UNCHANGED <<db, logVars, backups, applied, tx, history, faults>>

\* Under the lock the watermark is read again: the winner may have finished.
\* PostgreSQL's read_from then lists the entries once and for all.
ReadAgain(n) ==
  /\ pc[n] = "locked"
  /\ \/ /\ wm >= goal[n]
        /\ Leave(n, "serving")
        /\ lock' = NoNode
     \/ /\ wm < goal[n]
        /\ Goto(n, "apply")
        /\ applied' = [applied EXCEPT ![n] = wm]
        /\ goal' = [goal EXCEPT ![n] = IF Exclusive THEN @ ELSE tail]
        /\ UNCHANGED lock
  /\ UNCHANGED <<db, logVars, backups, tx, history, faults>>

\* The next entry read_from yields: pruned entries are not there any more.
NextSeq(n) == Larger(applied[n], checkpoint) + 1

\* The entry a replay applies next, and whether there is one: the file log is read
\* while it is replayed, so entries appended meanwhile may be met.
NextEntry(n) == log[NextSeq(n)]
HasEntry(n) == pc[n] = "apply" /\ NextSeq(n) <= IF Exclusive THEN tail ELSE goal[n]

\* apply_entry waits for the row locks of open transactions.  A key that an open
\* transaction has inserted is waited for by an engine, which inserts the same one.
MayApply(n, e) ==
  /\ MayWrite
  /\ \A m \in Active : /\ tx[m].del \cap e.fps = {}
                       /\ tx[m].pc # "commit"
                       /\ n \in Engine => ~HoldsGeneration(m, e.user, e.gen)

\* The row of an entry's generation is looked up under the entry's tenant.
Aligned(e) == e.gen \in gen[e.user]

\* Mutant: an engine leaves the generation as the backup had it.
GenerationsAfterForgotten(n, e) == gen

\* "The log is the authority": a missing row is added.  An engine's session runs in
\* its tenant's scope, which fills in the tenant columns ...
GenerationsAfter(n, e) ==
  IF n \in Engine THEN [gen EXCEPT ![e.user] = @ \cup {e.gen}] ELSE gen

\* ... a worker's in a system scope, where the flush hook returns at once and the
\* columns take their default: the row goes under the empty tenant.
Strayed(n, e) ==
  IF n \in Worker /\ ~Aligned(e) THEN {<<e.user, e.gen>>} ELSE {}

\* There the key may be taken, by the row of another entry with the same generation
\* (a session deletion's, or that of a deletion that failed after its entry).
KeyTaken(n, e) == Strayed(n, e) \cap stray # {}

\* One entry, one transaction: the matching rows go, the generation's row is added
\* and the watermark advances.
ApplyEntry(n) ==
  /\ HasEntry(n)
  /\ LET e == NextEntry(n)
     IN  /\ MayApply(n, e) /\ ~KeyTaken(n, e)
         /\ rows' = rows \ {r \in e.fps : Owner[r] = e.user}
         /\ gen' = GenerationsAfter(n, e)
         /\ stray' = stray \cup Strayed(n, e)
         /\ misplaced' = misplaced \cup Strayed(n, e)
         /\ wm' = NextSeq(n)
         /\ applied' = [applied EXCEPT ![n] = NextSeq(n)]
  /\ UNCHANGED <<logVars, backups, pc, goal, lock, tx, born, done, faults>>

\* The insert fails on the key, the entry's transaction is rolled back and
\* reconcile raises: the worker skips this tick, and the next one fails alike.
ReplayConflict(n) ==
  /\ HasEntry(n)
  /\ MayApply(n, NextEntry(n)) /\ KeyTaken(n, NextEntry(n))
  /\ Leave(n, "down")
  /\ lock' = NoNode
  /\ UNCHANGED <<db, logVars, backups, tx, history, faults>>

\* Mutant: the lock is kept after the replay.
FinishReplayKeepLock(n) ==
  /\ pc[n] = "apply"
  /\ NextSeq(n) > goal[n]
  /\ Leave(n, "serving")
  /\ UNCHANGED <<db, logVars, backups, lock, tx, history, faults>>

FinishReplay(n) ==
  /\ pc[n] = "apply"
  /\ NextSeq(n) > goal[n]
  /\ Leave(n, "serving")
  /\ lock' = NoNode
  /\ UNCHANGED <<db, logVars, backups, tx, history, faults>>

-----------------------------------------------------------------------------
(* Crashes, the operator, the compaction pass.                             *)

\* A process stops at any point; its transaction rolls back, its flock or
\* advisory lock is released by the system.  An exception out of reconcile
\* ends the same way.
Crash(n) ==
  /\ pc[n] # "down"
  /\ faults < MaxFaults
  /\ faults' = faults + 1
  /\ Leave(n, "down")
  /\ lock' = IF lock = n THEN NoNode ELSE lock
  /\ tx' = IF n \in Engine THEN [tx EXCEPT ![n] = NoTx] ELSE tx
  /\ UNCHANGED <<db, logVars, backups, history>>

\* A backup is a snapshot of the committed state, taken at any time.
Backup ==
  /\ Cardinality(backups) < MaxBackups
  /\ backups' = backups \cup {[rows |-> rows, gen |-> gen, stray |-> stray, wm |-> wm]}
  /\ UNCHANGED <<db, logVars, nodeVars, tx, history, faults>>

AllDown == \A n \in Node : pc[n] = "down"

\* The operator restores the main database with every process stopped, and
\* never together with an older log.
Restore(b) ==
  /\ AllDown /\ tail = Len(log)
  /\ faults < MaxFaults
  /\ faults' = faults + 1
  /\ rows' = b.rows /\ gen' = b.gen /\ stray' = b.stray /\ wm' = b.wm
  /\ UNCHANGED <<logVars, backups, nodeVars, tx, history>>

\* prune_deletion_log: everything through seq s, which the retention makes
\* far older than any open transaction, is replaced by a checkpoint.
Prune(s) ==
  /\ s > checkpoint /\ s <= tail
  /\ \A m \in Active : tx[m].seq # 0 => tx[m].seq > s
  /\ PruneDuringReplay \/ \A n \in Node : pc[n] \notin {"locked", "apply"}
  /\ checkpoint' = s
  /\ UNCHANGED <<db, log, tail, backups, nodeVars, tx, history, faults>>

\* The log alone is brought back from an older copy, one that ends before
\* the watermark of the main database; later the operator restores the newer.
LoseLogTail(k) ==
  /\ LogMayRollBack /\ AllDown
  /\ k >= checkpoint /\ k < wm /\ k < tail
  /\ faults < MaxFaults
  /\ faults' = faults + 1
  /\ tail' = k
  /\ UNCHANGED <<db, log, checkpoint, backups, nodeVars, tx, history>>

RecoverLog ==
  /\ AllDown /\ tail < Len(log)
  /\ tail' = Len(log)
  /\ UNCHANGED <<db, log, checkpoint, backups, nodeVars, tx, history, faults>>

-----------------------------------------------------------------------------
Request(n) ==
  \/ \E r \in Row : Observe(n, r)
  \/ \E scope \in Scope, u \in User : BeginDeletion(n, scope, u)

Deletion(n) ==
  \/ ReadGeneration(n)
  \/ InsertGeneration(n)
  \/ GenerationConflict(n)
  \/ AppendLog(n)
  \/ AdvanceWatermark(n)
  \/ DeadlockVictim(n)
  \/ CommitDeletion(n)

Reconcile(n) ==
  \/ ReadWatermark(n)
  \/ Refuse(n)
  \/ InSync(n)
  \/ LockBusy(n)
  \/ TakeLock(n)
  \/ ReadAgain(n)
  \/ ApplyEntry(n)
  \/ ReplayConflict(n)
  \/ FinishReplay(n)

Operator ==
  \/ Backup
  \/ \E b \in backups : Restore(b)
  \/ \E s \in 1..MaxLog : Prune(s)
  \/ \E k \in 0..MaxLog : LoseLogTail(k)
  \/ RecoverLog

Next ==
  \/ \E n \in Engine : Request(n) \/ Deletion(n) \/ AbortDeletion(n)
  \/ \E n \in Node : StartCheck(n) \/ Reconcile(n) \/ Crash(n)
  \/ Operator

Spec == Init /\ [][Next]_vars

-----------------------------------------------------------------------------
(* Properties.                                                             *)

\* "Deleted memory cannot come back" (core/deletion.py): while an engine
\* serves requests, or a worker works on jobs, no row of an acknowledged
\* deletion is in the main database, restored from whichever backup.
NoResurrection ==
  (\E n \in Node : pc[n] = "serving") =>
    \A s \in done : log[s].fps \cap rows = {}

\* "A restore can never roll a generation back" (core/replay.py, models.py): while a
\* process serves, the row of each acknowledged deletion's generation is in the
\* database; it is the user's, or else a worker's replay has put it under no tenant.
GenerationSurvivesRestore ==
  (\E n \in Node : pc[n] = "serving") =>
    \A s \in done :
      \/ log[s].gen \in gen[log[s].user] \cup {0}
      \/ <<log[s].user, log[s].gen>> \in stray

\* The same, as the docstrings say it, of the user's own rows: what a worker's replay
\* does not give.
GenerationIsTheUsers ==
  (\E n \in Node : pc[n] = "serving") =>
    \A s \in done : log[s].gen \in gen[log[s].user] \cup {0}

\* "The entries applied after the backup are replayed onto the restored rows"
\* (core/deletion.py): an acknowledged deletion whose rows a backup still
\* holds lies above that backup's watermark, where replay will find it.
BackupsAreHonest ==
  \A b \in backups : \A s \in done : s <= b.wm => log[s].fps \cap b.rows = {}

\* The log's file is append-only: a seq that has named one deletion never
\* names another, whatever the operator does to the log (append numbers from
\* the tail it finds, so a stale log must never be served).
SeqsAreNeverReused ==
  [][/\ Len(log') >= Len(log)
     /\ \A s \in 1..Len(log) : log'[s] = log[s]]_vars

\* One replayer per database life: the process that replays holds the lock.
OneReplayer ==
  \A n \in Node : pc[n] \in {"locked", "apply"} <=> lock = n

\* "Generations are unique and gapless per successful deletion" (bump_deletion_generation):
\* two acknowledged deletions of a user that advance the generation never carry
\* the same one, across concurrent requests, restores and replays, but for a
\* generation that a worker's replay has put where no request finds it.
GenerationsAreUnique ==
  \A s, t \in done :
    /\ s # t /\ log[s].user = log[t].user
    /\ log[s].scope # "session" /\ log[t].scope # "session"
    /\ log[s].gen = log[t].gen
    => <<log[s].user, log[s].gen>> \in misplaced

\* The same without the exception, which is what the docstring says.
GenerationsNeverShared ==
  \A s, t \in done :
    /\ s # t /\ log[s].user = log[t].user
    /\ log[s].scope # "session" /\ log[t].scope # "session"
    => log[s].gen # log[t].gen

\* "Safe because replay matches fingerprints that will never be found"
\* (core/deletion.py, core/api.py, on a log entry whose main transaction was
\* not committed): replay removes no row of a deletion nobody acknowledged.
ReplayRemovesOnlyAcknowledged ==
  [][\A n \in Node : ApplyEntry(n) =>
       \A r \in rows \ rows' : \E s \in done : r \in log[s].fps]_vars

\* "Delete all memory data for a user" (api.delete_memories): the commit that
\* acknowledges a deletion leaves none of its rows behind.
CommitRemovesItsRows ==
  [][\A n \in Engine : CommitDeletion(n) => tx[n].fps \cap rows' = {}]_vars

-----------------------------------------------------------------------------
(* Liveness, under the fairness of one worker whose loop keeps ticking and  *)
(* of transactions that are driven to their commit.  Faults are bounded,    *)
(* so they cease.  Writers come and go under ApplyEntry, which the database *)
(* lets in between two of them: strong fairness.                           *)

Ticking(w) ==
  /\ WF_vars(StartCheck(w))
  /\ WF_vars(ReadWatermark(w) \/ Refuse(w) \/ InSync(w) \/ LockBusy(w)
             \/ ReadAgain(w) \/ ReplayConflict(w) \/ FinishReplay(w))
  /\ SF_vars(TakeLock(w))
  /\ SF_vars(ApplyEntry(w))

LiveSpec ==
  /\ Spec
  /\ \A w \in Worker : Ticking(w)
  /\ \A n \in Engine : WF_vars(Deletion(n) \/ Reconcile(n))

\* A restored database does not stay behind its log: the worker's ticks bring it
\* to the tail, unless the entries it misses were pruned (then nothing but a newer
\* backup helps and every check refuses), or the next one's generation is already
\* stored under no tenant (then nothing but an engine's start helps).
CatchesUp ==
  <>[](wm < tail =>
         \/ wm < checkpoint
         \/ \E w \in Worker : KeyTaken(w, log[wm + 1]))

\* "The worker attempts the replay itself" (worker/evolution.py): the same without
\* the second exception, which the worker's own replays bring about.
TicksSuffice == <>[](wm < tail => wm < checkpoint)
=============================================================================
