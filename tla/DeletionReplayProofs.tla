------------------------ MODULE DeletionReplayProofs ------------------------
(***************************************************************************)
(* Theorems about DeletionReplay, for every set of rows, users, engines     *)
(* and workers and for every bound.                                        *)
(*                                                                         *)
(* Base holds on both databases.  Safe, which needs one write transaction   *)
(* at a time and no compaction during a replay, is the inductive form of    *)
(* "deleted memory cannot come back".  The last part maps the steps to      *)
(* those of ForgettingPromise.                                             *)
(***************************************************************************)
EXTENDS DeletionPromise, FiniteSetTheorems, SequenceTheorems, TLAPS

\* A deletion transaction runs only on an engine that serves.
TxServing == \A n \in Engine : tx[n].pc # "idle" => pc[n] = "serving"

\* While the log on disk is an older copy, the watermark is beyond its tail
\* and no process gets past its comparison.
LogWhole ==
  tail < Len(log) =>
    /\ wm > tail
    /\ \A n \in Node :
         pc[n] \in {"down", "check"} \/ (pc[n] = "compare" /\ applied[n] > tail)

\* A replay's goal lies in the log.
GoalInLog == \A n \in Node : pc[n] \in {"locked", "apply"} => goal[n] <= tail

\* A transaction past its log entry names an entry.
SeqInLog ==
  \A n \in Engine : tx[n].pc \in {"wm", "commit"} => tx[n].seq \in 1..Len(log)

Base == TypeOK /\ SeqInLog /\ TxServing /\ LogWhole /\ GoalInLog

-----------------------------------------------------------------------------
\* Deletion s has been applied to a main database holding the rows R, the users'
\* generations G and those under no tenant Z.
AppliedTo(R, G, Z, s) ==
  /\ log[s].fps \cap R = {}
  /\ \/ log[s].gen \in G[log[s].user] \cup {0}
     \/ <<log[s].user, log[s].gen>> \in Z

\* The current database and every backup: what lies at or below the watermark
\* has been applied.
WatermarkTrue == \A s \in done : s <= wm => AppliedTo(rows, gen, stray, s)
BackupsTrue ==
  \A b \in backups : \A s \in done : s <= b.wm => AppliedTo(b.rows, b.gen, b.stray, s)

\* Whoever serves, serves a database every acknowledged deletion was applied to.
ServingTrue ==
  \A n \in Node : pc[n] = "serving" => \A s \in done : AppliedTo(rows, gen, stray, s)

\* A comparison made with an old watermark errs on the safe side.
CompareTrue ==
  \A n \in Node : pc[n] = "compare" =>
    \A s \in done : s <= applied[n] => AppliedTo(rows, gen, stray, s)

\* A replay skips what has been applied: the entries at or below its cursor,
\* those that were pruned, and those acknowledged since it read the tail.
ReplayTrue ==
  \A n \in Node : pc[n] \in {"locked", "apply"} =>
    \A s \in done :
      (pc[n] = "apply" /\ s <= applied[n]) \/ s <= checkpoint \/ s > goal[n]
        => AppliedTo(rows, gen, stray, s)

\* An open transaction deletes what it has recorded, and its entry lies above
\* the watermark of the database and of every backup.
TxSound(t) ==
  /\ t.del = t.fps
  /\ \A r \in t.fps : r \in born /\ Owner[r] = t.user
  /\ t.pc = "insert" => t.gen \notin gen[t.user]
  /\ t.pc \in {"wm", "commit"} =>
       /\ log[t.seq].user = t.user
       /\ log[t.seq].fps = t.fps
       /\ log[t.seq].gen = t.gen
       /\ t.scope = "session" => t.gen \in gen[t.user] \cup {0}
       /\ t.seq > wm
       /\ \A b \in backups : t.seq > b.wm

\* There is one open transaction at most, and it is sound.
TxTrue ==
  \A n \in Engine : tx[n].pc # "idle" =>
    /\ \A m \in Engine : tx[m].pc # "idle" => m = n
    /\ TxSound(tx[n])

\* Fingerprints name rows of the entry's user that were born; watermarks
\* name entries.
RowsTrue ==
  /\ rows \subseteq born
  /\ \A b \in backups : b.rows \subseteq born /\ b.wm <= Len(log)
  /\ wm <= Len(log)
  /\ \A s \in 1..Len(log) : \A r \in log[s].fps : r \in born /\ Owner[r] = log[s].user

Safe == /\ WatermarkTrue /\ BackupsTrue /\ ServingTrue /\ CompareTrue
        /\ ReplayTrue /\ TxTrue /\ RowsTrue

-----------------------------------------------------------------------------
\* The idle transaction record is one.
LEMMA NoTxType == NoTx \in Tx
<1>1. (CHOOSE u \in User : TRUE) \in User
  BY RowAssumption
<1> QED
  BY <1>1 DEF NoTx, Tx, TxStage, Scope

\* The initial state satisfies Base.
LEMMA InitBase == Init => Base
<1> SUFFICES ASSUME Init PROVE Base
  OBVIOUS
<1>1. TypeOK
  BY NoTxType DEF Init, TypeOK, Reconciling
<1>2. SeqInLog /\ TxServing /\ LogWhole /\ GoalInLog
  BY DEF Init, SeqInLog, TxServing, LogWhole, GoalInLog, NoTx
<1> QED
  BY <1>1, <1>2 DEF Base

\* The actions of Next, one disjunct each.
LEMMA NextCases ==
  ASSUME Next, NEW P,
         \A n \in Engine, r \in Row : Observe(n, r) => P,
         \A n \in Engine, scope \in Scope, u \in User : BeginDeletion(n, scope, u) => P,
         \A n \in Engine : Deletion(n) => P,
         \A n \in Engine : AbortDeletion(n) => P,
         \A n \in Node : StartCheck(n) => P,
         \A n \in Node : Reconcile(n) => P,
         \A n \in Node : Crash(n) => P,
         Operator => P
  PROVE  P
  BY DEF Next, Request

\* A step of transaction n that leaves everything else alone.
LEMMA TxStepBase ==
  ASSUME Base, NEW n \in Engine, pc[n] = "serving",
         UNCHANGED <<db, logVars, backups, nodeVars, history, faults>>,
         NEW t \in Tx, tx' = [tx EXCEPT ![n] = t],
         t.pc \in {"wm", "commit"} => t.seq \in 1..Len(log)
  PROVE  Base'
<1>1. TypeOK'
  BY DEF Base, TypeOK, db, history, logVars, nodeVars
<1>2. TxServing' /\ SeqInLog'
  BY DEF Base, TypeOK, TxServing, SeqInLog, nodeVars, history, logVars
<1>3. LogWhole' /\ GoalInLog'
  BY DEF Base, LogWhole, GoalInLog, db, history, logVars, nodeVars
<1> QED
  BY <1>1, <1>2, <1>3 DEF Base

LEMMA ObserveBase ==
  ASSUME Base, NEW n \in Engine, NEW r \in Row, Observe(n, r)
  PROVE  Base'
  BY DEF Base, TypeOK, SeqInLog, TxServing, LogWhole, GoalInLog, Observe, logVars, history, nodeVars

\* The rows a deletion takes are rows.
LEMMA TargetsAreRows ==
  ASSUME TypeOK, NEW scope \in Scope, NEW u \in User,
         NEW fps \in DeletionTargets(scope, u)
  PROVE  /\ fps \subseteq rows
         /\ \A r \in fps : Owner[r] = u
  BY DEF TypeOK, Scope, DeletionTargets

LEMMA BeginDeletionBase ==
  ASSUME Base, NEW n \in Engine, NEW scope \in Scope, NEW u \in User,
         BeginDeletion(n, scope, u)
  PROVE  Base'
<1>1. PICK fps \in DeletionTargets(scope, u) :
        tx' = [tx EXCEPT ![n] =
            [pc |-> IF scope = "session" THEN "log" ELSE "gen", scope |-> scope,
             user |-> u, fps |-> fps, del |-> fps, gen |-> 0, seq |-> 0]]
  BY DEF BeginDeletion
<1>2. fps \subseteq Row
  BY TargetsAreRows DEF Base, TypeOK
<1>3. [pc |-> IF scope = "session" THEN "log" ELSE "gen", scope |-> scope,
       user |-> u, fps |-> fps, del |-> fps, gen |-> 0, seq |-> 0] \in Tx
  BY <1>2 DEF Tx, TxStage
<1> QED
  BY <1>1, <1>3, TxStepBase DEF BeginDeletion, Base, TypeOK

\* The fields of a transaction record, one by one.
LEMMA TxFields ==
  ASSUME TypeOK, NEW n \in Engine
  PROVE  /\ tx[n] \in Tx
         /\ tx[n].pc \in TxStage /\ tx[n].scope \in Scope /\ tx[n].user \in User
         /\ tx[n].fps \subseteq Row /\ tx[n].del \subseteq Row
         /\ tx[n].gen \in Nat /\ tx[n].seq \in Nat
         /\ gen[tx[n].user] \subseteq Nat
         /\ n \in Node
<1>1. tx[n] \in Tx
  BY DEF TypeOK
<1> QED
  BY <1>1 DEF TypeOK, Tx, Node

\* The steps of a deletion before its log entry.
LEMMA ReadGenerationBase ==
  ASSUME Base, NEW n \in Engine, ReadGeneration(n)
  PROVE  Base'
<1>1. TypeOK /\ TxServing
  BY DEF Base
<1>2. pc[n] = "serving"
  BY <1>1 DEF TxServing, ReadGeneration
<1>3. PICK g \in gen[tx[n].user] \cup {0} :
        tx' = [tx EXCEPT ![n].pc = "insert", ![n].gen = g + 1]
  BY DEF ReadGeneration
<1> DEFINE t == [tx[n] EXCEPT !.pc = "insert", !.gen = g + 1]
<1>4. t \in Tx
  <2>1. g + 1 \in Nat /\ tx[n] \in Tx
    BY <1>1, <1>3, TxFields
  <2> QED
    BY <2>1 DEF Tx, TxStage
<1>5. tx' = [tx EXCEPT ![n] = t]
  BY <1>1, <1>3 DEF TypeOK
<1>6. t.pc = "insert"
  BY <1>1, TxFields DEF Tx
<1>7. UNCHANGED <<db, logVars, backups, nodeVars, history, faults>>
  BY DEF ReadGeneration
<1> HIDE DEF t
<1> QED
  BY <1>2, <1>4, <1>5, <1>6, <1>7, TxStepBase

LEMMA InsertGenerationBase ==
  ASSUME Base, NEW n \in Engine, InsertGeneration(n)
  PROVE  Base'
<1>1. TypeOK /\ TxServing
  BY DEF Base
<1>2. pc[n] = "serving"
  BY <1>1 DEF TxServing, InsertGeneration
<1> DEFINE t == [tx[n] EXCEPT !.pc = "log"]
<1>3. t \in Tx /\ t.pc = "log"
  BY <1>1, TxFields DEF Tx, TxStage
<1>4. tx' = [tx EXCEPT ![n] = t]
  BY <1>1 DEF InsertGeneration, TypeOK
<1>5. UNCHANGED <<db, logVars, backups, nodeVars, history, faults>>
  BY DEF InsertGeneration
<1> HIDE DEF t
<1> QED
  BY <1>2, <1>3, <1>4, <1>5, TxStepBase

\* A transaction that is given up.
LEMMA EndTxBase ==
  ASSUME Base, NEW n \in Engine, tx[n].pc # "idle", EndTx(n),
         UNCHANGED <<db, logVars, backups, nodeVars, history, faults>>
  PROVE  Base'
<1>1. pc[n] = "serving"
  BY DEF Base, TxServing
<1>2. NoTx \in Tx /\ NoTx.pc = "idle"
  BY NoTxType DEF NoTx
<1> QED
  BY <1>1, <1>2, TxStepBase DEF EndTx

LEMMA GenerationConflictBase ==
  ASSUME Base, NEW n \in Engine, GenerationConflict(n)
  PROVE  Base'
<1>1. TypeOK /\ TxServing
  BY DEF Base
<1>2. pc[n] = "serving" /\ tx[n].pc # "idle"
  BY <1>1 DEF TxServing, GenerationConflict
<1>3. UNCHANGED <<db, logVars, backups, nodeVars, history, faults>>
  BY DEF GenerationConflict
<1>4. CASE tx[n].scope = "belief"
  BY <1>2, <1>3, <1>4, EndTxBase DEF GenerationConflict
<1>5. CASE tx[n].scope # "belief"
  <2> DEFINE t == [tx[n] EXCEPT !.pc = "gen", !.del = {}, !.gen = 0]
  <2>1. t \in Tx /\ t.pc = "gen"
    BY <1>1, TxFields DEF Tx, TxStage
  <2>2. tx' = [tx EXCEPT ![n] = t]
    BY <1>1, <1>5 DEF GenerationConflict, TypeOK
  <2> HIDE DEF t
  <2> QED
    BY <1>2, <1>3, <2>1, <2>2, TxStepBase
<1> QED
  BY <1>4, <1>5

\* A process that serves has found the log whole.
LEMMA ServingLogWhole ==
  ASSUME TypeOK, LogWhole, NEW n \in Node, pc[n] \notin {"down", "check", "compare"}
  PROVE  tail = Len(log) /\ SubSeq(log, 1, tail) = log
<1>1. log \in Seq(Entry) /\ tail \in 0..Len(log)
  BY DEF TypeOK
<1>2. tail = Len(log)
  BY <1>1 DEF LogWhole
<1> QED
  BY <1>1, <1>2

\* What AppendLog writes: one entry at the end of the whole log.
LEMMA AppendLogStep ==
  ASSUME Base, NEW n \in Engine, AppendLog(n)
  PROVE  \E g \in Nat, e \in Entry :
           /\ IF tx[n].scope = "session" THEN g \in gen[tx[n].user] \cup {0}
                                        ELSE g = tx[n].gen
           /\ e = [scope |-> tx[n].scope, user |-> tx[n].user, fps |-> tx[n].fps, gen |-> g]
           /\ log' = Append(log, e)
           /\ tail = Len(log) /\ tail' = Len(log')
           /\ Len(log') = Len(log) + 1
           /\ log' \in Seq(Entry)
           /\ tx' = [tx EXCEPT ![n] = [tx[n] EXCEPT !.pc = "wm", !.gen = g, !.seq = tail + 1]]
           /\ pc[n] = "serving"
<1>1. TypeOK /\ TxServing /\ LogWhole
  BY DEF Base
<1>2. pc[n] = "serving" /\ n \in Node
  BY <1>1 DEF TxServing, AppendLog, Node
<1>3. tail = Len(log) /\ SubSeq(log, 1, tail) = log
  BY <1>1, <1>2, ServingLogWhole
<1>4. PICK g \in gen[tx[n].user] \cup {0, tx[n].gen} :
        /\ IF tx[n].scope = "session" THEN Latest(tx[n].user, g) ELSE g = tx[n].gen
        /\ log' = Append(SubSeq(log, 1, tail),
                         [scope |-> tx[n].scope, user |-> tx[n].user,
                          fps |-> tx[n].fps, gen |-> g])
        /\ tail' = tail + 1
        /\ tx' = [tx EXCEPT ![n].pc = "wm", ![n].gen = g, ![n].seq = tail + 1]
  BY DEF AppendLog
<1> DEFINE e == [scope |-> tx[n].scope, user |-> tx[n].user, fps |-> tx[n].fps, gen |-> g]
<1>5. g \in Nat
  BY <1>1, TxFields
<1>6. e \in Entry
  BY <1>1, <1>5, TxFields DEF Entry
<1>7. log' = Append(log, e) /\ tail' = tail + 1
  BY <1>3, <1>4
<1>8. tx' = [tx EXCEPT ![n] = [tx[n] EXCEPT !.pc = "wm", !.gen = g, !.seq = tail + 1]]
  BY <1>1, <1>4 DEF TypeOK
<1>9. IF tx[n].scope = "session" THEN g \in gen[tx[n].user] \cup {0} ELSE g = tx[n].gen
  BY <1>4 DEF Latest
<1>10. e = [scope |-> tx[n].scope, user |-> tx[n].user, fps |-> tx[n].fps, gen |-> g]
  OBVIOUS
<1> HIDE DEF e
<1>11. Len(log') = Len(log) + 1 /\ log' \in Seq(Entry)
  BY <1>1, <1>6, <1>7 DEF TypeOK
<1> QED
  BY <1>2, <1>3, <1>5, <1>6, <1>7, <1>8, <1>9, <1>10, <1>11

LEMMA AppendLogBase ==
  ASSUME Base, NEW n \in Engine, AppendLog(n)
  PROVE  Base'
<1>1. /\ TypeOK /\ TxServing /\ SeqInLog
      /\ LogWhole /\ GoalInLog
  BY DEF Base
<1>2. PICK g \in Nat, e \in Entry :
           /\ tail = Len(log) /\ tail' = Len(log')
           /\ Len(log') = Len(log) + 1
           /\ log' \in Seq(Entry)
           /\ tx' = [tx EXCEPT ![n] = [tx[n] EXCEPT !.pc = "wm", !.gen = g, !.seq = tail + 1]]
           /\ pc[n] = "serving"
  BY AppendLogStep
<1> DEFINE t == [tx[n] EXCEPT !.pc = "wm", !.gen = g, !.seq = tail + 1]
<1>3. t \in Tx /\ t.pc = "wm" /\ t.seq = tail + 1
  <2>1. tail + 1 \in Nat /\ tx[n] \in Tx
    BY <1>1, TxFields DEF TypeOK
  <2> QED
    BY <2>1 DEF Tx, TxStage
<1>4. tx' = [tx EXCEPT ![n] = t]
  BY <1>2
<1>5. UNCHANGED <<rows, gen, stray, wm, checkpoint, backups, pc, applied, goal, lock, born, done, misplaced, faults>>
  BY DEF AppendLog, db, history, nodeVars
<1> HIDE DEF t
<1>6. Len(log) \in Nat /\ Len(log') \in Nat
  BY <1>1, <1>2 DEF TypeOK
<1>7. TypeOK'
  BY <1>1, <1>2, <1>3, <1>4, <1>5, <1>6 DEF TypeOK
<1>8. TxServing' /\ SeqInLog'
  BY <1>1, <1>2, <1>3, <1>4, <1>5, <1>6 DEF TypeOK, TxServing, SeqInLog
<1>9. LogWhole' /\ GoalInLog'
  BY <1>1, <1>2, <1>5, <1>6 DEF TypeOK, LogWhole, GoalInLog
<1> QED
  BY <1>7, <1>8, <1>9 DEF Base

LEMMA AdvanceWatermarkBase ==
  ASSUME Base, NEW n \in Engine, AdvanceWatermark(n)
  PROVE  Base'
<1>1. TypeOK /\ TxServing /\ SeqInLog
  BY DEF Base
<1>2. pc[n] = "serving" /\ tx[n].seq \in 1..Len(log)
  BY <1>1 DEF TxServing, SeqInLog, AdvanceWatermark
<1> DEFINE t == [tx[n] EXCEPT !.pc = "commit"]
<1>3. t \in Tx /\ t.pc = "commit" /\ t.seq = tx[n].seq
  BY <1>1, TxFields DEF Tx, TxStage
<1>4. tx' = [tx EXCEPT ![n] = t]
  BY <1>1 DEF AdvanceWatermark, TypeOK
<1>5. UNCHANGED <<db, logVars, backups, nodeVars, history, faults>>
  BY DEF AdvanceWatermark
<1> HIDE DEF t
<1> QED
  BY <1>2, <1>3, <1>4, <1>5, TxStepBase

LEMMA CommitDeletionBase ==
  ASSUME Base, NEW n \in Engine, CommitDeletion(n)
  PROVE  Base'
<1>1. /\ TypeOK /\ TxServing /\ SeqInLog
      /\ LogWhole /\ GoalInLog
  BY DEF Base
<1>2. tx[n].pc = "commit" /\ n \in Node /\ pc[n] = "serving" /\ tx[n].seq \in 1..Len(log)
  BY <1>1 DEF TxServing, SeqInLog, CommitDeletion, Node
<1>3. UNCHANGED <<stray, log, tail, checkpoint, backups, pc, applied, goal, lock, born, misplaced, faults>>
  BY DEF CommitDeletion, logVars, history, nodeVars
<1>4. tx' = [tx EXCEPT ![n] = NoTx] /\ NoTx \in Tx /\ NoTx.pc = "idle"
  BY NoTxType DEF CommitDeletion, EndTx, NoTx
<1>5. /\ rows' \in SUBSET Row /\ wm' \in Nat /\ done' \in SUBSET (1..Len(log))
  <2>1. tx[n].seq \in Nat
    BY <1>1, TxFields
  <2>2. rows' = rows \ tx[n].del /\ wm' = tx[n].seq /\ done' = done \cup {tx[n].seq}
    BY DEF CommitDeletion
  <2> QED
    BY <1>1, <1>2, <2>1, <2>2 DEF TypeOK
<1>6. gen' \in [User -> SUBSET Nat]
  <2>1. tx[n].gen \in Nat /\ gen[tx[n].user] \subseteq Nat
    BY <1>1, TxFields
  <2> QED
    BY <1>1, <2>1 DEF CommitDeletion, TypeOK
<1>7. TypeOK'
  BY <1>1, <1>3, <1>4, <1>5, <1>6 DEF TypeOK
<1>8. TxServing' /\ SeqInLog'
  BY <1>1, <1>3, <1>4 DEF TypeOK, TxServing, SeqInLog
<1>9. LogWhole' /\ GoalInLog'
  <2>1. tail = Len(log)
    BY <1>1, <1>2, ServingLogWhole
  <2> QED
    BY <1>1, <1>3, <2>1 DEF TypeOK, LogWhole, GoalInLog
<1> QED
  BY <1>7, <1>8, <1>9 DEF Base

\* The steps of a deletion.
LEMMA DeletionBase ==
  ASSUME Base, NEW n \in Engine, Deletion(n)
  PROVE  Base'
<1>1. CASE DeadlockVictim(n)
  <2>1. tx[n].pc # "idle"
    BY <1>1 DEF DeadlockVictim, WaitsFor
  <2> QED
    BY <1>1, <2>1, EndTxBase DEF DeadlockVictim
<1> QED
  BY <1>1, ReadGenerationBase, InsertGenerationBase, GenerationConflictBase,
     AppendLogBase, AdvanceWatermarkBase, CommitDeletionBase DEF Deletion

LEMMA AbortDeletionBase ==
  ASSUME Base, NEW n \in Engine, AbortDeletion(n)
  PROVE  Base'
<1>1. /\ TypeOK /\ TxServing /\ SeqInLog
      /\ LogWhole /\ GoalInLog
  BY DEF Base
<1>2. UNCHANGED <<rows, gen, stray, wm, log, tail, checkpoint, backups, pc, applied, goal, lock, born, done, misplaced>>
  BY DEF AbortDeletion, db, history, logVars, nodeVars
<1>3. tx' = [tx EXCEPT ![n] = NoTx] /\ NoTx \in Tx /\ NoTx.pc = "idle" /\ faults' \in Nat
  BY <1>1, NoTxType DEF AbortDeletion, EndTx, NoTx, TypeOK
<1>4. TypeOK'
  BY <1>1, <1>2, <1>3 DEF TypeOK
<1>5. TxServing' /\ SeqInLog'
  BY <1>1, <1>2, <1>3 DEF TypeOK, TxServing, SeqInLog
<1>6. LogWhole' /\ GoalInLog'
  BY <1>1, <1>2 DEF LogWhole, GoalInLog
<1> QED
  BY <1>4, <1>5, <1>6 DEF Base

\* A step of node n's reconciliation that touches its own place and cursor.
LEMMA NodeStepBase ==
  ASSUME Base, NEW n \in Node,
         UNCHANGED <<db, logVars, backups, tx, history, faults>>,
         NEW where \in Reconciling \cup {"down", "serving"},
         NEW a \in Nat, NEW g \in Nat,
         pc' = [pc EXCEPT ![n] = where],
         applied' = [applied EXCEPT ![n] = a],
         goal' = [goal EXCEPT ![n] = g],
         lock' \in Node \cup {NoNode},
         n \in Engine => tx[n].pc = "idle",
         tail < Len(log) => where \in {"down", "check"} \/ (where = "compare" /\ a > tail),
         where \in {"locked", "apply"} => g <= tail
  PROVE  Base'
<1>1. /\ TypeOK /\ TxServing /\ SeqInLog
      /\ LogWhole /\ GoalInLog
  BY DEF Base
<1>2. UNCHANGED <<rows, gen, stray, wm, log, tail, checkpoint, backups, tx, born, done, misplaced, faults>>
  BY DEF db, history, logVars
<1>3. TypeOK'
  BY <1>1, <1>2 DEF TypeOK
<1>4. TxServing' /\ SeqInLog'
  BY <1>1, <1>2 DEF TypeOK, TxServing, SeqInLog, Node
<1>5. LogWhole'
  BY <1>1, <1>2 DEF TypeOK, LogWhole
<1>6. GoalInLog'
  BY <1>1, <1>2 DEF TypeOK, GoalInLog
<1> QED
  BY <1>3, <1>4, <1>5, <1>6 DEF Base

LEMMA StartCheckBase ==
  ASSUME Base, NEW n \in Node, StartCheck(n)
  PROVE  Base'
<1>1. TypeOK /\ TxServing
  BY DEF Base
<1>2. n \in Engine => tx[n].pc = "idle"
  BY <1>1, NodeAssumption DEF StartCheck, TxServing
<1>3. /\ applied' = [applied EXCEPT ![n] = applied[n]]
      /\ goal' = [goal EXCEPT ![n] = goal[n]]
      /\ applied[n] \in Nat /\ goal[n] \in Nat /\ lock' \in Node \cup {NoNode}
  BY <1>1 DEF StartCheck, TypeOK
<1>4. UNCHANGED <<db, logVars, backups, tx, history, faults>>
      /\ pc' = [pc EXCEPT ![n] = "check"]
  BY DEF StartCheck, Goto
<1> QED
  BY <1>2, <1>3, <1>4, NodeStepBase DEF Reconciling

\* While a process reconciles it runs no deletion.
LEMMA ReconcilingIdle ==
  ASSUME Base, NEW n \in Node, pc[n] # "serving"
  PROVE  n \in Engine => tx[n].pc = "idle"
BY DEF Base, TxServing

LEMMA ReadWatermarkBase ==
  ASSUME Base, NEW n \in Node, ReadWatermark(n)
  PROVE  Base'
<1>1. TypeOK /\ LogWhole
  BY DEF Base
<1>2. n \in Engine => tx[n].pc = "idle"
  BY ReconcilingIdle DEF ReadWatermark
<1>3. /\ applied' = [applied EXCEPT ![n] = wm]
      /\ goal' = [goal EXCEPT ![n] = goal[n]]
      /\ wm \in Nat /\ goal[n] \in Nat /\ lock' \in Node \cup {NoNode}
      /\ tail < Len(log) => wm > tail
  BY <1>1 DEF ReadWatermark, TypeOK, LogWhole
<1>4. UNCHANGED <<db, logVars, backups, tx, history, faults>>
      /\ pc' = [pc EXCEPT ![n] = "compare"]
  BY DEF ReadWatermark, Goto
<1> QED
  BY <1>2, <1>3, <1>4, NodeStepBase DEF Reconciling

\* Nor has one that compared an applied seq the log still holds found less.
LEMMA ComparedLogWhole ==
  ASSUME TypeOK, LogWhole, NEW n \in Node, pc[n] = "compare",
         applied[n] = tail \/ applied[n] <= tail
  PROVE  tail = Len(log)
<1>1. applied[n] \in Nat /\ tail \in Nat /\ Len(log) \in Nat /\ tail <= Len(log)
  BY DEF TypeOK
<1>2. ~(applied[n] > tail)
  BY <1>1
<1>3. tail < Len(log) => applied[n] > tail
  BY DEF LogWhole
<1> QED
  BY <1>1, <1>2, <1>3

\* A reconciliation that ends.
LEMMA LeaveBase ==
  ASSUME Base, NEW n \in Node, NEW where \in {"down", "serving"},
         pc[n] # "serving", Leave(n, where), lock' \in Node \cup {NoNode},
         UNCHANGED <<db, logVars, backups, tx, history, faults>>,
         where = "serving" => tail = Len(log)
  PROVE  Base'
<1>1. TypeOK
  BY DEF Base
<1>2. n \in Engine => tx[n].pc = "idle"
  BY ReconcilingIdle
<1>3. /\ pc' = [pc EXCEPT ![n] = where]
      /\ applied' = [applied EXCEPT ![n] = 0]
      /\ goal' = [goal EXCEPT ![n] = 0]
  BY DEF Leave, Goto
<1>4. tail < Len(log) => where = "down"
  BY <1>1 DEF TypeOK
<1> QED
  BY <1>2, <1>3, <1>4, NodeStepBase DEF Reconciling

LEMMA ComparedBase ==
  ASSUME Base, NEW n \in Node, Refuse(n) \/ InSync(n) \/ LockBusy(n)
  PROVE  Base'
<1>1. TypeOK /\ LogWhole
  BY DEF Base
<1>2. /\ pc[n] = "compare" /\ lock' \in Node \cup {NoNode}
      /\ UNCHANGED <<db, logVars, backups, tx, history, faults>>
  BY <1>1 DEF Refuse, InSync, LockBusy, Behind, TypeOK
<1>3. InSync(n) => tail = Len(log)
  BY <1>1, <1>2, ComparedLogWhole DEF InSync
<1>4. Leave(n, "down") \/ (Leave(n, "serving") /\ InSync(n))
  BY DEF Refuse, InSync, LockBusy
<1> QED
  BY <1>2, <1>3, <1>4, LeaveBase

LEMMA TakeLockBase ==
  ASSUME Base, NEW n \in Node, TakeLock(n)
  PROVE  Base'
<1>1. TypeOK /\ LogWhole
  BY DEF Base
<1>2. n \in Engine => tx[n].pc = "idle"
  BY ReconcilingIdle DEF TakeLock, Behind
<1>3. /\ applied' = [applied EXCEPT ![n] = applied[n]]
      /\ goal' = [goal EXCEPT ![n] = tail]
      /\ applied[n] \in Nat /\ tail \in Nat /\ lock' \in Node \cup {NoNode}
  BY <1>1 DEF TakeLock, TypeOK
<1>4. UNCHANGED <<db, logVars, backups, tx, history, faults>>
      /\ pc' = [pc EXCEPT ![n] = "locked"]
  BY DEF TakeLock, Goto
<1>5. tail = Len(log) /\ tail <= tail /\ ~(tail < tail)
  <2>1. pc[n] = "compare" /\ applied[n] <= tail
    BY <1>1, <1>3 DEF TakeLock, Behind
  <2> QED
    BY <1>1, <1>3, <2>1, ComparedLogWhole
<1> QED
  BY <1>2, <1>3, <1>4, <1>5, NodeStepBase DEF Reconciling

LEMMA ReadAgainBase ==
  ASSUME Base, NEW n \in Node, ReadAgain(n)
  PROVE  Base'
<1>1. TypeOK /\ LogWhole /\ GoalInLog
  BY DEF Base
<1>2. /\ pc[n] = "locked" /\ lock \in Node \cup {NoNode}
      /\ UNCHANGED <<db, logVars, backups, tx, history, faults>>
  BY <1>1 DEF ReadAgain, TypeOK
<1>3. tail = Len(log)
  BY <1>1, <1>2, ServingLogWhole
<1>4. CASE Leave(n, "serving") /\ lock' = NoNode
  BY <1>2, <1>3, <1>4, LeaveBase
<1>5. CASE /\ Goto(n, "apply")
           /\ applied' = [applied EXCEPT ![n] = wm]
           /\ goal' = [goal EXCEPT ![n] = IF Exclusive THEN @ ELSE tail]
           /\ UNCHANGED lock
  <2>1. n \in Engine => tx[n].pc = "idle"
    BY <1>2, ReconcilingIdle
  <2> DEFINE g == IF Exclusive THEN goal[n] ELSE tail
  <2>2. g \in Nat /\ g <= tail /\ wm \in Nat /\ ~(tail < Len(log))
    BY <1>1, <1>2, <1>3 DEF TypeOK, GoalInLog
  <2>3. goal' = [goal EXCEPT ![n] = g]
    BY <1>1, <1>5 DEF TypeOK
  <2> HIDE DEF g
  <2> QED
    BY <1>2, <1>5, <2>1, <2>2, <2>3, NodeStepBase DEF Reconciling, Goto
<1> QED
  BY <1>4, <1>5 DEF ReadAgain

\* The entry a replay applies next is in the log.
LEMMA NextEntryInLog ==
  ASSUME Base, NEW n \in Node, HasEntry(n)
  PROVE  /\ pc[n] = "apply" /\ tail = Len(log)
         /\ NextSeq(n) \in 1..Len(log)
         /\ NextEntry(n) \in Entry
         /\ NextEntry(n).user \in User /\ NextEntry(n).gen \in Nat
         /\ NextEntry(n).fps \subseteq Row
<1>1. TypeOK /\ LogWhole /\ GoalInLog
  BY DEF Base
<1>2. pc[n] = "apply" /\ tail = Len(log) /\ goal[n] <= tail
  BY <1>1, ServingLogWhole DEF HasEntry, GoalInLog
<1>3. NextSeq(n) \in 1..Len(log)
  <2>1. applied[n] \in Nat /\ checkpoint \in Nat /\ goal[n] \in Nat /\ Len(log) \in Nat
    BY <1>1, <1>2 DEF TypeOK
  <2>2. NextSeq(n) <= IF Exclusive THEN tail ELSE goal[n]
    BY DEF HasEntry
  <2> QED
    BY <1>2, <2>1, <2>2 DEF NextSeq, Larger
<1>4. NextEntry(n) \in Entry
  BY <1>1, <1>3 DEF TypeOK, NextEntry
<1> QED
  BY <1>2, <1>3, <1>4 DEF Entry

\* What the replay of an entry does to the rows of the generations.
LEMMA ReplayedGenerations ==
  ASSUME TypeOK, NEW n \in Node, NEW e \in Entry
  PROVE  /\ GenerationsAfter(n, e) \in [User -> SUBSET Nat]
         /\ \A u \in User : gen[u] \subseteq GenerationsAfter(n, e)[u]
         /\ \A u \in User : \A g \in GenerationsAfter(n, e)[u] :
              g \in gen[u] \/ (n \in Engine /\ u = e.user /\ g = e.gen)
         /\ Strayed(n, e) \subseteq User \X Nat
         /\ e.gen \in GenerationsAfter(n, e)[e.user] \/ <<e.user, e.gen>> \in Strayed(n, e)
<1>1. e.user \in User /\ e.gen \in Nat /\ gen \in [User -> SUBSET Nat]
  BY DEF Entry, TypeOK
<1>2. Strayed(n, e) \subseteq User \X Nat
  BY <1>1 DEF Strayed
<1>3. CASE n \in Engine
  <2>1. GenerationsAfter(n, e) = [gen EXCEPT ![e.user] = gen[e.user] \cup {e.gen}]
    BY <1>1, <1>3 DEF GenerationsAfter
  <2> QED
    BY <1>1, <1>2, <1>3, <2>1
<1>4. CASE n \notin Engine
  <2>1. GenerationsAfter(n, e) = gen /\ n \in Worker
    BY <1>4 DEF GenerationsAfter, Node
  <2>2. e.gen \in gen[e.user] \/ <<e.user, e.gen>> \in Strayed(n, e)
    BY <2>1 DEF Strayed, Aligned
  <2> QED
    BY <1>1, <1>2, <2>1, <2>2
<1> QED
  BY <1>3, <1>4

LEMMA ApplyEntryBase ==
  ASSUME Base, NEW n \in Node, ApplyEntry(n)
  PROVE  Base'
<1>1. /\ TypeOK /\ TxServing /\ SeqInLog
      /\ LogWhole /\ GoalInLog
  BY DEF Base
<1> DEFINE s == NextSeq(n)
           e == NextEntry(n)
<1>2. UNCHANGED <<log, tail, checkpoint, backups, pc, goal, lock, tx, born, done, faults>>
  BY DEF ApplyEntry, logVars
<1>3. /\ tail = Len(log) /\ s \in 1..Len(log) /\ e \in Entry
  BY NextEntryInLog DEF ApplyEntry
<1>4. /\ rows' = rows \ {r \in e.fps : Owner[r] = e.user}
      /\ gen' = GenerationsAfter(n, e)
      /\ stray' = stray \cup Strayed(n, e)
      /\ misplaced' = misplaced \cup Strayed(n, e)
      /\ wm' = s
      /\ applied' = [applied EXCEPT ![n] = s]
  BY DEF ApplyEntry
<1> HIDE DEF s, e
<1>5. gen' \in [User -> SUBSET Nat] /\ Strayed(n, e) \subseteq User \X Nat
  BY <1>1, <1>3, <1>4, ReplayedGenerations
<1>6. /\ rows' \in SUBSET Row /\ wm' \in Nat /\ applied' \in [Node -> Nat]
      /\ stray' \in SUBSET (User \X Nat) /\ misplaced' \in SUBSET (User \X Nat)
  BY <1>1, <1>3, <1>4, <1>5 DEF TypeOK
<1>7. TypeOK'
  BY <1>1, <1>2, <1>5, <1>6 DEF TypeOK
<1>8. TxServing' /\ SeqInLog' /\ GoalInLog'
  BY <1>1, <1>2 DEF TxServing, SeqInLog, GoalInLog
<1>9. LogWhole'
  BY <1>1, <1>2, <1>3 DEF LogWhole, TypeOK
<1> QED
  BY <1>7, <1>8, <1>9 DEF Base

LEMMA ReplayConflictBase ==
  ASSUME Base, NEW n \in Node, ReplayConflict(n)
  PROVE  Base'
<1>1. /\ pc[n] = "apply" /\ lock' = NoNode /\ Leave(n, "down")
      /\ UNCHANGED <<db, logVars, backups, tx, history, faults>>
  BY DEF ReplayConflict, HasEntry
<1> QED
  BY <1>1, LeaveBase

LEMMA FinishReplayBase ==
  ASSUME Base, NEW n \in Node, FinishReplay(n)
  PROVE  Base'
<1>1. TypeOK /\ LogWhole
  BY DEF Base
<1>2. /\ pc[n] = "apply" /\ lock' = NoNode /\ Leave(n, "serving")
      /\ UNCHANGED <<db, logVars, backups, tx, history, faults>>
  BY DEF FinishReplay
<1>3. tail = Len(log)
  BY <1>1, <1>2, ServingLogWhole
<1> QED
  BY <1>2, <1>3, LeaveBase

LEMMA ReconcileBase ==
  ASSUME Base, NEW n \in Node, Reconcile(n)
  PROVE  Base'
BY ReadWatermarkBase, ComparedBase, TakeLockBase, ReadAgainBase, ApplyEntryBase,
   ReplayConflictBase, FinishReplayBase DEF Reconcile

LEMMA CrashBase ==
  ASSUME Base, NEW n \in Node, Crash(n)
  PROVE  Base'
<1>1. /\ TypeOK /\ TxServing /\ SeqInLog
      /\ LogWhole /\ GoalInLog
  BY DEF Base
<1>2. UNCHANGED <<rows, gen, stray, wm, log, tail, checkpoint, backups, born, done, misplaced>>
  BY DEF Crash, db, history, logVars
<1>3. /\ pc' = [pc EXCEPT ![n] = "down"]
      /\ applied' = [applied EXCEPT ![n] = 0]
      /\ goal' = [goal EXCEPT ![n] = 0]
      /\ lock' \in Node \cup {NoNode}
      /\ faults' \in Nat
      /\ tx' = IF n \in Engine THEN [tx EXCEPT ![n] = NoTx] ELSE tx
  BY <1>1 DEF Crash, Leave, Goto, TypeOK
<1>4. NoTx \in Tx /\ NoTx.pc = "idle"
  BY NoTxType DEF NoTx
<1>5. tx' \in [Engine -> Tx] /\ \A m \in Engine : tx'[m] = NoTx \/ (m # n /\ tx'[m] = tx[m])
  BY <1>1, <1>3, <1>4 DEF TypeOK
<1>6. TypeOK'
  BY <1>1, <1>2, <1>3, <1>5 DEF TypeOK
<1>7. \A m \in Node : m # n => pc'[m] = pc[m]
  BY <1>1, <1>3 DEF TypeOK
<1>8. TxServing'
  BY <1>1, <1>4, <1>5, <1>7 DEF TxServing, Node
<1>9. SeqInLog'
  BY <1>1, <1>2, <1>4, <1>5 DEF SeqInLog
<1>10. LogWhole' /\ GoalInLog'
  BY <1>1, <1>2, <1>3 DEF TypeOK, LogWhole, GoalInLog
<1> QED
  BY <1>6, <1>8, <1>9, <1>10 DEF Base

LEMMA BackupBase == ASSUME Base, Backup PROVE Base'
<1>1. /\ TypeOK /\ TxServing /\ SeqInLog
      /\ LogWhole /\ GoalInLog
  BY DEF Base
<1>2. UNCHANGED <<rows, gen, stray, wm, log, tail, checkpoint, pc, applied, goal, lock, tx, born, done, misplaced, faults>>
  BY DEF Backup, db, history, logVars, nodeVars
<1>3. backups' \in SUBSET Image
  BY <1>1 DEF Backup, TypeOK, Image
<1>4. TypeOK'
  BY <1>1, <1>2, <1>3 DEF TypeOK
<1> QED
  BY <1>1, <1>2, <1>4 DEF Base, TxServing, SeqInLog, LogWhole, GoalInLog

\* With every process down no transaction is open and nothing replays.
LEMMA RestoreBase ==
  ASSUME Base, NEW b \in backups, Restore(b)
  PROVE  Base'
<1>1. /\ TypeOK /\ TxServing /\ SeqInLog
      /\ LogWhole /\ GoalInLog
  BY DEF Base
<1>2. UNCHANGED <<log, tail, checkpoint, backups, pc, applied, goal, lock, tx, born, done, misplaced>>
  BY DEF Restore, logVars, history, nodeVars
<1>3. /\ rows' \in SUBSET Row /\ gen' \in [User -> SUBSET Nat]
      /\ stray' \in SUBSET (User \X Nat) /\ wm' \in Nat /\ faults' \in Nat
  BY <1>1 DEF Restore, TypeOK, Image
<1>4. TypeOK'
  BY <1>1, <1>2, <1>3 DEF TypeOK
<1>5. ~(tail < Len(log))
  BY <1>1 DEF Restore, TypeOK
<1> QED
  BY <1>1, <1>2, <1>4, <1>5 DEF Base, TxServing, SeqInLog, LogWhole, GoalInLog

LEMMA PruneBase ==
  ASSUME Base, NEW s \in 1..MaxLog, Prune(s)
  PROVE  Base'
<1>1. /\ TypeOK /\ TxServing /\ SeqInLog
      /\ LogWhole /\ GoalInLog
  BY DEF Base
<1>2. UNCHANGED <<rows, gen, stray, wm, log, tail, backups, pc, applied, goal, lock, tx, born, done, misplaced, faults>>
  BY DEF Prune, db, history, nodeVars
<1>3. checkpoint' \in 0..tail
  BY <1>1, BoundAssumption DEF Prune, TypeOK
<1>4. TypeOK'
  BY <1>1, <1>2, <1>3 DEF TypeOK
<1> QED
  BY <1>1, <1>2, <1>4 DEF Base, TxServing, SeqInLog, LogWhole, GoalInLog

LEMMA LoseLogTailBase ==
  ASSUME Base, NEW k \in 0..MaxLog, LoseLogTail(k)
  PROVE  Base'
<1>1. /\ TypeOK /\ TxServing /\ SeqInLog
      /\ LogWhole /\ GoalInLog
  BY DEF Base
<1>2. UNCHANGED <<rows, gen, stray, wm, log, checkpoint, backups, pc, applied, goal, lock, tx, born, done, misplaced>>
  BY DEF LoseLogTail, db, history, nodeVars
<1>3. /\ tail' = k /\ k >= checkpoint /\ k < wm /\ k < tail
      /\ \A n \in Node : pc[n] = "down"
      /\ faults' \in Nat
  BY <1>1 DEF LoseLogTail, AllDown, TypeOK
<1>4. tail' \in 0..Len(log) /\ checkpoint \in 0..tail'
  BY <1>1, <1>3, BoundAssumption DEF TypeOK
<1>5. TypeOK'
  BY <1>1, <1>2, <1>3, <1>4 DEF TypeOK
<1>6. GoalInLog' /\ LogWhole'
  <2>1. wm > k
    BY <1>1, <1>3, BoundAssumption DEF TypeOK
  <2> QED
    BY <1>2, <1>3, <2>1 DEF GoalInLog, LogWhole
<1> QED
  BY <1>1, <1>2, <1>5, <1>6 DEF Base, TxServing, SeqInLog

LEMMA RecoverLogBase == ASSUME Base, RecoverLog PROVE Base'
<1>1. /\ TypeOK /\ TxServing /\ SeqInLog
      /\ LogWhole /\ GoalInLog
  BY DEF Base
<1>2. UNCHANGED <<rows, gen, stray, wm, log, checkpoint, backups, pc, applied, goal, lock, tx, born, done, misplaced, faults>>
  BY DEF RecoverLog, db, history, nodeVars
<1>3. /\ tail' = Len(log)
      /\ \A n \in Node : pc[n] = "down"
  BY DEF RecoverLog, AllDown
<1>4. tail' \in 0..Len(log) /\ checkpoint \in 0..tail' /\ ~(Len(log) < Len(log))
  BY <1>1, <1>3 DEF TypeOK
<1>5. TypeOK'
  BY <1>1, <1>2, <1>4 DEF TypeOK
<1>6. GoalInLog' /\ LogWhole'
  BY <1>2, <1>3, <1>4 DEF GoalInLog, LogWhole
<1> QED
  BY <1>1, <1>2, <1>5, <1>6 DEF Base, TxServing, SeqInLog

\* Base is inductive.
LEMMA NextBase ==
  ASSUME Base, [Next]_vars
  PROVE  Base'
<1>1. CASE Next
  <2>1. Operator => Base'
    BY BackupBase, RestoreBase, PruneBase, LoseLogTailBase, RecoverLogBase DEF Operator
  <2> QED
    BY <1>1, <2>1, NextCases, ObserveBase, BeginDeletionBase, DeletionBase,
       AbortDeletionBase, StartCheckBase, ReconcileBase, CrashBase
<1>2. CASE UNCHANGED vars
  BY <1>2 DEF vars, Base, TypeOK, SeqInLog, TxServing, LogWhole, GoalInLog
<1> QED
  BY <1>1, <1>2

\* The log has no gap below its tail, and what a process or a transaction has read of
\* it is in it, through crashes, restores and prunes (deletion.py, replay.py).
THEOREM BaseInvariant == Spec => []Base
<1>1. Base /\ [Next]_vars => Base'
  BY NextBase
<1> QED
  BY InitBase, <1>1, PTL DEF Spec

\* Every variable keeps its type, on both databases, whatever the bounds.
THEOREM TypeCorrect == Spec => []TypeOK
<1>1. Base => TypeOK
  BY DEF Base
<1> QED
  BY BaseInvariant, <1>1, PTL

-----------------------------------------------------------------------------
\* Where a reconciliation stands and who holds the lock, step by step.
LEMMA NextLock ==
  ASSUME Base, OneReplayer, [Next]_vars
  PROVE  OneReplayer'
<1>1. TypeOK
  BY DEF Base
<1>2. CASE UNCHANGED <<pc, lock>>
  BY <1>2 DEF OneReplayer
<1>3. ASSUME NEW n \in Node, Reconcile(n) PROVE OneReplayer'
  <2>1. NoNode \notin Node
    BY NodeAssumption
  <2>2. CASE ReadWatermark(n)
    BY <1>1, <2>2 DEF ReadWatermark, Goto, TypeOK, OneReplayer
  <2>3. CASE Refuse(n) \/ InSync(n) \/ LockBusy(n)
    BY <1>1, <2>3 DEF Refuse, InSync, LockBusy, Behind, Leave, Goto, TypeOK, OneReplayer
  <2>4. CASE TakeLock(n)
    BY <1>1, <2>1, <2>4 DEF TakeLock, Behind, LockFree, Goto, TypeOK, OneReplayer
  <2>5. CASE ReadAgain(n)
    BY <1>1, <2>1, <2>5 DEF ReadAgain, Leave, Goto, TypeOK, OneReplayer
  <2>6. CASE ApplyEntry(n)
    BY <2>6 DEF ApplyEntry, OneReplayer
  <2>7. CASE ReplayConflict(n) \/ FinishReplay(n)
    <3>1. pc[n] = "apply" /\ lock' = NoNode /\ (Leave(n, "down") \/ Leave(n, "serving"))
      BY <2>7 DEF ReplayConflict, HasEntry, FinishReplay
    <3> QED
      BY <1>1, <2>1, <3>1 DEF Leave, Goto, TypeOK, OneReplayer
  <2> QED
    BY <1>3, <2>2, <2>3, <2>4, <2>5, <2>6, <2>7 DEF Reconcile
<1>4. ASSUME NEW n \in Node, StartCheck(n) PROVE OneReplayer'
  BY <1>1, <1>4 DEF StartCheck, Goto, TypeOK, OneReplayer
<1>5. ASSUME NEW n \in Node, Crash(n) PROVE OneReplayer'
  <2>1. NoNode \notin Node
    BY NodeAssumption
  <2> QED
    BY <1>1, <1>5, <2>1 DEF Crash, Leave, Goto, TypeOK, OneReplayer
<1>6. ASSUME NEW n \in Engine, Request(n) \/ Deletion(n) \/ AbortDeletion(n)
      PROVE  UNCHANGED <<pc, lock>>
  BY <1>6 DEF Request, Observe, BeginDeletion, Deletion, ReadGeneration, InsertGeneration,
     GenerationConflict, AppendLog, AdvanceWatermark, DeadlockVictim, CommitDeletion,
     AbortDeletion, nodeVars, history
<1>7. Operator => UNCHANGED <<pc, lock>>
  BY DEF Operator, Backup, Restore, Prune, LoseLogTail, RecoverLog, nodeVars, history
<1>8. UNCHANGED vars => UNCHANGED <<pc, lock>>
  BY DEF vars
<1> QED
  BY <1>2, <1>3, <1>4, <1>5, <1>6, <1>7, <1>8 DEF Next

\* The replay lock is held by the process that replays, and by no other.
THEOREM ReplayExclusion == Spec => []OneReplayer
<1>1. Init => OneReplayer
  BY NodeAssumption DEF Init, OneReplayer
<1>2. Base /\ OneReplayer /\ [Next]_vars => OneReplayer'
  BY NextLock
<1> QED
  BY BaseInvariant, <1>1, <1>2, PTL DEF Spec

\* Only a deletion writes to the log, and it writes at its end.
LEMMA NextLog ==
  ASSUME Base, [Next]_vars
  PROVE  /\ Len(log') >= Len(log)
         /\ \A s \in 1..Len(log) : log'[s] = log[s]
<1>1. TypeOK
  BY DEF Base
<1>2. CASE UNCHANGED log
  BY <1>1, <1>2 DEF TypeOK
<1>3. ASSUME NEW n \in Engine, AppendLog(n)
      PROVE  /\ Len(log') >= Len(log)
             /\ \A s \in 1..Len(log) : log'[s] = log[s]
  <2>1. PICK e \in Entry : log' = Append(log, e) /\ Len(log') = Len(log) + 1
    BY <1>3, AppendLogStep
  <2> QED
    BY <1>1, <2>1 DEF TypeOK
<1>4. ASSUME NEW n \in Engine, Request(n) \/ Deletion(n) \/ AbortDeletion(n), ~AppendLog(n)
      PROVE  UNCHANGED log
  BY <1>4 DEF Request, Observe, BeginDeletion, Deletion, ReadGeneration, InsertGeneration,
     GenerationConflict, AdvanceWatermark, DeadlockVictim, CommitDeletion,
     AbortDeletion, logVars, history
<1>5. ASSUME NEW n \in Node, StartCheck(n) \/ Reconcile(n) \/ Crash(n)
      PROVE  UNCHANGED log
  BY <1>5 DEF StartCheck, Reconcile, ReadWatermark, Refuse, InSync, LockBusy, TakeLock,
     ReadAgain, ApplyEntry, ReplayConflict, FinishReplay, Crash, logVars, history
<1>6. Operator => UNCHANGED log
  BY DEF Operator, Backup, Restore, Prune, LoseLogTail, RecoverLog, logVars, history
<1>7. UNCHANGED vars => UNCHANGED log
  BY DEF vars
<1> QED
  BY <1>2, <1>3, <1>4, <1>5, <1>6, <1>7 DEF Next

\* A stale log is never written to, so a seq names one deletion for ever.
THEOREM SeqsStable == Spec => SeqsAreNeverReused
<1>1. Base /\ [Next]_vars =>
        [/\ Len(log') >= Len(log)
         /\ \A s \in 1..Len(log) : log'[s] = log[s]]_vars
  BY NextLog
<1> QED
  BY BaseInvariant, <1>1, PTL DEF Spec, SeqsAreNeverReused

-----------------------------------------------------------------------------
(* One write transaction at a time (SQLite), no compaction during a replay. *)

LEMMA InitSafe == Init => Safe
BY DEF Init, Safe, WatermarkTrue, BackupsTrue, ServingTrue, CompareTrue, ReplayTrue,
   TxTrue, RowsTrue, NoTx

\* What has been applied stays applied while rows only go, or are born for the
\* first time, and the rows of the generations only come.
LEMMA AppliedKept ==
  ASSUME Base, RowsTrue, NEW s \in 1..Len(log), AppliedTo(rows, gen, stray, s),
         log'[s] = log[s],
         \A r \in rows' : r \in rows \/ r \notin born,
         \A u \in User : gen[u] \subseteq gen'[u],
         stray \subseteq stray'
  PROVE  AppliedTo(rows, gen, stray, s)'
<1>1. log[s] \in Entry
  BY DEF Base, TypeOK
<1>2. log[s].fps \cap rows' = {}
  BY DEF RowsTrue, AppliedTo
<1>3. log[s].user \in User
  BY <1>1 DEF Entry
<1>4. log[s].gen \in gen'[log[s].user] \cup {0} \/ <<log[s].user, log[s].gen>> \in stray'
  BY <1>3 DEF AppliedTo
<1> QED
  BY <1>2, <1>4 DEF AppliedTo

\* A step of node n's reconciliation.
LEMMA NodeStepSafe ==
  ASSUME Base, Safe, NEW n \in Node,
         UNCHANGED <<db, logVars, backups, tx, history, faults>>,
         NEW where, NEW a, NEW g,
         pc' = [pc EXCEPT ![n] = where],
         applied' = [applied EXCEPT ![n] = a],
         goal' = [goal EXCEPT ![n] = g],
         where = "serving" => \A s \in done : AppliedTo(rows, gen, stray, s),
         where = "compare" => \A s \in done : s <= a => AppliedTo(rows, gen, stray, s),
         where \in {"locked", "apply"} =>
           \A s \in done : (where = "apply" /\ s <= a) \/ s <= checkpoint \/ s > g
             => AppliedTo(rows, gen, stray, s)
  PROVE  Safe'
<1>1. UNCHANGED <<rows, gen, stray, wm, log, checkpoint, backups, tx, born, done, misplaced>>
  BY DEF db, history, logVars
<1>2. TypeOK
  BY DEF Base
<1>3. WatermarkTrue' /\ BackupsTrue' /\ RowsTrue'
  BY <1>1 DEF Safe, WatermarkTrue, BackupsTrue, RowsTrue, AppliedTo
<1>4. TxTrue'
  BY <1>1 DEF Safe, TxTrue, TxSound
<1>5. \A s \in done : AppliedTo(rows, gen, stray, s) => AppliedTo(rows, gen, stray, s)'
  BY <1>1 DEF AppliedTo
<1>6. ServingTrue'
  BY <1>1, <1>2, <1>5 DEF Safe, ServingTrue, TypeOK
<1>7. CompareTrue'
  BY <1>1, <1>2, <1>5 DEF Safe, CompareTrue, TypeOK
<1>8. ReplayTrue'
  BY <1>1, <1>2, <1>5 DEF Safe, ReplayTrue, TypeOK
<1> QED
  BY <1>3, <1>4, <1>6, <1>7, <1>8 DEF Safe

LEMMA StartCheckSafe ==
  ASSUME Base, Safe, NEW n \in Node, StartCheck(n)
  PROVE  Safe'
<1>1. /\ pc' = [pc EXCEPT ![n] = "check"]
      /\ applied' = [applied EXCEPT ![n] = applied[n]]
      /\ goal' = [goal EXCEPT ![n] = goal[n]]
      /\ UNCHANGED <<db, logVars, backups, tx, history, faults>>
  BY DEF StartCheck, Goto, Base, TypeOK
<1> QED
  BY <1>1, NodeStepSafe

LEMMA ReadWatermarkSafe ==
  ASSUME Base, Safe, NEW n \in Node, ReadWatermark(n)
  PROVE  Safe'
<1>1. /\ pc' = [pc EXCEPT ![n] = "compare"]
      /\ applied' = [applied EXCEPT ![n] = wm]
      /\ goal' = [goal EXCEPT ![n] = goal[n]]
      /\ UNCHANGED <<db, logVars, backups, tx, history, faults>>
  BY DEF ReadWatermark, Goto, Base, TypeOK
<1>2. \A s \in done : s <= wm => AppliedTo(rows, gen, stray, s)
  BY DEF Safe, WatermarkTrue
<1> QED
  BY <1>1, <1>2, NodeStepSafe

\* A reconciliation that ends in service has every deletion behind it.
LEMMA LeaveSafe ==
  ASSUME Base, Safe, NEW n \in Node, NEW where \in {"down", "serving"}, Leave(n, where),
         UNCHANGED <<db, logVars, backups, tx, history, faults>>,
         where = "serving" => \A s \in done : AppliedTo(rows, gen, stray, s)
  PROVE  Safe'
BY NodeStepSafe DEF Leave, Goto

LEMMA ComparedSafe ==
  ASSUME Base, Safe, NEW n \in Node, Refuse(n) \/ InSync(n) \/ LockBusy(n)
  PROVE  Safe'
<1>1. TypeOK /\ LogWhole /\ CompareTrue
  BY DEF Base, Safe
<1>2. /\ pc[n] = "compare"
      /\ UNCHANGED <<db, logVars, backups, tx, history, faults>>
  BY DEF Refuse, InSync, LockBusy, Behind
<1>3. CASE InSync(n)
  <2>1. applied[n] = tail /\ tail = Len(log)
    BY <1>1, <1>2, <1>3, ComparedLogWhole DEF InSync
  <2>2. \A s \in done : s <= applied[n]
    BY <1>1, <2>1 DEF TypeOK
  <2>3. \A s \in done : AppliedTo(rows, gen, stray, s)
    BY <1>1, <1>2, <2>2 DEF CompareTrue
  <2> QED
    BY <1>2, <1>3, <2>3, LeaveSafe DEF InSync
<1>4. CASE Refuse(n) \/ LockBusy(n)
  BY <1>2, <1>4, LeaveSafe DEF Refuse, LockBusy
<1> QED
  BY <1>3, <1>4

LEMMA TakeLockSafe ==
  ASSUME Base, Safe, NEW n \in Node, TakeLock(n)
  PROVE  Safe'
<1>1. TypeOK /\ LogWhole /\ CompareTrue
  BY DEF Base, Safe
<1>2. /\ pc[n] = "compare" /\ applied[n] >= checkpoint /\ applied[n] < tail
      /\ pc' = [pc EXCEPT ![n] = "locked"]
      /\ applied' = [applied EXCEPT ![n] = applied[n]]
      /\ goal' = [goal EXCEPT ![n] = tail]
      /\ UNCHANGED <<db, logVars, backups, tx, history, faults>>
  BY <1>1 DEF TakeLock, Behind, Goto, TypeOK
<1>3. applied[n] \in Nat /\ checkpoint \in Nat /\ tail \in Nat /\ done \subseteq 1..Len(log)
  BY <1>1 DEF TypeOK
<1>4. tail = Len(log)
  <2>1. applied[n] <= tail
    BY <1>2, <1>3
  <2> QED
    BY <1>1, <1>2, <2>1, ComparedLogWhole
<1>5. \A s \in done : s <= checkpoint => s <= applied[n]
  BY <1>2, <1>3
<1>6. \A s \in done : ~(s > tail)
  BY <1>3, <1>4
<1>7. \A s \in done : s <= checkpoint \/ s > tail => AppliedTo(rows, gen, stray, s)
  BY <1>1, <1>2, <1>5, <1>6 DEF CompareTrue
<1> QED
  BY <1>2, <1>7, NodeStepSafe

LEMMA ReadAgainSafe ==
  ASSUME Exclusive, Base, Safe, NEW n \in Node, ReadAgain(n)
  PROVE  Safe'
<1>1. TypeOK /\ WatermarkTrue /\ ReplayTrue
  BY DEF Base, Safe
<1>2. /\ pc[n] = "locked"
      /\ UNCHANGED <<db, logVars, backups, tx, history, faults>>
  BY DEF ReadAgain
<1>3. wm \in Nat /\ goal[n] \in Nat /\ done \subseteq 1..Len(log)
  BY <1>1 DEF TypeOK
<1>4. \A s \in done : s <= wm => AppliedTo(rows, gen, stray, s)
  BY <1>1 DEF WatermarkTrue
<1>5. \A s \in done : s <= checkpoint \/ s > goal[n] => AppliedTo(rows, gen, stray, s)
  BY <1>1, <1>2 DEF ReplayTrue
<1>6. CASE wm >= goal[n] /\ Leave(n, "serving")
  <2>1. \A s \in done : s <= wm \/ s > goal[n]
    BY <1>3, <1>6
  <2>2. \A s \in done : AppliedTo(rows, gen, stray, s)
    BY <1>4, <1>5, <2>1
  <2> QED
    BY <1>2, <1>6, <2>2, LeaveSafe
<1>7. CASE /\ Goto(n, "apply")
           /\ applied' = [applied EXCEPT ![n] = wm]
           /\ goal' = [goal EXCEPT ![n] = IF Exclusive THEN @ ELSE tail]
  <2>1. goal' = [goal EXCEPT ![n] = goal[n]]
    BY <1>1, <1>7 DEF TypeOK
  <2> QED
    BY <1>2, <1>4, <1>5, <1>7, <2>1, NodeStepSafe DEF Goto
<1> QED
  BY <1>6, <1>7 DEF ReadAgain

LEMMA FinishReplaySafe ==
  ASSUME Base, Safe, NEW n \in Node, FinishReplay(n)
  PROVE  Safe'
<1>1. TypeOK /\ ReplayTrue
  BY DEF Base, Safe
<1>2. /\ pc[n] = "apply" /\ NextSeq(n) > goal[n] /\ Leave(n, "serving")
      /\ UNCHANGED <<db, logVars, backups, tx, history, faults>>
  BY DEF FinishReplay
<1>3. /\ applied[n] \in Nat /\ checkpoint \in Nat /\ goal[n] \in Nat
      /\ done \subseteq 1..Len(log)
  BY <1>1 DEF TypeOK
<1>4. \A s \in done : s <= applied[n] \/ s <= checkpoint \/ s > goal[n]
  BY <1>2, <1>3 DEF NextSeq, Larger
<1>5. \A s \in done : AppliedTo(rows, gen, stray, s)
  BY <1>1, <1>2, <1>4 DEF ReplayTrue
<1> QED
  BY <1>2, <1>5, LeaveSafe

\* A step that changes rows and generations the way AppliedKept allows, and
\* leaves the reconciliations where they stand.
LEMMA DataStepSafe ==
  ASSUME Base, Safe,
         UNCHANGED <<checkpoint, backups, pc, applied, goal>>,
         \A s \in 1..Len(log) : log'[s] = log[s],
         done' = done,
         \A r \in rows' : r \in rows \/ r \notin born,
         \A u \in User : gen[u] \subseteq gen'[u],
         stray \subseteq stray'
  PROVE  BackupsTrue' /\ ServingTrue' /\ CompareTrue' /\ ReplayTrue'
<1>1. TypeOK /\ RowsTrue
  BY DEF Base, Safe
<1>2. done \subseteq 1..Len(log)
  BY <1>1 DEF TypeOK
<1>3. \A s \in done : AppliedTo(rows, gen, stray, s) => AppliedTo(rows, gen, stray, s)'
  BY <1>1, <1>2, AppliedKept
<1>4. ServingTrue' /\ CompareTrue' /\ ReplayTrue'
  BY <1>3 DEF Safe, ServingTrue, CompareTrue, ReplayTrue
<1>5. BackupsTrue'
  BY <1>2 DEF Safe, BackupsTrue, AppliedTo
<1> QED
  BY <1>4, <1>5

LEMMA ApplyEntrySafe ==
  ASSUME Exclusive, Base, Safe, NEW n \in Node, ApplyEntry(n)
  PROVE  Safe'
<1>1. TypeOK /\ RowsTrue /\ ReplayTrue
  BY DEF Base, Safe
<1>0. /\ NextSeq(n) \in 1..Len(log) /\ NextEntry(n) \in Entry
      /\ pc[n] = "apply"
  BY NextEntryInLog DEF ApplyEntry
<1>2. PICK k \in 1..Len(log) : k = NextSeq(n)
  BY <1>0
<1>3. /\ UNCHANGED <<log, tail, checkpoint, backups, pc, goal, lock, tx, born, done, faults>>
      /\ rows' = rows \ {r \in log[k].fps : Owner[r] = log[k].user}
      /\ gen' = GenerationsAfter(n, log[k])
      /\ stray' = stray \cup Strayed(n, log[k])
      /\ wm' = k
      /\ applied' = [applied EXCEPT ![n] = k]
      /\ log[k] \in Entry
  BY <1>0, <1>2 DEF ApplyEntry, NextEntry, logVars
<1>4. \A m \in Engine : tx[m].pc = "idle"
  BY DEF ApplyEntry, MayApply, MayWrite, Active
<1>5. \A s \in 1..Len(log) : s <= k => s = k \/ s <= applied[n] \/ s <= checkpoint
  <2>1. applied[n] \in Nat /\ checkpoint \in Nat /\ Len(log) \in Nat
    BY <1>1 DEF TypeOK
  <2> QED
    BY <1>2, <2>1 DEF NextSeq, Larger
<1>6. /\ \A u \in User : gen[u] \subseteq gen'[u]
      /\ stray \subseteq stray'
      /\ log[k].gen \in gen'[log[k].user] \/ <<log[k].user, log[k].gen>> \in stray'
      /\ \A r \in log[k].fps : Owner[r] = log[k].user
  <2>1. \A r \in log[k].fps : Owner[r] = log[k].user
    BY <1>1 DEF RowsTrue
  <2> QED
    BY <1>1, <1>3, <2>1, ReplayedGenerations
<1>7. \A s \in done : AppliedTo(rows, gen, stray, s) => AppliedTo(rows, gen, stray, s)'
  <2>1. done \subseteq 1..Len(log)
    BY <1>1 DEF TypeOK
  <2> QED
    BY <1>1, <1>3, <1>6, <2>1, AppliedKept
<1>8. BackupsTrue' /\ ServingTrue'
  BY <1>3, <1>7 DEF Safe, BackupsTrue, ServingTrue, AppliedTo
<1>9. AppliedTo(rows, gen, stray, k)'
  BY <1>3, <1>6 DEF AppliedTo
<1>10. \A s \in done : s <= k => AppliedTo(rows, gen, stray, s)'
  <2> SUFFICES ASSUME NEW s \in done, s <= k PROVE AppliedTo(rows, gen, stray, s)'
    OBVIOUS
  <2>1. s \in 1..Len(log)
    BY <1>1 DEF TypeOK
  <2>2. CASE s = k
    BY <1>9, <2>2
  <2>3. CASE s <= applied[n] \/ s <= checkpoint
    BY <1>0, <1>1, <1>7, <2>3 DEF ReplayTrue
  <2> QED
    BY <1>5, <2>1, <2>2, <2>3
<1>11. WatermarkTrue'
  BY <1>3, <1>10 DEF WatermarkTrue
<1>12. CompareTrue'
  BY <1>0, <1>1, <1>3, <1>7 DEF Safe, CompareTrue, TypeOK
<1>13. ReplayTrue'
  <2> SUFFICES ASSUME NEW m \in Node, pc[m] \in {"locked", "apply"}, NEW s \in done,
                      (pc[m] = "apply" /\ s <= applied'[m]) \/ s <= checkpoint \/ s > goal[m]
               PROVE  AppliedTo(rows, gen, stray, s)'
    BY <1>3 DEF ReplayTrue
  <2>1. CASE m = n /\ s <= applied'[m]
    BY <1>1, <1>3, <1>10, <2>1 DEF TypeOK
  <2>2. CASE m # n \/ s <= checkpoint \/ s > goal[m]
    <3>1. m # n => applied'[m] = applied[m]
      BY <1>1, <1>3 DEF TypeOK
    <3> QED
      BY <1>1, <1>7, <2>2, <3>1 DEF ReplayTrue
  <2> QED
    BY <2>1, <2>2
<1>14. TxTrue'
  BY <1>3, <1>4 DEF TxTrue
<1>15. RowsTrue'
  <2>1. wm' <= Len(log')
    BY <1>3
  <2> QED
    BY <1>1, <1>3, <2>1 DEF RowsTrue
<1> QED
  BY <1>8, <1>11, <1>12, <1>13, <1>14, <1>15 DEF Safe

LEMMA ReplayConflictSafe ==
  ASSUME Base, Safe, NEW n \in Node, ReplayConflict(n)
  PROVE  Safe'
BY LeaveSafe DEF ReplayConflict

\* A step of the open transaction that leaves everything else alone.
LEMMA TxStepSafe ==
  ASSUME Base, Safe, NEW n \in Engine,
         UNCHANGED <<db, logVars, backups, nodeVars, history>>,
         NEW t, tx' = [tx EXCEPT ![n] = t],
         t.pc # "idle" => TxSound(t) /\ \A m \in Engine \ {n} : tx[m].pc = "idle"
  PROVE  Safe'
<1>1. UNCHANGED <<rows, gen, stray, wm, log, checkpoint, backups, pc, applied, goal, born, done, misplaced>>
  BY DEF db, history, logVars, nodeVars
<1>2. WatermarkTrue' /\ BackupsTrue' /\ ServingTrue' /\ CompareTrue' /\ ReplayTrue' /\ RowsTrue'
  BY <1>1 DEF Safe, WatermarkTrue, BackupsTrue, ServingTrue, CompareTrue, ReplayTrue,
     RowsTrue, AppliedTo
<1>3. /\ \A x : TxSound(x) => TxSound(x)'
      /\ t.pc # "idle" => TxSound(t)'
  BY <1>1 DEF TxSound
<1>4. /\ tx'[n] = t
      /\ \A m \in Engine : m # n => tx'[m] = tx[m]
  BY DEF Base, TypeOK
<1>5. TxTrue'
  BY <1>3, <1>4 DEF Safe, TxTrue
<1> QED
  BY <1>2, <1>5 DEF Safe

LEMMA ObserveSafe ==
  ASSUME Base, Safe, NEW n \in Engine, NEW r \in Row, Observe(n, r)
  PROVE  Safe'
<1>1. TypeOK /\ RowsTrue /\ TxTrue /\ WatermarkTrue
  BY DEF Base, Safe
<1>2. /\ UNCHANGED <<gen, stray, wm, log, checkpoint, backups, pc, applied, goal, tx, done>>
      /\ rows' = rows \cup {r} /\ born' = born \cup {r} /\ r \notin born
  BY DEF Observe, logVars, history, nodeVars
<1>3. (\A u \in User : gen[u] \subseteq gen'[u]) /\ stray \subseteq stray'
  BY <1>2
<1>4. BackupsTrue' /\ ServingTrue' /\ CompareTrue' /\ ReplayTrue'
  BY <1>2, <1>3, DataStepSafe
<1>5. WatermarkTrue'
  <2>1. done \subseteq 1..Len(log)
    BY <1>1 DEF TypeOK
  <2>2. \A s \in done : AppliedTo(rows, gen, stray, s) => AppliedTo(rows, gen, stray, s)'
    BY <1>1, <1>2, <1>3, <2>1, AppliedKept
  <2> QED
    BY <1>1, <1>2, <2>2 DEF WatermarkTrue
<1>6. TxTrue'
  BY <1>1, <1>2 DEF TxTrue, TxSound
<1>7. RowsTrue'
  BY <1>1, <1>2 DEF RowsTrue
<1> QED
  BY <1>4, <1>5, <1>6, <1>7 DEF Safe

LEMMA BeginDeletionSafe ==
  ASSUME Exclusive, Base, Safe, NEW n \in Engine, NEW scope \in Scope, NEW u \in User,
         BeginDeletion(n, scope, u)
  PROVE  Safe'
<1>1. TypeOK /\ RowsTrue
  BY DEF Base, Safe
<1>2. PICK fps \in DeletionTargets(scope, u) :
        tx' = [tx EXCEPT ![n] =
            [pc |-> IF scope = "session" THEN "log" ELSE "gen", scope |-> scope,
             user |-> u, fps |-> fps, del |-> fps, gen |-> 0, seq |-> 0]]
  BY DEF BeginDeletion
<1>3. \A r \in fps : r \in born /\ Owner[r] = u
  BY <1>1, TargetsAreRows DEF RowsTrue
<1> DEFINE t == [pc |-> IF scope = "session" THEN "log" ELSE "gen", scope |-> scope,
                 user |-> u, fps |-> fps, del |-> fps, gen |-> 0, seq |-> 0]
<1>4. TxSound(t)
  BY <1>3 DEF TxSound
<1>5. \A m \in Engine : tx[m].pc = "idle"
  BY DEF BeginDeletion, MayWrite, Active
<1>6. UNCHANGED <<db, logVars, backups, nodeVars, history>>
  BY DEF BeginDeletion
<1>7. tx' = [tx EXCEPT ![n] = t]
  BY <1>2
<1> HIDE DEF t
<1> QED
  BY <1>4, <1>5, <1>6, <1>7, TxStepSafe

\* The one open transaction, at every step but its last.
LEMMA OpenTx ==
  ASSUME Base, Safe, NEW n \in Engine, tx[n].pc # "idle"
  PROVE  /\ TxSound(tx[n])
         /\ \A m \in Engine \ {n} : tx[m].pc = "idle"
         /\ pc[n] = "serving"
         /\ n \in Node
         /\ tx[n] \in Tx
BY DEF Base, Safe, TypeOK, TxServing, TxTrue, Node

\* The generation after the latest is not taken.
LEMMA NextGeneration ==
  ASSUME TypeOK, NEW n \in Engine, NEW g, Latest(tx[n].user, g)
  PROVE  g \in Nat /\ g + 1 \in Nat /\ g + 1 > 0 /\ g + 1 \notin gen[tx[n].user]
<1>1. gen[tx[n].user] \subseteq Nat
  BY TxFields
<1>2. g \in Nat
  BY <1>1 DEF Latest
<1>3. \A h \in gen[tx[n].user] : h <= g /\ h \in Nat
  BY <1>1 DEF Latest
<1>4. g + 1 \notin gen[tx[n].user]
  BY <1>2, <1>3
<1> QED
  BY <1>2, <1>4

LEMMA ReadGenerationSafe ==
  ASSUME Base, Safe, NEW n \in Engine, ReadGeneration(n)
  PROVE  Safe'
<1>1. TypeOK
  BY DEF Base
<1>2. /\ TxSound(tx[n]) /\ tx[n] \in Tx
      /\ \A m \in Engine \ {n} : tx[m].pc = "idle"
  BY OpenTx DEF ReadGeneration
<1>3. PICK g : /\ Latest(tx[n].user, g)
               /\ tx' = [tx EXCEPT ![n].pc = "insert", ![n].gen = g + 1]
  BY DEF ReadGeneration
<1> DEFINE t == [tx[n] EXCEPT !.pc = "insert", !.gen = g + 1]
<1>4. /\ t.pc = "insert" /\ t.gen = g + 1 /\ t.user = tx[n].user
      /\ t.fps = tx[n].fps /\ t.del = tx[n].del
  BY <1>2 DEF Tx
<1>5. tx' = [tx EXCEPT ![n] = t]
  BY <1>1, <1>3 DEF TypeOK
<1>6. UNCHANGED <<db, logVars, backups, nodeVars, history>>
  BY DEF ReadGeneration
<1>7. g + 1 \notin gen[tx[n].user]
  BY <1>1, <1>3, NextGeneration
<1> HIDE DEF t
<1>8. TxSound(t)
  BY <1>2, <1>4, <1>7 DEF TxSound
<1> QED
  BY <1>2, <1>5, <1>6, <1>8, TxStepSafe

LEMMA InsertGenerationSafe ==
  ASSUME Base, Safe, NEW n \in Engine, InsertGeneration(n)
  PROVE  Safe'
<1>1. TypeOK
  BY DEF Base
<1>2. /\ TxSound(tx[n]) /\ tx[n] \in Tx
      /\ \A m \in Engine \ {n} : tx[m].pc = "idle"
  BY OpenTx DEF InsertGeneration
<1> DEFINE t == [tx[n] EXCEPT !.pc = "log"]
<1>3. t.pc = "log" /\ t.user = tx[n].user /\ t.fps = tx[n].fps /\ t.del = tx[n].del
  BY <1>2 DEF Tx
<1>4. tx' = [tx EXCEPT ![n] = t]
  BY <1>1 DEF InsertGeneration, TypeOK
<1>5. UNCHANGED <<db, logVars, backups, nodeVars, history>>
  BY DEF InsertGeneration
<1> HIDE DEF t
<1>6. TxSound(t)
  BY <1>2, <1>3 DEF TxSound
<1> QED
  BY <1>2, <1>4, <1>5, <1>6, TxStepSafe

\* A transaction that is given up.
LEMMA EndTxSafe ==
  ASSUME Base, Safe, NEW n \in Engine, EndTx(n),
         UNCHANGED <<db, logVars, backups, nodeVars, history>>
  PROVE  Safe'
<1>1. NoTx.pc = "idle"
  BY DEF NoTx
<1> QED
  BY <1>1, TxStepSafe DEF EndTx

\* With one writer the generation read is the one that is inserted.
LEMMA GenerationConflictSafe ==
  ASSUME Base, Safe, NEW n \in Engine, GenerationConflict(n)
  PROVE  Safe'
<1>1. tx[n].gen \notin gen[tx[n].user]
  BY OpenTx DEF GenerationConflict, TxSound
<1> QED
  BY <1>1 DEF GenerationConflict

LEMMA AppendLogSafe ==
  ASSUME Base, Safe, NEW n \in Engine, AppendLog(n)
  PROVE  Safe'
<1>1. TypeOK /\ RowsTrue /\ WatermarkTrue /\ TxTrue
  BY DEF Base, Safe
<1>2. /\ TxSound(tx[n]) /\ tx[n] \in Tx
      /\ \A m \in Engine \ {n} : tx[m].pc = "idle"
  BY OpenTx DEF AppendLog
<1>3. PICK g \in Nat, e \in Entry :
           /\ tx[n].scope = "session" => g \in gen[tx[n].user] \cup {0}
           /\ e = [scope |-> tx[n].scope, user |-> tx[n].user, fps |-> tx[n].fps, gen |-> g]
           /\ log' = Append(log, e)
           /\ tail = Len(log)
           /\ Len(log') = Len(log) + 1
           /\ tx' = [tx EXCEPT ![n] = [tx[n] EXCEPT !.pc = "wm", !.gen = g, !.seq = tail + 1]]
  BY ZenonT(60), AppendLogStep
<1>4. UNCHANGED <<rows, gen, stray, wm, checkpoint, backups, pc, applied, goal, born, done, misplaced>>
  BY DEF AppendLog, db, history, nodeVars
<1>5. /\ \A s \in 1..Len(log) : log'[s] = log[s]
      /\ log'[Len(log) + 1] = e
      /\ Len(log) \in Nat
      /\ 1..Len(log') = 1..Len(log) \cup {Len(log) + 1}
  BY <1>1, <1>3 DEF TypeOK
<1>6. /\ e.user = tx[n].user /\ e.fps = tx[n].fps /\ e.gen = g
  BY <1>3
<1>7. done \subseteq 1..Len(log) /\ wm \in Nat /\ \A b \in backups : b.wm \in Nat
  BY <1>1 DEF TypeOK, Image
<1>8. BackupsTrue' /\ ServingTrue' /\ CompareTrue' /\ ReplayTrue'
  <2>1. (\A u \in User : gen[u] \subseteq gen'[u]) /\ stray \subseteq stray'
    BY <1>4
  <2> QED
    BY <1>4, <1>5, <2>1, DataStepSafe
<1>9. WatermarkTrue'
  BY <1>1, <1>4, <1>5, <1>7 DEF WatermarkTrue, AppliedTo
<1>10. TxTrue'
  <2> DEFINE t == [tx[n] EXCEPT !.pc = "wm", !.gen = g, !.seq = tail + 1]
  <2>1. /\ t.pc = "wm" /\ t.gen = g /\ t.seq = Len(log) + 1 /\ t.user = tx[n].user
        /\ t.fps = tx[n].fps /\ t.del = tx[n].del /\ t.scope = tx[n].scope
    BY <1>2, <1>3 DEF Tx
  <2>2. tx'[n] = t /\ \A m \in Engine : m # n => tx'[m].pc = "idle"
    BY <1>1, <1>2, <1>3 DEF TypeOK
  <2> HIDE DEF t
  <2>3. Len(log) + 1 > wm /\ \A b \in backups : Len(log) + 1 > b.wm
    BY <1>1, <1>5, <1>7 DEF RowsTrue
  <2>4. TxSound(tx[n])'
    BY <1>2, <1>3, <1>4, <1>5, <1>6, <2>1, <2>2, <2>3 DEF TxSound
  <2> QED
    BY <2>2, <2>4 DEF TxTrue
<1>11. RowsTrue'
  <2>1. \A r \in e.fps : r \in born /\ Owner[r] = e.user
    BY <1>2, <1>6 DEF TxSound
  <2>2. \A s \in 1..Len(log') : \A r \in log'[s].fps : r \in born' /\ Owner[r] = log'[s].user
    BY <1>1, <1>4, <1>5, <2>1 DEF RowsTrue
  <2>3. wm' <= Len(log') /\ \A b \in backups : b.wm <= Len(log')
    BY <1>1, <1>3, <1>4, <1>5, <1>7 DEF RowsTrue
  <2> QED
    BY <1>1, <1>4, <2>2, <2>3 DEF RowsTrue
<1> QED
  BY <1>8, <1>9, <1>10, <1>11 DEF Safe

LEMMA AdvanceWatermarkSafe ==
  ASSUME Base, Safe, NEW n \in Engine, AdvanceWatermark(n)
  PROVE  Safe'
<1>1. TypeOK
  BY DEF Base
<1>2. /\ TxSound(tx[n]) /\ tx[n] \in Tx
      /\ \A m \in Engine \ {n} : tx[m].pc = "idle"
  BY OpenTx DEF AdvanceWatermark
<1> DEFINE t == [tx[n] EXCEPT !.pc = "commit"]
<1>3. /\ t.pc = "commit" /\ t.gen = tx[n].gen /\ t.seq = tx[n].seq /\ t.user = tx[n].user
      /\ t.fps = tx[n].fps /\ t.del = tx[n].del /\ t.scope = tx[n].scope
  BY <1>2 DEF Tx
<1>4. tx' = [tx EXCEPT ![n] = t] /\ tx[n].pc = "wm"
  BY <1>1 DEF AdvanceWatermark, TypeOK
<1>5. UNCHANGED <<db, logVars, backups, nodeVars, history>>
  BY DEF AdvanceWatermark
<1> HIDE DEF t
<1>6. TxSound(t)
  BY <1>2, <1>3, <1>4 DEF TxSound
<1> QED
  BY <1>2, <1>4, <1>5, <1>6, TxStepSafe

\* The commit happens on an engine that serves, so every earlier deletion has
\* been applied; its own entry lies above every watermark there is.
LEMMA CommitDeletionSafe ==
  ASSUME Base, Safe, NEW n \in Engine, CommitDeletion(n)
  PROVE  Safe'
<1>1. TypeOK /\ RowsTrue /\ BackupsTrue /\ SeqInLog
  BY DEF Base, Safe
<1>2. /\ TxSound(tx[n]) /\ pc[n] = "serving" /\ n \in Node
      /\ \A m \in Engine \ {n} : tx[m].pc = "idle"
      /\ tx[n].pc = "commit"
  BY OpenTx DEF CommitDeletion
<1>3. PICK k \in 1..Len(log) : k = tx[n].seq
  BY <1>1, <1>2 DEF SeqInLog
<1>4. /\ UNCHANGED <<stray, log, tail, checkpoint, backups, pc, applied, goal, lock, born>>
      /\ rows' = rows \ tx[n].del /\ wm' = k /\ done' = done \cup {k}
      /\ tx' = [tx EXCEPT ![n] = NoTx] /\ NoTx.pc = "idle"
  BY <1>3 DEF CommitDeletion, EndTx, NoTx, logVars, nodeVars
<1>5. /\ \A u \in User : gen[u] \subseteq gen'[u]
      /\ tx[n].gen \in gen'[tx[n].user] \cup {0}
  <2>1. gen \in [User -> SUBSET Nat] /\ tx[n].user \in User
    BY <1>1, TxFields DEF TypeOK
  <2>2. CASE tx[n].scope = "session"
    <3>1. gen' = gen
      BY <2>1, <2>2 DEF CommitDeletion
    <3>2. tx[n].gen \in gen[tx[n].user] \cup {0}
      BY <1>2, <2>2 DEF TxSound
    <3> QED
      BY <3>1, <3>2
  <2>3. CASE tx[n].scope # "session"
    <3>1. gen' = [gen EXCEPT ![tx[n].user] = gen[tx[n].user] \cup {tx[n].gen}]
      BY <2>1, <2>3 DEF CommitDeletion
    <3> QED
      BY <2>1, <3>1
  <2> QED
    BY <2>2, <2>3
<1>6. \A s \in done : AppliedTo(rows, gen, stray, s)'
  <2>1. done \subseteq 1..Len(log)
    BY <1>1 DEF TypeOK
  <2>2. \A s \in done : AppliedTo(rows, gen, stray, s)
    BY <1>2 DEF Safe, ServingTrue
  <2> QED
    BY <1>1, <1>4, <1>5, <2>1, <2>2, AppliedKept
<1>7. AppliedTo(rows, gen, stray, k)'
  <2>1. log[k].user = tx[n].user /\ log[k].fps = tx[n].del /\ log[k].gen = tx[n].gen
    BY <1>2, <1>3 DEF TxSound
  <2> QED
    BY <1>4, <1>5, <2>1 DEF AppliedTo
<1>8. \A s \in done' : AppliedTo(rows, gen, stray, s)'
  BY <1>4, <1>6, <1>7
<1>9. WatermarkTrue' /\ ServingTrue' /\ CompareTrue' /\ ReplayTrue'
  BY <1>8 DEF WatermarkTrue, ServingTrue, CompareTrue, ReplayTrue
<1>10. BackupsTrue'
  <2>1. \A b \in backups : b.wm \in Nat /\ k > b.wm
    BY <1>1, <1>2, <1>3 DEF TxSound, TypeOK, Image
  <2>2. \A b \in backups : ~(k <= b.wm)
    BY <2>1
  <2> QED
    BY <1>1, <1>4, <2>2 DEF BackupsTrue, AppliedTo
<1>11. TxTrue'
  BY <1>1, <1>2, <1>4 DEF TxTrue, TypeOK
<1>12. RowsTrue'
  <2>1. wm' <= Len(log')
    BY <1>3, <1>4
  <2> QED
    BY <1>1, <1>4, <2>1 DEF RowsTrue
<1> QED
  BY <1>9, <1>10, <1>11, <1>12 DEF Safe

LEMMA DeletionSafe ==
  ASSUME Base, Safe, NEW n \in Engine, Deletion(n)
  PROVE  Safe'
<1>1. CASE DeadlockVictim(n)
  BY <1>1, EndTxSafe DEF DeadlockVictim
<1> QED
  BY <1>1, ReadGenerationSafe, InsertGenerationSafe, GenerationConflictSafe,
     AppendLogSafe, AdvanceWatermarkSafe, CommitDeletionSafe DEF Deletion

LEMMA AbortDeletionSafe ==
  ASSUME Base, Safe, NEW n \in Engine, AbortDeletion(n)
  PROVE  Safe'
BY EndTxSafe DEF AbortDeletion

LEMMA ReconcileSafe ==
  ASSUME Exclusive, Base, Safe, NEW n \in Node, Reconcile(n)
  PROVE  Safe'
BY ReadWatermarkSafe, ComparedSafe, TakeLockSafe, ReadAgainSafe, ApplyEntrySafe,
   ReplayConflictSafe, FinishReplaySafe DEF Reconcile

LEMMA CrashSafe ==
  ASSUME Base, Safe, NEW n \in Node, Crash(n)
  PROVE  Safe'
<1>1. TypeOK
  BY DEF Base
<1>2. /\ UNCHANGED <<rows, gen, stray, wm, log, checkpoint, backups, born, done, misplaced>>
      /\ pc' = [pc EXCEPT ![n] = "down"]
      /\ \A m \in Node : m # n => applied'[m] = applied[m] /\ goal'[m] = goal[m]
      /\ tx' = IF n \in Engine THEN [tx EXCEPT ![n] = NoTx] ELSE tx
  BY <1>1 DEF Crash, Leave, Goto, db, history, logVars, TypeOK
<1>3. \A m \in Engine : tx'[m] = tx[m] \/ tx'[m].pc = "idle"
  <2>1. NoTx.pc = "idle"
    BY DEF NoTx
  <2> QED
    BY <1>1, <1>2, <2>1 DEF TypeOK
<1>4. \A s \in done : AppliedTo(rows, gen, stray, s) => AppliedTo(rows, gen, stray, s)'
  BY <1>2 DEF AppliedTo
<1>5. WatermarkTrue' /\ BackupsTrue' /\ RowsTrue'
  BY <1>2 DEF Safe, WatermarkTrue, BackupsTrue, RowsTrue, AppliedTo
<1>6. ServingTrue' /\ CompareTrue'
  BY <1>1, <1>2, <1>4 DEF Safe, ServingTrue, CompareTrue, TypeOK
<1>7. ReplayTrue'
  BY <1>1, <1>2, <1>4 DEF Safe, ReplayTrue, TypeOK
<1>8. TxTrue'
  BY <1>2, <1>3 DEF Safe, TxTrue, TxSound
<1> QED
  BY <1>5, <1>6, <1>7, <1>8 DEF Safe

\* A backup keeps what its watermark promises.
LEMMA BackupSafe == ASSUME Base, Safe, Backup PROVE Safe'
<1>1. /\ UNCHANGED <<rows, gen, stray, wm, log, checkpoint, pc, applied, goal, tx, born, done, misplaced>>
      /\ backups' = backups \cup {[rows |-> rows, gen |-> gen, stray |-> stray, wm |-> wm]}
  BY DEF Backup, db, history, logVars, nodeVars
<1>2. WatermarkTrue' /\ ServingTrue' /\ CompareTrue' /\ ReplayTrue'
  BY <1>1 DEF Safe, WatermarkTrue, ServingTrue, CompareTrue, ReplayTrue, AppliedTo
<1>3. BackupsTrue'
  BY <1>1 DEF Safe, WatermarkTrue, BackupsTrue, AppliedTo
<1>4. RowsTrue'
  BY <1>1 DEF Safe, RowsTrue
<1>5. TxTrue'
  BY <1>1 DEF Safe, TxTrue, TxSound
<1> QED
  BY <1>2, <1>3, <1>4, <1>5 DEF Safe

\* What a backup promised, the restored database keeps.
LEMMA RestoreSafe ==
  ASSUME Base, Safe, NEW b \in backups, Restore(b)
  PROVE  Safe'
<1>1. /\ UNCHANGED <<log, checkpoint, backups, pc, applied, goal, tx, born, done, misplaced>>
      /\ \A n \in Node : pc[n] = "down"
      /\ rows' = b.rows /\ gen' = b.gen /\ stray' = b.stray /\ wm' = b.wm
  BY DEF Restore, AllDown, logVars, history, nodeVars
<1>2. \A n \in Engine : tx[n].pc = "idle"
  BY <1>1 DEF Base, TxServing, Node
<1>3. WatermarkTrue' /\ BackupsTrue'
  BY <1>1 DEF Safe, WatermarkTrue, BackupsTrue, AppliedTo
<1>4. ServingTrue' /\ CompareTrue' /\ ReplayTrue' /\ TxTrue'
  BY <1>1, <1>2 DEF ServingTrue, CompareTrue, ReplayTrue, TxTrue
<1>5. RowsTrue'
  BY <1>1 DEF Safe, RowsTrue
<1> QED
  BY <1>3, <1>4, <1>5 DEF Safe

LEMMA PruneSafe ==
  ASSUME ~PruneDuringReplay, Base, Safe, NEW s \in 1..MaxLog, Prune(s)
  PROVE  Safe'
<1>1. /\ UNCHANGED <<rows, gen, stray, wm, log, backups, pc, applied, goal, tx, born, done, misplaced>>
      /\ \A n \in Node : pc[n] \notin {"locked", "apply"}
  BY DEF Prune, db, history, nodeVars
<1>2. WatermarkTrue' /\ BackupsTrue' /\ ServingTrue' /\ CompareTrue' /\ RowsTrue' /\ TxTrue'
  BY <1>1 DEF Safe, WatermarkTrue, BackupsTrue, ServingTrue, CompareTrue, RowsTrue,
     TxTrue, TxSound, AppliedTo
<1>3. ReplayTrue'
  BY <1>1 DEF ReplayTrue
<1> QED
  BY <1>2, <1>3 DEF Safe

\* The length of the log on disk matters to nobody who is down.
LEMMA LogCopySafe ==
  ASSUME Base, Safe, UNCHANGED <<rows, gen, stray, wm, log, checkpoint, backups, pc, applied,
                                 goal, tx, born, done, misplaced>>
  PROVE  Safe'
BY DEF Safe, WatermarkTrue, BackupsTrue, ServingTrue, CompareTrue, ReplayTrue, RowsTrue,
   TxTrue, TxSound, AppliedTo

\* Safe is inductive relative to Base.
LEMMA NextSafe ==
  ASSUME Exclusive, ~PruneDuringReplay, Base, Safe, [Next]_vars
  PROVE  Safe'
<1>1. CASE UNCHANGED vars
  BY <1>1, LogCopySafe DEF vars
<1>2. \A k \in 0..MaxLog : LoseLogTail(k) => Safe'
  BY LogCopySafe DEF LoseLogTail, db, history, nodeVars
<1>3. RecoverLog => Safe'
  BY LogCopySafe DEF RecoverLog, db, history, nodeVars
<1>4. Operator => Safe'
  BY <1>2, <1>3, BackupSafe, RestoreSafe, PruneSafe DEF Operator
<1>5. CASE Next
  BY <1>4, <1>5, NextCases, ObserveSafe, BeginDeletionSafe, DeletionSafe,
     AbortDeletionSafe, StartCheckSafe, ReconcileSafe, CrashSafe
<1> QED
  BY <1>1, <1>5

\* While one transaction writes at a time and no compaction crosses a replay, the
\* watermark never claims a deletion that its copy of the rows has not had.
THEOREM SafeInvariant ==
  ASSUME Exclusive, ~PruneDuringReplay
  PROVE  Spec => []Safe
<1>1. Base /\ Safe /\ [Next]_vars => Safe'
  BY NextSafe
<1> QED
  BY BaseInvariant, InitSafe, <1>1, PTL DEF Spec

\* Deleted memory cannot come back: with one writer at a time, and a log that
\* is not compacted under a replay's feet.
THEOREM DeletedStaysDeleted ==
  ASSUME Exclusive, ~PruneDuringReplay
  PROVE  Spec => []NoResurrection
<1>1. Safe => NoResurrection
  BY DEF Safe, ServingTrue, NoResurrection, AppliedTo
<1> QED
  BY SafeInvariant, <1>1, PTL

\* Whoever is served finds the generation of every deletion that is done in the database, under
\* its user or, where a worker has replayed the entry, under no tenant.
THEOREM GenerationsSurvive ==
  ASSUME Exclusive, ~PruneDuringReplay
  PROVE  Spec => []GenerationSurvivesRestore
<1>1. Safe => GenerationSurvivesRestore
  BY DEF Safe, ServingTrue, GenerationSurvivesRestore, AppliedTo
<1> QED
  BY SafeInvariant, <1>1, PTL

\* What a backup still holds of a deletion lies above the backup's watermark.
THEOREM BackupsHonest ==
  ASSUME Exclusive, ~PruneDuringReplay
  PROVE  Spec => []BackupsAreHonest
<1>1. Safe => BackupsAreHonest
  BY DEF Safe, BackupsTrue, BackupsAreHonest, AppliedTo
<1> QED
  BY SafeInvariant, <1>1, PTL

-----------------------------------------------------------------------------
(* Generations.  A deletion that advances the generation holds one its user    *)
(* does not have yet from the insert of the key on, and the key lets one       *)
(* deletion hold it.  The generations of the deletions that are done must then *)
(* be among those a serving process finds, or known to be misplaced: one       *)
(* writer at a time gives it (Safe), or a database that is never restored.     *)

Holds(n) == tx[n].pc \in {"log", "wm", "commit"} /\ tx[n].scope # "session"

TxCounted(n) ==
  /\ tx[n].pc = "insert" => tx[n].gen > 0
  /\ Holds(n) => tx[n].gen > 0 /\ tx[n].gen \notin gen[tx[n].user]
  /\ tx[n].pc \in {"wm", "commit"} =>
       /\ log[tx[n].seq].scope = tx[n].scope /\ log[tx[n].seq].user = tx[n].user
       /\ log[tx[n].seq].gen = tx[n].gen
       /\ tx[n].scope = "session" => tx[n].gen \in gen[tx[n].user] \cup {0}

Alone ==
  \A n, m \in Engine : n # m /\ Holds(n) /\ Holds(m) =>
    tx[n].user # tx[m].user \/ tx[n].gen # tx[m].gen

\* Without a restore no generation of a deletion that is done is missing.
NeverRestored ==
  MaxBackups = 0 =>
    /\ backups = {}
    /\ \A s \in done : log[s].gen \in gen[log[s].user] \cup {0}

\* No row under the empty tenant is forgotten.
StrayKnown == stray \subseteq misplaced /\ \A b \in backups : b.stray \subseteq misplaced

Counted == (\A n \in Engine : TxCounted(n)) /\ Alone /\ NeverRestored /\ StrayKnown
           /\ GenerationsAreUnique

\* The generations a serving engine finds.
LEMMA ServedGenerations ==
  ASSUME Base, Counted, (Exclusive /\ Safe) \/ MaxBackups = 0, NEW n \in Node, pc[n] = "serving"
  PROVE  \A s \in done : \/ log[s].gen \in gen[log[s].user] \cup {0}
                         \/ <<log[s].user, log[s].gen>> \in misplaced
<1>1. CASE Exclusive /\ Safe
  BY <1>1 DEF Safe, ServingTrue, AppliedTo, Counted, StrayKnown
<1>2. CASE MaxBackups = 0
  BY <1>2 DEF Counted, NeverRestored
<1> QED
  BY <1>1, <1>2

LEMMA InitCounted == Init => Counted
<1> SUFFICES ASSUME Init PROVE Counted
  OBVIOUS
<1>1. \A n \in Engine : tx[n].pc = "idle"
  BY DEF Init, NoTx
<1>2. log = <<>> /\ done = {} /\ backups = {} /\ stray = {}
  BY DEF Init
<1> QED
  BY <1>1, <1>2 DEF Counted, TxCounted, Holds, Alone, NeverRestored, StrayKnown,
     GenerationsAreUnique

\* A step that leaves transactions, generations and the log alone.
LEMMA SameCounted ==
  ASSUME Counted, UNCHANGED <<gen, stray, misplaced, log, tx, done, backups>>
  PROVE  Counted'
  BY DEF Counted, TxCounted, Holds, Alone, NeverRestored, StrayKnown, GenerationsAreUnique

\* A step of transaction n that leaves generations and the log alone.
LEMMA TxStepCounted ==
  ASSUME Base, Counted, NEW n \in Engine, NEW t, tx' = [tx EXCEPT ![n] = t],
         UNCHANGED <<gen, stray, misplaced, log, backups, done>>,
         t.pc = "insert" => t.gen > 0,
         t.pc \in {"log", "wm", "commit"} /\ t.scope # "session" =>
           /\ t.gen > 0 /\ t.gen \notin gen[t.user]
           /\ \A m \in Engine \ {n} : Holds(m) => tx[m].user # t.user \/ tx[m].gen # t.gen,
         t.pc \in {"wm", "commit"} =>
           /\ log[t.seq].scope = t.scope /\ log[t.seq].user = t.user /\ log[t.seq].gen = t.gen
           /\ t.scope = "session" => t.gen \in gen[t.user] \cup {0}
  PROVE  Counted'
<1>1. \A m \in Engine : tx'[m] = IF m = n THEN t ELSE tx[m]
  BY DEF Base, TypeOK
<1>2. \A m \in Engine : TxCounted(m)'
  <2> SUFFICES ASSUME NEW m \in Engine PROVE TxCounted(m)'
    OBVIOUS
  <2>1. CASE m = n
    BY <1>1, <2>1 DEF TxCounted, Holds
  <2>2. CASE m # n
    BY <1>1, <2>2 DEF Counted, TxCounted, Holds
  <2> QED
    BY <2>1, <2>2
<1>3. Alone'
  <2> SUFFICES ASSUME NEW p \in Engine, NEW m \in Engine, p # m, Holds(p)', Holds(m)'
               PROVE  tx'[p].user # tx'[m].user \/ tx'[p].gen # tx'[m].gen
    BY DEF Alone
  <2>1. CASE p = n
    BY <1>1, <2>1 DEF Holds
  <2>2. CASE m = n
    BY <1>1, <2>2 DEF Holds
  <2>3. CASE p # n /\ m # n
    BY <1>1, <2>3 DEF Counted, Alone, Holds
  <2> QED
    BY <2>1, <2>2, <2>3
<1>4. NeverRestored' /\ StrayKnown' /\ GenerationsAreUnique'
  BY DEF Counted, NeverRestored, StrayKnown, GenerationsAreUnique
<1> QED
  BY <1>2, <1>3, <1>4 DEF Counted

LEMMA EndTxCounted ==
  ASSUME Base, Counted, NEW n \in Engine, EndTx(n),
         UNCHANGED <<gen, stray, misplaced, log, backups, done>>
  PROVE  Counted'
<1>1. NoTx.pc = "idle"
  BY DEF NoTx
<1> QED
  BY <1>1, TxStepCounted DEF EndTx

LEMMA BeginDeletionCounted ==
  ASSUME Base, Counted, NEW n \in Engine, NEW scope \in Scope, NEW u \in User,
         BeginDeletion(n, scope, u)
  PROVE  Counted'
<1>1. PICK fps : tx' = [tx EXCEPT ![n] =
            [pc |-> IF scope = "session" THEN "log" ELSE "gen", scope |-> scope,
             user |-> u, fps |-> fps, del |-> fps, gen |-> 0, seq |-> 0]]
  BY DEF BeginDeletion
<1>2. UNCHANGED <<gen, stray, misplaced, log, backups, done>>
  BY DEF BeginDeletion, db, history, logVars
<1> DEFINE t == [pc |-> IF scope = "session" THEN "log" ELSE "gen", scope |-> scope,
                 user |-> u, fps |-> fps, del |-> fps, gen |-> 0, seq |-> 0]
<1>3. t.pc \in {"log", "gen"} /\ t.scope = scope /\ (t.pc = "log" => t.scope = "session")
  OBVIOUS
<1> HIDE DEF t
<1> QED
  BY <1>1, <1>2, <1>3, TxStepCounted DEF t

LEMMA ReadGenerationCounted ==
  ASSUME Base, Counted, NEW n \in Engine, ReadGeneration(n)
  PROVE  Counted'
<1>1. TypeOK
  BY DEF Base
<1>2. PICK g : /\ Latest(tx[n].user, g)
               /\ tx' = [tx EXCEPT ![n].pc = "insert", ![n].gen = g + 1]
  BY DEF ReadGeneration
<1> DEFINE t == [tx[n] EXCEPT !.pc = "insert", !.gen = g + 1]
<1>3. t.pc = "insert" /\ t.gen = g + 1
  BY <1>1, TxFields DEF Tx
<1>4. tx' = [tx EXCEPT ![n] = t]
  BY <1>1, <1>2 DEF TypeOK
<1>5. UNCHANGED <<gen, stray, misplaced, log, backups, done>>
  BY DEF ReadGeneration, db, history, logVars
<1>6. t.gen > 0
  BY <1>1, <1>2, <1>3, NextGeneration
<1> HIDE DEF t
<1> QED
  BY <1>3, <1>4, <1>5, <1>6, TxStepCounted

LEMMA InsertGenerationCounted ==
  ASSUME Base, Counted, NEW n \in Engine, InsertGeneration(n)
  PROVE  Counted'
<1>1. TypeOK
  BY DEF Base
<1> DEFINE t == [tx[n] EXCEPT !.pc = "log"]
<1>2. t.pc = "log" /\ t.gen = tx[n].gen /\ t.user = tx[n].user /\ t.scope = tx[n].scope
  BY <1>1, TxFields DEF Tx
<1>3. tx' = [tx EXCEPT ![n] = t]
  BY <1>1 DEF InsertGeneration, TypeOK
<1>4. UNCHANGED <<gen, stray, misplaced, log, backups, done>>
  BY DEF InsertGeneration, db, history, logVars
<1>5. tx[n].gen > 0 /\ tx[n].gen \notin gen[tx[n].user]
  BY DEF Counted, TxCounted, InsertGeneration
<1>6. \A m \in Engine \ {n} : Holds(m) => tx[m].user # tx[n].user \/ tx[m].gen # tx[n].gen
  <2> SUFFICES ASSUME NEW m \in Engine \ {n}, Holds(m), tx[m].user = tx[n].user,
                      tx[m].gen = tx[n].gen
               PROVE  FALSE
    OBVIOUS
  <2>1. m \in Active \ {n}
    BY DEF Holds, Active
  <2>2. HoldsGeneration(m, tx[n].user, tx[n].gen)
    BY DEF Holds, HoldsGeneration
  <2> QED
    BY <2>1, <2>2 DEF InsertGeneration
<1> HIDE DEF t
<1> QED
  BY <1>2, <1>3, <1>4, <1>5, <1>6, TxStepCounted

LEMMA GenerationConflictCounted ==
  ASSUME Base, Counted, NEW n \in Engine, GenerationConflict(n)
  PROVE  Counted'
<1>1. TypeOK
  BY DEF Base
<1>2. UNCHANGED <<gen, stray, misplaced, log, backups, done>>
  BY DEF GenerationConflict, db, history, logVars
<1>3. CASE tx[n].scope = "belief"
  BY <1>2, <1>3, EndTxCounted DEF GenerationConflict
<1>4. CASE tx[n].scope # "belief"
  <2> DEFINE t == [tx[n] EXCEPT !.pc = "gen", !.del = {}, !.gen = 0]
  <2>1. t.pc = "gen"
    BY <1>1, TxFields DEF Tx
  <2>2. tx' = [tx EXCEPT ![n] = t]
    BY <1>1, <1>4 DEF GenerationConflict, TypeOK
  <2> HIDE DEF t
  <2> QED
    BY <1>2, <2>1, <2>2, TxStepCounted
<1> QED
  BY <1>3, <1>4

LEMMA AdvanceWatermarkCounted ==
  ASSUME Base, Counted, NEW n \in Engine, AdvanceWatermark(n)
  PROVE  Counted'
<1>1. TypeOK
  BY DEF Base
<1> DEFINE t == [tx[n] EXCEPT !.pc = "commit"]
<1>2. /\ t.pc = "commit" /\ t.gen = tx[n].gen /\ t.user = tx[n].user /\ t.scope = tx[n].scope
      /\ t.seq = tx[n].seq
  BY <1>1, TxFields DEF Tx
<1>3. tx' = [tx EXCEPT ![n] = t] /\ tx[n].pc = "wm"
  BY <1>1 DEF AdvanceWatermark, TypeOK
<1>4. UNCHANGED <<gen, stray, misplaced, log, backups, done>>
  BY DEF AdvanceWatermark, db, history, logVars
<1>5. TxCounted(n) /\ (tx[n].scope # "session" => Holds(n))
  BY <1>3 DEF Counted, Holds
<1>6. \A m \in Engine \ {n} : Holds(n) /\ Holds(m) =>
        tx[m].user # tx[n].user \/ tx[m].gen # tx[n].gen
  BY DEF Counted, Alone
<1> HIDE DEF t
<1> QED
  BY <1>2, <1>3, <1>4, <1>5, <1>6, TxStepCounted DEF TxCounted

\* The log grows by the entry of the transaction.
LEMMA AppendLogCounted ==
  ASSUME Base, Counted, NEW n \in Engine, AppendLog(n)
  PROVE  Counted'
<1>1. TypeOK /\ SeqInLog
  BY DEF Base
<1>2. PICK g \in Nat, e \in Entry :
           /\ IF tx[n].scope = "session" THEN g \in gen[tx[n].user] \cup {0}
                                        ELSE g = tx[n].gen
           /\ e = [scope |-> tx[n].scope, user |-> tx[n].user, fps |-> tx[n].fps, gen |-> g]
           /\ log' = Append(log, e)
           /\ tail = Len(log)
           /\ tx' = [tx EXCEPT ![n] = [tx[n] EXCEPT !.pc = "wm", !.gen = g, !.seq = tail + 1]]
  BY ZenonT(60), AppendLogStep
<1> DEFINE t == [tx[n] EXCEPT !.pc = "wm", !.gen = g, !.seq = tail + 1]
<1>3. /\ t.pc = "wm" /\ t.gen = g /\ t.seq = tail + 1 /\ t.user = tx[n].user /\ t.scope = tx[n].scope
  <2>1. tx[n] \in Tx
    BY <1>1 DEF TypeOK
  <2> QED
    BY <2>1 DEF Tx
<1>4. \A m \in Engine : tx'[m] = IF m = n THEN t ELSE tx[m]
  BY <1>1, <1>2 DEF TypeOK
<1>5. UNCHANGED <<gen, stray, misplaced, backups, done>> /\ tx[n].pc = "log"
  BY DEF AppendLog, db, history
<1>6. log \in Seq(Entry) /\ Len(log) \in Nat
  BY <1>1 DEF TypeOK
<1>7. (\A s \in 1..Len(log) : log'[s] = log[s]) /\ log'[tail + 1] = e
  BY <1>2, <1>6
<1>8. /\ e.scope = tx[n].scope /\ e.user = tx[n].user /\ e.gen = g
      /\ tx[n].scope # "session" =>
           Holds(n) /\ g = tx[n].gen /\ g > 0 /\ g \notin gen[tx[n].user]
      /\ tx[n].scope = "session" => g \in gen[tx[n].user] \cup {0}
  <2>1. tx[n].scope # "session" => Holds(n)
    BY <1>5 DEF Holds
  <2>2. tx[n].scope # "session" => tx[n].gen > 0 /\ tx[n].gen \notin gen[tx[n].user]
    BY <2>1 DEF Counted, TxCounted
  <2>3. e.scope = tx[n].scope /\ e.user = tx[n].user /\ e.gen = g
    BY <1>2
  <2> QED
    BY <1>2, <2>1, <2>2, <2>3
<1> HIDE DEF t
<1>9. \A m \in Engine : TxCounted(m)'
  <2> SUFFICES ASSUME NEW m \in Engine PROVE TxCounted(m)'
    OBVIOUS
  <2>1. CASE m = n
    BY <1>3, <1>4, <1>5, <1>7, <1>8, <2>1 DEF TxCounted, Holds
  <2>2. CASE m # n
    <3>1. tx[m].pc \in {"wm", "commit"} => tx[m].seq \in 1..Len(log)
      BY <1>1 DEF SeqInLog
    <3>2. tx[m].pc \in {"wm", "commit"} => log'[tx[m].seq] = log[tx[m].seq]
      BY <1>7, <3>1
    <3> QED
      BY <1>4, <1>5, <2>2, <3>2 DEF Counted, TxCounted, Holds
  <2> QED
    BY <2>1, <2>2
<1>10. Alone'
  <2>1. \A m \in Engine : Holds(m)' => /\ Holds(m) /\ tx'[m].user = tx[m].user
                                       /\ tx'[m].gen = tx[m].gen
    <3> SUFFICES ASSUME NEW m \in Engine, Holds(m)'
                 PROVE  Holds(m) /\ tx'[m].user = tx[m].user /\ tx'[m].gen = tx[m].gen
      OBVIOUS
    <3>1. CASE m = n
      BY <1>3, <1>4, <1>8, <3>1 DEF Holds
    <3>2. CASE m # n
      BY <1>4, <3>2 DEF Holds
    <3> QED
      BY <3>1, <3>2
  <2> QED
    BY <2>1 DEF Counted, Alone
<1>11. done \subseteq 1..Len(log)
  BY <1>1 DEF TypeOK
<1>12. NeverRestored' /\ StrayKnown'
  BY <1>5, <1>7, <1>11 DEF Counted, NeverRestored, StrayKnown
<1>13. GenerationsAreUnique'
  BY <1>5, <1>7, <1>11 DEF Counted, GenerationsAreUnique
<1> QED
  BY <1>9, <1>10, <1>12, <1>13 DEF Counted

\* The deletion that commits holds a generation its user does not have yet, alone.
LEMMA CommitDeletionCounted ==
  ASSUME Base, Counted, (Exclusive /\ Safe) \/ MaxBackups = 0, NEW n \in Engine, CommitDeletion(n)
  PROVE  Counted'
<1>1. TypeOK /\ SeqInLog
  BY DEF Base
<1>2. tx[n].pc = "commit" /\ pc[n] = "serving" /\ n \in Node /\ tx[n].seq \in 1..Len(log)
  BY <1>1 DEF Base, TxServing, SeqInLog, CommitDeletion, Node
<1> DEFINE u == tx[n].user
           k == tx[n].seq
<1>3. /\ UNCHANGED <<stray, misplaced, log, backups>> /\ done' = done \cup {k}
      /\ tx' = [tx EXCEPT ![n] = NoTx] /\ NoTx.pc = "idle"
      /\ gen' = [gen EXCEPT ![u] =
                   IF tx[n].scope = "session" THEN @ ELSE @ \cup {tx[n].gen}]
  BY DEF CommitDeletion, EndTx, logVars, NoTx
<1>4. u \in User /\ gen \in [User -> SUBSET Nat] /\ tx[n].gen \in Nat
  BY <1>1, TxFields DEF TypeOK
<1>5. /\ log[k].scope = tx[n].scope /\ log[k].user = u /\ log[k].gen = tx[n].gen
      /\ tx[n].scope = "session" => tx[n].gen \in gen[u] \cup {0}
      /\ tx[n].scope # "session" => Holds(n) /\ tx[n].gen > 0 /\ tx[n].gen \notin gen[u]
  BY <1>2 DEF Counted, TxCounted, Holds
<1>6. \A v \in User : gen'[v] =
        IF v = u /\ tx[n].scope # "session" THEN gen[v] \cup {tx[n].gen} ELSE gen[v]
  BY <1>3, <1>4
<1>7. \A m \in Engine : tx'[m] = IF m = n THEN NoTx ELSE tx[m]
  BY <1>1, <1>3 DEF TypeOK
<1>8. \A s \in done : \/ log[s].gen \in gen[log[s].user] \cup {0}
                      \/ <<log[s].user, log[s].gen>> \in misplaced
  BY <1>2, ServedGenerations
<1>9. done \subseteq 1..Len(log) /\ \A s \in 1..Len(log) : log[s].user \in User
  <2>1. log \in Seq(Entry) /\ done \subseteq 1..Len(log)
    BY <1>1 DEF TypeOK
  <2>2. \A s \in 1..Len(log) : log[s] \in Entry
    BY <2>1
  <2> QED
    BY <2>1, <2>2 DEF Entry
<1> HIDE DEF u, k
<1>10. \A m \in Engine : TxCounted(m)'
  <2> SUFFICES ASSUME NEW m \in Engine PROVE TxCounted(m)'
    OBVIOUS
  <2>1. CASE m = n
    BY <1>3, <1>7, <2>1 DEF TxCounted, Holds
  <2>2. CASE m # n
    <3>1. tx'[m] = tx[m] /\ tx[m].user \in User /\ TxCounted(m)
      BY <1>1, <1>7, <2>2, TxFields DEF Counted
    <3>2. gen[tx[m].user] \subseteq gen'[tx[m].user]
      BY <1>6, <3>1
    <3>3. ASSUME Holds(m) PROVE tx[m].gen \notin gen'[tx[m].user]
      <4>1. tx[m].gen \notin gen[tx[m].user]
        BY <3>1, <3>3 DEF TxCounted
      <4>2. tx[m].user = u /\ tx[n].scope # "session" => tx[m].gen # tx[n].gen
        BY <1>5, <2>2, <3>3 DEF Counted, Alone, u
      <4> QED
        BY <1>6, <3>1, <4>1, <4>2
    <3>4. Holds(m)' <=> Holds(m)
      BY <3>1 DEF Holds
    <3> QED
      BY <1>3, <3>1, <3>2, <3>3, <3>4 DEF TxCounted
  <2> QED
    BY <2>1, <2>2
<1>11. Alone'
  <2>1. \A m \in Engine : Holds(m)' => Holds(m) /\ tx'[m] = tx[m]
    BY <1>3, <1>7 DEF Holds
  <2> QED
    BY <2>1 DEF Counted, Alone
<1>12. NeverRestored'
  <2> SUFFICES ASSUME MaxBackups = 0
               PROVE  /\ backups = {}
                      /\ \A s \in done' : log[s].gen \in gen'[log[s].user] \cup {0}
    BY <1>3 DEF NeverRestored
  <2>1. backups = {} /\ \A s \in done : log[s].gen \in gen[log[s].user] \cup {0}
    BY DEF Counted, NeverRestored
  <2>2. \A s \in done : log[s].gen \in gen'[log[s].user] \cup {0}
    BY <1>6, <1>9, <2>1
  <2>3. log[k].gen \in gen'[log[k].user] \cup {0}
    BY <1>4, <1>5, <1>6
  <2> QED
    BY <1>3, <2>1, <2>2, <2>3
<1>13. StrayKnown'
  BY <1>3 DEF Counted, StrayKnown
<1>14. GenerationsAreUnique'
  <2>1. ASSUME NEW s \in done, log[s].user = u, tx[n].scope # "session", log[s].gen = tx[n].gen
        PROVE  <<u, tx[n].gen>> \in misplaced
    <3>1. log[s].gen \notin gen[u] /\ log[s].gen # 0
      BY <1>4, <1>5, <2>1
    <3> QED
      BY <1>8, <2>1, <3>1
  <2> SUFFICES ASSUME NEW s \in done', NEW r \in done', s # r, log[s].user = log[r].user,
                      log[s].scope # "session", log[r].scope # "session",
                      log[s].gen = log[r].gen
               PROVE  <<log[s].user, log[s].gen>> \in misplaced
    BY <1>3 DEF GenerationsAreUnique
  <2>2. CASE s \in done /\ r \in done
    BY <2>2 DEF Counted, GenerationsAreUnique
  <2>3. CASE s = k /\ r \in done
    BY <1>5, <2>1, <2>3
  <2>4. CASE r = k /\ s \in done
    BY <1>5, <2>1, <2>4
  <2> QED
    BY <1>3, <2>2, <2>3, <2>4
<1> QED
  BY <1>10, <1>11, <1>12, <1>13, <1>14 DEF Counted

\* An engine's replay adds no generation that is held: it waits for the transaction that
\* holds it.  A worker's adds none that a request could find.
LEMMA ApplyEntryCounted ==
  ASSUME Base, Counted, NEW n \in Node, ApplyEntry(n)
  PROVE  Counted'
<1>1. TypeOK
  BY DEF Base
<1> DEFINE e == NextEntry(n)
<1>2. /\ UNCHANGED <<log, backups, tx, done>>
      /\ gen' = GenerationsAfter(n, e) /\ MayApply(n, e)
      /\ stray' = stray \cup Strayed(n, e) /\ misplaced' = misplaced \cup Strayed(n, e)
  BY DEF ApplyEntry, logVars
<1>3. e \in Entry
  BY NextEntryInLog DEF ApplyEntry
<1> HIDE DEF e
<1>4. /\ \A u \in User : gen[u] \subseteq gen'[u]
      /\ \A u \in User : \A g \in gen'[u] :
           g \in gen[u] \/ (n \in Engine /\ u = e.user /\ g = e.gen)
  <2>1. /\ \A u \in User : gen[u] \subseteq GenerationsAfter(n, e)[u]
        /\ \A u \in User : \A g \in GenerationsAfter(n, e)[u] :
             g \in gen[u] \/ (n \in Engine /\ u = e.user /\ g = e.gen)
    BY <1>1, <1>3, ReplayedGenerations, Zenon
  <2> QED
    BY <1>2, <2>1
<1>5. \A m \in Engine : TxCounted(m)'
  <2> SUFFICES ASSUME NEW m \in Engine PROVE TxCounted(m)'
    OBVIOUS
  <2>1. tx[m].user \in User /\ TxCounted(m) /\ (Holds(m)' <=> Holds(m))
    BY <1>1, <1>2, TxFields DEF Counted, Holds
  <2>2. ASSUME Holds(m) PROVE tx[m].gen \notin gen'[tx[m].user]
    <3>1. tx[m].gen \notin gen[tx[m].user]
      BY <2>1, <2>2 DEF TxCounted
    <3>2. m \in Active
      BY <2>2 DEF Holds, Active
    <3>3. n \in Engine => tx[m].user # e.user \/ tx[m].gen # e.gen
      BY <1>2, <2>2, <3>2 DEF MayApply, HoldsGeneration, Holds
    <3> QED
      BY <1>4, <2>1, <3>1, <3>3
  <2>3. gen[tx[m].user] \subseteq gen'[tx[m].user]
    BY <1>4, <2>1
  <2> QED
    BY <1>2, <2>1, <2>2, <2>3 DEF TxCounted
<1>6. Alone'
  BY <1>2 DEF Counted, Alone, Holds
<1>7. NeverRestored'
  <2>1. \A s \in done : log[s].user \in User
    <3>1. done \subseteq 1..Len(log) /\ log \in Seq(Entry)
      BY <1>1 DEF TypeOK
    <3>2. \A s \in done : log[s] \in Entry
      BY <3>1
    <3> QED
      BY <3>2 DEF Entry
  <2> QED
    BY <1>2, <1>4, <2>1 DEF Counted, NeverRestored
<1>8. StrayKnown'
  BY <1>2 DEF Counted, StrayKnown
<1>9. GenerationsAreUnique'
  BY <1>2 DEF Counted, GenerationsAreUnique
<1> QED
  BY <1>5, <1>6, <1>7, <1>8, <1>9 DEF Counted

\* A process that stops, and a database that is restored.
LEMMA CrashCounted ==
  ASSUME Base, Counted, NEW n \in Node, Crash(n)
  PROVE  Counted'
<1>1. UNCHANGED <<gen, stray, misplaced, log, backups, done>>
  BY DEF Crash, db, history, logVars
<1>2. CASE n \in Engine
  BY <1>1, <1>2, EndTxCounted DEF Crash, EndTx
<1>3. CASE n \notin Engine
  BY <1>1, <1>3, SameCounted DEF Crash
<1> QED
  BY <1>2, <1>3

LEMMA OperatorCounted ==
  ASSUME Base, Counted, Operator
  PROVE  Counted'
<1>1. CASE Backup
  <2>1. UNCHANGED <<gen, stray, misplaced, log, tx, done>>
    BY <1>1 DEF Backup, db, history, logVars
  <2>2. MaxBackups # 0
    <3>1. CASE MaxBackups = 0
      <4>1. backups = {}
        BY <3>1 DEF Counted, NeverRestored
      <4>2. Cardinality(backups) = 0
        BY <4>1, FS_EmptySet
      <4> QED
        BY <1>1, <3>1, <4>2 DEF Backup
    <3> QED
      BY <3>1
  <2>3. \A b \in backups' : b \in backups \/ b.stray = stray
    BY <1>1 DEF Backup
  <2>4. StrayKnown'
    BY <2>1, <2>3 DEF Counted, StrayKnown
  <2> QED
    BY <2>1, <2>2, <2>4 DEF Counted, TxCounted, Holds, Alone, NeverRestored,
       GenerationsAreUnique
<1>2. ASSUME NEW b \in backups, Restore(b) PROVE Counted'
  <2>1. MaxBackups # 0
    BY DEF Counted, NeverRestored
  <2>2. \A m \in Engine : tx[m].pc = "idle"
    BY <1>2 DEF Base, TxServing, Restore, AllDown, Node
  <2>3. UNCHANGED <<misplaced, log, tx, done, backups>> /\ stray' = b.stray
    BY <1>2 DEF Restore, logVars, history
  <2>4. \A m \in Engine : TxCounted(m)' /\ ~ Holds(m)'
    BY <2>2, <2>3 DEF TxCounted, Holds
  <2>5. StrayKnown'
    BY <2>3 DEF Counted, StrayKnown
  <2> QED
    BY <2>1, <2>3, <2>4, <2>5 DEF Counted, Alone, NeverRestored, GenerationsAreUnique
<1>3. ASSUME NEW s, Prune(s) PROVE Counted'
  BY <1>3, SameCounted DEF Prune, db, history
<1>4. ASSUME NEW s, LoseLogTail(s) PROVE Counted'
  BY <1>4, SameCounted DEF LoseLogTail, db, history
<1>5. CASE RecoverLog
  BY <1>5, SameCounted DEF RecoverLog, db, history
<1> QED
  BY <1>1, <1>2, <1>3, <1>4, <1>5 DEF Operator

LEMMA NextCounted ==
  ASSUME Base, Counted, (Exclusive /\ Safe) \/ MaxBackups = 0, [Next]_vars
  PROVE  Counted'
<1>1. CASE UNCHANGED vars
  BY <1>1, SameCounted DEF vars
<1>2. ASSUME NEW n \in Engine, NEW r \in Row, Observe(n, r) PROVE Counted'
  BY <1>2, SameCounted DEF Observe, logVars, history
<1>3. ASSUME NEW n \in Engine, Deletion(n) PROVE Counted'
  <2>1. CASE DeadlockVictim(n)
    BY <2>1, EndTxCounted DEF DeadlockVictim, db, history, logVars
  <2> QED
    BY <1>3, <2>1, ReadGenerationCounted, InsertGenerationCounted, GenerationConflictCounted,
       AppendLogCounted, AdvanceWatermarkCounted, CommitDeletionCounted DEF Deletion
<1>4. ASSUME NEW n \in Engine, AbortDeletion(n) PROVE Counted'
  BY <1>4, EndTxCounted DEF AbortDeletion, db, history, logVars
<1>5. ASSUME NEW n \in Node, StartCheck(n) PROVE Counted'
  BY <1>5, SameCounted DEF StartCheck, db, history, logVars
<1>6. ASSUME NEW n \in Node, Reconcile(n) PROVE Counted'
  <2>1. CASE ApplyEntry(n)
    BY <2>1, ApplyEntryCounted
  <2>2. CASE ~ ApplyEntry(n)
    <3>1. UNCHANGED <<gen, stray, misplaced, log, tx, done, backups>>
      BY <1>6, <2>2 DEF Reconcile, ReadWatermark, Refuse, InSync, LockBusy, TakeLock, ReadAgain,
         ReplayConflict, FinishReplay, db, history, logVars
    <3> QED
      BY <3>1, SameCounted
  <2> QED
    BY <2>1, <2>2
<1>7. CASE Next
  BY <1>2, <1>3, <1>4, <1>5, <1>6, <1>7, NextCases, BeginDeletionCounted, CrashCounted,
     OperatorCounted
<1> QED
  BY <1>1, <1>7

\* No two acknowledged deletions of a user carry the same generation, unless a worker's replay
\* has put it where no request finds it, across concurrent requests, crashes, and restores of
\* a database that has one writer at a time (bump_deletion_generation).
THEOREM GenerationsNeverRepeat ==
  ASSUME Exclusive, ~PruneDuringReplay
  PROVE  Spec => []GenerationsAreUnique
<1>1. Base /\ Safe /\ Counted /\ [Next]_vars => Counted'
  BY NextCounted
<1>2. Counted => GenerationsAreUnique
  BY DEF Counted
<1> QED
  BY BaseInvariant, SafeInvariant, InitCounted, <1>1, <1>2, PTL DEF Spec

\* ... nor on a database that admits concurrent writers, as long as none of its backups is
\* restored: the primary key lets one deletion of a user hold a generation, and an engine's
\* replay waits for it.
THEOREM GenerationsNeverRepeatUnrestored ==
  ASSUME MaxBackups = 0
  PROVE  Spec => []GenerationsAreUnique
<1>1. Base /\ Counted /\ [Next]_vars => Counted'
  BY NextCounted
<1>2. Counted => GenerationsAreUnique
  BY DEF Counted
<1> QED
  BY BaseInvariant, InitCounted, <1>1, <1>2, PTL DEF Spec

-----------------------------------------------------------------------------
(* The refinement.  On a database that admits one write transaction at a time  *)
(* the step of each action is mapped to an abstract step of ForgettingPromise   *)
(* under Safe; the actions that leave the rows and the acknowledged deletions    *)
(* alone are mapped together.                                                  *)

AbstractStep == [Promise!Next]_(Promise!vars)

\* Nothing is shown that is gone, and every deleted row was born.
Kept == /\ Shown \cap Acknowledged = {}
        /\ rows \cup Acknowledged \subseteq born
        /\ born \subseteq Row

LEMMA SafeKept == ASSUME Base, Safe PROVE Kept
<1>1. Shown \cap Acknowledged = {}
  BY DEF Safe, ServingTrue, AppliedTo, Shown, SomeoneServes, Acknowledged
<1>2. \A s \in done : log[s].fps \subseteq born
  BY DEF Base, TypeOK, Safe, RowsTrue
<1>3. rows \subseteq born /\ born \subseteq Row
  BY DEF Base, TypeOK, Safe, RowsTrue
<1> QED
  BY <1>1, <1>2, <1>3 DEF Kept, Acknowledged

\* What is acknowledged changes with `done` only: an entry keeps its seq.
LEMMA AcknowledgedKept ==
  ASSUME done' = done, \A s \in done : log'[s] = log[s]
  PROVE  Acknowledged' = Acknowledged
BY DEF Acknowledged

\* A step that changes neither the rows nor what is acknowledged starts to
\* serve, stops serving or is no step of the promise at all.
LEMMA ServingStep ==
  ASSUME Kept', rows' = rows, done' = done, \A s \in done : log'[s] = log[s]
  PROVE  AbstractStep
<1>1. Acknowledged' = Acknowledged
  BY AcknowledgedKept
<1>2. CASE SomeoneServes' = SomeoneServes
  BY <1>1, <1>2 DEF AbstractStep, Promise!vars, Shown
<1>3. CASE ~SomeoneServes /\ SomeoneServes'
  <2>1. Shown' = rows /\ Shown' \cap Acknowledged = {} /\ rows \in SUBSET Row
    BY <1>1, <1>3 DEF Shown, Kept
  <2>2. Promise!Resume(rows)
    BY <1>1, <1>3, <2>1 DEF Promise!Resume
  <2> QED
    BY <2>1, <2>2 DEF AbstractStep, Promise!Next
<1>4. CASE SomeoneServes /\ ~SomeoneServes'
  BY <1>1, <1>4 DEF AbstractStep, Promise!Next, Promise!Stop, Shown
<1> QED
  BY <1>2, <1>3, <1>4 DEF SomeoneServes

-----------------------------------------------------------------------------
(* The four actions that change the rows or what is acknowledged.           *)

LEMMA ObserveMaps ==
  ASSUME Kept, NEW n \in Engine, NEW r \in Row, Observe(n, r)
  PROVE  AbstractStep
<1>1. /\ SomeoneServes /\ SomeoneServes' = SomeoneServes
      /\ rows' = rows \cup {r} /\ r \notin born
  BY DEF Observe, SomeoneServes, nodeVars, history, Node
<1>2. Acknowledged' = Acknowledged
  BY DEF Observe, logVars, history, Acknowledged
<1>3. r \notin Shown \cup Acknowledged
  BY <1>1 DEF Kept, Shown
<1>4. Shown' = Shown \cup {r}
  BY <1>1 DEF Shown
<1> QED
  BY <1>1, <1>2, <1>3, <1>4 DEF AbstractStep, Promise!Next, Promise!Remember

\* The commit takes from the database what its log entry names.
LEMMA CommitDeletionMaps ==
  ASSUME Base, Safe, Kept, NEW n \in Engine, CommitDeletion(n)
  PROVE  AbstractStep
<1>1. /\ TxSound(tx[n]) /\ pc[n] = "serving" /\ n \in Node /\ tx[n].pc = "commit"
  BY OpenTx DEF CommitDeletion
<1>2. /\ SomeoneServes /\ SomeoneServes' = SomeoneServes
      /\ rows' = rows \ tx[n].del
      /\ done' = done \cup {tx[n].seq} /\ log' = log
  BY <1>1 DEF CommitDeletion, SomeoneServes, nodeVars, history, logVars
<1>3. log[tx[n].seq].fps = tx[n].del
  BY <1>1 DEF TxSound
<1>4. Acknowledged' = Acknowledged \cup tx[n].del
  BY <1>2, <1>3 DEF Acknowledged
<1>5. Shown' = Shown \ tx[n].del
  BY <1>2 DEF Shown
<1>6. tx[n].del \in SUBSET Row
  BY <1>1 DEF TxSound, Base, TypeOK
<1> QED
  BY <1>2, <1>4, <1>5, <1>6 DEF AbstractStep, Promise!Next, Promise!Forget

\* A replay only takes rows away.
LEMMA ApplyEntryMaps ==
  ASSUME Kept, NEW n \in Node, ApplyEntry(n)
  PROVE  AbstractStep
<1>1. SomeoneServes' = SomeoneServes /\ Acknowledged' = Acknowledged
  BY DEF ApplyEntry, SomeoneServes, Acknowledged, logVars
<1> DEFINE taken == {r \in NextEntry(n).fps : Owner[r] = NextEntry(n).user}
<1>2. rows' = rows \ taken
  BY DEF ApplyEntry
<1>3. PICK S \in SUBSET Row : rows' = rows \ S
  <2>1. rows \cap taken \in SUBSET Row /\ rows' = rows \ (rows \cap taken)
    BY <1>2 DEF Kept
  <2> QED
    BY <2>1
<1>4. CASE SomeoneServes
  <2>1. Shown' = Shown \ S
    BY <1>1, <1>3, <1>4 DEF Shown
  <2> QED
    BY <1>1, <1>3, <1>4, <2>1 DEF AbstractStep, Promise!Next, Promise!Drop
<1>5. CASE ~SomeoneServes
  BY <1>1, <1>5 DEF AbstractStep, Promise!vars, Shown
<1> QED
  BY <1>4, <1>5

\* A database is restored while nobody serves.
LEMMA RestoreMaps ==
  ASSUME NEW b \in backups, Restore(b)
  PROVE  AbstractStep
<1>1. SomeoneServes = FALSE /\ SomeoneServes' = FALSE /\ Acknowledged' = Acknowledged
  BY DEF Restore, AllDown, SomeoneServes, Acknowledged, logVars, history, nodeVars
<1> QED
  BY <1>1 DEF AbstractStep, Promise!vars, Shown

-----------------------------------------------------------------------------
(* The actions that change neither.                                         *)

\* The log is appended to at its end while somebody serves, and an entry that
\* was acknowledged stays where it is.
LEMMA AppendLogMaps ==
  ASSUME Base, Safe, Kept', NEW n \in Engine, AppendLog(n)
  PROVE  AbstractStep
<1>1. TypeOK
  BY DEF Base
<1>2. TxSound(tx[n]) /\ tx[n] \in Tx
  BY OpenTx DEF AppendLog
<1>3. PICK e \in Entry : log' = Append(log, e)
  BY AppendLogStep, <1>2
<1>4. \A s \in done : log'[s] = log[s]
  BY <1>1, <1>3 DEF TypeOK
<1>5. rows' = rows /\ done' = done
  BY DEF AppendLog, db, history
<1> QED
  BY <1>4, <1>5, ServingStep

LEMMA DeletionMaps ==
  ASSUME Base, Safe, Kept, Kept', NEW n \in Engine, Deletion(n)
  PROVE  AbstractStep
<1>1. CASE ReadGeneration(n)
  BY <1>1, ServingStep DEF ReadGeneration, db, history, logVars
<1>2. CASE InsertGeneration(n)
  BY <1>2, ServingStep DEF InsertGeneration, db, history, logVars
<1>3. CASE GenerationConflict(n)
  BY <1>3, ServingStep DEF GenerationConflict, db, history, logVars
<1>4. CASE AdvanceWatermark(n)
  BY <1>4, ServingStep DEF AdvanceWatermark, db, history, logVars
<1>5. CASE DeadlockVictim(n)
  BY <1>5, ServingStep DEF DeadlockVictim, db, history, logVars
<1> QED
  BY <1>1, <1>2, <1>3, <1>4, <1>5, AppendLogMaps, CommitDeletionMaps DEF Deletion

LEMMA ReconcileMaps ==
  ASSUME Kept, Kept', NEW n \in Node, Reconcile(n)
  PROVE  AbstractStep
<1>1. CASE ReadWatermark(n) \/ Refuse(n) \/ InSync(n)
  BY <1>1, ServingStep DEF ReadWatermark, Refuse, InSync, db, history, logVars
<1>2. CASE LockBusy(n) \/ TakeLock(n) \/ ReadAgain(n) \/ ReplayConflict(n) \/ FinishReplay(n)
  BY <1>2, ServingStep DEF LockBusy, TakeLock, ReadAgain, ReplayConflict, FinishReplay, db,
     history, logVars
<1> QED
  BY <1>1, <1>2, ApplyEntryMaps DEF Reconcile

LEMMA OperatorMaps ==
  ASSUME Kept', Operator
  PROVE  AbstractStep
<1>1. CASE Backup \/ RecoverLog
  BY <1>1, ServingStep DEF Backup, RecoverLog, db, history, logVars
<1>2. \A s \in 1..MaxLog : Prune(s) => AbstractStep
  BY ServingStep DEF Prune, db, history
<1>3. \A k \in 0..MaxLog : LoseLogTail(k) => AbstractStep
  BY ServingStep DEF LoseLogTail, db, history
<1> QED
  BY <1>1, <1>2, <1>3, RestoreMaps DEF Operator

LEMMA NextMaps ==
  ASSUME Base, Safe, Kept, Kept', [Next]_vars
  PROVE  AbstractStep
<1>1. CASE UNCHANGED vars
  BY <1>1, ServingStep DEF vars
<1>2. \A n \in Engine, scope \in Scope, u \in User : BeginDeletion(n, scope, u) => AbstractStep
  BY ServingStep DEF BeginDeletion, db, history, logVars
<1>3. \A n \in Engine : AbortDeletion(n) => AbstractStep
  BY ServingStep DEF AbortDeletion, db, history, logVars
<1>4. \A n \in Node : StartCheck(n) \/ Crash(n) => AbstractStep
  BY ServingStep DEF StartCheck, Crash, db, history, logVars
<1>5. CASE Next
  BY <1>2, <1>3, <1>4, <1>5, NextCases, ObserveMaps, DeletionMaps, ReconcileMaps, OperatorMaps
<1> QED
  BY <1>1, <1>5

\* Nothing serves, nothing is remembered and nothing is gone at the start.
LEMMA InitMaps == Init => Promise!Init
BY DEF Init, Promise!Init, SomeoneServes, Shown, Acknowledged

\* With one writer at a time, and a log that is not compacted under a replay's
\* feet, the system forgets as if by one atomic step and never shows again what
\* it has forgotten.
THEOREM PromiseKept ==
  ASSUME Exclusive, ~PruneDuringReplay
  PROVE  Spec => KeepsPromise
<1>1. Base /\ Safe => Kept
  BY SafeKept
<1>2. Base /\ Safe /\ Kept /\ Kept' /\ [Next]_vars => [Promise!Next]_(Promise!vars)
  BY NextMaps DEF AbstractStep
<1> QED
  BY BaseInvariant, SafeInvariant, InitMaps, <1>1, <1>2, PTL DEF Spec, KeepsPromise, Promise!Spec
=============================================================================
