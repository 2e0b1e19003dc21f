------------------------ MODULE EvolutionQueueProofs ------------------------
(***************************************************************************)
(* Theorems about EvolutionQueue, for every set of workers and hosts and    *)
(* every bound: the types, the fence of the lease token, and the barriers   *)
(* of generation, revision, consent and grant.                              *)
(*                                                                         *)
(* OneHolder and TokensOrderVersions are not inductive.  Fencing adds what   *)
(* _claim_job relies on: from a claim's commit to the reading of its token   *)
(* the row is not swept (ClaimsStand), everyone else at the job carries an   *)
(* older token (ClaimsAreNewest) and nothing is published under the new one  *)
(* (HeldIsUnpublished); from the persisting of a draft to the completion no  *)
(* newer version of its job appears unless the fence has fallen              *)
(* (DraftsAreNewest).  Most steps give no lease and publish nothing: they    *)
(* are Quiet, and one lemma serves them all.                                *)
(*                                                                         *)
(* The barriers need what each read of a worker still says later on: the     *)
(* evidence while the generation stands (ReadsStand), consent while the      *)
(* revision stands (AuthorityStands), and on SQLite that the comparisons are *)
(* made under the write lock, so that what they found lasts to the commit    *)
(* (WriterIsCurrent).                                                       *)
(***************************************************************************)
EXTENDS EvolutionQueue, WellFoundedInduction, TLAPS

-----------------------------------------------------------------------------
(* Least and greatest elements, for what is chosen by a maximum.            *)

LEMMA Least ==
  ASSUME NEW S, S \subseteq Nat, S # {}
  PROVE  \E m \in S : \A k \in S : m <= k
<1> DEFINE R == OpToRel(<, Nat)
<1>0. IsWellFoundedOn(R, Nat)
  BY NatLessThanWellFounded
<1>1. \A x, y \in Nat : x < y => <<x, y>> \in R
  BY DEF OpToRel
<1> HIDE DEF R
<1>2. PICK m \in S : \A y \in S : ~(<<y, m>> \in R)
  BY <1>0, WFMin
<1>3. \A k \in S : ~(k < m)
  BY <1>1, <1>2
<1>4. \A k \in S : m <= k
  BY <1>3
<1> QED
  BY <1>4

LEMMA Greatest ==
  ASSUME NEW S, S \subseteq Nat, S # {}, NEW n \in Nat, \A k \in S : k <= n
  PROVE  \E m \in S : \A k \in S : k <= m
<1> DEFINE T == {i \in Nat : \A k \in S : k <= i}
<1>1. PICK m \in T : \A k \in T : m <= k
  BY Least
<1>2. PICK k \in S : k >= m
  <2>1. SUFFICES ASSUME \A k \in S : k < m PROVE FALSE
    OBVIOUS
  <2>2. m \in Nat /\ m # 0
    <3>1. PICK k \in S : TRUE
      OBVIOUS
    <3> QED
      BY <2>1, <3>1
  <2>3. m - 1 \in T
    BY <2>1, <2>2
  <2> QED
    BY <1>1, <2>2, <2>3
<1> QED
  BY <1>1, <1>2

-----------------------------------------------------------------------------
(* Types.                                                                   *)

\* A worker that is past its scan has a job.
WorkerRecord ==
  {r \in [stage : Stage, job : Job \cup {NoJob}, token : Nat, tries : Nat,
           queue : SUBSET Job, rev : Nat, gen : Nat, reads : SUBSET Belief,
           draft : Snapshot, retires : SUBSET Snapshot] :
     r.stage \notin {"idle", "ticked"} => r.job \in Job}
HostRecord == [stage : {"idle", "keyed", "merging", "reviving", "inserting"},
               key : Key, job : Job \cup {NoJob}]
DeletionRecord == [stage : {"none", "begun", "locked"}, scope : {"belief", "user"},
                   beliefs : SUBSET Belief, snaps : SUBSET Snapshot, jobs : SUBSET Job]
UserRecord == [enabled : BOOLEAN, granted : BOOLEAN, beliefs : SUBSET Belief,
               made : 0 .. MaxBelief, rev : Nat, gen : Nat]
SpentRecord == [faults : 0 .. MaxFaults, requeues : 0 .. MaxRequeues]

\* What holds the write lock of SQLite.
LockTyped == \/ lock \in {"none", "free", "deletion"}
             \/ lock \in Worker /\ worker[lock].stage \in Publishing

Typed ==
  /\ user \in UserRecord /\ jobs \in [Job -> JobRow] /\ snaps \in SUBSET Snapshot
  /\ worker \in [Worker -> WorkerRecord] /\ host \in [Host -> HostRecord]
  /\ deletion \in DeletionRecord /\ LockTyped /\ spent \in SpentRecord

\* Versions have a greatest one.
Bounded == \E n \in Nat : \A s \in snaps : s.version <= n

LEMMA TypedIsTypeOK == Typed => TypeOK
  BY DEF Typed, TypeOK, UserRecord, WorkerRecord, HostRecord, DeletionRecord, SpentRecord, LockTyped

LEMMA SizesNat ==
  /\ MaxAttempts \in Nat /\ MaxBelief \in Nat /\ MaxJob \in Nat /\ MaxRevision \in Nat
  /\ MaxRequeues \in Nat /\ MaxFaults \in Nat
  BY SizeAssumption

LEMMA RestingTyped ==
  ASSUME NEW queue \in SUBSET Job
  PROVE  Resting(queue) \in WorkerRecord /\ Resting(queue).stage \in {"idle", "ticked"}
<1>1. NoDraft \in Snapshot
  BY DEF NoDraft, Snapshot
<1> QED
  BY <1>1 DEF Resting, WorkerRecord, Stage

LEMMA IdentityTyped ==
  ASSUME NEW s \in Snapshot
  PROVE  Identity(s) \in Snapshot
  BY DEF Identity, Snapshot

LEMMA WatermarkTyped == Typed => Watermark \in Key
<1> SUFFICES ASSUME Typed, user.beliefs # {} PROVE Watermark \in Key
  BY SizesNat DEF Watermark, Key
<1>1. user.beliefs \subseteq Nat /\ (\A k \in user.beliefs : k <= MaxBelief)
      /\ user.beliefs \subseteq Belief
  BY SizesNat DEF Typed, UserRecord, Belief
<1>2. \E b \in user.beliefs : \A c \in user.beliefs : c <= b
  BY <1>1, SizesNat, Greatest
<1>3. Watermark \in user.beliefs
  BY <1>2 DEF Watermark
<1> QED
  BY <1>1, <1>3 DEF Key

LEMMA LatestTyped ==
  ASSUME Typed, Bounded
  PROVE  LatestVersion \in Nat /\ \A s \in snaps : s.version <= LatestVersion
<1>1. CASE snaps = {}
  BY <1>1 DEF LatestVersion
<1>2. CASE snaps # {}
  <2> DEFINE V == {s.version : s \in snaps}
  <2>1. V \subseteq Nat /\ V # {}
    BY <1>2 DEF Typed, Snapshot
  <2>2. PICK n \in Nat : \A k \in V : k <= n
    BY DEF Bounded
  <2>3. \E m \in V : \A k \in V : k <= m
    BY <2>1, <2>2, Greatest
  <2>4. \E m \in V : \A s \in snaps : s.version <= m
    BY <2>3
  <2>5. LatestVersion \in V /\ \A s \in snaps : s.version <= LatestVersion
    BY <1>2, <2>4 DEF LatestVersion
  <2> QED
    BY <2>1, <2>5
<1> QED
  BY <1>1, <1>2

LEMMA JobRowStatus ==
  ASSUME NEW row \in JobRow, NEW status \in JobStatus
  PROVE  [row EXCEPT !.status = status] \in JobRow
  BY DEF JobRow

LEMMA ObserveTyped ==
  ASSUME Typed, Bounded, Observe
  PROVE  Typed' /\ Bounded'
<1>1. user' \in UserRecord
  <2> DEFINE m == user.made + 1
             B == user.beliefs \cup {user.made + 1}
             r == user.rev + 1
  <2>1. m \in 0 .. MaxBelief /\ B \in SUBSET Belief /\ r \in Nat
    BY SizesNat DEF Observe, Typed, UserRecord, Belief
  <2>2. user' = [user EXCEPT !.made = m, !.beliefs = B, !.rev = r]
    BY DEF Observe
  <2> HIDE DEF m, B, r
  <2> QED
    BY <2>1, <2>2 DEF Typed, UserRecord
<1> QED
  BY <1>1 DEF Observe, Typed, Bounded, LockTyped

LEMMA ToggleConsentTyped ==
  ASSUME Typed, Bounded, ToggleConsent
  PROVE  Typed' /\ Bounded'
<1>1. user' \in UserRecord
  <2> DEFINE u == [user EXCEPT !.enabled = ~user.enabled]
  <2>1. u \in UserRecord
    BY DEF Typed, UserRecord
  <2>2. user' = [u EXCEPT !.rev = @ + 1]
    BY DEF ToggleConsent
  <2> HIDE DEF u
  <2> QED
    BY <2>1, <2>2 DEF UserRecord
<1> QED
  BY <1>1 DEF ToggleConsent, Typed, Bounded, LockTyped

LEMMA ChangeGrantTyped ==
  ASSUME Typed, Bounded, ChangeGrant
  PROVE  Typed' /\ Bounded'
<1>1. user' \in UserRecord
  BY DEF ChangeGrant, Typed, UserRecord
<1> QED
  BY <1>1 DEF ChangeGrant, Typed, Bounded, LockTyped

LEMMA BeginForgetTyped ==
  ASSUME Typed, Bounded, NEW b \in Belief, BeginForget(b)
  PROVE  Typed' /\ Bounded'
<1>1. deletion' \in DeletionRecord
  BY IdentityTyped DEF BeginForget, Typed, DeletionRecord, Holding
<1>2. LockTyped'
  BY IdentityTyped DEF BeginForget, Typed, LockTyped, Holding
<1> QED
  BY <1>1, <1>2 DEF BeginForget, Typed, Bounded, LockTyped, Holding

LEMMA CancelJobsTyped ==
  ASSUME Typed, Bounded, CancelJobs
  PROVE  Typed' /\ Bounded'
<1>1. deletion' \in DeletionRecord
  BY DEF CancelJobs, Typed, DeletionRecord, JobsWith
<1> QED
  BY <1>1 DEF CancelJobs, Typed, Bounded, LockTyped, JobsWith

LEMMA BeginDeleteUserTyped ==
  ASSUME Typed, Bounded, BeginDeleteUser
  PROVE  Typed' /\ Bounded'
<1>1. deletion' \in DeletionRecord
  BY DEF BeginDeleteUser, Typed, DeletionRecord, Holding, UserRecord
<1>2. LockTyped'
  BY DEF BeginDeleteUser, Typed, LockTyped, Holding, UserRecord
<1> QED
  BY <1>1, <1>2 DEF BeginDeleteUser, Typed, Bounded, LockTyped, Holding

LEMMA DeleteSnapshotsTyped ==
  ASSUME Typed, Bounded, DeleteSnapshots
  PROVE  Typed' /\ Bounded'
<1>1. deletion' \in DeletionRecord
  BY ZenonT(60), SizesNat, IdentityTyped DEF DeleteSnapshots, Typed, DeletionRecord
<1> QED
  BY <1>1 DEF DeleteSnapshots, Typed, Bounded, LockTyped

LEMMA CommitDeletionTyped ==
  ASSUME Typed, Bounded, CommitDeletion
  PROVE  Typed' /\ Bounded'
<1>1. user' \in UserRecord
  <2> DEFINE u == [user EXCEPT !.beliefs = user.beliefs \ deletion.beliefs]
             v == [u EXCEPT !.rev = u.rev + 1]
  <2>1. u \in UserRecord
    BY DEF Typed, UserRecord
  <2>2. user' = [v EXCEPT !.gen = v.gen + 1]
    BY DEF CommitDeletion, BarriersRaised
  <2> HIDE DEF u
  <2>3. v \in UserRecord
    BY <2>1 DEF UserRecord
  <2> HIDE DEF v
  <2> QED
    BY <2>2, <2>3 DEF UserRecord
<1>2. jobs' \in [Job -> JobRow]
  BY DEF CommitDeletion, Typed, JobRow, JobStatus
<1>3. snaps' \subseteq Snapshot /\ Bounded'
  BY DEF CommitDeletion, Typed, Bounded, NoDeletion
<1>4. deletion' \in DeletionRecord
  BY DEF CommitDeletion, Typed, DeletionRecord, NoDeletion, Released
<1>5. LockTyped'
  BY DEF CommitDeletion, Typed, LockTyped, NoDeletion, Released
<1> QED
  BY <1>1, <1>2, <1>3, <1>4, <1>5 DEF CommitDeletion, Typed, LockTyped, Released

LEMMA AbortDeletionTyped ==
  ASSUME Typed, Bounded, AbortDeletion
  PROVE  Typed' /\ Bounded'
<1>1. deletion' \in DeletionRecord
  BY DEF AbortDeletion, Typed, DeletionRecord, NoDeletion, Released
<1>2. LockTyped'
  BY SizesNat DEF AbortDeletion, Typed, LockTyped, NoDeletion, Released
<1>3. spent' \in SpentRecord
  BY SizesNat DEF AbortDeletion, Typed, SpentRecord, Fault, Released
<1> QED
  BY <1>1, <1>2, <1>3 DEF AbortDeletion, Typed, Bounded

LEMMA ReadWatermarkTyped ==
  ASSUME Typed, Bounded, NEW h \in Host, ReadWatermark(h)
  PROVE  Typed' /\ Bounded'
<1>1. host' \in [Host -> HostRecord]
  BY WatermarkTyped DEF ReadWatermark, Typed, HostRecord
<1> QED
  BY <1>1 DEF ReadWatermark, Typed, Bounded, LockTyped

LEMMA ReadQueueTyped ==
  ASSUME Typed, Bounded, NEW h \in Host, ReadQueue(h)
  PROVE  Typed' /\ Bounded'
<1>1. host' \in [Host -> HostRecord]
  BY DEF ReadQueue, Typed, HostRecord, JobsWith
<1> QED
  BY <1>1 DEF ReadQueue, Typed, Bounded, LockTyped, JobsWith

LEMMA MergeTyped ==
  ASSUME Typed, Bounded, NEW h \in Host, Merge(h)
  PROVE  Typed' /\ Bounded'
<1>1. jobs' \in [Job -> JobRow]
  <2>1. host[h].key \in Key /\ host[h].job \in Job \cup {NoJob}
    BY DEF Typed, HostRecord
  <2> QED
    BY <2>1 DEF Merge, Typed, JobRow
<1>2. host' \in [Host -> HostRecord]
  BY SizesNat DEF Merge, Typed, Returns, IdleHost, Key, HostRecord
<1> QED
  BY <1>1, <1>2 DEF Merge, Typed, Bounded, LockTyped, Returns, IdleHost, Key

LEMMA ReviveTyped ==
  ASSUME Typed, Bounded, NEW h \in Host, Revive(h)
  PROVE  Typed' /\ Bounded'
<1>1. jobs' \in [Job -> JobRow]
  <2> DEFINE j == host[h].job
  <2>1. CASE j \in Job
    <3>1. [jobs[j] EXCEPT !.status = "pending", !.attempts = 0] \in JobRow
      BY <2>1 DEF Typed, JobRow, JobStatus, Active
    <3> QED
      BY <2>1, <3>1 DEF Revive, Typed
  <2>2. CASE j \notin Job
    BY <2>2 DEF Revive, Typed
  <2> QED
    BY <2>1, <2>2
<1>2. host' \in [Host -> HostRecord]
  BY SizesNat DEF Revive, Typed, Returns, IdleHost, Key, HostRecord
<1>3. spent' \in SpentRecord
  BY SizesNat DEF Revive, Typed, SpentRecord, Fault, Returns, IdleHost, Key
<1> QED
  BY <1>1, <1>2, <1>3 DEF Revive, Typed, Bounded, LockTyped

LEMMA InsertTyped ==
  ASSUME Typed, Bounded, NEW h \in Host, Insert(h)
  PROVE  Typed' /\ Bounded'
<1> DEFINE unused == JobsWith({"none"})
           j == CHOOSE i \in unused : \A k \in unused : i <= k
<1>1. unused # {} => j \in Job
  <2> SUFFICES ASSUME unused # {} PROVE j \in Job
    OBVIOUS
  <2>1. unused \subseteq Nat /\ unused \subseteq Job
    BY DEF JobsWith, Job
  <2>2. \E i \in unused : \A k \in unused : i <= k
    BY <2>1, Least
  <2> HIDE DEF unused
  <2>3. j \in unused
    BY <2>2
  <2> QED
    BY <2>1, <2>3
<1> HIDE DEF j
<1>2. jobs' \in [Job -> JobRow]
  <2>1. [status |-> "pending", key |-> host[h].key, token |-> 0, attempts |-> 0,
         expired |-> FALSE] \in JobRow
    BY DEF Typed, HostRecord, JobRow, JobStatus, Active
  <2>2. jobs' = jobs \/ (j \in Job /\ jobs' = [jobs EXCEPT ![j] =
           [status |-> "pending", key |-> host[h].key, token |-> 0, attempts |-> 0,
            expired |-> FALSE]])
    BY <1>1 DEF Insert, j
  <2> QED
    BY <2>1, <2>2 DEF Typed
<1>3. host' \in [Host -> HostRecord]
  BY SizesNat DEF Insert, Typed, HostRecord, Returns, IdleHost, Key
<1> QED
  BY <1>2, <1>3 DEF Insert, Typed, Bounded, LockTyped


\* A worker that goes on to another stage, with or without the lock.
LEMMA StageTyped ==
  ASSUME Typed, NEW w \in Worker, NEW stage \in Stage, Becomes(w, stage),
         worker[w].stage \notin {"idle", "ticked"}
  PROVE  /\ worker' \in [Worker -> WorkerRecord] /\ worker'[w].stage = stage
         /\ \A v \in Worker \ {w} : worker'[v] = worker[v]
  BY DEF Becomes, Typed, WorkerRecord

\* The lock is left with a worker that is publishing, or let go.
LEMMA LockKept ==
  ASSUME Typed, NEW w \in Worker, worker' \in [Worker -> WorkerRecord],
         \A v \in Worker \ {w} : worker'[v] = worker[v],
         \/ lock' = Released(w)
         \/ lock' = lock /\ (lock = w => worker'[w].stage \in Publishing)
         \/ lock' = Holding(w) /\ worker'[w].stage \in Publishing
  PROVE  LockTyped'
  BY DEF Typed, LockTyped, Released, Holding

LEMMA RestsTyped ==
  ASSUME Typed, NEW w \in Worker, NEW queue \in SUBSET Job,
         worker' = [worker EXCEPT ![w] = Resting(queue)]
  PROVE  /\ worker' \in [Worker -> WorkerRecord]
         /\ \A v \in Worker \ {w} : worker'[v] = worker[v]
<1>1. Resting(queue) \in WorkerRecord
  BY RestingTyped
<1> QED
  BY <1>1 DEF Typed

LEMMA LeavesTyped ==
  ASSUME Typed, NEW w \in Worker, NEW queue \in SUBSET Job, Leave(w, queue)
  PROVE  worker' \in [Worker -> WorkerRecord] /\ LockTyped'
<1>1. /\ worker' \in [Worker -> WorkerRecord]
      /\ \A v \in Worker \ {w} : worker'[v] = worker[v]
  BY RestsTyped DEF Leave
<1>2. lock' = Released(w)
  BY DEF Leave
<1> QED
  BY <1>1, <1>2, LockKept

LEMMA JobStateTyped ==
  ASSUME Typed, NEW w \in Worker, NEW changed, MyJob(w) \in Job => changed \in JobRow,
         SetJobState(w, changed)
  PROVE  jobs' \in [Job -> JobRow]
  BY DEF Typed, SetJobState

LEMMA WithStatusTyped ==
  ASSUME Typed, NEW w \in Worker, MyJob(w) \in Job, NEW status \in JobStatus
  PROVE  WithStatus(w, status) \in JobRow
  BY DEF Typed, WithStatus, JobRow

LEMMA BlockTyped ==
  ASSUME Typed, Bounded, NEW w \in Worker, Block(w)
  PROVE  Typed' /\ Bounded'
<1>1. jobs' \in [Job -> JobRow]
  <2>1. MyJob(w) \in Job => WithStatus(w, "cancelled") \in JobRow
    BY WithStatusTyped DEF JobStatus
  <2> QED
    BY <2>1, JobStateTyped DEF Block
<1>2. worker[w].queue \in SUBSET Job
  BY DEF Typed, WorkerRecord
<1>3. worker' \in [Worker -> WorkerRecord] /\ LockTyped'
  BY <1>2, LeavesTyped DEF Block
<1> QED
  BY <1>1, <1>3 DEF Block, Typed, Bounded

LEMMA TakenTyped ==
  ASSUME NEW row \in JobRow
  PROVE  /\ Taken(row) \in JobRow /\ Taken(row).status = "running"
         /\ Taken(row).token = row.token + 1
<1> DEFINE a == row.attempts + 1
           t == row.token + 1
<1>1. a \in Nat /\ t \in Nat /\ "running" \in JobStatus
  BY DEF JobRow, JobStatus, Active
<1>2. Taken(row) = [row EXCEPT !.status = "running", !.expired = FALSE, !.token = t, !.attempts = a]
  BY DEF Taken
<1> DEFINE fresh == [row EXCEPT !.expired = FALSE]
<1>3. fresh \in JobRow
  BY DEF JobRow
<1>4. Taken(row) = [fresh EXCEPT !.status = "running", !.token = t, !.attempts = a]
  BY <1>2
<1> HIDE DEF a, t, fresh
<1>5. Taken(row) \in JobRow /\ Taken(row).status = "running" /\ Taken(row).token = t
  BY <1>1, <1>3, <1>4 DEF JobRow
<1> QED
  BY <1>5 DEF t

LEMMA TickTyped ==
  ASSUME Typed, Bounded, NEW w \in Worker, Tick(w)
  PROVE  Typed' /\ Bounded'
<1>1. jobs' \in [Job -> JobRow]
  <2>1. \A j \in Job : [jobs[j] EXCEPT !.status = "pending"] \in JobRow
    BY JobRowStatus DEF Typed, JobStatus, Active
  <2> QED
    BY <2>1 DEF Tick, Typed
<1>2. JobsWith({"pending"}) \cup Expired \in SUBSET Job
  BY DEF JobsWith, Expired
<1>3. /\ worker' \in [Worker -> WorkerRecord]
      /\ \A v \in Worker \ {w} : worker'[v] = worker[v]
  BY <1>2, RestsTyped DEF Tick
<1>4. LockTyped'
  BY <1>3, LockKept DEF Tick, Typed, LockTyped, Publishing
<1> QED
  BY <1>1, <1>3, <1>4 DEF Tick, Typed, Bounded

LEMMA ClaimTyped ==
  ASSUME Typed, Bounded, NEW w \in Worker, NEW j \in Job, Claim(w, j)
  PROVE  Typed' /\ Bounded'
<1>1. worker[w].stage = "ticked" /\ worker[w].queue \in SUBSET Job
  BY DEF Claim, Typed, WorkerRecord
<1>2. CASE jobs[j].status = "pending"
  <2>1. Taken(jobs[j]) \in JobRow
    BY TakenTyped DEF Typed
  <2>2. jobs' \in [Job -> JobRow]
    BY <1>2, <2>1 DEF Claim, Typed
  <2>3. /\ worker' \in [Worker -> WorkerRecord]
        /\ \A v \in Worker \ {w} : worker'[v] = worker[v]
    BY <1>1, <1>2 DEF Claim, Typed, WorkerRecord, Stage
  <2>4. LockTyped'
    BY <1>1, <2>3, LockKept DEF Claim, Typed, LockTyped, Publishing
  <2> QED
    BY <2>2, <2>3, <2>4 DEF Claim, Typed, Bounded
<1>3. CASE jobs[j].status # "pending"
  <2>1. /\ worker' \in [Worker -> WorkerRecord]
        /\ \A v \in Worker \ {w} : worker'[v] = worker[v]
    BY <1>1, <1>3, RestsTyped DEF Claim
  <2>2. LockTyped'
    BY <1>1, <2>1, LockKept DEF Claim, Typed, LockTyped, Publishing
  <2> QED
    BY <1>3, <2>1, <2>2 DEF Claim, Typed, Bounded
<1> QED
  BY <1>2, <1>3

LEMMA ReadTokenTyped ==
  ASSUME Typed, Bounded, NEW w \in Worker, ReadToken(w)
  PROVE  Typed' /\ Bounded'
<1>1. /\ worker' \in [Worker -> WorkerRecord]
      /\ \A v \in Worker \ {w} : worker'[v] = worker[v]
  <2>1. CASE HasRow(MyJob(w))
    <3> DEFINE row == [worker[w] EXCEPT !.stage = "owned", !.token = jobs[MyJob(w)].token,
                                        !.tries = jobs[MyJob(w)].attempts]
    <3>1. jobs[MyJob(w)].token \in Nat /\ jobs[MyJob(w)].attempts \in Nat /\ MyJob(w) \in Job
      BY DEF ReadToken, Typed, JobRow, WorkerRecord, MyJob
    <3>2. row \in WorkerRecord
      BY ZenonT(60), <3>1 DEF Typed, WorkerRecord, Stage, Working, MyJob
    <3>3. worker' = [worker EXCEPT ![w] = row]
      BY <2>1 DEF ReadToken
    <3> QED
      BY <3>2, <3>3 DEF Typed
  <2>2. CASE ~HasRow(MyJob(w))
    <3>1. {} \in SUBSET Job
      OBVIOUS
    <3>2. worker' = [worker EXCEPT ![w] = Resting({})]
      BY <2>2 DEF ReadToken
    <3> QED
      BY <3>1, <3>2, RestsTyped
  <2> QED
    BY <2>1, <2>2
<1>2. LockTyped'
  BY <1>1, LockKept DEF ReadToken, Typed, LockTyped, Publishing
<1> QED
  BY <1>1, <1>2 DEF ReadToken, Typed, Bounded


LEMMA GoesOnTyped ==
  ASSUME Typed, Bounded, NEW w \in Worker, NEW stage \in Stage, Becomes(w, stage),
         worker[w].stage \notin {"idle", "ticked"},
         UNCHANGED <<user, jobs, snaps, host, deletion>>, spent' \in SpentRecord,
         \/ lock' = Released(w)
         \/ lock' = lock /\ (worker[w].stage \in Publishing => stage \in Publishing)
         \/ lock' = Holding(w) /\ stage \in Publishing
  PROVE  Typed' /\ Bounded'
<1>1. /\ worker' \in [Worker -> WorkerRecord] /\ worker'[w].stage = stage
      /\ \A v \in Worker \ {w} : worker'[v] = worker[v]
  BY StageTyped
<1>2. lock = w => worker[w].stage \in Publishing
  BY NamesAssumption DEF Typed, LockTyped
<1>3. LockTyped'
  BY <1>1, <1>2, LockKept
<1> QED
  BY <1>1, <1>3 DEF Typed, Bounded

LEMMA SpentTyped ==
  ASSUME Typed, Fault
  PROVE  spent' \in SpentRecord
  BY SizesNat DEF Typed, Fault, SpentRecord

LEMMA RecordsTyped ==
  ASSUME NEW r \in WorkerRecord, r.stage \notin {"idle", "ticked"}, NEW stage \in Stage
  PROVE  /\ \A n \in Nat : [r EXCEPT !.stage = stage, !.rev = n] \in WorkerRecord
         /\ \A n \in Nat : [r EXCEPT !.stage = stage, !.gen = n] \in WorkerRecord
         /\ \A B \in SUBSET Belief : [r EXCEPT !.stage = stage, !.reads = B] \in WorkerRecord
         /\ \A d \in Snapshot, R \in SUBSET Snapshot :
              [r EXCEPT !.stage = stage, !.draft = d, !.retires = R] \in WorkerRecord
<1> USE DEF WorkerRecord
<1>1. \A n \in Nat : [r EXCEPT !.stage = stage, !.rev = n] \in WorkerRecord
  OBVIOUS
<1>2. \A n \in Nat : [r EXCEPT !.stage = stage, !.gen = n] \in WorkerRecord
  OBVIOUS
<1>3. \A B \in SUBSET Belief : [r EXCEPT !.stage = stage, !.reads = B] \in WorkerRecord
  OBVIOUS
<1>4. \A d \in Snapshot, R \in SUBSET Snapshot :
        [r EXCEPT !.stage = stage, !.draft = d, !.retires = R] \in WorkerRecord
  OBVIOUS
<1> QED
  BY <1>1, <1>2, <1>3, <1>4

LEMMA RenewTyped ==
  ASSUME Typed, Bounded, NEW w \in Worker, NEW from \in {"owned", "computing"},
         NEW to \in {"leased", "renewed"}, Renew(w, from, to)
  PROVE  Typed' /\ Bounded'
<1>1. CASE Fenced(w) /\ jobs[MyJob(w)].status = "running"
  <2>1. jobs' \in [Job -> JobRow]
    BY <1>1 DEF Renew, Typed, JobRow
  <2>2. /\ worker' \in [Worker -> WorkerRecord]
        /\ \A v \in Worker \ {w} : worker'[v] = worker[v]
    BY <1>1, StageTyped DEF Renew, Stage, Working
  <2>3. LockTyped'
    BY <2>2, LockKept, NamesAssumption DEF Renew, Typed, LockTyped, Publishing
  <2> QED
    BY <1>1, <2>1, <2>2, <2>3 DEF Renew, Typed, Bounded
<1>2. CASE ~(Fenced(w) /\ jobs[MyJob(w)].status = "running")
  <2>1. worker[w].queue \in SUBSET Job
    BY DEF Typed, WorkerRecord
  <2>2. /\ worker' \in [Worker -> WorkerRecord]
        /\ \A v \in Worker \ {w} : worker'[v] = worker[v]
    BY <1>2, <2>1, RestsTyped DEF Renew
  <2>3. LockTyped'
    BY <2>2, LockKept, NamesAssumption DEF Renew, Typed, LockTyped, Publishing
  <2> QED
    BY <1>2, <2>2, <2>3 DEF Renew, Typed, Bounded
<1> QED
  BY <1>1, <1>2

LEMMA CheckGatesTyped ==
  ASSUME Typed, Bounded, NEW w \in Worker, CheckGates(w)
  PROVE  Typed' /\ Bounded'
<1>1. CASE Block(w)
  BY <1>1, BlockTyped
<1>2. CASE ~Block(w)
  <2>1. /\ Becomes(w, "checked") /\ worker[w].stage = "leased"
        /\ UNCHANGED <<user, jobs, snaps, host, deletion, lock, spent>>
    BY <1>2 DEF CheckGates
  <2> QED
    BY <2>1, GoesOnTyped DEF Typed, Stage, Working, Publishing
<1> QED
  BY <1>1, <1>2

LEMMA RecheckTyped ==
  ASSUME Typed, Bounded, NEW w \in Worker, Recheck(w)
  PROVE  Typed' /\ Bounded'
<1>1. CASE Block(w)
  BY <1>1, BlockTyped
<1>2. CASE ~Block(w)
  <2>1. /\ Becomes(w, "authorized") /\ worker[w].stage = "renewed"
        /\ UNCHANGED <<user, jobs, snaps, host, deletion, lock, spent>>
    BY <1>2 DEF Recheck
  <2> QED
    BY <2>1, GoesOnTyped DEF Typed, Stage, Working, Publishing
<1> QED
  BY <1>1, <1>2

LEMMA PassGatesTyped ==
  ASSUME Typed, Bounded, NEW w \in Worker, PassGates(w)
  PROVE  Typed' /\ Bounded'
<1>1. CASE Block(w)
  BY <1>1, BlockTyped
<1>2. CASE ~Block(w)
  <2>1. /\ Becomes(w, "gated") /\ worker[w].stage = "fresh"
        /\ UNCHANGED <<user, jobs, snaps, host, deletion, lock, spent>>
    BY <1>2 DEF PassGates
  <2> QED
    BY <2>1, GoesOnTyped DEF Typed, Stage, Working, Publishing
<1> QED
  BY <1>1, <1>2

LEMMA ReadRevisionTyped ==
  ASSUME Typed, Bounded, NEW w \in Worker, ReadRevision(w)
  PROVE  Typed' /\ Bounded'
<1> DEFINE next == [worker[w] EXCEPT !.stage = "dated", !.rev = user.rev]
<1>1. worker[w] \in WorkerRecord /\ worker[w].stage = "checked" /\ user.rev \in Nat
  BY DEF ReadRevision, Typed, UserRecord
<1>2. next \in WorkerRecord
  <2>1. "dated" \in Stage
    BY DEF Stage, Working
  <2>2. worker[w].stage \notin {"idle", "ticked"}
    BY <1>1
  <2> QED
    BY <1>1, <2>1, <2>2, RecordsTyped
<1>3. worker' = [worker EXCEPT ![w] = next]
  BY <1>1 DEF ReadRevision, Typed
<1> HIDE DEF next
<1>4. /\ worker' \in [Worker -> WorkerRecord]
      /\ \A v \in Worker \ {w} : worker'[v] = worker[v]
  BY <1>2, <1>3 DEF Typed
<1>5. LockTyped'
  BY <1>4, LockKept, NamesAssumption DEF ReadRevision, Typed, LockTyped, Publishing
<1> QED
  BY <1>4, <1>5 DEF ReadRevision, Typed, Bounded

LEMMA ReadGenerationTyped ==
  ASSUME Typed, Bounded, NEW w \in Worker, ReadGeneration(w)
  PROVE  Typed' /\ Bounded'
<1> DEFINE next == [worker[w] EXCEPT !.stage = "numbered", !.gen = user.gen]
<1>1. worker[w] \in WorkerRecord /\ worker[w].stage = "dated" /\ user.gen \in Nat
  BY DEF ReadGeneration, Typed, UserRecord
<1>2. next \in WorkerRecord
  <2>1. "numbered" \in Stage
    BY DEF Stage, Working
  <2>2. worker[w].stage \notin {"idle", "ticked"}
    BY <1>1
  <2> QED
    BY <1>1, <2>1, <2>2, RecordsTyped
<1>3. worker' = [worker EXCEPT ![w] = next]
  BY <1>1 DEF ReadGeneration, Typed
<1> HIDE DEF next
<1>4. /\ worker' \in [Worker -> WorkerRecord]
      /\ \A v \in Worker \ {w} : worker'[v] = worker[v]
  BY <1>2, <1>3 DEF Typed
<1>5. LockTyped'
  BY <1>4, LockKept, NamesAssumption DEF ReadGeneration, Typed, LockTyped, Publishing
<1> QED
  BY <1>4, <1>5 DEF ReadGeneration, Typed, Bounded

LEMMA LoadEvidenceTyped ==
  ASSUME Typed, Bounded, NEW w \in Worker, LoadEvidence(w)
  PROVE  Typed' /\ Bounded'
<1> DEFINE next == [worker[w] EXCEPT !.stage = "computing", !.reads = user.beliefs]
<1>1. worker[w] \in WorkerRecord /\ worker[w].stage = "numbered" /\ user.beliefs \in SUBSET Belief
  BY DEF LoadEvidence, Typed, UserRecord
<1>2. next \in WorkerRecord
  <2>1. "computing" \in Stage
    BY DEF Stage, Working
  <2>2. worker[w].stage \notin {"idle", "ticked"}
    BY <1>1
  <2> QED
    BY <1>1, <2>1, <2>2, RecordsTyped
<1>3. worker' = [worker EXCEPT ![w] = next]
  BY <1>1 DEF LoadEvidence, Typed
<1> HIDE DEF next
<1>4. /\ worker' \in [Worker -> WorkerRecord]
      /\ \A v \in Worker \ {w} : worker'[v] = worker[v]
  BY <1>2, <1>3 DEF Typed
<1>5. LockTyped'
  BY <1>4, LockKept, NamesAssumption DEF LoadEvidence, Typed, LockTyped, Publishing
<1> QED
  BY <1>4, <1>5 DEF LoadEvidence, Typed, Bounded

LEMMA RecordInvocationTyped ==
  ASSUME Typed, Bounded, NEW w \in Worker, RecordInvocation(w)
  PROVE  Typed' /\ Bounded'
<1>1. /\ Becomes(w, "recorded") /\ worker[w].stage = "authorized" /\ lock' = Holding(w)
      /\ UNCHANGED <<user, jobs, snaps, host, deletion, spent>>
  BY DEF RecordInvocation
<1> QED
  BY <1>1, GoesOnTyped DEF Typed, Stage, Working, Publishing

LEMMA RecheckGenerationTyped ==
  ASSUME Typed, Bounded, NEW w \in Worker, RecheckGeneration(w)
  PROVE  Typed' /\ Bounded'
<1>1. worker[w].stage = "recorded" /\ UNCHANGED <<user, jobs, snaps, host, deletion, spent>>
  BY DEF RecheckGeneration
<1>2. \/ Becomes(w, "fresh") /\ lock' = lock
      \/ Becomes(w, "stale") /\ lock' = Released(w)
  BY DEF RecheckGeneration
<1>3. spent' \in SpentRecord /\ {"fresh", "stale"} \subseteq Stage /\ "fresh" \in Publishing
  BY <1>1 DEF Typed, Stage, Working, Publishing
<1>4. CASE Becomes(w, "fresh") /\ lock' = lock
  BY <1>1, <1>3, <1>4, GoesOnTyped
<1>5. CASE Becomes(w, "stale") /\ lock' = Released(w)
  BY <1>1, <1>3, <1>5, GoesOnTyped
<1> QED
  BY <1>2, <1>4, <1>5

LEMMA PersistTyped ==
  ASSUME Typed, Bounded, NEW w \in Worker, Persist(w)
  PROVE  Typed' /\ Bounded'
<1> DEFINE draft == [version |-> 1 + LatestVersion, live |-> TRUE, reads |-> worker[w].reads,
                     rev |-> worker[w].rev, gen |-> user.gen, job |-> MyJob(w),
                     token |-> worker[w].token]
           live == {s \in snaps : s.live}
<1>1. draft \in Snapshot
  BY LatestTyped DEF Typed, Snapshot, WorkerRecord, UserRecord, MyJob
<1>2. live \in SUBSET Snapshot
  BY DEF Typed
<1>3. worker' = [worker EXCEPT ![w].stage = "persisted", ![w].draft = draft, ![w].retires = live]
  BY DEF Persist
<1> HIDE DEF draft, live
<1>4. /\ worker' \in [Worker -> WorkerRecord] /\ worker'[w].stage = "persisted"
      /\ \A v \in Worker \ {w} : worker'[v] = worker[v]
  <2> DEFINE next == [worker[w] EXCEPT !.stage = "persisted", !.draft = draft, !.retires = live]
  <2>1. "persisted" \in Stage /\ worker[w].stage = "gated" /\ worker[w] \in WorkerRecord
    BY DEF Persist, Stage, Working, Publishing, Typed
  <2>2. next \in WorkerRecord
    BY <1>1, <1>2, <2>1, RecordsTyped
  <2>3. worker' = [worker EXCEPT ![w] = next]
    BY <1>3 DEF Typed
  <2>4. next.stage = "persisted"
    BY <2>1 DEF WorkerRecord
  <2> HIDE DEF next
  <2> QED
    BY <2>2, <2>3, <2>4 DEF Typed
<1>5. LockTyped'
  BY <1>4, LockKept DEF Persist, Publishing
<1> QED
  BY <1>4, <1>5 DEF Persist, Typed, Bounded

LEMMA CompleteTyped ==
  ASSUME Typed, Bounded, NEW w \in Worker, Complete(w)
  PROVE  Typed' /\ Bounded'
<1>1. jobs' \in [Job -> JobRow]
  <2>1. MyJob(w) \in Job => WithStatus(w, "completed") \in JobRow
    BY WithStatusTyped DEF JobStatus, Finished
  <2> QED
    BY <2>1, JobStateTyped DEF Complete
<1>2. worker[w].queue \in SUBSET Job /\ worker[w].draft \in Snapshot
  BY DEF Typed, WorkerRecord
<1>3. worker' \in [Worker -> WorkerRecord] /\ LockTyped'
  BY <1>2, LeavesTyped DEF Complete
<1>4. snaps' \in SUBSET Snapshot
  BY <1>2, IdentityTyped DEF Complete, Published, Typed
<1>5. Bounded'
  <2>1. PICK n \in Nat : \A s \in snaps : s.version <= n
    BY DEF Bounded
  <2>2. PICK m \in Nat : n <= m /\ worker[w].draft.version <= m
    <3>1. worker[w].draft.version \in Nat
      BY <1>2 DEF Snapshot
    <3>2. n <= n + worker[w].draft.version /\ worker[w].draft.version <= n + worker[w].draft.version
          /\ n + worker[w].draft.version \in Nat
      BY <3>1
    <3> QED
      BY <3>2
  <2>3. \A s \in Snapshot : Identity(s).version = s.version
    BY DEF Identity, Snapshot
  <2>4. \A s \in snaps' : s.version <= m
    BY <1>2, <2>1, <2>2, <2>3 DEF Complete, Published, Typed, Snapshot
  <2> QED
    BY <2>4 DEF Bounded
<1> QED
  BY <1>1, <1>3, <1>4, <1>5 DEF Complete, Typed

LEMMA FailTyped ==
  ASSUME Typed, Bounded, NEW w \in Worker, Fail(w)
  PROVE  Typed' /\ Bounded'
<1>1. /\ Becomes(w, "failing") /\ worker[w].stage \in Working
      /\ UNCHANGED <<user, jobs, snaps, host, deletion>> /\ spent' \in SpentRecord
  BY SpentTyped DEF Fail, Working, Publishing
<1>2. \/ lock' = Released(w)
      \/ lock' = lock /\ lock # w
  BY DEF Fail, CanWrite
<1>3. worker[w].stage \notin {"idle", "ticked"} /\ "failing" \in Stage
  BY <1>1 DEF Working, Publishing, Stage
<1>4. /\ worker' \in [Worker -> WorkerRecord]
      /\ \A v \in Worker \ {w} : worker'[v] = worker[v]
  BY <1>1, <1>3, StageTyped
<1>5. LockTyped'
  BY <1>2, <1>4, LockKept
<1> QED
  BY <1>1, <1>4, <1>5 DEF Typed, Bounded

LEMMA BusyTyped ==
  ASSUME Typed, Bounded, NEW w \in Worker, Busy(w)
  PROVE  Typed' /\ Bounded'
<1>1. /\ Becomes(w, "deferring") /\ worker[w].stage \in Working
      /\ UNCHANGED <<user, jobs, snaps, host, deletion>> /\ spent' \in SpentRecord
  BY SpentTyped DEF Busy, Working, Publishing
<1>2. \/ lock' = Released(w)
      \/ lock' = lock /\ lock # w
  BY DEF Busy, CanWrite
<1>3. worker[w].stage \notin {"idle", "ticked"} /\ "deferring" \in Stage
  BY <1>1 DEF Working, Publishing, Stage
<1>4. /\ worker' \in [Worker -> WorkerRecord]
      /\ \A v \in Worker \ {w} : worker'[v] = worker[v]
  BY <1>1, <1>3, StageTyped
<1>5. LockTyped'
  BY <1>2, <1>4, LockKept
<1> QED
  BY <1>1, <1>4, <1>5 DEF Typed, Bounded

LEMMA RecordFailureTyped ==
  ASSUME Typed, Bounded, NEW w \in Worker, RecordFailure(w)
  PROVE  Typed' /\ Bounded'
<1> DEFINE tries == IF worker[w].tries = 0 THEN 0 ELSE worker[w].tries - 1
<1>1. tries \in Nat
  BY DEF Typed, WorkerRecord
<1>2. PICK changed : /\ SetJobState(w, changed)
                     /\ changed \in {[WithStatus(w, "pending") EXCEPT !.attempts = tries],
                                     WithStatus(w, "pending"), WithStatus(w, "failed")}
  BY DEF RecordFailure
<1>3. MyJob(w) \in Job => changed \in JobRow
  <2>1. MyJob(w) \in Job =>
          WithStatus(w, "pending") \in JobRow /\ WithStatus(w, "failed") \in JobRow
    BY WithStatusTyped DEF JobStatus, Active, Finished
  <2> HIDE DEF tries
  <2>2. \A row \in JobRow : [row EXCEPT !.attempts = tries] \in JobRow
    BY <1>1 DEF JobRow
  <2> QED
    BY <1>2, <2>1, <2>2
<1>4. jobs' \in [Job -> JobRow]
  BY <1>2, <1>3, JobStateTyped
<1>5. PICK queue \in SUBSET Job : Leave(w, queue)
  <2>1. worker[w].queue \in SUBSET Job
    BY DEF Typed, WorkerRecord
  <2> QED
    BY <2>1 DEF RecordFailure
<1>6. worker' \in [Worker -> WorkerRecord] /\ LockTyped'
  BY <1>5, LeavesTyped
<1> QED
  BY <1>4, <1>6 DEF RecordFailure, Typed, Bounded

LEMMA GiveUpTyped ==
  ASSUME Typed, Bounded, NEW w \in Worker, GiveUp(w)
  PROVE  Typed' /\ Bounded'
<1>1. {} \in SUBSET Job
  OBVIOUS
<1>2. /\ worker' \in [Worker -> WorkerRecord]
      /\ \A v \in Worker \ {w} : worker'[v] = worker[v]
  BY <1>1, RestsTyped DEF GiveUp
<1>3. LockTyped'
  BY <1>2, LockKept DEF GiveUp, CanWrite
<1> QED
  BY <1>2, <1>3 DEF GiveUp, Typed, Bounded

LEMMA CrashTyped ==
  ASSUME Typed, Bounded, NEW w \in Worker, Crash(w)
  PROVE  Typed' /\ Bounded'
<1>1. {} \in SUBSET Job
  OBVIOUS
<1>2. worker' \in [Worker -> WorkerRecord] /\ LockTyped'
  BY <1>1, LeavesTyped DEF Crash
<1> QED
  BY <1>2, SpentTyped DEF Crash, Typed, Bounded

LEMMA LeaseExpiresTyped ==
  ASSUME Typed, Bounded, NEW j \in Job, LeaseExpires(j)
  PROVE  Typed' /\ Bounded'
<1>1. jobs' \in [Job -> JobRow]
  BY DEF LeaseExpires, Typed, JobRow
<1>2. spent' \in SpentRecord
  BY SpentTyped DEF LeaseExpires, Typed
<1> QED
  BY <1>1, <1>2 DEF LeaseExpires, Typed, Bounded, LockTyped


-----------------------------------------------------------------------------
(* Fencing.                                                                 *)

Having == Working \cup {"failing", "deferring"}
Claims(w) == worker[w].stage = "claimed"
Has(w) == worker[w].stage \in Having

\* What a worker is at has been inserted, and its token is at most the row's.
RowsExist ==
  \A w \in Worker :
    /\ Claims(w) \/ Has(w) => jobs[MyJob(w)].status # "none"
    /\ Has(w) => worker[w].token <= jobs[MyJob(w)].token

\* A claim whose token has not been read yet is not swept.
ClaimsStand ==
  \A w \in Worker : Claims(w) =>
    /\ jobs[MyJob(w)].status \in {"running", "deleted", "cancelled"}
    /\ jobs[MyJob(w)].status = "running" => ~jobs[MyJob(w)].expired

\* ... and everyone else at the job carries an older token.
ClaimsAreNewest ==
  \A v, w \in Worker : Claims(w) /\ v # w /\ MyJob(v) = MyJob(w) =>
    /\ ~Claims(v)
    /\ Has(v) => worker[v].token < jobs[MyJob(w)].token

TokensAreOwn ==
  \A v, w \in Worker : Has(v) /\ Has(w) /\ v # w /\ MyJob(v) = MyJob(w) =>
    worker[v].token # worker[w].token

\* Snapshots come from rows that exist, under tokens these have had.
SnapshotsAreOld ==
  \A s \in snaps : /\ s.job \in Job /\ jobs[s.job].status # "none"
                   /\ s.token <= jobs[s.job].token

\* A worker that is still at its job has not published under its token.
HeldIsUnpublished ==
  \A w \in Worker, s \in snaps : s.job = MyJob(w) =>
    /\ Claims(w) => s.token < jobs[s.job].token
    /\ Has(w) => s.token # worker[w].token

\* What is about to be published under the newest token is the newest version.
DraftsAreNewest ==
  \A w \in Worker : worker[w].stage = "persisted" =>
    /\ worker[w].draft.job = MyJob(w) /\ worker[w].draft.token = worker[w].token
    /\ \A s \in snaps : s.job = MyJob(w) /\ worker[w].token = jobs[s.job].token =>
         s.version <= worker[w].draft.version

Fencing == /\ RowsExist /\ ClaimsStand /\ ClaimsAreNewest /\ TokensAreOwn
           /\ SnapshotsAreOld /\ HeldIsUnpublished /\ DraftsAreNewest /\ TokensOrderVersions

\* A step that gives no lease and publishes nothing: workers go on or leave, rows
\* keep their token, and a row someone has just claimed is not taken back.
Goes(w) ==
  \/ worker'[w].stage \in {"idle", "ticked"}
  \/ /\ worker'[w].job = worker[w].job /\ worker'[w].token = worker[w].token
     /\ worker'[w].stage = worker[w].stage \/ (Has(w) /\ worker'[w].stage \in Having)
     /\ worker'[w].stage = "persisted" =>
          worker[w].stage = "persisted" /\ worker'[w].draft = worker[w].draft
RowKept(j) ==
  jobs[j].status # "none" =>
    /\ jobs'[j].status # "none" /\ jobs'[j].token = jobs[j].token
    /\ \/ jobs'[j].status = jobs[j].status /\ (jobs'[j].expired => jobs[j].expired)
       \/ jobs'[j].status \in {"deleted", "cancelled"}
       \/ \A w \in Worker : Claims(w) => MyJob(w) # j
SnapshotsKept ==
  \A s \in snaps' : \E t \in snaps : s.job = t.job /\ s.token = t.token /\ s.version = t.version
Quiet == /\ \A w \in Worker : Goes(w)
         /\ \A j \in Job : RowKept(j)
         /\ SnapshotsKept

LEMMA AtAJob ==
  ASSUME Typed, NEW w \in Worker
  PROVE  /\ Claims(w) => ~Has(w)
         /\ Claims(w) \/ Has(w) => MyJob(w) \in Job /\ worker[w].stage \notin {"idle", "ticked"}
         /\ worker[w].token \in Nat /\ worker[w].job = MyJob(w)
  BY DEF Typed, WorkerRecord, Claims, Has, Having, Working, Publishing, MyJob

LEMMA QuietKeepsFencing ==
  ASSUME Typed, Fencing, Quiet
  PROVE  Fencing'
<1>1. \A w \in Worker :
        /\ Claims(w)' => Claims(w)
        /\ Has(w)' => Has(w)
        /\ Claims(w)' \/ Has(w)' => MyJob(w)' = MyJob(w) /\ worker'[w].token = worker[w].token
        /\ worker'[w].stage = "persisted" =>
             Has(w) /\ worker[w].stage = "persisted" /\ worker'[w].draft = worker[w].draft
             /\ MyJob(w)' = MyJob(w) /\ worker'[w].token = worker[w].token
  BY DEF Quiet, Goes, Claims, Has, Having, Working, Publishing, MyJob
<1>2. \A w \in Worker :
        /\ Claims(w) \/ Has(w) => MyJob(w) \in Job /\ jobs[MyJob(w)].status # "none"
        /\ Claims(w) => ~Has(w)
  BY AtAJob DEF Fencing, RowsExist
<1>3. \A w \in Worker : Claims(w) \/ Has(w) =>
        /\ jobs'[MyJob(w)].status # "none" /\ jobs'[MyJob(w)].token = jobs[MyJob(w)].token
  BY <1>2 DEF Quiet, RowKept
<1>4. \A s \in snaps : /\ s.job \in Job /\ jobs'[s.job].status # "none"
                       /\ jobs'[s.job].token = jobs[s.job].token
  BY DEF Fencing, SnapshotsAreOld, Quiet, RowKept
<1>5. RowsExist'
  BY <1>1, <1>3 DEF Fencing, RowsExist
<1>6. ClaimsStand'
  <2> SUFFICES ASSUME NEW w \in Worker, Claims(w)'
               PROVE  /\ jobs'[MyJob(w)].status \in {"running", "deleted", "cancelled"}
                      /\ jobs'[MyJob(w)].status = "running" => ~jobs'[MyJob(w)].expired
    BY <1>1 DEF ClaimsStand
  <2>1. Claims(w) /\ MyJob(w) \in Job /\ jobs[MyJob(w)].status # "none"
    BY <1>1, <1>2
  <2>2. RowKept(MyJob(w))
    BY <2>1 DEF Quiet
  <2> QED
    BY <2>1, <2>2 DEF RowKept, Fencing, ClaimsStand
<1>7. ClaimsAreNewest'
  BY <1>1, <1>3 DEF Fencing, ClaimsAreNewest
<1>8. TokensAreOwn'
  BY <1>1 DEF Fencing, TokensAreOwn
<1>9. SnapshotsAreOld'
  BY <1>4 DEF Quiet, SnapshotsKept, Fencing, SnapshotsAreOld
<1>10. HeldIsUnpublished'
  BY <1>1, <1>3, <1>4 DEF Quiet, SnapshotsKept, Fencing, HeldIsUnpublished
<1>11. DraftsAreNewest'
  BY <1>1, <1>3, <1>4 DEF Quiet, SnapshotsKept, Fencing, DraftsAreNewest
<1>12. TokensOrderVersions'
  BY DEF Quiet, SnapshotsKept, Fencing, TokensOrderVersions
<1> QED
  BY <1>5, <1>6, <1>7, <1>8, <1>9, <1>10, <1>11, <1>12 DEF Fencing

LEMMA ThingsStay ==
  /\ UNCHANGED worker => \A w \in Worker : Goes(w)
  /\ UNCHANGED jobs => \A j \in Job : RowKept(j)
  /\ UNCHANGED snaps => SnapshotsKept
<1>1. ASSUME UNCHANGED worker PROVE \A w \in Worker : Goes(w)
  BY <1>1 DEF Goes
<1>2. ASSUME UNCHANGED jobs PROVE \A j \in Job : RowKept(j)
  BY <1>2 DEF RowKept
<1>3. ASSUME UNCHANGED snaps PROVE SnapshotsKept
  BY <1>3 DEF SnapshotsKept
<1> QED
  BY <1>1, <1>2, <1>3

LEMMA WorkerGoes ==
  ASSUME Typed, NEW w \in Worker, NEW next, worker' = [worker EXCEPT ![w] = next],
         \/ next.stage \in {"idle", "ticked"}
         \/ /\ Has(w) /\ next.stage \in Having \ {"persisted"}
            /\ next.job = worker[w].job /\ next.token = worker[w].token
  PROVE  \A v \in Worker : Goes(v)
<1>1. worker'[w] = next /\ \A v \in Worker \ {w} : worker'[v] = worker[v]
  BY DEF Typed
<1>2. Goes(w)
  BY <1>1 DEF Goes, Having
<1>3. \A v \in Worker \ {w} : Goes(v)
  BY <1>1 DEF Goes
<1> QED
  BY <1>2, <1>3

LEMMA StageGoes ==
  ASSUME Typed, NEW w \in Worker, NEW stage \in Having \ {"persisted"}, Becomes(w, stage), Has(w)
  PROVE  \A v \in Worker : Goes(v)
<1> DEFINE next == [worker[w] EXCEPT !.stage = stage]
<1>1. worker[w] \in WorkerRecord
  BY DEF Typed
<1>2. worker' = [worker EXCEPT ![w] = next]
  BY DEF Becomes, Typed
<1>3. next.stage = stage /\ next.job = worker[w].job /\ next.token = worker[w].token
  BY <1>1 DEF WorkerRecord
<1> HIDE DEF next
<1> QED
  BY <1>2, <1>3, WorkerGoes

LEMMA WorkerRests ==
  ASSUME Typed, NEW w \in Worker, NEW queue \in SUBSET Job,
         worker' = [worker EXCEPT ![w] = Resting(queue)]
  PROVE  \A v \in Worker : Goes(v)
  BY RestingTyped, WorkerGoes

LEMMA OwnRowChanges ==
  ASSUME Typed, Fencing, NEW w \in Worker, Has(w), NEW changed, SetJobState(w, changed),
         changed.status # "none", changed.token = jobs[MyJob(w)].token
  PROVE  \A j \in Job : RowKept(j)
<1>1. CASE ~Lands(w)
  BY <1>1, ThingsStay DEF SetJobState
<1>2. CASE Lands(w)
  <2>1. /\ jobs'[MyJob(w)] = changed /\ \A j \in Job \ {MyJob(w)} : jobs'[j] = jobs[j]
    BY <1>2, AtAJob DEF SetJobState, Typed
  <2>2. \A v \in Worker : Claims(v) => MyJob(v) # MyJob(w)
    BY <1>2, AtAJob DEF Fencing, ClaimsAreNewest, Lands, Fenced, Typed, JobRow
  <2>3. RowKept(MyJob(w))
    BY <2>1, <2>2 DEF RowKept
  <2>4. \A j \in Job \ {MyJob(w)} : RowKept(j)
    BY <2>1 DEF RowKept
  <2> QED
    BY <2>3, <2>4
<1> QED
  BY <1>1, <1>2

LEMMA RowFields ==
  ASSUME NEW row \in JobRow
  PROVE  /\ \A status : /\ [row EXCEPT !.status = status].status = status
                        /\ [row EXCEPT !.status = status].token = row.token
         /\ [row EXCEPT !.expired = FALSE].status = row.status
         /\ [row EXCEPT !.expired = FALSE].token = row.token
         /\ [row EXCEPT !.expired = FALSE].expired = FALSE
  BY DEF JobRow

LEMMA RowKeyed ==
  ASSUME NEW row \in JobRow, NEW key
  PROVE  /\ [row EXCEPT !.key = key].status = row.status
         /\ [row EXCEPT !.key = key].token = row.token
         /\ [row EXCEPT !.key = key].expired = row.expired
  BY DEF JobRow

LEMMA RowRenewed ==
  ASSUME NEW row \in JobRow
  PROVE  LET next == [row EXCEPT !.status = "pending", !.attempts = 0]
         IN  next.status = "pending" /\ next.token = row.token /\ next.expired = row.expired
  BY DEF JobRow

LEMMA EngineIsQuiet ==
  ASSUME \/ Observe \/ ToggleConsent \/ ChangeGrant \/ BeginDeleteUser \/ CancelJobs
         \/ DeleteSnapshots \/ AbortDeletion \/ (\E b \in Belief : BeginForget(b))
         \/ (\E h \in Host : ReadWatermark(h) \/ ReadQueue(h)) \/ UNCHANGED vars
  PROVE  Quiet
<1>1. UNCHANGED <<worker, jobs, snaps>>
  BY DEF Observe, ToggleConsent, ChangeGrant, BeginDeleteUser, CancelJobs, DeleteSnapshots,
         AbortDeletion, BeginForget, ReadWatermark, ReadQueue, vars
<1> QED
  BY <1>1, ThingsStay DEF Quiet

LEMMA CommitDeletionIsQuiet ==
  ASSUME Typed, CommitDeletion
  PROVE  Quiet
<1>1. UNCHANGED worker /\ snaps' \subseteq snaps
  BY DEF CommitDeletion
<1>2. SnapshotsKept
  BY <1>1 DEF SnapshotsKept
<1>3. \A j \in Job : \/ jobs'[j] = jobs[j]
                     \/ jobs'[j] = [jobs[j] EXCEPT !.status = "deleted"]
                     \/ jobs'[j] = [jobs[j] EXCEPT !.status = "cancelled"]
  BY DEF CommitDeletion
<1>4. \A j \in Job : /\ jobs'[j].token = jobs[j].token
                     /\ jobs'[j] = jobs[j] \/ jobs'[j].status \in {"deleted", "cancelled"}
  <2> SUFFICES ASSUME NEW j \in Job
               PROVE  /\ jobs'[j].token = jobs[j].token
                      /\ jobs'[j] = jobs[j] \/ jobs'[j].status \in {"deleted", "cancelled"}
    OBVIOUS
  <2>1. jobs[j] \in JobRow
    BY DEF Typed
  <2>2. CASE jobs'[j] = jobs[j]
    BY <2>2
  <2>3. CASE jobs'[j] = [jobs[j] EXCEPT !.status = "deleted"]
    BY <2>1, <2>3, RowFields
  <2>4. CASE jobs'[j] = [jobs[j] EXCEPT !.status = "cancelled"]
    BY <2>1, <2>4, RowFields
  <2> QED
    BY <1>3, <2>2, <2>3, <2>4
<1>5. \A j \in Job : RowKept(j)
  BY <1>4 DEF RowKept
<1> QED
  BY <1>1, <1>2, <1>5, ThingsStay DEF Quiet

LEMMA HostIsQuiet ==
  ASSUME Typed, Fencing, NEW h \in Host, Merge(h) \/ Revive(h) \/ Insert(h)
  PROVE  Quiet
<1>1. UNCHANGED <<worker, snaps>>
  BY DEF Merge, Revive, Insert
<1>2. CASE Merge(h)
  <2>1. \A j \in Job : \/ jobs'[j] = jobs[j]
                       \/ jobs'[j] = [jobs[j] EXCEPT !.key = host[h].key]
    BY <1>2 DEF Merge, Typed
  <2>2. \A j \in Job : jobs[j] \in JobRow
    BY DEF Typed
  <2>3. \A j \in Job : /\ jobs'[j].status = jobs[j].status
                       /\ jobs'[j].token = jobs[j].token
                       /\ jobs'[j].expired = jobs[j].expired
    <3> SUFFICES ASSUME NEW j \in Job
                 PROVE  /\ jobs'[j].status = jobs[j].status
                        /\ jobs'[j].token = jobs[j].token
                        /\ jobs'[j].expired = jobs[j].expired
      OBVIOUS
    <3> DEFINE row == jobs[j]
               next == [row EXCEPT !.key = host[h].key]
    <3>1. row \in JobRow
      BY <2>2
    <3>2. next.status = row.status /\ next.token = row.token /\ next.expired = row.expired
      BY <3>1, RowKeyed
    <3>3. jobs'[j] = row \/ jobs'[j] = next
      BY <2>1
    <3> HIDE DEF next
    <3> QED
      BY <3>2, <3>3
  <2>4. \A j \in Job : RowKept(j)
    BY <2>3 DEF RowKept
  <2> QED
    BY <1>1, <2>4, ThingsStay DEF Quiet
<1>3. CASE Revive(h)
  <2>1. \A j \in Job :
          \/ jobs'[j] = jobs[j]
          \/ /\ jobs[j].status \in Finished
             /\ jobs'[j] = [jobs[j] EXCEPT !.status = "pending", !.attempts = 0]
    BY <1>3 DEF Revive, Typed
  <2>2. \A j \in Job : jobs[j].status \in Finished =>
          \A w \in Worker : Claims(w) => MyJob(w) # j
    BY DEF Fencing, ClaimsStand, Finished
  <2>3. \A j \in Job : jobs[j] \in JobRow
    BY DEF Typed
  <2>4. \A j \in Job : /\ jobs'[j].status = jobs[j].status \/ jobs[j].status \in Finished
                       /\ jobs'[j].status # "none" \/ jobs[j].status = "none"
                       /\ jobs'[j].token = jobs[j].token
                       /\ jobs'[j].expired = jobs[j].expired
    <3> SUFFICES ASSUME NEW j \in Job
                 PROVE  /\ jobs'[j].status = jobs[j].status \/ jobs[j].status \in Finished
                        /\ jobs'[j].status # "none" \/ jobs[j].status = "none"
                        /\ jobs'[j].token = jobs[j].token
                        /\ jobs'[j].expired = jobs[j].expired
      OBVIOUS
    <3> DEFINE row == jobs[j]
               next == [row EXCEPT !.status = "pending", !.attempts = 0]
    <3>1. row \in JobRow
      BY <2>3
    <3>2. next.status = "pending" /\ next.token = row.token /\ next.expired = row.expired
      BY <3>1, RowRenewed
    <3>3. jobs'[j] = row \/ (row.status \in Finished /\ jobs'[j] = next)
      BY <2>1
    <3> HIDE DEF next
    <3> QED
      BY <3>2, <3>3
  <2>5. \A j \in Job : RowKept(j)
    BY <2>2, <2>4 DEF RowKept
  <2> QED
    BY <1>1, <2>5, ThingsStay DEF Quiet
<1>4. CASE Insert(h)
  <2> DEFINE unused == JobsWith({"none"})
             new == CHOOSE i \in unused : \A k \in unused : i <= k
  <2>1. unused # {} => new \in unused
    <3> SUFFICES ASSUME unused # {} PROVE new \in unused
      OBVIOUS
    <3>1. unused \subseteq Nat
      BY DEF JobsWith, Job
    <3>2. \E m \in unused : \A k \in unused : m <= k
      BY <3>1, Least
    <3> QED
      BY <3>2
  <2> HIDE DEF new
  <2>2. \A j \in Job : jobs'[j] = jobs[j] \/ (unused # {} /\ j = new)
    BY <1>4 DEF Insert, Typed, new
  <2>3. \A j \in Job : jobs'[j] = jobs[j] \/ jobs[j].status = "none"
    BY <2>1, <2>2 DEF JobsWith
  <2> QED
    BY <1>1, <2>3, ThingsStay DEF Quiet, RowKept
<1> QED
  BY <1>2, <1>3, <1>4

LEMMA ExpiryIsQuiet ==
  ASSUME Typed, ~StallAfterClaim, NEW j \in Job, LeaseExpires(j)
  PROVE  Quiet
<1>1. \A i \in Job \ {j} : jobs'[i] = jobs[i]
  BY DEF LeaseExpires, Typed
<1>2. jobs'[j].status = jobs[j].status /\ jobs'[j].token = jobs[j].token
  BY DEF LeaseExpires, Typed, JobRow
<1>3. \A w \in Worker : Claims(w) => MyJob(w) # j
  BY DEF LeaseExpires, Holders, Claims
<1>4. \A i \in Job : RowKept(i)
  BY <1>1, <1>2, <1>3 DEF RowKept
<1> QED
  BY <1>4, ThingsStay DEF Quiet, LeaseExpires

LEMMA TickIsQuiet ==
  ASSUME Typed, Fencing, NEW w \in Worker, Tick(w)
  PROVE  Quiet
<1> DEFINE taken == JobsWith({"pending"}) \cup Expired
<1>1. taken \in SUBSET Job /\ worker' = [worker EXCEPT ![w] = Resting(taken)] /\ UNCHANGED snaps
  BY DEF Tick, JobsWith, Expired
<1>2. \A v \in Worker : Goes(v)
  BY <1>1, WorkerRests
<1>3. \A j \in Job : \/ jobs'[j] = jobs[j]
                     \/ j \in Expired /\ jobs'[j] = [jobs[j] EXCEPT !.status = "pending"]
  BY DEF Tick
<1>4. \A j \in Expired : \A v \in Worker : Claims(v) => MyJob(v) # j
  BY DEF Expired, JobsWith, Fencing, ClaimsStand
<1>5. \A j \in Job : RowKept(j)
  BY <1>3, <1>4 DEF RowKept, Typed, JobRow
<1> QED
  BY <1>1, <1>2, <1>5, ThingsStay DEF Quiet

LEMMA BlockIsQuiet ==
  ASSUME Typed, Fencing, NEW w \in Worker, Block(w), Has(w)
  PROVE  Quiet
<1>1. WithStatus(w, "cancelled").status # "none"
      /\ WithStatus(w, "cancelled").token = jobs[MyJob(w)].token
  BY AtAJob DEF WithStatus, Typed, JobRow
<1>2. \A j \in Job : RowKept(j)
  BY <1>1, OwnRowChanges DEF Block
<1>3. worker[w].queue \in SUBSET Job /\ worker' = [worker EXCEPT ![w] = Resting(worker[w].queue)]
  BY DEF Typed, WorkerRecord, Block, Leave
<1>4. \A v \in Worker : Goes(v)
  BY <1>3, WorkerRests
<1> QED
  BY <1>2, <1>4, ThingsStay DEF Quiet, Block

LEMMA RenewIsQuiet ==
  ASSUME Typed, Fencing, NEW w \in Worker, RenewBeforeSnapshot(w) \/ RenewBeforePublish(w)
  PROVE  Quiet
<1>1. PICK from \in {"owned", "computing"}, to \in {"leased", "renewed"} : Renew(w, from, to)
  BY DEF RenewBeforeSnapshot, RenewBeforePublish
<1>2. Has(w) /\ to \in Having \ {"persisted"} /\ UNCHANGED snaps
  BY <1>1 DEF Renew, Has, Having, Working
<1>3. CASE Fenced(w) /\ jobs[MyJob(w)].status = "running"
  <2>1. \A v \in Worker : Goes(v)
    BY <1>1, <1>2, <1>3, StageGoes DEF Renew
  <2>2. \A j \in Job : \/ jobs'[j] = jobs[j]
                       \/ jobs'[j] = [jobs[j] EXCEPT !.expired = FALSE]
    BY <1>1, <1>3 DEF Renew, Typed
  <2>3. \A j \in Job : RowKept(j)
    BY <2>2, RowFields DEF RowKept, Typed
  <2> QED
    BY <1>2, <2>1, <2>3, ThingsStay DEF Quiet
<1>4. CASE ~(Fenced(w) /\ jobs[MyJob(w)].status = "running")
  <2>1. worker[w].queue \in SUBSET Job /\ worker' = [worker EXCEPT ![w] = Resting(worker[w].queue)]
        /\ UNCHANGED jobs
    BY <1>1, <1>4 DEF Renew, Typed, WorkerRecord
  <2> QED
    BY <1>2, <2>1, WorkerRests, ThingsStay DEF Quiet
<1> QED
  BY <1>3, <1>4

LEMMA GatesAreQuiet ==
  ASSUME Typed, Fencing, NEW w \in Worker,
         \/ CheckGates(w) \/ Recheck(w) \/ CancelStale(w) \/ PassGates(w)
         \/ RecordInvocation(w) \/ RecheckGeneration(w) \/ Fail(w) \/ Busy(w)
  PROVE  Quiet
<1>1. Has(w)
  BY DEF CheckGates, Recheck, CancelStale, PassGates, RecordInvocation, RecheckGeneration,
         Fail, Busy, Has, Having, Working, Publishing
<1>2. \/ Block(w)
      \/ UNCHANGED <<jobs, snaps>> /\ \E stage \in Having \ {"persisted"} : Becomes(w, stage)
  <2> USE DEF Having, Working, Publishing
  <2>1. CASE CheckGates(w)
    BY <2>1 DEF CheckGates
  <2>2. CASE Recheck(w)
    BY <2>2 DEF Recheck
  <2>3. CASE CancelStale(w)
    BY <2>3 DEF CancelStale
  <2>4. CASE PassGates(w)
    BY <2>4 DEF PassGates
  <2>5. CASE RecordInvocation(w)
    BY <2>5 DEF RecordInvocation
  <2>6. CASE RecheckGeneration(w)
    BY <2>6 DEF RecheckGeneration
  <2>7. CASE Fail(w)
    BY <2>7 DEF Fail
  <2>8. CASE Busy(w)
    BY <2>8 DEF Busy
  <2> QED
    BY <2>1, <2>2, <2>3, <2>4, <2>5, <2>6, <2>7, <2>8
<1> QED
  BY <1>1, <1>2, BlockIsQuiet, StageGoes, ThingsStay DEF Quiet

LEMMA SnapshotReadsAreQuiet ==
  ASSUME Typed, NEW w \in Worker, ReadRevision(w) \/ ReadGeneration(w) \/ LoadEvidence(w)
  PROVE  Quiet
<1> DEFINE dated == [worker[w] EXCEPT !.stage = "dated", !.rev = user.rev]
           numbered == [worker[w] EXCEPT !.stage = "numbered", !.gen = user.gen]
           computing == [worker[w] EXCEPT !.stage = "computing", !.reads = user.beliefs]
<1>1. PICK next \in {dated, numbered, computing} : worker' = [worker EXCEPT ![w] = next]
  BY DEF ReadRevision, ReadGeneration, LoadEvidence, Typed
<1>2. Has(w) /\ UNCHANGED <<jobs, snaps>>
  BY DEF ReadRevision, ReadGeneration, LoadEvidence, Has, Having, Working
<1>3. worker[w] \in WorkerRecord
  BY DEF Typed
<1>4. next.stage \in {"dated", "numbered", "computing"}
      /\ next.job = worker[w].job /\ next.token = worker[w].token
  BY <1>3 DEF WorkerRecord
<1> HIDE DEF dated, numbered, computing
<1>5. \A v \in Worker : Goes(v)
  BY <1>1, <1>2, <1>4, WorkerGoes DEF Having, Working
<1> QED
  BY <1>2, <1>5, ThingsStay DEF Quiet

LEMMA LeavingIsQuiet ==
  ASSUME Typed, Fencing, NEW w \in Worker, RecordFailure(w) \/ GiveUp(w) \/ Crash(w)
  PROVE  Quiet
<1>1. UNCHANGED snaps
  BY DEF RecordFailure, GiveUp, Crash
<1>2. PICK queue \in SUBSET Job : worker' = [worker EXCEPT ![w] = Resting(queue)]
  <2>1. worker[w].queue \in SUBSET Job /\ {} \in SUBSET Job
    BY DEF Typed, WorkerRecord
  <2> QED
    BY <2>1 DEF RecordFailure, GiveUp, Crash, Leave
<1>3. \A v \in Worker : Goes(v)
  BY <1>2, WorkerRests
<1>4. CASE RecordFailure(w)
  <2> DEFINE tries == IF worker[w].tries = 0 THEN 0 ELSE worker[w].tries - 1
  <2>1. Has(w)
    BY <1>4 DEF RecordFailure, Has, Having
  <2>2. PICK changed : /\ SetJobState(w, changed)
                       /\ changed \in {[WithStatus(w, "pending") EXCEPT !.attempts = tries],
                                       WithStatus(w, "pending"), WithStatus(w, "failed")}
    BY <1>4 DEF RecordFailure
  <2>3. changed.status # "none" /\ changed.token = jobs[MyJob(w)].token
    <3>1. jobs[MyJob(w)] \in JobRow
      BY <2>1, AtAJob DEF Typed
    <3> QED
      BY <2>2, <3>1 DEF WithStatus, JobRow
  <2>4. \A j \in Job : RowKept(j)
    BY <2>1, <2>2, <2>3, OwnRowChanges
  <2> QED
    BY <1>1, <1>3, <2>4, ThingsStay DEF Quiet
<1>5. CASE GiveUp(w) \/ Crash(w)
  BY <1>1, <1>3, <1>5, ThingsStay DEF Quiet, GiveUp, Crash
<1> QED
  BY <1>4, <1>5

LEMMA ClaimKeepsFencing ==
  ASSUME Typed, Fencing, NEW w \in Worker, NEW j \in Job, Claim(w, j)
  PROVE  Fencing'
<1>1. CASE jobs[j].status # "pending"
  <2>1. worker[w].queue \ {j} \in SUBSET Job
    BY DEF Typed, WorkerRecord
  <2>2. worker' = [worker EXCEPT ![w] = Resting(worker[w].queue \ {j})] /\ UNCHANGED <<jobs, snaps>>
    BY <1>1 DEF Claim
  <2> QED
    BY <2>1, <2>2, WorkerRests, ThingsStay, QuietKeepsFencing DEF Quiet
<1>2. CASE jobs[j].status = "pending"
  <2>1. /\ worker'[w].stage = "claimed" /\ worker'[w].job = j
        /\ \A v \in Worker \ {w} : worker'[v] = worker[v]
    <3>1. worker' = [worker EXCEPT ![w].stage = "claimed", ![w].job = j, ![w].queue = @ \ {j}]
      BY <1>2 DEF Claim
    <3>2. worker[w] \in WorkerRecord
      BY DEF Typed
    <3>3. worker'[w] = [worker[w] EXCEPT !.stage = "claimed", !.job = j,
                                          !.queue = worker[w].queue \ {j}]
      BY <3>1 DEF Typed
    <3>4. \A v \in Worker \ {w} : worker'[v] = worker[v]
      BY <3>1 DEF Typed
    <3> QED
      BY <3>2, <3>3, <3>4 DEF WorkerRecord
  <2>2. /\ jobs'[j].status = "running" /\ ~jobs'[j].expired
        /\ jobs'[j].token = jobs[j].token + 1 /\ jobs[j].token \in Nat
        /\ \A i \in Job \ {j} : jobs'[i] = jobs[i]
    <3>1. jobs' = [jobs EXCEPT ![j] = Taken(jobs[j])] /\ jobs[j] \in JobRow
      BY <1>2 DEF Claim, Typed
    <3>2. jobs'[j] = Taken(jobs[j]) /\ \A i \in Job \ {j} : jobs'[i] = jobs[i]
      BY <3>1 DEF Typed
    <3>3. /\ Taken(jobs[j]).status = "running" /\ ~Taken(jobs[j]).expired
          /\ Taken(jobs[j]).token = jobs[j].token + 1 /\ jobs[j].token \in Nat
      BY <3>1 DEF Taken, JobRow
    <3> QED
      BY <3>2, <3>3
  <2>3. snaps' = snaps
    BY DEF Claim
  <2>4. /\ Claims(w)' /\ ~Has(w)' /\ MyJob(w)' = j
        /\ \A v \in Worker \ {w} : /\ Claims(v)' = Claims(v) /\ Has(v)' = Has(v)
                                   /\ MyJob(v)' = MyJob(v) /\ worker'[v] = worker[v]
    BY <2>1 DEF Claims, Has, Having, Working, Publishing, MyJob
  <2>5. \A v \in Worker :
          /\ Claims(v) \/ Has(v) => MyJob(v) \in Job
          /\ Claims(v) => MyJob(v) # j
          /\ worker[v].token \in Nat
    BY <1>2, AtAJob DEF Fencing, ClaimsStand
  <2>6. \A v \in Worker : Has(v) /\ MyJob(v) = j => worker[v].token <= jobs[j].token
    BY DEF Fencing, RowsExist
  <2>7. \A s \in snaps : s.token \in Nat /\ s.job \in Job /\ (s.job = j => s.token <= jobs[j].token)
    BY DEF Fencing, SnapshotsAreOld, Typed, Snapshot
  <2>8. RowsExist'
    BY <2>2, <2>4, <2>5, <2>6 DEF Fencing, RowsExist
  <2>9. ClaimsStand'
    BY <2>2, <2>4, <2>5 DEF Fencing, ClaimsStand
  <2>10. ClaimsAreNewest'
    BY <2>2, <2>4, <2>5, <2>6 DEF Fencing, ClaimsAreNewest
  <2>11. TokensAreOwn'
    BY <2>4 DEF Fencing, TokensAreOwn
  <2>12. SnapshotsAreOld'
    BY <2>2, <2>3, <2>7 DEF Fencing, SnapshotsAreOld
  <2>13. HeldIsUnpublished'
    BY <2>2, <2>3, <2>4, <2>5, <2>7 DEF Fencing, HeldIsUnpublished
  <2>14. DraftsAreNewest'
    <3> SUFFICES ASSUME NEW v \in Worker, worker'[v].stage = "persisted"
                 PROVE  /\ worker'[v].draft.job = MyJob(v)'
                        /\ worker'[v].draft.token = worker'[v].token
                        /\ \A s \in snaps :
                             s.job = MyJob(v)' /\ worker'[v].token = jobs'[s.job].token
                               => s.version <= worker'[v].draft.version
      BY <2>3 DEF DraftsAreNewest
    <3>1. v # w /\ worker'[v] = worker[v] /\ MyJob(v)' = MyJob(v) /\ Has(v)
      BY <2>1, <2>4 DEF Has, Having, Working, Publishing
    <3>2. MyJob(v) = j => worker[v].token # jobs'[j].token
      BY <2>2, <2>5, <2>6, <3>1
    <3> QED
      BY <2>2, <2>7, <3>1, <3>2 DEF Fencing, DraftsAreNewest
  <2>15. TokensOrderVersions'
    BY <2>3 DEF Fencing, TokensOrderVersions
  <2> QED
    BY <2>8, <2>9, <2>10, <2>11, <2>12, <2>13, <2>14, <2>15 DEF Fencing
<1> QED
  BY <1>1, <1>2

LEMMA ReadTokenKeepsFencing ==
  ASSUME Typed, Fencing, NEW w \in Worker, ReadToken(w)
  PROVE  Fencing'
<1>1. jobs' = jobs /\ snaps' = snaps
  BY DEF ReadToken
<1>2. CASE ~HasRow(MyJob(w))
  <2>1. worker' = [worker EXCEPT ![w] = Resting({})]
    BY <1>2 DEF ReadToken
  <2>2. \A v \in Worker : Goes(v)
    <3>1. {} \in SUBSET Job
      OBVIOUS
    <3> QED
      BY <2>1, <3>1, WorkerRests
  <2> QED
    BY <1>1, <2>2, ThingsStay, QuietKeepsFencing DEF Quiet
<1>3. CASE HasRow(MyJob(w))
  <2>1. Claims(w) /\ ~Has(w) /\ MyJob(w) \in Job
    BY AtAJob DEF ReadToken, Claims
  <2>2. /\ worker'[w].stage = "owned" /\ worker'[w].token = jobs[MyJob(w)].token
        /\ worker'[w].job = worker[w].job
        /\ \A v \in Worker \ {w} : worker'[v] = worker[v]
    <3>1. worker[w] \in WorkerRecord
      BY DEF Typed
    <3>2. worker'[w] = [worker[w] EXCEPT !.stage = "owned", !.token = jobs[MyJob(w)].token,
                                          !.tries = jobs[MyJob(w)].attempts]
      BY <1>3 DEF ReadToken, Typed
    <3>3. \A v \in Worker \ {w} : worker'[v] = worker[v]
      BY <1>3 DEF ReadToken, Typed
    <3> QED
      BY <3>1, <3>2, <3>3 DEF WorkerRecord
  <2>3. /\ ~Claims(w)' /\ Has(w)' /\ MyJob(w)' = MyJob(w)
        /\ \A v \in Worker \ {w} : /\ Claims(v)' = Claims(v) /\ Has(v)' = Has(v)
                                   /\ MyJob(v)' = MyJob(v) /\ worker'[v] = worker[v]
    BY <2>2 DEF Claims, Has, Having, Working, Publishing, MyJob
  <2>4. jobs[MyJob(w)].token \in Nat /\ jobs[MyJob(w)].status # "none"
    BY <2>1 DEF Typed, JobRow, Fencing, RowsExist
  <2>5. \A v \in Worker : worker[v].token \in Nat
    BY AtAJob
  <2>6. \A v \in Worker \ {w} : MyJob(v) = MyJob(w) =>
          ~Claims(v) /\ (Has(v) => worker[v].token < jobs[MyJob(w)].token)
    BY <2>1 DEF Fencing, ClaimsAreNewest
  <2>7. RowsExist'
    BY <1>1, <2>2, <2>3, <2>4 DEF Fencing, RowsExist
  <2>8. ClaimsStand'
    BY <1>1, <2>3 DEF Fencing, ClaimsStand
  <2>9. ClaimsAreNewest'
    BY <1>1, <2>1, <2>3, <2>6 DEF Fencing, ClaimsAreNewest
  <2>10. TokensAreOwn'
    BY <2>2, <2>3, <2>4, <2>5, <2>6 DEF Fencing, TokensAreOwn
  <2>11. SnapshotsAreOld'
    BY <1>1 DEF Fencing, SnapshotsAreOld
  <2>12. HeldIsUnpublished'
    <3>1. \A s \in snaps : s.token \in Nat /\ (s.job = MyJob(w) => s.token < jobs[s.job].token)
      BY <2>1 DEF Fencing, HeldIsUnpublished, Typed, Snapshot
    <3> QED
      BY <1>1, <2>2, <2>3, <2>4, <3>1 DEF Fencing, HeldIsUnpublished
  <2>13. DraftsAreNewest'
    BY <1>1, <2>2, <2>3 DEF Fencing, DraftsAreNewest
  <2>14. TokensOrderVersions'
    BY <1>1 DEF Fencing, TokensOrderVersions
  <2> QED
    BY <2>7, <2>8, <2>9, <2>10, <2>11, <2>12, <2>13, <2>14 DEF Fencing
<1> QED
  BY <1>2, <1>3

LEMMA PersistKeepsFencing ==
  ASSUME Typed, Bounded, Fencing, NEW w \in Worker, Persist(w)
  PROVE  Fencing'
<1> DEFINE draft == [version |-> 1 + LatestVersion, live |-> TRUE, reads |-> worker[w].reads,
                     rev |-> worker[w].rev, gen |-> user.gen, job |-> MyJob(w),
                     token |-> worker[w].token]
           live == {s \in snaps : s.live}
<1>1. jobs' = jobs /\ snaps' = snaps /\ Has(w)
  BY DEF Persist, Has, Having, Working, Publishing
<1>2. /\ worker'[w].stage = "persisted" /\ worker'[w].draft = draft
      /\ worker'[w].job = worker[w].job /\ worker'[w].token = worker[w].token
      /\ \A v \in Worker \ {w} : worker'[v] = worker[v]
  <2>1. worker' = [worker EXCEPT ![w].stage = "persisted", ![w].draft = draft, ![w].retires = live]
    BY DEF Persist
  <2> HIDE DEF draft, live
  <2>2. worker[w] \in WorkerRecord
    BY DEF Typed
  <2>3. worker'[w] = [worker[w] EXCEPT !.stage = "persisted", !.draft = draft, !.retires = live]
    BY <2>1 DEF Typed
  <2>4. \A v \in Worker \ {w} : worker'[v] = worker[v]
    BY <2>1 DEF Typed
  <2> QED
    BY <2>2, <2>3, <2>4 DEF WorkerRecord
<1>3. \A v \in Worker : /\ Claims(v)' = Claims(v) /\ Has(v)' = Has(v) /\ MyJob(v)' = MyJob(v)
                        /\ worker'[v].token = worker[v].token
  BY <1>1, <1>2, AtAJob DEF Claims, Has, Having, Working, Publishing, MyJob
<1>4. /\ draft.job = MyJob(w) /\ draft.token = worker[w].token
      /\ \A s \in snaps : s.version <= draft.version
  BY LatestTyped DEF Typed, Snapshot
<1> HIDE DEF draft, live
<1>5. RowsExist' /\ ClaimsStand' /\ ClaimsAreNewest' /\ TokensAreOwn'
  <2>1. RowsExist'
    BY <1>1, <1>3 DEF Fencing, RowsExist
  <2>2. ClaimsStand'
    BY <1>1, <1>3 DEF Fencing, ClaimsStand
  <2>3. ClaimsAreNewest'
    BY <1>1, <1>3 DEF Fencing, ClaimsAreNewest
  <2>4. TokensAreOwn'
    BY <1>3 DEF Fencing, TokensAreOwn
  <2> QED
    BY <2>1, <2>2, <2>3, <2>4
<1>6. SnapshotsAreOld' /\ TokensOrderVersions'
  BY <1>1 DEF Fencing, SnapshotsAreOld, TokensOrderVersions
<1>7. HeldIsUnpublished'
  BY <1>1, <1>3 DEF Fencing, HeldIsUnpublished
<1>8. DraftsAreNewest'
  BY <1>1, <1>2, <1>3, <1>4 DEF Fencing, DraftsAreNewest
<1> QED
  BY <1>5, <1>6, <1>7, <1>8 DEF Fencing

LEMMA CompleteKeepsFencing ==
  ASSUME Typed, Fencing, NEW w \in Worker, Complete(w)
  PROVE  Fencing'
<1>1. Has(w) /\ worker[w].stage = "persisted"
  BY DEF Complete, Has, Having, Working, Publishing
<1>2. worker[w].queue \in SUBSET Job /\ worker' = [worker EXCEPT ![w] = Resting(worker[w].queue)]
  BY DEF Complete, Leave, Typed, WorkerRecord
<1>3. \A v \in Worker : Goes(v)
  BY <1>2, WorkerRests
<1>4. \A j \in Job : RowKept(j)
  <2>1. WithStatus(w, "completed").status # "none"
        /\ WithStatus(w, "completed").token = jobs[MyJob(w)].token
    BY <1>1, AtAJob, RowFields DEF WithStatus, Typed
  <2> QED
    BY <1>1, <2>1, OwnRowChanges DEF Complete
<1>5. CASE ~Lands(w)
  BY <1>3, <1>4, <1>5, ThingsStay, QuietKeepsFencing DEF Complete, PublishSurvives, Quiet
<1>6. CASE Lands(w)
  <2> DEFINE j == MyJob(w)
             draft == worker[w].draft
             \* The snapshots there were, as they are afterwards.
             old == {IF s \in worker[w].retires THEN Identity(s) ELSE s : s \in snaps}
  <2>1. /\ j \in Job /\ worker[w].token = jobs[j].token /\ jobs[j].status # "none"
        /\ jobs[j].token \in Nat
    BY <1>1, <1>6, AtAJob DEF Lands, Fenced, HasRow, Typed, JobRow
  <2>2. draft.job = j /\ draft.token = jobs[j].token /\ draft \in Snapshot
    BY <1>1, <2>1 DEF Fencing, DraftsAreNewest, Typed, WorkerRecord
  <2>3. snaps' = old \cup {draft}
    BY <1>6 DEF Complete, PublishSurvives, Published
  <2>4. \A s \in old : \E t \in snaps : s.job = t.job /\ s.token = t.token /\ s.version = t.version
    BY DEF Identity, Typed, Snapshot
  <2>5. \A s \in snaps : s.job = j => s.token < jobs[j].token /\ s.version <= draft.version
    <3>1. \A s \in snaps : s.job = j => s.token # worker[w].token
      BY <1>1 DEF Fencing, HeldIsUnpublished
    <3>2. \A s \in snaps : s.token \in Nat /\ (s.job = j => s.token <= jobs[j].token)
      BY DEF Fencing, SnapshotsAreOld, Typed, Snapshot
    <3>3. \A s \in snaps : s.job = j => s.version <= draft.version
      BY <1>1, <2>1 DEF Fencing, DraftsAreNewest
    <3> QED
      BY <2>1, <3>1, <3>2, <3>3
  <2> HIDE DEF old, draft, j
  \* Up to the new snapshot, the step is a quiet one.
  <2>6. \A v \in Worker :
          /\ Claims(v)' => Claims(v)
          /\ Has(v)' => Has(v) /\ v # w
          /\ Claims(v)' \/ Has(v)' => MyJob(v)' = MyJob(v) /\ worker'[v].token = worker[v].token
          /\ worker'[v].stage = "persisted" =>
               /\ Has(v)' /\ worker[v].stage = "persisted" /\ worker'[v].draft = worker[v].draft
          /\ Claims(v)' => v # w
    <3>1. worker'[w].stage \in {"idle", "ticked"}
      BY <1>2, RestingTyped DEF Typed
    <3> QED
      BY <1>3, <3>1 DEF Goes, Claims, Has, Having, Working, Publishing, MyJob
  <2>7. \A v \in Worker :
          /\ Claims(v) \/ Has(v) => /\ MyJob(v) \in Job /\ jobs[MyJob(v)].status # "none"
                                    /\ jobs'[MyJob(v)].status # "none"
                                    /\ jobs'[MyJob(v)].token = jobs[MyJob(v)].token
          /\ worker[v].token \in Nat
    BY <1>4, AtAJob DEF Fencing, RowsExist, RowKept
  <2>8. jobs'[j].status # "none" /\ jobs'[j].token = jobs[j].token
    BY <1>4, <2>1 DEF RowKept
  <2>9. \A s \in snaps : /\ s.job \in Job /\ jobs'[s.job].status # "none"
                         /\ jobs'[s.job].token = jobs[s.job].token
    BY <1>4 DEF Fencing, SnapshotsAreOld, RowKept
  <2>10. \A v \in Worker \ {w} : MyJob(v) = j =>
           ~Claims(v) /\ (Has(v) => worker[v].token # jobs[j].token)
    <3>1. \A v \in Worker \ {w} : MyJob(v) = j => ~Claims(v)
      BY <1>1, <2>1, <2>7 DEF Fencing, ClaimsAreNewest, j
    <3>2. \A v \in Worker \ {w} : MyJob(v) = j /\ Has(v) => worker[v].token # jobs[j].token
      BY <1>1, <2>1 DEF Fencing, TokensAreOwn, j
    <3> QED
      BY <3>1, <3>2
  <2>11. RowsExist'
    BY <2>6, <2>7 DEF Fencing, RowsExist
  <2>12. ClaimsStand'
    <3> SUFFICES ASSUME NEW v \in Worker, Claims(v)'
                 PROVE  /\ jobs'[MyJob(v)].status \in {"running", "deleted", "cancelled"}
                        /\ jobs'[MyJob(v)].status = "running" => ~jobs'[MyJob(v)].expired
      BY <2>6 DEF ClaimsStand
    <3>1. Claims(v) /\ MyJob(v) \in Job /\ jobs[MyJob(v)].status # "none"
      BY <2>6, <2>7
    <3> QED
      BY <1>4, <3>1 DEF RowKept, Fencing, ClaimsStand
  <2>13. ClaimsAreNewest'
    BY <2>6, <2>7 DEF Fencing, ClaimsAreNewest
  <2>14. TokensAreOwn'
    BY <2>6 DEF Fencing, TokensAreOwn
  <2>15. SnapshotsAreOld'
    BY <2>1, <2>2, <2>3, <2>4, <2>8, <2>9 DEF Fencing, SnapshotsAreOld
  <2>16. HeldIsUnpublished'
    <3> SUFFICES ASSUME NEW v \in Worker, NEW s \in snaps', s.job = MyJob(v)'
                 PROVE  /\ Claims(v)' => s.token < jobs'[s.job].token
                        /\ Has(v)' => s.token # worker'[v].token
      BY DEF HeldIsUnpublished
    <3>1. CASE s = draft
      BY <2>2, <2>6, <2>10, <3>1
    <3>2. CASE s \in old
      <4>1. PICK t \in snaps : s.job = t.job /\ s.token = t.token
        BY <2>4, <3>2
      <4> QED
        BY ZenonT(60), <2>6, <2>9, <4>1 DEF Fencing, HeldIsUnpublished
    <3> QED
      BY <2>3, <3>1, <3>2
  <2>17. DraftsAreNewest'
    <3> SUFFICES ASSUME NEW v \in Worker, worker'[v].stage = "persisted"
                 PROVE  /\ worker'[v].draft.job = MyJob(v)'
                        /\ worker'[v].draft.token = worker'[v].token
                        /\ \A s \in snaps' :
                             s.job = MyJob(v)' /\ worker'[v].token = jobs'[s.job].token
                               => s.version <= worker'[v].draft.version
      BY DEF DraftsAreNewest
    <3>1. /\ Has(v) /\ v # w /\ worker[v].stage = "persisted" /\ worker'[v].draft = worker[v].draft
          /\ MyJob(v)' = MyJob(v) /\ worker'[v].token = worker[v].token
      BY <2>6
    <3>2. worker'[v].draft.job = MyJob(v)' /\ worker'[v].draft.token = worker'[v].token
      BY <3>1 DEF Fencing, DraftsAreNewest
    <3>3. ASSUME NEW s \in snaps', s.job = MyJob(v)', worker'[v].token = jobs'[s.job].token
          PROVE  s.version <= worker'[v].draft.version
      <4>1. s # draft
        BY <2>2, <2>8, <2>10, <3>1, <3>3
      <4>2. PICK t \in snaps : s.job = t.job /\ s.version = t.version
        BY <2>3, <2>4, <4>1
      <4> QED
        BY ZenonT(60), <2>9, <3>1, <3>3, <4>2 DEF Fencing, DraftsAreNewest
    <3> QED
      BY <3>2, <3>3
  <2>18. TokensOrderVersions'
    <3> SUFFICES ASSUME NEW s \in snaps', NEW t \in snaps', s.job = t.job, s.token <= t.token
                 PROVE  s.version <= t.version
      BY DEF TokensOrderVersions
    <3>1. draft.version \in Nat
      BY <2>2 DEF Snapshot
    <3>2. \A r \in snaps' : r # draft =>
            \E q \in snaps : r.job = q.job /\ r.token = q.token /\ r.version = q.version
      BY <2>3, <2>4
    <3>3. CASE t = draft
      BY <2>1, <2>2, <2>5, <3>1, <3>2, <3>3
    <3>4. CASE t # draft /\ s = draft
      <4>1. PICK q \in snaps : t.job = q.job /\ t.token = q.token
        BY <3>2, <3>4
      <4>2. t.token < jobs[j].token /\ t.token \in Nat
        BY <2>2, <2>5, <3>4, <4>1 DEF Typed, Snapshot
      <4> QED
        BY <2>1, <2>2, <3>4, <4>2
    <3>5. CASE t # draft /\ s # draft
      BY <3>2, <3>5 DEF Fencing, TokensOrderVersions
    <3> QED
      BY <3>3, <3>4, <3>5
  <2> QED
    BY <2>11, <2>12, <2>13, <2>14, <2>15, <2>16, <2>17, <2>18 DEF Fencing
<1> QED
  BY <1>5, <1>6

-----------------------------------------------------------------------------
(* The theorems of the fence.                                               *)

LEMMA InitHolds == Init => Typed /\ Bounded /\ Fencing
<1> SUFFICES ASSUME Init PROVE Typed /\ Bounded /\ Fencing
  OBVIOUS
<1>1. user \in UserRecord
  BY SizesNat DEF Init, UserRecord
<1>2. jobs \in [Job -> JobRow] /\ snaps = {}
  BY SizesNat DEF Init, JobRow, JobStatus, Key
<1>3. worker = [w \in Worker |-> Resting({})]
  BY DEF Init
<1>4. Resting({}) \in WorkerRecord /\ Resting({}).stage \in {"idle", "ticked"}
  <2>1. {} \in SUBSET Job
    OBVIOUS
  <2> QED
    BY <2>1, RestingTyped
<1>5. host \in [Host -> HostRecord]
  BY SizesNat DEF Init, HostRecord, IdleHost, Key, NoJob
<1>6. deletion \in DeletionRecord
  BY DEF Init, DeletionRecord, NoDeletion
<1>7. LockTyped
  BY DEF Init, LockTyped
<1>8. spent \in SpentRecord
  BY SizesNat DEF Init, SpentRecord
<1>9. Typed
  BY <1>1, <1>2, <1>3, <1>4, <1>5, <1>6, <1>7, <1>8 DEF Typed
<1>10. Bounded
  BY <1>2 DEF Bounded
<1>11. \A w \in Worker : ~Claims(w) /\ ~Has(w) /\ worker[w].stage # "persisted"
  BY <1>3, <1>4 DEF Claims, Has, Having, Working, Publishing
<1>12. RowsExist /\ ClaimsStand /\ ClaimsAreNewest /\ TokensAreOwn
  BY <1>11 DEF RowsExist, ClaimsStand, ClaimsAreNewest, TokensAreOwn
<1>13. SnapshotsAreOld /\ HeldIsUnpublished /\ DraftsAreNewest /\ TokensOrderVersions
  BY <1>2, <1>11 DEF SnapshotsAreOld, HeldIsUnpublished, DraftsAreNewest, TokensOrderVersions
<1> QED
  BY <1>9, <1>10, <1>12, <1>13 DEF Fencing

LEMMA CancelStaleTyped ==
  ASSUME Typed, Bounded, NEW w \in Worker, CancelStale(w)
  PROVE  Typed' /\ Bounded'
  BY BlockTyped DEF CancelStale

LEMMA NextTyped ==
  ASSUME Typed, Bounded, [Next]_vars
  PROVE  Typed' /\ Bounded'
<1>1. CASE \/ Observe \/ ToggleConsent \/ ChangeGrant \/ BeginDeleteUser \/ DeletionStep
           \/ AbortDeletion \/ \E b \in Belief : BeginForget(b)
  BY <1>1, ObserveTyped, ToggleConsentTyped, ChangeGrantTyped, BeginDeleteUserTyped,
     CancelJobsTyped, DeleteSnapshotsTyped, CommitDeletionTyped, AbortDeletionTyped,
     BeginForgetTyped DEF DeletionStep
<1>2. ASSUME NEW h \in Host, HostStep(h) PROVE Typed' /\ Bounded'
  BY <1>2, ReadWatermarkTyped, ReadQueueTyped, MergeTyped, ReviveTyped, InsertTyped DEF HostStep
<1>3. ASSUME NEW w \in Worker, WorkerStep(w) PROVE Typed' /\ Bounded'
  <2>1. CASE Tick(w) \/ (\E j \in Job : Claim(w, j)) \/ ReadToken(w)
    BY <2>1, TickTyped, ClaimTyped, ReadTokenTyped
  <2>2. CASE RenewBeforeSnapshot(w) \/ RenewBeforePublish(w)
    BY <2>2, RenewTyped DEF RenewBeforeSnapshot, RenewBeforePublish
  <2>3. CASE \/ CheckGates(w) \/ Recheck(w) \/ CancelStale(w) \/ PassGates(w)
             \/ RecordInvocation(w) \/ RecheckGeneration(w)
    BY <2>3, CheckGatesTyped, RecheckTyped, CancelStaleTyped, PassGatesTyped,
       RecordInvocationTyped, RecheckGenerationTyped
  <2>4. CASE ReadRevision(w) \/ ReadGeneration(w) \/ LoadEvidence(w)
    BY <2>4, ReadRevisionTyped, ReadGenerationTyped, LoadEvidenceTyped
  <2>5. CASE Persist(w) \/ Complete(w) \/ RecordFailure(w) \/ GiveUp(w)
    BY <2>5, PersistTyped, CompleteTyped, RecordFailureTyped, GiveUpTyped
  <2> QED
    BY <1>3, <2>1, <2>2, <2>3, <2>4, <2>5 DEF WorkerStep
<1>4. ASSUME NEW w \in Worker, Fail(w) \/ Busy(w) \/ Crash(w) PROVE Typed' /\ Bounded'
  BY <1>4, FailTyped, BusyTyped, CrashTyped
<1>5. ASSUME NEW j \in Job, LeaseExpires(j) PROVE Typed' /\ Bounded'
  BY <1>5, LeaseExpiresTyped
<1>6. CASE UNCHANGED vars
  BY <1>6 DEF vars, Typed, Bounded, LockTyped
<1> QED
  BY <1>1, <1>2, <1>3, <1>4, <1>5, <1>6 DEF Next

LEMMA NextKeepsFencing ==
  ASSUME ~StallAfterClaim, Typed, Bounded, Fencing, [Next]_vars
  PROVE  Fencing'
<1>1. CASE \/ Observe \/ ToggleConsent \/ ChangeGrant \/ BeginDeleteUser \/ DeletionStep
           \/ AbortDeletion \/ \E b \in Belief : BeginForget(b)
  BY <1>1, EngineIsQuiet, CommitDeletionIsQuiet, QuietKeepsFencing DEF DeletionStep
<1>2. ASSUME NEW h \in Host, HostStep(h) PROVE Fencing'
  BY <1>2, EngineIsQuiet, HostIsQuiet, QuietKeepsFencing DEF HostStep
<1>3. ASSUME NEW w \in Worker, WorkerStep(w) PROVE Fencing'
  <2>1. CASE \/ Tick(w) \/ RenewBeforeSnapshot(w) \/ RenewBeforePublish(w)
    BY <2>1, TickIsQuiet, RenewIsQuiet, QuietKeepsFencing
  <2>2. CASE (\E j \in Job : Claim(w, j)) \/ ReadToken(w)
    BY <2>2, ClaimKeepsFencing, ReadTokenKeepsFencing
  <2>3. CASE \/ CheckGates(w) \/ Recheck(w) \/ CancelStale(w) \/ PassGates(w)
             \/ RecordInvocation(w) \/ RecheckGeneration(w)
    BY <2>3, GatesAreQuiet, QuietKeepsFencing
  <2>4. CASE ReadRevision(w) \/ ReadGeneration(w) \/ LoadEvidence(w)
    BY <2>4, SnapshotReadsAreQuiet, QuietKeepsFencing
  <2>5. CASE RecordFailure(w) \/ GiveUp(w)
    BY <2>5, LeavingIsQuiet, QuietKeepsFencing
  <2>6. CASE Persist(w) \/ Complete(w)
    BY <2>6, PersistKeepsFencing, CompleteKeepsFencing
  <2> QED
    BY <1>3, <2>1, <2>2, <2>3, <2>4, <2>5, <2>6 DEF WorkerStep
<1>4. ASSUME NEW w \in Worker, Fail(w) \/ Busy(w) \/ Crash(w) PROVE Fencing'
  BY <1>4, GatesAreQuiet, LeavingIsQuiet, QuietKeepsFencing
<1>5. ASSUME NEW j \in Job, LeaseExpires(j) PROVE Fencing'
  BY <1>5, ExpiryIsQuiet, QuietKeepsFencing
<1>6. CASE UNCHANGED vars
  BY <1>6, EngineIsQuiet, QuietKeepsFencing
<1> QED
  BY <1>1, <1>2, <1>3, <1>4, <1>5, <1>6 DEF Next

\* Rows, snapshots, workers and hosts have their types, and only an open publish
\* of a worker, or a deletion, holds SQLite's write lock.
THEOREM TypesHold == Spec => []TypeOK
<1>1. Init => Typed /\ Bounded
  BY InitHolds
<1>2. Typed /\ Bounded /\ [Next]_vars => Typed' /\ Bounded'
  BY NextTyped
<1>3. Typed => TypeOK
  BY TypedIsTypeOK
<1> QED
  BY <1>1, <1>2, <1>3, PTL DEF Spec

\* The fence holds in every behaviour in which no lease runs out between a claim's
\* commit and the reading of its token (_claim_job).
THEOREM Invariance ==
  ASSUME ~StallAfterClaim
  PROVE  Spec => [](Typed /\ Fencing)
<1>1. Init => Typed /\ Bounded /\ Fencing
  BY InitHolds
<1>2. Typed /\ Bounded /\ Fencing /\ [Next]_vars
        => Typed' /\ Bounded' /\ Fencing'
  BY NextTyped, NextKeepsFencing
<1> QED
  BY <1>1, <1>2, PTL DEF Spec

\* The lease of a job (_claim_job, _renew_lease): no two workers are ever at one job
\* under one token, whatever crashes, leases run out and deletions come in between.
THEOREM OneHolderAlways ==
  ASSUME ~StallAfterClaim
  PROVE  Spec => []OneHolder
<1>1. Typed /\ Fencing => OneHolder
  BY DEF Fencing, TokensAreOwn, OneHolder, Has, Having
<1> QED
  BY <1>1, Invariance, PTL

\* The fenced completion (_set_job_state): what a job publishes under an older token
\* never gets a newer version than what it publishes under a newer one.
THEOREM TokensOrder ==
  ASSUME ~StallAfterClaim
  PROVE  Spec => []TokensOrderVersions
<1>1. Typed /\ Fencing => TokensOrderVersions
  BY DEF Fencing
<1> QED
  BY <1>1, Invariance, PTL

-----------------------------------------------------------------------------
(* Barriers: what a worker has read is what it commits upon.                *)

Writing == {"recorded", "fresh", "gated", "persisted"}
Loaded == {"computing", "renewed"} \cup Publishing
Deleting == deletion.stage # "none"

\* What the revision, the generation and the evidence a worker has read still say.
ReadsStand(w) ==
  LET r == worker[w] IN
  /\ r.stage \in {"dated", "numbered"} \cup Loaded => r.rev <= user.rev
  /\ r.stage \in {"numbered"} \cup Loaded => r.gen <= user.gen
  /\ r.stage \in Loaded /\ r.gen = user.gen => r.reads \subseteq user.beliefs

\* What the authorization of a publish still says: consent by the revision, the
\* grant by its share-locked row.
AuthorityStands(w) ==
  LET r == worker[w] IN
  /\ r.stage \in Publishing /\ r.rev = user.rev => user.enabled
  /\ r.stage \in Publishing /\ Pg => user.granted

\* On SQLite the barriers are compared under the write lock.
WriterIsCurrent(w) ==
  LET r == worker[w] IN
  /\ r.stage \in Writing /\ ~Pg => lock = w
  /\ r.stage \in {"fresh", "gated", "persisted"} /\ ~Pg => r.gen = user.gen
  /\ r.stage \in {"gated", "persisted"} /\ ~Pg => r.rev = user.rev

DraftIsTrue(w) ==
  LET r == worker[w] IN r.stage = "persisted" =>
    /\ r.draft.reads = r.reads /\ r.draft.rev = r.rev
    /\ r.draft.gen <= user.gen /\ (~Pg => r.draft.gen = user.gen)

Stands(w) == ReadsStand(w) /\ AuthorityStands(w) /\ WriterIsCurrent(w) /\ DraftIsTrue(w)

DeletionLocks == Deleting /\ ~Pg => lock = "deletion"

SnapshotsStand ==
  \A s \in snaps : /\ s.gen <= user.gen
                   /\ ~Pg /\ s.gen = user.gen => s.reads \subseteq user.beliefs

Barriers == (\A w \in Worker : Stands(w)) /\ DeletionLocks /\ SnapshotsStand

LEMMA WorkerFacts ==
  ASSUME Typed, NEW w \in Worker
  PROVE  /\ worker[w].rev \in Nat /\ worker[w].gen \in Nat /\ worker[w].reads \in SUBSET Belief
         /\ worker[w].draft \in Snapshot
         /\ user.rev \in Nat /\ user.gen \in Nat /\ w \notin {"none", "free", "deletion", "engine"}
  BY NamesAssumption DEF Typed, WorkerRecord, UserRecord

\* The user's state moves on while nobody publishes on SQLite.
LEMMA EngineWrites ==
  ASSUME Typed, Barriers, UNCHANGED worker,
         UNCHANGED <<deletion, lock>> \/ (deletion' = NoDeletion /\ lock' = Released("deletion")),
         snaps' \subseteq snaps, ~Pg => \A w \in Worker : lock # w,
         user'.rev \in Nat, user'.gen \in Nat, user.rev <= user'.rev, user.gen <= user'.gen,
         user'.gen = user.gen => user.beliefs \subseteq user'.beliefs,
         user'.rev = user.rev => user'.enabled = user.enabled,
         Pg => user'.granted = user.granted \/ \A w \in Worker : worker[w].stage \notin Publishing
  PROVE  Barriers'
<1>1. Pg' <=> Pg
  BY DEF Pg, Released
<1>2. ASSUME NEW w \in Worker PROVE Stands(w)'
  <2>1. Stands(w) /\ worker'[w] = worker[w]
    BY DEF Barriers
  <2>2. ReadsStand(w)'
    BY <2>1, WorkerFacts DEF Stands, ReadsStand
  <2>3. AuthorityStands(w)'
    BY <1>1, <2>1, WorkerFacts DEF Stands, AuthorityStands, ReadsStand, Loaded
  <2>4. WriterIsCurrent(w)'
    BY <1>1, <2>1 DEF Stands, WriterIsCurrent, Writing
  <2>5. DraftIsTrue(w)'
    <3>1. worker[w].draft.gen \in Nat
      BY WorkerFacts DEF Snapshot
    <3> QED
      BY <1>1, <2>1, <3>1, WorkerFacts DEF Stands, DraftIsTrue, WriterIsCurrent, Writing
  <2> QED
    BY <2>2, <2>3, <2>4, <2>5 DEF Stands
<1>3. DeletionLocks'
  BY <1>1 DEF Barriers, DeletionLocks, Deleting, NoDeletion, Released
<1>4. SnapshotsStand'
  <2>1. \A s \in snaps : s.gen \in Nat /\ user.gen \in Nat
    BY DEF Typed, Snapshot, UserRecord
  <2> QED
    BY <1>1, <2>1 DEF Barriers, SnapshotsStand
<1> QED
  BY <1>2, <1>3, <1>4 DEF Barriers

LEMMA EngineKeepsBarriers ==
  ASSUME Typed, Barriers, Observe \/ ToggleConsent \/ ChangeGrant
  PROVE  Barriers'
<1>1. /\ UNCHANGED <<worker, deletion, lock, snaps>> /\ CanWrite("engine")
      /\ user'.gen = user.gen
  BY DEF Observe, ToggleConsent, ChangeGrant, Typed, UserRecord
<1>2. ~Pg => \A w \in Worker : lock # w
  BY <1>1, NamesAssumption DEF CanWrite, Pg
<1>3. user'.rev = user.rev + 1 \/ (user'.rev = user.rev /\ user'.enabled = user.enabled)
  BY DEF Observe, ToggleConsent, ChangeGrant, Typed, UserRecord
<1>4. user.beliefs \subseteq user'.beliefs
  BY DEF Observe, ToggleConsent, ChangeGrant, Typed, UserRecord
<1>5. Pg => user'.granted = user.granted \/ \A w \in Worker : worker[w].stage \notin Publishing
  BY DEF Observe, ToggleConsent, ChangeGrant, Typed, UserRecord, GrantRowFree
<1>6. user.rev \in Nat /\ user.gen \in Nat
  BY DEF Typed, UserRecord
<1> QED
  BY <1>1, <1>2, <1>3, <1>4, <1>5, <1>6, EngineWrites

LEMMA CommitDeletionKeepsBarriers ==
  ASSUME Typed, Barriers, CommitDeletion
  PROVE  Barriers'
<1>1. user.rev \in Nat /\ user.gen \in Nat
  BY DEF Typed, UserRecord
<1>2. /\ user'.rev = user.rev + 1 /\ user'.gen = user.gen + 1 /\ user'.granted = user.granted
  <2> DEFINE u == [user EXCEPT !.beliefs = user.beliefs \ deletion.beliefs]
  <2>1. u \in UserRecord /\ u.rev = user.rev /\ u.gen = user.gen /\ u.granted = user.granted
    BY DEF Typed, UserRecord
  <2>2. user' = [u EXCEPT !.rev = u.rev + 1, !.gen = u.gen + 1]
    BY DEF CommitDeletion, BarriersRaised
  <2> HIDE DEF u
  <2> QED
    BY <2>1, <2>2 DEF UserRecord
<1>3. ~Pg => \A w \in Worker : lock # w
  BY NamesAssumption DEF CommitDeletion, Barriers, DeletionLocks, Deleting
<1>4. UNCHANGED worker /\ deletion' = NoDeletion /\ lock' = Released("deletion") /\ snaps' \subseteq snaps
  BY DEF CommitDeletion
<1> QED
  BY <1>1, <1>2, <1>3, <1>4, EngineWrites

\* A deletion begins under the lock, goes on, or lets it go.
LEMMA DeletionKeepsBarriers ==
  ASSUME Typed, Barriers, \/ (\E b \in Belief : BeginForget(b)) \/ BeginDeleteUser
                          \/ CancelJobs \/ DeleteSnapshots \/ AbortDeletion
  PROVE  Barriers'
<1>1. UNCHANGED <<worker, user, snaps>>
  BY DEF BeginForget, BeginDeleteUser, CancelJobs, DeleteSnapshots, AbortDeletion
<1>2. \/ lock' = Holding("deletion") /\ CanWrite("deletion")
      \/ Deleting /\ lock' = lock
      \/ Deleting /\ lock' = Released("deletion") /\ deletion' = NoDeletion
  BY DEF BeginForget, BeginDeleteUser, CancelJobs, DeleteSnapshots, AbortDeletion, Deleting
<1>3. Pg' <=> Pg
  BY <1>2 DEF Pg, Holding, Released
<1>4. DeletionLocks'
  BY <1>2, <1>3 DEF Barriers, DeletionLocks, Deleting, NoDeletion, Pg, Holding, Released
<1>5. \A w \in Worker : ~Pg => lock # w
  BY <1>2, NamesAssumption DEF Barriers, DeletionLocks, CanWrite, Pg
<1>6. ASSUME NEW w \in Worker PROVE Stands(w)'
  BY <1>1, <1>3, <1>5, <1>6
     DEF Barriers, Stands, ReadsStand, AuthorityStands, WriterIsCurrent, DraftIsTrue, Writing
<1>7. SnapshotsStand'
  BY <1>1, <1>3 DEF Barriers, SnapshotsStand
<1> QED
  BY <1>4, <1>6, <1>7 DEF Barriers

\* A worker moves, with the lock, without it or to let it go; the user does not.
LEMMA WorkerMoves ==
  ASSUME Typed, Barriers, NEW w \in Worker, UNCHANGED <<user, deletion>>,
         \A v \in Worker \ {w} : worker'[v] = worker[v],
         lock' = lock \/ lock' = Released(w) \/ (lock' = Holding(w) /\ CanWrite(w)),
         Stands(w)', SnapshotsStand'
  PROVE  Barriers'
<1>1. Pg' <=> Pg
  BY NamesAssumption DEF Pg, Released, Holding
<1>2. \A v \in Worker \ {w} : ~Pg /\ lock = v => lock' = v
  BY NamesAssumption DEF Released, Holding, CanWrite, Pg
<1>3. DeletionLocks'
  BY <1>1, NamesAssumption DEF Barriers, DeletionLocks, Deleting, Released, Holding, CanWrite, Pg
<1>4. ASSUME NEW v \in Worker \ {w} PROVE Stands(v)'
  BY <1>1, <1>2, <1>4
     DEF Barriers, Stands, ReadsStand, AuthorityStands, WriterIsCurrent, DraftIsTrue
<1> QED
  BY <1>3, <1>4 DEF Barriers

LEMMA SnapshotsKeepStanding ==
  ASSUME Barriers, UNCHANGED <<user, snaps>>, Pg' <=> Pg
  PROVE  SnapshotsStand'
  BY DEF Barriers, SnapshotsStand

LEMMA LockChanges ==
  ASSUME NEW w \in Worker,
         lock' = lock \/ lock' = Released(w) \/ lock' = Holding(w)
  PROVE  Pg' <=> Pg
  BY NamesAssumption DEF Pg, Released, Holding

\* A worker that is not past its reads yet, or leaves, owes nothing.
LEMMA FreeStages ==
  ASSUME NEW w \in Worker,
         worker'[w].stage \in {"idle", "ticked", "claimed", "owned", "leased", "checked",
                               "stale", "failing", "deferring"}
  PROVE  Stands(w)'
  BY DEF Stands, ReadsStand, AuthorityStands, WriterIsCurrent, DraftIsTrue, Writing, Loaded, Publishing

LEMMA LeavingKeepsBarriers ==
  ASSUME Typed, Barriers, NEW w \in Worker,
         \/ Tick(w) \/ (\E j \in Job : Claim(w, j)) \/ ReadToken(w) \/ RenewBeforeSnapshot(w)
         \/ RenewBeforePublish(w) /\ worker'[w].stage \in {"idle", "ticked"}
         \/ CheckGates(w) \/ Block(w) \/ RecordFailure(w) \/ GiveUp(w)
         \/ Fail(w) \/ Busy(w) \/ Crash(w)
  PROVE  Barriers'
<1>1. UNCHANGED <<user, snaps, deletion>> /\ (lock' = lock \/ lock' = Released(w))
  BY DEF Tick, Claim, ReadToken, RenewBeforeSnapshot, RenewBeforePublish, Renew, CheckGates, Block,
         Leave, RecordFailure, GiveUp, Fail, Busy, Crash
<1>2. \A queue \in SUBSET Job : Resting(queue).stage \in {"idle", "ticked"}
  BY RestingTyped
<1>3. /\ \A v \in Worker \ {w} : worker'[v] = worker[v]
      /\ worker'[w].stage \in {"idle", "ticked", "claimed", "owned", "leased", "checked",
                               "stale", "failing", "deferring"}
  <2>1. worker[w] \in WorkerRecord /\ worker[w].queue \in SUBSET Job
    BY DEF Typed, WorkerRecord
  <2>2. CASE Tick(w)
    <3>1. JobsWith({"pending"}) \cup Expired \in SUBSET Job
      BY DEF JobsWith, Expired
    <3> QED
      BY <1>2, <2>2, <3>1 DEF Tick, Typed
  <2>3. ASSUME NEW j \in Job, Claim(w, j)
        PROVE  /\ \A v \in Worker \ {w} : worker'[v] = worker[v]
               /\ worker'[w].stage \in {"idle", "ticked", "claimed"}
    <3>1. CASE jobs[j].status = "pending"
      <4>1. worker' = [worker EXCEPT ![w] = [worker[w] EXCEPT !.stage = "claimed", !.job = j,
                                               !.queue = worker[w].queue \ {j}]]
        BY <2>3, <3>1 DEF Claim, Typed
      <4>2. [worker[w] EXCEPT !.stage = "claimed", !.job = j,
                              !.queue = worker[w].queue \ {j}].stage = "claimed"
        BY <2>1 DEF WorkerRecord
      <4> QED
        BY <4>1, <4>2 DEF Typed
    <3>2. CASE jobs[j].status # "pending"
      BY ZenonT(60), <1>2, <2>1, <2>3, <3>2 DEF Claim, Typed
    <3> QED
      BY <3>1, <3>2
  <2>4. CASE ReadToken(w)
    BY <1>2, <2>1, <2>4 DEF ReadToken, Typed, WorkerRecord
  <2>5. CASE RenewBeforeSnapshot(w)
    BY <1>2, <2>1, <2>5 DEF RenewBeforeSnapshot, Renew, Becomes, Typed, WorkerRecord
  <2>6. CASE RenewBeforePublish(w) /\ worker'[w].stage \in {"idle", "ticked"}
    BY <2>1, <2>6 DEF RenewBeforePublish, Renew, Becomes, Typed, WorkerRecord
  <2>7. CASE CheckGates(w) \/ Block(w)
    BY <1>2, <2>1, <2>7 DEF CheckGates, Block, Leave, Becomes, Typed, WorkerRecord
  <2>8. CASE RecordFailure(w) \/ GiveUp(w) \/ Crash(w)
    BY <1>2, <2>1, <2>8 DEF RecordFailure, GiveUp, Crash, Leave, Typed
  <2>9. CASE Fail(w) \/ Busy(w)
    BY <2>1, <2>9 DEF Fail, Busy, Becomes, Typed, WorkerRecord
  <2> QED
    BY <2>2, <2>3, <2>4, <2>5, <2>6, <2>7, <2>8, <2>9
<1>4. Stands(w)'
  BY <1>3, FreeStages
<1>5. SnapshotsStand'
  BY <1>1, LockChanges, SnapshotsKeepStanding
<1> QED
  BY <1>1, <1>3, <1>4, <1>5, WorkerMoves

\* What a step that only moves the stage leaves of the worker's record.
LEMMA StageOnly ==
  ASSUME Typed, NEW w \in Worker, NEW stage \in Stage, Becomes(w, stage)
  PROVE  /\ \A v \in Worker \ {w} : worker'[v] = worker[v]
         /\ worker'[w].stage = stage /\ worker'[w].rev = worker[w].rev
         /\ worker'[w].gen = worker[w].gen /\ worker'[w].reads = worker[w].reads
         /\ worker'[w].draft = worker[w].draft
<1>1. worker[w] \in WorkerRecord
  BY DEF Typed
<1> QED
  BY <1>1 DEF Becomes, Typed, WorkerRecord

LEMMA ReadingKeepsBarriers ==
  ASSUME Typed, Barriers, NEW w \in Worker,
         ReadRevision(w) \/ ReadGeneration(w) \/ LoadEvidence(w)
  PROVE  Barriers'
<1>1. UNCHANGED <<user, snaps, deletion, lock>>
  BY DEF ReadRevision, ReadGeneration, LoadEvidence
<1>2. worker[w] \in WorkerRecord /\ Stands(w)
  BY DEF Typed, Barriers
<1>3. \A v \in Worker \ {w} : worker'[v] = worker[v]
  BY DEF ReadRevision, ReadGeneration, LoadEvidence, Typed
<1>4. Stands(w)'
  <2>1. /\ worker'[w].stage \in {"dated", "numbered", "computing"}
        /\ worker'[w].rev <= user.rev
        /\ worker'[w].stage # "dated" => worker'[w].gen <= user.gen
        /\ worker'[w].stage = "computing" => worker'[w].reads = user.beliefs
    <3>1. CASE ReadRevision(w)
      BY <1>2, <3>1, WorkerFacts DEF ReadRevision, Typed, WorkerRecord
    <3>2. CASE ReadGeneration(w)
      BY <1>2, <3>2, WorkerFacts DEF ReadGeneration, Typed, WorkerRecord, Stands, ReadsStand
    <3>3. CASE LoadEvidence(w)
      BY <1>2, <3>3, WorkerFacts DEF LoadEvidence, Typed, WorkerRecord, Stands, ReadsStand
    <3> QED
      BY <3>1, <3>2, <3>3
  <2> QED
    BY <1>1, <2>1 DEF Stands, ReadsStand, AuthorityStands, WriterIsCurrent, DraftIsTrue,
                      Writing, Loaded, Publishing
<1>5. SnapshotsStand'
  BY <1>1, LockChanges, SnapshotsKeepStanding
<1> QED
  BY <1>1, <1>3, <1>4, <1>5, WorkerMoves

\* The steps of a publish up to its draft.
LEMMA PublishingKeepsBarriers ==
  ASSUME Typed, Barriers, NEW w \in Worker, NEW stage \in Stage, Becomes(w, stage),
         UNCHANGED <<user, snaps, deletion>>,
         \/ worker[w].stage = "computing" /\ stage = "renewed" /\ lock' = lock
         \/ worker[w].stage = "renewed" /\ stage = "authorized" /\ Allowed /\ lock' = lock
         \/ worker[w].stage = "authorized" /\ stage = "recorded" /\ CanWrite(w) /\ lock' = Holding(w)
         \/ worker[w].stage = "recorded" /\ stage = "fresh" /\ user.gen = worker[w].gen /\ lock' = lock
         \/ worker[w].stage = "fresh" /\ stage = "gated" /\ user.rev = worker[w].rev /\ lock' = lock
         \/ stage = "stale" /\ lock' = Released(w)
  PROVE  Barriers'
<1>1. /\ \A v \in Worker \ {w} : worker'[v] = worker[v]
      /\ worker'[w].stage = stage /\ worker'[w].rev = worker[w].rev
      /\ worker'[w].gen = worker[w].gen /\ worker'[w].reads = worker[w].reads
  BY StageOnly
<1>2. Pg' <=> Pg
  BY LockChanges
<1>3. Stands(w)
  BY DEF Barriers
<1>4. Stands(w)'
  <2>1. CASE stage = "stale"
    BY <1>1, <2>1, FreeStages
  <2>2. CASE stage = "renewed"
    BY <1>1, <1>2, <1>3, <2>2 DEF Stands, ReadsStand, AuthorityStands, WriterIsCurrent, DraftIsTrue,
                                  Writing, Loaded, Publishing
  <2>3. CASE stage = "authorized"
    BY <1>1, <1>2, <1>3, <2>3 DEF Stands, ReadsStand, AuthorityStands, WriterIsCurrent, DraftIsTrue,
                                  Writing, Loaded, Publishing, Allowed
  <2>4. CASE stage = "recorded"
    BY <1>1, <1>2, <1>3, <2>4 DEF Stands, ReadsStand, AuthorityStands, WriterIsCurrent, DraftIsTrue,
                                  Writing, Loaded, Publishing, Holding
  <2>5. CASE stage \in {"fresh", "gated"}
    BY <1>1, <1>2, <1>3, <2>5 DEF Stands, ReadsStand, AuthorityStands, WriterIsCurrent, DraftIsTrue,
                                  Writing, Loaded, Publishing
  <2> QED
    BY <2>1, <2>2, <2>3, <2>4, <2>5
<1>5. SnapshotsStand'
  BY <1>2, SnapshotsKeepStanding
<1> QED
  BY <1>1, <1>4, <1>5, WorkerMoves

LEMMA PersistKeepsBarriers ==
  ASSUME Typed, Barriers, NEW w \in Worker, Persist(w)
  PROVE  Barriers'
<1> DEFINE draft == [version |-> 1 + LatestVersion, live |-> TRUE, reads |-> worker[w].reads,
                     rev |-> worker[w].rev, gen |-> user.gen, job |-> MyJob(w),
                     token |-> worker[w].token]
           next == [worker[w] EXCEPT !.stage = "persisted", !.draft = draft,
                                     !.retires = {s \in snaps : s.live}]
<1>1. UNCHANGED <<user, snaps, deletion, lock>> /\ worker[w].stage = "gated"
  BY DEF Persist
<1>2. worker[w] \in WorkerRecord /\ Stands(w)
  BY DEF Typed, Barriers
<1>3. worker' = [worker EXCEPT ![w] = next]
  BY DEF Persist, Typed
<1>4. draft.reads = worker[w].reads /\ draft.rev = worker[w].rev /\ draft.gen = user.gen
  OBVIOUS
<1> HIDE DEF draft
<1>5. /\ next.stage = "persisted" /\ next.draft = draft /\ next.rev = worker[w].rev
      /\ next.gen = worker[w].gen /\ next.reads = worker[w].reads
  BY <1>2 DEF WorkerRecord
<1> HIDE DEF next
<1>6. worker'[w] = next /\ \A v \in Worker \ {w} : worker'[v] = worker[v]
  BY <1>3 DEF Typed
<1>7. Pg' <=> Pg
  BY <1>1, LockChanges
<1>8. Stands(w)'
  BY <1>1, <1>2, <1>4, <1>5, <1>6, <1>7, WorkerFacts
     DEF Stands, ReadsStand, AuthorityStands, WriterIsCurrent, DraftIsTrue, Writing, Loaded, Publishing
<1>9. SnapshotsStand'
  BY <1>1, <1>7, SnapshotsKeepStanding
<1> QED
  BY <1>1, <1>6, <1>8, <1>9, WorkerMoves

LEMMA CompleteKeepsBarriers ==
  ASSUME Typed, Barriers, NEW w \in Worker, Complete(w)
  PROVE  Barriers'
<1>1. UNCHANGED <<user, deletion>> /\ worker[w].stage = "persisted" /\ lock' = Released(w)
      /\ worker' = [worker EXCEPT ![w] = Resting(worker[w].queue)]
  BY DEF Complete, Leave
<1>2. worker[w].queue \in SUBSET Job /\ Stands(w)
  BY DEF Typed, WorkerRecord, Barriers
<1>3. /\ \A v \in Worker \ {w} : worker'[v] = worker[v]
      /\ worker'[w].stage \in {"idle", "ticked"}
  BY <1>1, <1>2, RestingTyped DEF Typed
<1>4. Stands(w)'
  BY <1>3, FreeStages
<1>5. Pg' <=> Pg
  BY <1>1, LockChanges
<1>6. SnapshotsStand'
  <2>1. \A s \in snaps : Identity(s).gen = s.gen /\ Identity(s).reads = s.reads
    BY DEF Typed, Identity, Snapshot
  <2>2. \A s \in snaps' : \/ s = worker[w].draft
                           \/ \E t \in snaps : s.gen = t.gen /\ s.reads = t.reads
    BY <2>1 DEF Complete, Published
  <2>3. /\ worker[w].draft.gen <= user.gen
        /\ ~Pg => worker[w].draft.reads \subseteq user.beliefs
    BY <1>1, <1>2 DEF Stands, DraftIsTrue, WriterIsCurrent, ReadsStand, Loaded, Publishing
  <2> QED
    BY <1>1, <1>5, <2>2, <2>3 DEF Barriers, SnapshotsStand
<1> QED
  BY <1>1, <1>3, <1>4, <1>6, WorkerMoves

LEMMA GatesKeepBarriers ==
  ASSUME Typed, Barriers, NEW w \in Worker,
         \/ RenewBeforePublish(w) \/ Recheck(w) \/ RecordInvocation(w) \/ RecheckGeneration(w)
         \/ PassGates(w)
  PROVE  Barriers'
<1>1. CASE Block(w)
  BY <1>1, LeavingKeepsBarriers
<1>2. {"renewed", "authorized", "recorded", "fresh", "gated", "stale"} \subseteq Stage
  BY DEF Stage, Working, Publishing
<1>3. CASE RenewBeforePublish(w)
  <2>1. CASE worker'[w].stage \in {"idle", "ticked"}
    BY <1>3, <2>1, LeavingKeepsBarriers
  <2>2. CASE Becomes(w, "renewed")
    BY <1>2, <1>3, <2>2, PublishingKeepsBarriers DEF RenewBeforePublish, Renew
  <2>3. worker[w].queue \in SUBSET Job
    BY DEF Typed, WorkerRecord
  <2>4. worker' = [worker EXCEPT ![w] = Resting(worker[w].queue)] => worker'[w].stage \in {"idle", "ticked"}
    BY <2>3, RestingTyped DEF Typed
  <2> QED
    BY <1>3, <2>1, <2>2, <2>4 DEF RenewBeforePublish, Renew
<1>4. CASE Recheck(w) /\ ~Block(w)
  BY <1>2, <1>4, PublishingKeepsBarriers DEF Recheck
<1>5. CASE RecordInvocation(w)
  BY <1>2, <1>5, PublishingKeepsBarriers DEF RecordInvocation
<1>6. CASE RecheckGeneration(w)
  BY <1>2, <1>6, PublishingKeepsBarriers DEF RecheckGeneration
<1>7. CASE PassGates(w) /\ ~Block(w)
  BY <1>2, <1>7, PublishingKeepsBarriers DEF PassGates, PublisherAccepts
<1> QED
  BY <1>1, <1>3, <1>4, <1>5, <1>6, <1>7

LEMMA OthersKeepBarriers ==
  ASSUME Barriers, UNCHANGED <<user, worker, snaps, deletion, lock>>
  PROVE  Barriers'
<1>1. Pg' <=> Pg
  BY DEF Pg
<1>2. ASSUME NEW w \in Worker PROVE Stands(w)'
  BY <1>1, <1>2 DEF Barriers, Stands, ReadsStand, AuthorityStands, WriterIsCurrent, DraftIsTrue
<1>3. DeletionLocks' /\ SnapshotsStand'
  BY <1>1 DEF Barriers, DeletionLocks, Deleting, SnapshotsStand
<1> QED
  BY <1>2, <1>3 DEF Barriers

LEMMA NextKeepsBarriers ==
  ASSUME Typed, Barriers, [Next]_vars
  PROVE  Barriers'
<1>1. CASE \/ Observe \/ ToggleConsent \/ ChangeGrant \/ BeginDeleteUser \/ DeletionStep
           \/ AbortDeletion \/ \E b \in Belief : BeginForget(b)
  BY <1>1, EngineKeepsBarriers, DeletionKeepsBarriers, CommitDeletionKeepsBarriers DEF DeletionStep
<1>2. ASSUME NEW h \in Host, HostStep(h) PROVE Barriers'
  <2>1. UNCHANGED <<user, worker, snaps, deletion, lock>>
    BY <1>2 DEF HostStep, ReadWatermark, ReadQueue, Merge, Revive, Insert
  <2> QED
    BY <2>1, OthersKeepBarriers
<1>3. ASSUME NEW w \in Worker, WorkerStep(w) PROVE Barriers'
  <2>1. CASE \/ Tick(w) \/ (\E j \in Job : Claim(w, j)) \/ ReadToken(w) \/ RenewBeforeSnapshot(w)
             \/ CheckGates(w) \/ CancelStale(w) \/ RecordFailure(w) \/ GiveUp(w)
    BY <2>1, LeavingKeepsBarriers DEF CancelStale
  <2>2. CASE \/ RenewBeforePublish(w) \/ Recheck(w) \/ RecordInvocation(w) \/ RecheckGeneration(w)
             \/ PassGates(w)
    BY <2>2, GatesKeepBarriers
  <2>3. CASE ReadRevision(w) \/ ReadGeneration(w) \/ LoadEvidence(w) \/ Persist(w) \/ Complete(w)
    BY <2>3, ReadingKeepsBarriers, PersistKeepsBarriers, CompleteKeepsBarriers
  <2> QED
    BY <1>3, <2>1, <2>2, <2>3 DEF WorkerStep
<1>4. ASSUME NEW w \in Worker, Fail(w) \/ Busy(w) \/ Crash(w) PROVE Barriers'
  BY <1>4, LeavingKeepsBarriers
<1>5. ASSUME NEW j \in Job, LeaseExpires(j) PROVE Barriers'
  BY <1>5, OthersKeepBarriers DEF LeaseExpires
<1>6. CASE UNCHANGED vars
  BY <1>6, OthersKeepBarriers DEF vars
<1> QED
  BY <1>1, <1>2, <1>3, <1>4, <1>5, <1>6 DEF Next

LEMMA InitHasBarriers == Init => Barriers
<1> SUFFICES ASSUME Init PROVE Barriers
  OBVIOUS
<1>1. {} \in SUBSET Job
  OBVIOUS
<1>2. \A w \in Worker : worker[w].stage \in {"idle", "ticked"}
  BY <1>1, RestingTyped DEF Init
<1>3. ASSUME NEW w \in Worker PROVE Stands(w)
  BY <1>2, <1>3 DEF Stands, ReadsStand, AuthorityStands, WriterIsCurrent, DraftIsTrue, Writing, Loaded,
                    Publishing
<1> QED
  BY <1>3 DEF Init, Barriers, DeletionLocks, Deleting, NoDeletion, SnapshotsStand

\* Only a completion publishes, and only its draft.
LEMMA OnlyDraftsAreNew ==
  ASSUME Typed, [Next]_vars
  PROVE  New = {} \/ \E w \in Worker : /\ worker[w].stage = "persisted"
                                      /\ New \subseteq {worker[w].draft}
<1>1. CASE snaps' \subseteq snaps
  BY <1>1 DEF New
<1>2. ASSUME NEW w \in Worker, Complete(w)
      PROVE  worker[w].stage = "persisted" /\ (snaps' = snaps \/ New \subseteq {worker[w].draft})
  <2>1. \A s \in snaps : Identity(Identity(s)) = Identity(s)
    BY DEF Typed, Identity, Snapshot
  <2> QED
    BY <1>2, <2>1 DEF Complete, Published, New
<1>3. snaps' \subseteq snaps \/ \E w \in Worker : Complete(w)
  BY ZenonT(60) DEF Next, DeletionStep, HostStep, WorkerStep, Observe, ToggleConsent, ChangeGrant, BeginForget,
         BeginDeleteUser, CancelJobs, DeleteSnapshots, CommitDeletion, AbortDeletion, ReadWatermark,
         ReadQueue, Merge, Revive, Insert, Tick, Claim, ReadToken, RenewBeforeSnapshot,
         RenewBeforePublish, Renew, CheckGates, Block, ReadRevision, ReadGeneration, LoadEvidence,
         Recheck, RecordInvocation, RecheckGeneration, CancelStale, PassGates, Persist, RecordFailure,
         GiveUp, Fail, Busy, Crash, LeaseExpires, vars
<1> QED
  BY <1>1, <1>2, <1>3

\* What a worker has read is what it commits upon: the reads, the authorization and, on
\* SQLite, the barriers compared under the write lock (_run_synthesis, persist_snapshot).
THEOREM BarriersHold == Spec => [](Typed /\ Barriers)
<1>1. Init => Typed /\ Bounded /\ Barriers
  BY InitHolds, InitHasBarriers
<1>2. Typed /\ Bounded /\ Barriers /\ [Next]_vars => Typed' /\ Bounded' /\ Barriers'
  BY NextTyped, NextKeepsBarriers
<1> QED
  BY <1>1, <1>2, PTL DEF Spec

\* The generation barrier: on SQLite no snapshot a reader is shown rests on a deleted
\* belief, though it was computed outside any transaction.
THEOREM DeletedIsHidden == Spec => []DeletedIsHiddenOnSqlite
<1>1. Typed /\ Barriers => DeletedIsHiddenOnSqlite
  BY DEF Barriers, SnapshotsStand, DeletedIsHiddenOnSqlite, DeletedContentIsHidden, Shown
<1> QED
  BY <1>1, BarriersHold, PTL

\* The revision barrier: on SQLite what a step publishes was computed from the state it
\* commits upon, and with consent.
THEOREM PublishesAreCurrent == Spec => PublishIsCurrentOnSqlite
<1>1. Typed /\ Barriers /\ [Next]_vars
        => [~Pg => \A s \in New : s.rev = user.rev /\ user.enabled]_vars
  <2> SUFFICES ASSUME Typed, Barriers, [Next]_vars, ~Pg, NEW s \in New
               PROVE  s.rev = user.rev /\ user.enabled
    OBVIOUS
  <2>1. PICK w \in Worker : worker[w].stage = "persisted" /\ s = worker[w].draft
    BY OnlyDraftsAreNew
  <2>2. Stands(w)
    BY DEF Barriers
  <2> QED
    BY <2>1, <2>2 DEF Stands, AuthorityStands, WriterIsCurrent, DraftIsTrue, Publishing
<1> QED
  BY <1>1, BarriersHold, PTL DEF Spec, PublishIsCurrentOnSqlite

\* The revocation barrier: on PostgreSQL, where the authorization share-locks the grant, no
\* step publishes after the grant was revoked.
THEOREM RevocationHolds == Spec => RevocationBarrierOnPostgres
<1>1. Typed /\ Barriers /\ [Next]_vars => [Pg /\ New # {} => user.granted]_vars
  <2> SUFFICES ASSUME Typed, Barriers, [Next]_vars, Pg, New # {}
               PROVE  user.granted
    OBVIOUS
  <2>1. PICK w \in Worker : worker[w].stage = "persisted"
    BY OnlyDraftsAreNew
  <2> QED
    BY <2>1 DEF Barriers, Stands, AuthorityStands, Publishing
<1> QED
  BY <1>1, BarriersHold, PTL DEF Spec, RevocationBarrierOnPostgres
=============================================================================
