---------------------------- MODULE EvolutionQueue ----------------------------
(***************************************************************************)
(* The evolution jobs of one user (worker/evolution.py): hosts enqueue a    *)
(* job, workers sweep expired leases, claim, read a snapshot of the         *)
(* evidence, compute without a transaction, re-check and publish a Snapshot *)
(* under the fence of the lease token, while the engine collects, forgets   *)
(* and deletes memory and consent and grants come and go.                   *)
(*                                                                         *)
(* An action is one statement, or statements nothing can separate.  On      *)
(* PostgreSQL (Pg) transactions are READ COMMITTED and a row that another   *)
(* transaction wrote is waited for.  On SQLite a transaction holds the      *)
(* database's write lock from its first write to its end and every other    *)
(* writer waits or fails busy; a SELECT before the first write belongs to   *)
(* no transaction.                                                         *)
(*                                                                         *)
(* Left out: what is computed, the shadow stage of a snapshot, the row      *)
(* locks the retiring of snapshots takes (they only remove interleavings),  *)
(* the reconciliation at the head of a tick (module DeletionReplay), and    *)
(* clocks: a lease may expire whenever it is held.                          *)
(***************************************************************************)
EXTENDS Integers, FiniteSets

CONSTANTS
  Worker, Host,
  Database,         \* the databases under the queue: "sqlite", "postgresql" or both
  Scopes,           \* the deletions in play: {"belief", "user"} or less
  StallAfterClaim,  \* may a lease run out between the claim and the token's read
  MaxAttempts,      \* config.worker.max_attempts
  MaxBelief,        \* bound: beliefs ever collected
  MaxJob,           \* bound: jobs ever inserted
  MaxRevision,      \* bound: the state revision
  MaxRequeues,      \* bound: times a finished job is made pending again
  MaxFaults         \* bound: crashes, failures, busy writes and leases lost alive

ASSUME NamesAssumption == /\ Database \subseteq {"sqlite", "postgresql"}
                          /\ StallAfterClaim \in BOOLEAN
                          /\ Scopes \subseteq {"belief", "user"}
                          /\ {"none", "free", "deletion", "engine"} \cap Worker = {}
ASSUME SizeAssumption == {MaxAttempts, MaxBelief, MaxJob, MaxRevision,
                          MaxRequeues, MaxFaults} \subseteq Nat

VARIABLES
  user,      \* the user's committed consent, grant, beliefs and barriers
  jobs,      \* the queue
  snaps,     \* the committed snapshots
  worker, host,
  deletion,  \* the deletion in progress
  lock,      \* the database's write lock, "none" where there is no such lock
  spent      \* faults and requeues so far

vars == <<user, jobs, snaps, worker, host, deletion, lock, spent>>

Belief == 1 .. MaxBelief
Job == 1 .. MaxJob
NoJob == 0
Key == 0 .. MaxBelief
Active == {"pending", "running"}
Finished == {"completed", "failed"}
JobStatus == {"none", "deleted", "cancelled"} \cup Active \cup Finished
JobRow == [status : JobStatus, key : Key, token : Nat, attempts : Nat, expired : BOOLEAN]
Snapshot == [version : Nat, live : BOOLEAN, reads : SUBSET Belief, rev : Nat,
             gen : Nat, job : Job \cup {NoJob}, token : Nat]
Publishing == {"authorized", "recorded", "fresh", "gated", "persisted"}
Working == {"owned", "leased", "checked", "dated", "numbered", "computing", "renewed", "stale"}
             \cup Publishing
Stage == {"idle", "ticked", "claimed", "failing", "deferring"} \cup Working

\* Rows and actors have their types, and only an open publish transaction of a
\* worker, or a deletion, holds the database's write lock.
TypeOK ==
  /\ user \in [enabled : BOOLEAN, granted : BOOLEAN, beliefs : SUBSET Belief,
               made : 0 .. MaxBelief, rev : Nat, gen : Nat]
  /\ jobs \in [Job -> JobRow]
  /\ snaps \subseteq Snapshot
  /\ worker \in [Worker -> [stage : Stage, job : Job \cup {NoJob}, token : Nat, tries : Nat,
                            queue : SUBSET Job, rev : Nat, gen : Nat,
                            reads : SUBSET Belief, draft : Snapshot,
                            retires : SUBSET Snapshot]]
  /\ host \in [Host -> [stage : {"idle", "keyed", "merging", "reviving", "inserting"},
                        key : Key, job : Job \cup {NoJob}]]
  /\ deletion \in [stage : {"none", "begun", "locked"}, scope : {"belief", "user"},
                   beliefs : SUBSET Belief, snaps : SUBSET Snapshot, jobs : SUBSET Job]
  /\ lock \in {"none", "free", "deletion"} \cup {w \in Worker : worker[w].stage \in Publishing}
  /\ spent \in [faults : 0 .. MaxFaults, requeues : 0 .. MaxRequeues]

-----------------------------------------------------------------------------
(* Rows and locks.                                                          *)

\* PostgreSQL locks rows; SQLite lets one transaction write at a time.
Pg == lock = "none"
CanWrite(a) == lock \in {"none", "free", a}
Holding(a) == IF Pg THEN lock ELSE a

\* Mutant: a transaction is left open.
NotReleased(a) == lock
Released(a) == IF lock = a THEN "free" ELSE lock

\* A job row the deletion has written is waited for.
RowFree(j) == ~(deletion.stage # "none" /\ j \in deletion.jobs)

JobsWith(statuses) == {j \in Job : jobs[j].status \in statuses}
HasRow(j) == jobs[j].status \notin {"none", "deleted"}

\* The UNIQUE idempotency key: user, watermark and prompt version.
KeyTaken(key, except) == \E j \in Job \ {except} : HasRow(j) /\ jobs[j].key = key

\* A row with that key the deletion has written is waited for.
KeySettled(key) == \A j \in Job : HasRow(j) /\ jobs[j].key = key => RowFree(j)

\* The watermark: the update time of the latest active belief, 0 for "none".
Watermark == IF user.beliefs = {} THEN 0
             ELSE CHOOSE b \in user.beliefs : \A c \in user.beliefs : c <= b

Fault == spent.faults < MaxFaults /\ spent' = [spent EXCEPT !.faults = @ + 1]

Identity(s) == [s EXCEPT !.live = FALSE]

\* _snapshot_generation_current: what a reader of snapshots is shown.
Shown(s) == s.live /\ s.gen = user.gen

-----------------------------------------------------------------------------
(* The engine: collection, consent, grants and deletion.                    *)

NoDeletion == [stage |-> "none", scope |-> "belief", beliefs |-> {}, snaps |-> {}, jobs |-> {}]

\* Forgetting one belief holds the preference row from its compare-and-swap on.
RevisionFree == deletion.stage = "none" \/ deletion.scope = "user"

Observe ==
  /\ CanWrite("engine") /\ RevisionFree
  /\ user.enabled /\ user.made < MaxBelief /\ user.rev < MaxRevision
  /\ user' = [user EXCEPT !.made = @ + 1, !.beliefs = @ \cup {user.made + 1}, !.rev = @ + 1]
  /\ UNCHANGED <<jobs, snaps, worker, host, deletion, lock, spent>>

ToggleConsent ==
  /\ CanWrite("engine") /\ RevisionFree
  /\ user.rev < MaxRevision
  /\ user' = [user EXCEPT !.enabled = ~@, !.rev = @ + 1]
  /\ UNCHANGED <<jobs, snaps, worker, host, deletion, lock, spent>>

\* Mutant: the grant row is read without FOR SHARE.
GrantRowFreeAlways == TRUE

\* FOR SHARE on the grant row, from the authorization to the end of the publish.
GrantRowFree == Pg => \A w \in Worker : worker[w].stage \notin Publishing

\* grant_purpose and revoke_purpose, whose versions, expiry and operations come
\* down to whether the job's purpose may extract; neither moves the revision.
ChangeGrant ==
  /\ CanWrite("engine") /\ GrantRowFree
  /\ user' = [user EXCEPT !.granted = ~@]
  /\ UNCHANGED <<jobs, snaps, worker, host, deletion, lock, spent>>

\* forget_belief: the revision, the belief and the snapshots go first.
BeginForget(b) ==
  /\ "belief" \in Scopes /\ b \in user.beliefs
  /\ deletion.stage = "none" /\ user.rev < MaxRevision
  /\ CanWrite("deletion")
  /\ deletion' = [stage |-> "begun", scope |-> "belief", beliefs |-> {b},
                  snaps |-> {Identity(s) : s \in snaps}, jobs |-> {}]
  /\ lock' = Holding("deletion")
  /\ UNCHANGED <<user, jobs, snaps, worker, host, spent>>

\* ... and then the jobs are cancelled.
CancelJobs ==
  /\ deletion.stage = "begun" /\ deletion.scope = "belief"
  /\ deletion' = [deletion EXCEPT !.stage = "locked", !.jobs = JobsWith(Active)]
  /\ UNCHANGED <<user, jobs, snaps, worker, host, lock, spent>>

\* delete_user_memories: the beliefs, then the jobs, then the snapshots.
BeginDeleteUser ==
  /\ "user" \in Scopes
  /\ deletion.stage = "none" /\ user.rev < MaxRevision
  /\ CanWrite("deletion")
  /\ deletion' = [stage |-> "begun", scope |-> "user", beliefs |-> user.beliefs,
                  snaps |-> {}, jobs |-> {j \in Job : HasRow(j)}]
  /\ lock' = Holding("deletion")
  /\ UNCHANGED <<user, jobs, snaps, worker, host, spent>>

DeleteSnapshots ==
  /\ deletion.stage = "begun" /\ deletion.scope = "user"
  /\ deletion' = [deletion EXCEPT !.stage = "locked", !.snaps = {Identity(s) : s \in snaps}]
  /\ UNCHANGED <<user, jobs, snaps, worker, host, lock, spent>>

\* Mutant: the deletion raises neither barrier.
NothingRaised(state) == state

\* touch_memory_state and bump_deletion_generation.
BarriersRaised(state) == [state EXCEPT !.rev = @ + 1, !.gen = @ + 1]

CommitDeletion ==
  /\ deletion.stage = "locked" /\ user.rev < MaxRevision
  /\ user' = BarriersRaised([user EXCEPT !.beliefs = @ \ deletion.beliefs])
  /\ snaps' = {s \in snaps : Identity(s) \notin deletion.snaps}
  /\ jobs' = [j \in Job |->
                CASE j \notin deletion.jobs -> jobs[j]
                  [] j \in deletion.jobs /\ deletion.scope = "user"
                       -> [jobs[j] EXCEPT !.status = "deleted"]
                  [] OTHER -> [jobs[j] EXCEPT !.status = "cancelled"]]
  /\ deletion' = NoDeletion
  /\ lock' = Released("deletion")
  /\ UNCHANGED <<worker, host, spent>>

AbortDeletion ==
  /\ deletion.stage # "none" /\ Fault
  /\ deletion' = NoDeletion
  /\ lock' = Released("deletion")
  /\ UNCHANGED <<user, jobs, snaps, worker, host>>

-----------------------------------------------------------------------------
(* enqueue_job: the watermark, the queue, then one conditional write.       *)

IdleHost == [stage |-> "idle", key |-> 0, job |-> NoJob]
Returns(h) == host' = [host EXCEPT ![h] = IdleHost]

ReadWatermark(h) ==
  /\ host[h].stage = "idle" /\ user.enabled
  /\ host' = [host EXCEPT ![h] = [stage |-> "keyed", key |-> Watermark, job |-> NoJob]]
  /\ UNCHANGED <<user, jobs, snaps, worker, deletion, lock, spent>>

ReadQueue(h) ==
  LET Plan(stage, j) == [stage |-> stage, key |-> host[h].key, job |-> j]
      active == JobsWith(Active)
      revivable == {j \in JobsWith(Finished) : jobs[j].key = host[h].key}
  IN  /\ host[h].stage = "keyed"
      /\ \/ \E j \in active : host' = [host EXCEPT ![h] = Plan("merging", j)]
         \/ /\ active = {}
            /\ \E j \in revivable : host' = [host EXCEPT ![h] = Plan("reviving", j)]
         \/ /\ active = {} /\ revivable = {}
            /\ host' = [host EXCEPT ![h] = Plan("inserting", NoJob)]
      /\ UNCHANGED <<user, jobs, snaps, worker, deletion, lock, spent>>

\* The write fails on the key's uniqueness: enqueue_job raises.
Merge(h) ==
  LET j == host[h].job IN
  /\ host[h].stage = "merging" /\ CanWrite(h) /\ RowFree(j) /\ KeySettled(host[h].key)
  /\ jobs' = IF jobs[j].status \in Active /\ ~KeyTaken(host[h].key, j)
             THEN [jobs EXCEPT ![j].key = host[h].key] ELSE jobs
  /\ Returns(h)
  /\ UNCHANGED <<user, snaps, worker, deletion, lock, spent>>

Revive(h) ==
  LET j == host[h].job IN
  /\ host[h].stage = "reviving" /\ CanWrite(h) /\ RowFree(j)
  /\ spent.requeues < MaxRequeues
  /\ jobs' = IF jobs[j].status \in Finished
             THEN [jobs EXCEPT ![j].status = "pending", ![j].attempts = 0] ELSE jobs
  /\ spent' = [spent EXCEPT !.requeues = @ + 1]
  /\ Returns(h)
  /\ UNCHANGED <<user, snaps, worker, deletion, lock>>

Insert(h) ==
  LET unused == JobsWith({"none"})
      j == CHOOSE i \in unused : \A k \in unused : i <= k
  IN  /\ host[h].stage = "inserting" /\ CanWrite(h) /\ KeySettled(host[h].key)
      /\ \/ KeyTaken(host[h].key, NoJob) /\ UNCHANGED jobs
         \/ /\ ~KeyTaken(host[h].key, NoJob) /\ unused # {}
            /\ jobs' = [jobs EXCEPT ![j] = [status |-> "pending", key |-> host[h].key,
                                            token |-> 0, attempts |-> 0, expired |-> FALSE]]
      /\ Returns(h)
      /\ UNCHANGED <<user, snaps, worker, deletion, lock, spent>>

-----------------------------------------------------------------------------
(* The workers.                                                             *)

NoDraft == [version |-> 0, live |-> FALSE, reads |-> {}, rev |-> 0, gen |-> 0,
            job |-> NoJob, token |-> 0]
Resting(queue) == [stage |-> IF queue = {} THEN "idle" ELSE "ticked", job |-> NoJob,
                   token |-> 0, tries |-> 0, queue |-> queue, rev |-> 0, gen |-> 0,
                   reads |-> {}, draft |-> NoDraft, retires |-> {}]

\* The worker is through with its job and ends its transaction.
Leave(w, queue) ==
  /\ worker' = [worker EXCEPT ![w] = Resting(queue)]
  /\ lock' = Released(w)

Becomes(w, stage) == worker' = [worker EXCEPT ![w].stage = stage]

MyJob(w) == worker[w].job
Fenced(w) == HasRow(MyJob(w)) /\ jobs[MyJob(w)].token = worker[w].token

\* Mutant: the bookkeeping no longer carries the lease token.
LandsUnfenced(w) == HasRow(MyJob(w))

\* _set_job_state: the UPDATE lands while the token is held, whatever the status.
Lands(w) == Fenced(w)
SetJobState(w, changed) ==
  jobs' = IF Lands(w) THEN [jobs EXCEPT ![MyJob(w)] = changed] ELSE jobs

WithStatus(w, status) == [jobs[MyJob(w)] EXCEPT !.status = status]

\* process_pending: expired leases go back to pending and the pending jobs are
\* taken down; they are tried one by one, and a failed claim moves on.
Expired == {j \in JobsWith({"running"}) : jobs[j].expired}

\* Mutant: the crash-recovery sweep is missing.
TickWithoutSweep(w) ==
  /\ worker[w].stage = "idle"
  /\ JobsWith({"pending"}) # {}
  /\ worker' = [worker EXCEPT ![w] = Resting(JobsWith({"pending"}))]
  /\ UNCHANGED <<user, jobs, snaps, host, deletion, lock, spent>>

Tick(w) ==
  /\ worker[w].stage = "idle" /\ CanWrite(w)
  /\ JobsWith({"pending"}) \cup Expired # {}
  /\ \A j \in Expired : RowFree(j)
  /\ jobs' = [j \in Job |-> IF j \in Expired THEN [jobs[j] EXCEPT !.status = "pending"]
                                             ELSE jobs[j]]
  /\ worker' = [worker EXCEPT ![w] = Resting(JobsWith({"pending"}) \cup Expired)]
  /\ UNCHANGED <<user, snaps, host, deletion, lock, spent>>

\* Mutant: a claim keeps the lease token.
TakenWithoutToken(row) ==
  [row EXCEPT !.status = "running", !.expired = FALSE, !.attempts = @ + 1]

Taken(row) ==
  [row EXCEPT !.status = "running", !.expired = FALSE, !.token = @ + 1, !.attempts = @ + 1]

\* _claim_job: the conditional UPDATE and its commit.
Claim(w, j) ==
  /\ worker[w].stage = "ticked" /\ j \in worker[w].queue
  /\ CanWrite(w) /\ RowFree(j)
  /\ IF jobs[j].status = "pending"
     THEN /\ jobs' = [jobs EXCEPT ![j] = Taken(@)]
          /\ worker' = [worker EXCEPT ![w].stage = "claimed", ![w].job = j,
                                      ![w].queue = @ \ {j}]
     ELSE /\ worker' = [worker EXCEPT ![w] = Resting(worker[w].queue \ {j})]
          /\ UNCHANGED jobs
  /\ UNCHANGED <<user, snaps, host, deletion, lock, spent>>

\* The token and the row are read after the claim has committed; a row that is
\* gone by then ends the tick with an exception.
ReadToken(w) ==
  /\ worker[w].stage = "claimed"
  /\ worker' = [worker EXCEPT ![w] =
       IF HasRow(MyJob(w))
       THEN [@ EXCEPT !.stage = "owned", !.token = jobs[MyJob(w)].token,
                      !.tries = jobs[MyJob(w)].attempts]
       ELSE Resting({})]
  /\ UNCHANGED <<user, jobs, snaps, host, deletion, lock, spent>>

\* _renew_lease, before the snapshot and again before the publish.
Renew(w, from, to) ==
  /\ worker[w].stage = from /\ CanWrite(w) /\ RowFree(MyJob(w))
  /\ IF Fenced(w) /\ jobs[MyJob(w)].status = "running"
     THEN /\ jobs' = [jobs EXCEPT ![MyJob(w)].expired = FALSE]
          /\ Becomes(w, to)
     ELSE /\ worker' = [worker EXCEPT ![w] = Resting(worker[w].queue)]
          /\ UNCHANGED jobs
  /\ UNCHANGED <<user, snaps, host, deletion, lock, spent>>

RenewBeforeSnapshot(w) == Renew(w, "owned", "leased")
RenewBeforePublish(w) == Renew(w, "computing", "renewed")

\* Consent, then the job's purpose for the operation "extract".
Allowed == user.enabled /\ user.granted

\* _block_job: the transaction's writes commit with the cancellation.
Block(w) ==
  /\ CanWrite(w) /\ RowFree(MyJob(w))
  /\ SetJobState(w, WithStatus(w, "cancelled"))
  /\ Leave(w, worker[w].queue)
  /\ UNCHANGED <<user, snaps, host, deletion, spent>>

CheckGates(w) ==
  \/ /\ worker[w].stage = "leased" /\ Allowed
     /\ Becomes(w, "checked")
     /\ UNCHANGED <<user, jobs, snaps, host, deletion, lock, spent>>
  \/ worker[w].stage = "leased" /\ ~Allowed /\ Block(w)

ReadRevision(w) ==
  /\ worker[w].stage = "checked"
  /\ worker' = [worker EXCEPT ![w].stage = "dated", ![w].rev = user.rev]
  /\ UNCHANGED <<user, jobs, snaps, host, deletion, lock, spent>>

ReadGeneration(w) ==
  /\ worker[w].stage = "dated"
  /\ worker' = [worker EXCEPT ![w].stage = "numbered", ![w].gen = user.gen]
  /\ UNCHANGED <<user, jobs, snaps, host, deletion, lock, spent>>

\* The last read of the snapshot; its transaction ends before the model is called.
LoadEvidence(w) ==
  /\ worker[w].stage = "numbered"
  /\ worker' = [worker EXCEPT ![w].stage = "computing", ![w].reads = user.beliefs]
  /\ UNCHANGED <<user, jobs, snaps, host, deletion, lock, spent>>

Recheck(w) ==
  \/ /\ worker[w].stage = "renewed" /\ Allowed
     /\ Becomes(w, "authorized")
     /\ UNCHANGED <<user, jobs, snaps, host, deletion, lock, spent>>
  \/ worker[w].stage = "renewed" /\ ~Allowed /\ Block(w)

\* record_purpose_invocation: the first write of the publish transaction.
RecordInvocation(w) ==
  /\ worker[w].stage = "authorized" /\ CanWrite(w)
  /\ Becomes(w, "recorded")
  /\ lock' = Holding(w)
  /\ UNCHANGED <<user, jobs, snaps, host, deletion, spent>>

RecheckGeneration(w) ==
  \/ /\ worker[w].stage = "recorded" /\ user.gen = worker[w].gen
     /\ Becomes(w, "fresh")
     /\ UNCHANGED <<user, jobs, snaps, host, deletion, lock, spent>>
  \/ /\ worker[w].stage = "recorded" /\ user.gen # worker[w].gen
     /\ Becomes(w, "stale")
     /\ lock' = Released(w)
     /\ UNCHANGED <<user, jobs, snaps, host, deletion, spent>>

\* The transaction has been rolled back before the job is cancelled.
CancelStale(w) == worker[w].stage = "stale" /\ Block(w)

\* Mutant: the publish is not checked against the revision of the snapshot.
PublisherAcceptsAnyRevision(w) == TRUE

\* The Publisher's gates.  Consent is the row the session loaded in Recheck; the
\* revision is read anew, and SYNTHESIZE makes no compare-and-swap after it.
PublisherAccepts(w) == user.rev = worker[w].rev

PassGates(w) ==
  \/ /\ worker[w].stage = "fresh" /\ PublisherAccepts(w)
     /\ Becomes(w, "gated")
     /\ UNCHANGED <<user, jobs, snaps, host, deletion, lock, spent>>
  \/ worker[w].stage = "fresh" /\ ~PublisherAccepts(w) /\ Block(w)

LatestVersion == IF snaps = {} THEN 0
                 ELSE CHOOSE v \in {s.version : s \in snaps} : \A s \in snaps : s.version <= v

\* persist_snapshot: the live snapshots are retired and a new one is added; the
\* generation is read again and stamped on it.
Persist(w) ==
  /\ worker[w].stage = "gated"
  /\ worker' = [worker EXCEPT ![w].stage = "persisted",
       ![w].draft = [version |-> 1 + LatestVersion, live |-> TRUE, reads |-> worker[w].reads,
                     rev |-> worker[w].rev, gen |-> user.gen, job |-> MyJob(w),
                     token |-> worker[w].token],
       ![w].retires = {s \in snaps : s.live}]
  /\ UNCHANGED <<user, jobs, snaps, host, deletion, lock, spent>>

\* Mutant: the snapshots before this one stay live.
PublishedBeside(w) == snaps \cup {worker[w].draft}

Published(w) ==
  {IF s \in worker[w].retires THEN Identity(s) ELSE s : s \in snaps} \cup {worker[w].draft}

\* Mutant: the commit comes before the row count is looked at.
PublishSurvivesAlways(w) == TRUE

PublishSurvives(w) == Lands(w)

\* The fenced completion commits the publish; LeaseLost rolls it back.
Complete(w) ==
  /\ worker[w].stage = "persisted" /\ RowFree(MyJob(w))
  /\ SetJobState(w, WithStatus(w, "completed"))
  /\ snaps' = IF PublishSurvives(w) THEN Published(w) ELSE snaps
  /\ Leave(w, worker[w].queue)
  /\ UNCHANGED <<user, host, deletion, spent>>

-----------------------------------------------------------------------------
(* What goes wrong.                                                         *)

\* An exception: the transaction is rolled back and the job's row comes next.
Fail(w) ==
  /\ worker[w].stage \in Working /\ Fault
  /\ Becomes(w, "failing")
  /\ lock' = Released(w)
  /\ UNCHANGED <<user, jobs, snaps, host, deletion>>

\* The first write of a transaction meets SQLite's lock and runs out of patience.
Busy(w) ==
  /\ \/ worker[w].stage \in {"owned", "computing", "authorized", "stale"}
     \/ worker[w].stage \in {"leased", "renewed"} /\ ~Allowed
  /\ Fault
  /\ ~CanWrite(w)
  /\ Becomes(w, "deferring")
  /\ UNCHANGED <<user, jobs, snaps, host, deletion, lock>>

\* The fenced bookkeeping; a busy database does not burn an attempt, but a lease
\* lost while deferring is caught nowhere and ends the tick.
RecordFailure(w) ==
  LET retried == [WithStatus(w, "pending") EXCEPT !.attempts =
                    IF worker[w].tries = 0 THEN 0 ELSE worker[w].tries - 1]
      stranded == worker[w].stage = "deferring" /\ ~Lands(w)
  IN  /\ CanWrite(w) /\ RowFree(MyJob(w))
      /\ \/ worker[w].stage = "deferring" /\ SetJobState(w, retried)
         \/ /\ worker[w].stage = "failing" /\ worker[w].tries < MaxAttempts
            /\ SetJobState(w, WithStatus(w, "pending"))
         \/ /\ worker[w].stage = "failing" /\ worker[w].tries >= MaxAttempts
            /\ SetJobState(w, WithStatus(w, "failed"))
      /\ Leave(w, IF stranded THEN {} ELSE worker[w].queue)
      /\ UNCHANGED <<user, snaps, host, deletion, spent>>

\* The bookkeeping meets the lock too: the exception ends the tick.
GiveUp(w) ==
  /\ worker[w].stage \in {"failing", "deferring"} /\ ~CanWrite(w)
  /\ worker' = [worker EXCEPT ![w] = Resting({})]
  /\ UNCHANGED <<user, jobs, snaps, host, deletion, lock, spent>>

Crash(w) ==
  /\ worker[w].stage # "idle" /\ Fault
  /\ Leave(w, {})
  /\ UNCHANGED <<user, jobs, snaps, host, deletion>>

\* The workers a lease was given to that are still at it.
Holders(j) == {w \in Worker : /\ MyJob(w) = j
                              /\ \/ worker[w].stage = "claimed"
                                 \/ worker[w].token = jobs[j].token}

LeaseExpires(j) ==
  /\ jobs[j].status = "running" /\ ~jobs[j].expired
  /\ IF Holders(j) = {} THEN UNCHANGED spent ELSE Fault
  /\ StallAfterClaim \/ \A w \in Holders(j) : worker[w].stage # "claimed"
  /\ jobs' = [jobs EXCEPT ![j].expired = TRUE]
  /\ UNCHANGED <<user, snaps, worker, host, deletion, lock>>

-----------------------------------------------------------------------------
Init ==
  /\ user = [enabled |-> TRUE, granted |-> TRUE, beliefs |-> {}, made |-> 0, rev |-> 1, gen |-> 0]
  /\ jobs = [j \in Job |-> [status |-> "none", key |-> 0, token |-> 0, attempts |-> 0,
                            expired |-> FALSE]]
  /\ snaps = {}
  /\ worker = [w \in Worker |-> Resting({})]
  /\ host = [h \in Host |-> IdleHost]
  /\ deletion = NoDeletion
  /\ lock \in {IF d = "sqlite" THEN "free" ELSE "none" : d \in Database}
  /\ spent = [faults |-> 0, requeues |-> 0]

HostStep(h) == ReadWatermark(h) \/ ReadQueue(h) \/ Merge(h) \/ Revive(h) \/ Insert(h)

WorkerStep(w) ==
  \/ Tick(w) \/ \E j \in Job : Claim(w, j)
  \/ ReadToken(w) \/ RenewBeforeSnapshot(w) \/ CheckGates(w) \/ ReadRevision(w)
  \/ ReadGeneration(w) \/ LoadEvidence(w) \/ RenewBeforePublish(w) \/ Recheck(w)
  \/ RecordInvocation(w) \/ RecheckGeneration(w) \/ CancelStale(w) \/ PassGates(w)
  \/ Persist(w) \/ Complete(w) \/ RecordFailure(w) \/ GiveUp(w)

DeletionStep == CancelJobs \/ DeleteSnapshots \/ CommitDeletion

Next ==
  \/ Observe \/ ToggleConsent \/ ChangeGrant
  \/ \E b \in Belief : BeginForget(b)
  \/ BeginDeleteUser \/ DeletionStep \/ AbortDeletion
  \/ \E h \in Host : HostStep(h)
  \/ \E w \in Worker : WorkerStep(w) \/ Fail(w) \/ Busy(w) \/ Crash(w)
  \/ \E j \in Job : LeaseExpires(j)

Spec == Init /\ [][Next]_vars

\* Workers poll, a transaction ends, and the clock reaches every dead lease.
LiveSpec ==
  /\ Spec
  /\ \A w \in Worker : WF_vars(WorkerStep(w))
  /\ WF_vars(DeletionStep)
  /\ \A j \in Job : WF_vars(Holders(j) = {} /\ LeaseExpires(j))

-----------------------------------------------------------------------------
(* Properties.                                                              *)

\* persist_snapshot retires what was live in the transaction that adds a
\* snapshot: a user never has two live ones, whoever publishes.
OneLiveSnapshot == \A s, t \in snaps : s.live /\ t.live => s = t

\* Fencing (I1, I3): a job's later claim never publishes before an earlier one,
\* and one claim publishes once, whatever leases run out and workers stall.
TokensOrderVersions ==
  \A s, t \in snaps : s.job = t.job /\ s.token <= t.token => s.version <= t.version

\* A snapshot a reader is shown never rests on a deleted belief, though it was
\* computed outside any transaction.
DeletedContentIsHidden == \A s \in snaps : Shown(s) => s.reads \subseteq user.beliefs

\* ... which SQLite's single writer guarantees.
DeletedIsHiddenOnSqlite == ~Pg => DeletedContentIsHidden

\* The snapshots a step publishes.
New == {s \in snaps' : Identity(s) \notin {Identity(t) : t \in snaps}}

\* The revision barrier: what is published was computed from the state it
\* commits upon, and with consent.  SQLite's writer has taken the lock before it
\* reads the revision.
PublishIsCurrent == [][\A s \in New : s.rev = user.rev /\ user.enabled]_vars
PublishIsCurrentOnSqlite ==
  [][~Pg => \A s \in New : s.rev = user.rev /\ user.enabled]_vars

\* "A new memory may never appear after a committed revocation": on PostgreSQL the
\* grant row is share-locked from the authorization on.
RevocationBarrier == [][New # {} => user.granted]_vars
RevocationBarrierOnPostgres == [][Pg /\ New # {} => user.granted]_vars

\* "single-user mutex": a user has one pending or running job at most.
OneActiveJob == Cardinality(JobsWith(Active)) <= 1

\* "the next enqueue_job for the user must be free to run": a job cancelled by
\* _block_job or by a deletion never stands in the way of the next one.
CancelledJobsDoNotBlock ==
  \A h \in Host : host[h].stage = "inserting" =>
    \A j \in JobsWith({"cancelled"}) : jobs[j].key # host[h].key

\* "a re-claim bumps lease_token": no two workers ever work under one token.
OneHolder ==
  \A v, w \in Worker :
    /\ MyJob(v) = MyJob(w)
    /\ {worker[v].stage, worker[w].stage} \subseteq Working
    /\ worker[v].token = worker[w].token
    => v = w

\* Every job is settled in the end: a crash, a lost lease, a busy database or a
\* deletion in between leave none behind in the queue.
JobsSettle == \A j \in Job : jobs[j].status \in Active ~> jobs[j].status \notin Active

=============================================================================
