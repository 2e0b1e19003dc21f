------------------------------ MODULE Publisher ------------------------------
(***************************************************************************)
(* The single writer of mirror_memory's beliefs (core/publisher.py) with    *)
(* the callers that hand it proposals: the extraction pipeline, which       *)
(* resolves a claim against the stored beliefs, the verification of a       *)
(* question, and the correct, forget and consent calls of the engine.       *)
(*                                                                         *)
(* One user.  A session is one API call with its database transaction.      *)
(* Several sessions run at once, READ COMMITTED: a statement sees what is   *)
(* committed and what its own transaction wrote, but a row the session has  *)
(* loaded and still refers to keeps the attributes it was loaded with (the  *)
(* identity map of the ORM).  The compare-and-swap of the state revision    *)
(* updates the user's preference row, whose lock is held to the end of the  *)
(* transaction, so at most one session has uncommitted truth changes.  On   *)
(* SQLite a session holds the write lock from its first write instead,      *)
(* which only removes interleavings.                                       *)
(*                                                                         *)
(* Claims carry no dates, so a new value of a single-valued predicate is a  *)
(* handover (memory/temporal.py), and evidence, confidence, tiers and       *)
(* wording are left out.                                                    *)
(***************************************************************************)
EXTENDS Integers, FiniteSets

CONSTANTS
  Session,
  Callers,         \* the sets of sessions that may ever call
  NoSession,       \* the preference row's lock when nobody holds it
  Pred,            \* canonical predicates
  SingleValued,    \* those that hold one value at a time
  Retraction,      \* the verb of a withdrawal ("gave_up"), in no policy
  Obj,
  CrossPredicate,  \* may a correction move a value to another predicate
  MaxBelief,       \* bound: beliefs ever created
  MaxRevision,     \* bound: the state revision
  MaxBeliefTogether, MaxRevisionTogether,  \* the same where several sessions call
  MaxClaims        \* bound: claims of one turn

ASSUME NamesAssumption == /\ NoSession \notin Session
                          /\ Callers \subseteq SUBSET Session
                          /\ SingleValued \subseteq Pred
                          /\ Retraction \in Pred \ SingleValued
                          /\ CrossPredicate \in BOOLEAN
                          /\ Obj # {}
ASSUME SizeAssumption == /\ MaxBelief \in Nat /\ MaxBeliefTogether \in 0 .. MaxBelief
                         /\ MaxRevision \in Nat /\ MaxRevisionTogether \in 0 .. MaxRevision
                         /\ MaxClaims \in Nat \ {0}

VARIABLES
  db,     \* the committed database
  work,   \* the database as the holder of the lock will commit it
  lock,   \* the session whose transaction has updated the preference row
  stage,  \* per session: how far its current proposal is, "away" if it never calls
  left,   \* per session: the claims its turn may still publish
  prop,   \* per session: its current proposal
  exp,    \* per session: that proposal's expected_revision
  view    \* per session: the status of the rows in its identity map

vars == <<db, work, lock, stage, left, prop, exp, view>>

Belief == 1 .. MaxBelief
NoBelief == 0
Status == {"absent", "active", "superseded", "rejected"}
Row == [status : Status, pred : Pred, obj : Obj, n : 0 .. MaxBelief]
Slot == {<<p>> : p \in SingleValued} \cup (Pred \X Obj \X (0 .. MaxBelief))
Version == [slot : Slot, belief : Belief, open : BOOLEAN]
Transition == {"CREATE", "SUPPORT", "UPDATE", "CONTRADICT", "CORRECT",
               "FORGET", "VERIFY", "REJECT"}
LogRow == [transition : Transition, target : Belief \cup {NoBelief},
           created : Belief \cup {NoBelief}, expected : Nat]
Database == [rows : [Belief -> Row], versions : SUBSET Version, log : SUBSET LogRow,
             rev : Nat, enabled : BOOLEAN, last : 0 .. MaxBelief]
Proposal == [transition : Transition, target : Belief \cup {NoBelief}, pred : Pred,
             obj : Obj, close : SUBSET Belief, revival : BOOLEAN]
Stage == {"away", "idle", "ready", "decided", "dated", "gated"}

TypeOK ==
  /\ db \in Database
  /\ work \in Database
  /\ lock \in Session \cup {NoSession}
  /\ stage \in [Session -> Stage]
  /\ left \in [Session -> 0 .. MaxClaims]
  /\ prop \in [Session -> Proposal]
  /\ exp \in [Session -> Nat]
  /\ view \in [Session -> [Belief -> Status \cup {"unread"}]]

\* One session at a time calls, as when the library is embedded in one thread.
Alone == \E s \in Session : \A t \in Session \ {s} : stage[t] = "away"
BeliefBound == IF Alone THEN MaxBelief ELSE MaxBeliefTogether
RevisionBound == IF Alone THEN MaxRevision ELSE MaxRevisionTogether

-----------------------------------------------------------------------------
(* Rows, keys and the ledger.                                               *)

Exists(d, b) == d.rows[b].status # "absent"
Newest(S) == CHOOSE b \in S : \A c \in S : c <= b

\* The UNIQUE key of a row; n tells apart the rows that would share it.
KeyOf(r) == <<r.pred, r.obj, r.n>>
HoldersOf(d, key) == {b \in Belief : Exists(d, b) /\ KeyOf(d.rows[b]) = key}

\* _disambiguate_key: the first key of the family no row of any status holds.
FreeSuffix(d, p, o) ==
  CHOOSE n \in 0 .. MaxBelief : /\ HoldersOf(d, <<p, o, n>>) = {}
                                /\ \A m \in 0 .. n - 1 : HoldersOf(d, <<p, o, m>>) # {}

SlotOf(r) == IF r.pred \in SingleValued THEN <<r.pred>> ELSE KeyOf(r)

Closed(v) == [slot |-> v.slot, belief |-> v.belief, open |-> FALSE]

\* Mutant: the previous version of the slot stays open.
AppendVersionBeside(d, b) ==
  [d EXCEPT !.versions = @ \cup {[slot |-> SlotOf(d.rows[b]), belief |-> b, open |-> TRUE]}]

AppendVersion(d, b) ==
  LET slot == SlotOf(d.rows[b])
      rest == {v \in d.versions : v.slot # slot}
      past == {Closed(v) : v \in d.versions \ rest}
  IN  [d EXCEPT !.versions = rest \cup past \cup {[slot |-> slot, belief |-> b, open |-> TRUE]}]

CloseVersionsOf(d, b) ==
  [d EXCEPT !.versions = {IF v.belief = b THEN Closed(v) ELSE v : v \in d.versions}]

SetStatus(d, S, status) ==
  [d EXCEPT !.rows = [b \in Belief |-> IF b \in S THEN [d.rows[b] EXCEPT !.status = status]
                                                  ELSE d.rows[b]]]

InsertBelief(d, p, o, n) ==
  LET row == [status |-> "active", pred |-> p, obj |-> o, n |-> n]
  IN  [d EXCEPT !.rows = [@ EXCEPT ![d.last + 1] = row], !.last = @ + 1]

PurgeLedger(d, b) ==
  [d EXCEPT !.versions = {v \in d.versions : v.slot # SlotOf(d.rows[b])}]

\* Mutant: only the rows that name the belief as their target go.
PurgeLogOfTarget(d, b) ==
  [d EXCEPT !.log = {l \in d.log : l.target # b}]

PurgeLog(d, b) ==
  [d EXCEPT !.log = {l \in d.log : l.target # b /\ l.created # b}]

-----------------------------------------------------------------------------
(* What a session reads.                                                    *)

Sees(s) == IF lock = s THEN work ELSE db

\* The status attribute of each row as the session's objects show it.
StatusSeen(s) ==
  [b \in Belief |-> IF view[s][b] = "unread" THEN Sees(s).rows[b].status ELSE view[s][b]]

\* The session holds the rows in S: those it had not loaded are read now.
Loading(s, S) ==
  [view EXCEPT ![s] = [b \in Belief |-> IF b \in S THEN StatusSeen(s)[b] ELSE view[s][b]]]

-----------------------------------------------------------------------------
(* The callers' decisions.                                                  *)

\* How a claim is worded decides which branch of the resolver it takes.
Form == {"states", "denies", "returns", "withdraws"}
Claim == {c \in [form : Form, pred : Pred, obj : Obj] :
            (c.pred = Retraction) <=> (c.form \in {"returns", "withdraws"})}

\* The rows the pipeline fetches for a claim, filtered by the committed status.
Candidates(d, c) ==
  LET kept == {b \in Belief : d.rows[b].status \in {"active", "superseded"}}
      same == {b \in Belief : Exists(d, b) /\ d.rows[b].obj = c.obj}
  IN  IF ~d.enabled THEN {}
      ELSE IF c.form = "withdraws" THEN {b \in same : d.rows[b].status = "active"}
      ELSE {b \in kept : \/ d.rows[b].pred = c.pred
                         \/ b \in same
                         \/ \E x \in same : d.rows[x].pred = d.rows[b].pred}

Proposing(t, target, p, o) ==
  [transition |-> t, target |-> target, pred |-> p, obj |-> o, close |-> {}, revival |-> FALSE]

\* A statement or a denial of (pred, obj), compared with one current row of the predicate.
DecideStated(d, st, rows, c) ==
  LET current == {b \in rows : st[b] = "active" /\ d.rows[b].pred = c.pred}
      fresh == Proposing(IF c.form = "denies" THEN "CONTRADICT" ELSE "CREATE",
                         NoBelief, c.pred, c.obj)
      Against(b) ==
        IF d.rows[b].obj = c.obj
        THEN IF c.form = "denies" THEN fresh ELSE Proposing("SUPPORT", b, c.pred, c.obj)
        ELSE IF c.pred \in SingleValued THEN Proposing("UPDATE", b, c.pred, c.obj) ELSE fresh
  IN  IF current = {} THEN {fresh} ELSE {Against(b) : b \in current}

\* "I went back to X": the newest row of that value reopens its attribute, and
\* every other current value of the attribute closes.  (A return to a value no
\* single-valued row holds is left out: it is one more multi-valued statement.)
DecideReturn(d, st, rows, c) ==
  LET held == {b \in rows : st[b] \in {"active", "superseded"} /\ d.rows[b].obj = c.obj}
      b == Newest(held)
      others == {x \in rows \ {b} : st[x] = "active" /\ d.rows[x].pred = d.rows[b].pred}
  IN  IF held = {} \/ \E x \in held : d.rows[x].pred \notin SingleValued
      THEN {}
      ELSE {[Proposing("UPDATE", b, d.rows[b].pred, c.obj) EXCEPT !.close = others, !.revival = TRUE]}

\* "I gave X up": the newest current row that mentions X is replaced, the others close.
DecideWithdrawal(d, st, rows, c) ==
  LET held == {b \in rows : st[b] = "active"}
  IN  IF held = {} THEN {}
      ELSE {[Proposing("UPDATE", Newest(held), Retraction, c.obj) EXCEPT
               !.close = held \ {Newest(held)}]}

Decide(d, st, rows, c) ==
  CASE c.form \in {"states", "denies"} -> DecideStated(d, st, rows, c)
    [] c.form = "returns" -> DecideReturn(d, st, rows, c)
    [] c.form = "withdraws" -> DecideWithdrawal(d, st, rows, c)

-----------------------------------------------------------------------------
(* The handlers of the Publisher.  Each returns the database it leaves, the  *)
(* rows it writes and the belief its proposal is logged as having created.  *)

Outcome(d, wrote, created) == [d |-> d, wrote |-> wrote, created |-> created]

\* Mutant: record_claim without its resurrection guard.
CommitCreateUnguarded(d, st, p) ==
  LET holders == HoldersOf(d, <<p.pred, p.obj, 0>>)
      b == Newest(holders)
      new == InsertBelief(d, p.pred, p.obj, 0)
  IN  IF holders = {} THEN Outcome(AppendVersion(new, new.last), {}, new.last)
                      ELSE Outcome(AppendVersion(d, b), {b}, b)

CommitCreate(d, st, p) ==
  LET holders == HoldersOf(d, <<p.pred, p.obj, 0>>)
      b == Newest(holders)
      new == InsertBelief(d, p.pred, p.obj, 0)
  IN  CASE holders = {} -> Outcome(AppendVersion(new, new.last), {}, new.last)
        [] holders # {} /\ st[b] = "rejected" -> Outcome(d, {}, NoBelief)
        [] OTHER -> Outcome(AppendVersion(d, b), {b}, b)

CommitSupport(d, st, p) ==
  Outcome(d, IF st[p.target] = "active" THEN {p.target} ELSE {}, p.target)

\* Mutant: the values a return goes past are not closed.
CommitUpdateAlone(d, st, p) ==
  LET new == InsertBelief(d, p.pred, p.obj, FreeSuffix(d, p.pred, p.obj))
  IN  IF st[p.target] = "rejected" THEN Outcome(d, {}, NoBelief)
      ELSE Outcome(AppendVersion(SetStatus(new, {p.target}, "superseded"), new.last),
                   {p.target}, new.last)

CommitUpdate(d, st, p) ==
  LET new == InsertBelief(d, p.pred, p.obj, FreeSuffix(d, p.pred, p.obj))
      closing == {p.target} \cup {b \in p.close : st[b] = "active"}
  IN  IF st[p.target] = "rejected" THEN Outcome(d, {}, NoBelief)
      ELSE Outcome(AppendVersion(SetStatus(new, closing, "superseded"), new.last),
                   closing, new.last)

\* The correction keeps the cardinality of the row it replaces.
CommitCorrect(d, st, p) ==
  LET new == InsertBelief(d, p.pred, p.obj, FreeSuffix(d, p.pred, p.obj))
  IN  IF st[p.target] # "active" THEN Outcome(d, {}, NoBelief)
      ELSE Outcome(AppendVersion(SetStatus(new, {p.target}, "superseded"), new.last),
                   {p.target}, new.last)

\* Mutant: the row is marked instead of deleted.
CommitForgetSoftly(d, st, p) ==
  Outcome(PurgeLog(PurgeLedger(SetStatus(d, {p.target}, "forgotten"), p.target), p.target),
          {}, NoBelief)

\* A DELETE that finds no row is a warning, not an error.
CommitForget(d, st, p) ==
  Outcome(PurgeLog(PurgeLedger(SetStatus(d, {p.target}, "absent"), p.target), p.target),
          {}, NoBelief)

CommitVerify(d, st, p) ==
  Outcome(d, IF st[p.target] = "active" THEN {p.target} ELSE {}, p.target)

CommitReject(d, st, p) ==
  LET closed == CloseVersionsOf(d, p.target)
  IN  IF st[p.target] = "active"
      THEN Outcome(SetStatus(closed, {p.target}, "rejected"), {p.target}, p.target)
      ELSE Outcome(closed, {}, p.target)

Handle(d, st, p) ==
  CASE p.transition = "CREATE" -> CommitCreate(d, st, p)
    [] p.transition = "SUPPORT" -> CommitSupport(d, st, p)
    [] p.transition = "UPDATE" -> CommitUpdate(d, st, p)
    [] p.transition = "CORRECT" -> CommitCorrect(d, st, p)
    [] p.transition = "FORGET" -> CommitForget(d, st, p)
    [] p.transition = "VERIFY" -> CommitVerify(d, st, p)
    [] p.transition = "REJECT" -> CommitReject(d, st, p)

\* _check_gates: the reason a proposal is refused, "" when every gate passes.
Refusal(s) ==
  LET p == prop[s]
      target == IF p.target = NoBelief THEN "absent" ELSE StatusSeen(s)[p.target]
  IN  IF p.transition # "FORGET" /\ ~Sees(s).enabled THEN "memory_disabled"
      ELSE IF Sees(s).rev # exp[s] THEN "stale_revision"
      ELSE IF p.transition = "CREATE" THEN ""
      ELSE IF target = "absent" THEN "target_belief_missing"
      ELSE IF p.transition = "FORGET" THEN ""
      ELSE IF target = "rejected" THEN "resurrection_guard"
      ELSE IF target = "superseded" /\ ~p.revival THEN "target_belief_superseded"
      ELSE ""

\* The conditional UPDATE of the revision lands.
CasLands(d, expected) == d.rev = expected

Bump(d) == [d EXCEPT !.rev = @ + 1]

LogOf(s, created) ==
  [transition |-> prop[s].transition, target |-> prop[s].target,
   created |-> created, expected |-> exp[s]]

-----------------------------------------------------------------------------
NoRow == [status |-> "absent", pred |-> Retraction, obj |-> CHOOSE o \in Obj : TRUE, n |-> 0]
NoProposal == Proposing("CREATE", NoBelief, Retraction, NoRow.obj)
NothingRead == [b \in Belief |-> "unread"]

EmptyDatabase == [rows |-> [b \in Belief |-> NoRow], versions |-> {}, log |-> {},
                  rev |-> 1, enabled |-> TRUE, last |-> 0]

Init ==
  /\ db = EmptyDatabase
  /\ work = EmptyDatabase
  /\ lock = NoSession
  /\ stage \in {[s \in Session |-> IF s \in C THEN "idle" ELSE "away"] : C \in Callers}
  /\ left = [s \in Session |-> 0]
  /\ prop = [s \in Session |-> NoProposal]
  /\ exp = [s \in Session |-> 0]
  /\ view = [s \in Session |-> NothingRead]

Decided(s, p, claims) ==
  /\ db.rev < RevisionBound
  /\ stage' = [stage EXCEPT ![s] = "decided"]
  /\ left' = [left EXCEPT ![s] = claims]
  /\ prop' = [prop EXCEPT ![s] = p]

\* observe: the first claim of a turn, or its next one in the same transaction.
\* The rows the resolver fetched stay loaded through the publish.
Resolve(s, c) ==
  LET rows == Candidates(Sees(s), c)
      room == IF stage[s] = "idle" THEN MaxClaims ELSE left[s]
  IN  /\ stage[s] \in {"idle", "ready"} /\ room > 0
      /\ \E p \in Decide(Sees(s), StatusSeen(s), rows, c) : Decided(s, p, room - 1)
      /\ view' = Loading(s, rows)
      /\ UNCHANGED <<db, work, lock, exp>>

\* The reply to a verification question; it consumes the turn.  The belief is
\* loaded, then the model judges the reply, then the verdict is published.
Judge(s, b, verdict) ==
  /\ stage[s] = "idle"
  /\ db.enabled /\ db.rows[b].status = "active"
  /\ Decided(s, Proposing(verdict, b, db.rows[b].pred, db.rows[b].obj), 0)
  /\ view' = Loading(s, {b})
  /\ UNCHANGED <<db, work, lock, exp>>

Correct(s, b, p, o) ==
  /\ stage[s] = "idle"
  /\ Exists(db, b)
  /\ CrossPredicate \/ p = db.rows[b].pred
  /\ Decided(s, Proposing("CORRECT", b, p, o), 0)
  /\ UNCHANGED <<db, work, lock, exp, view>>

Forget(s, b) ==
  /\ stage[s] = "idle"
  /\ Exists(db, b)
  /\ Decided(s, Proposing("FORGET", b, db.rows[b].pred, db.rows[b].obj), 0)
  /\ view' = Loading(s, {b})
  /\ UNCHANGED <<db, work, lock, exp>>

\* Mutant: the switch does not move the revision.
ToggleConsentQuietly(s) ==
  /\ stage[s] = "idle"
  /\ lock = NoSession
  /\ db.rev < RevisionBound
  /\ db' = [db EXCEPT !.enabled = ~@]
  /\ UNCHANGED <<work, lock, stage, left, prop, exp, view>>

\* set_memory_enabled in a transaction of its own; a call that changes nothing
\* leaves the revision alone and is left out.
ToggleConsent(s) ==
  /\ stage[s] = "idle"
  /\ lock = NoSession
  /\ db.rev < RevisionBound
  /\ db' = Bump([db EXCEPT !.enabled = ~@])
  /\ UNCHANGED <<work, lock, stage, left, prop, exp, view>>

\* expected_revision is read when the proposal is built, after the decision.
ReadRevision(s) ==
  /\ stage[s] = "decided"
  /\ stage' = [stage EXCEPT ![s] = "dated"]
  /\ exp' = [exp EXCEPT ![s] = Sees(s).rev]
  /\ UNCHANGED <<db, work, lock, left, prop, view>>

PassGates(s) ==
  /\ stage[s] = "dated"
  /\ Refusal(s) = ""
  /\ stage' = [stage EXCEPT ![s] = "gated"]
  /\ UNCHANGED <<db, work, lock, left, prop, exp, view>>

Settle(s) ==
  /\ stage' = [stage EXCEPT ![s] = "ready"]
  /\ prop' = [prop EXCEPT ![s] = NoProposal]
  /\ exp' = [exp EXCEPT ![s] = 0]
  /\ UNCHANGED <<db, left>>

Refuse(s) ==
  /\ stage[s] = "dated"
  /\ Refusal(s) # ""
  /\ Settle(s)
  /\ UNCHANGED <<work, lock, view>>

Locks(s) == stage[s] = "gated" /\ lock \in {NoSession, s}
Inserting == {"CREATE", "UPDATE", "CORRECT"}
\* Mutant: the commit leaves the revision where it was.
AttemptUnbumped(s) == Handle(Sees(s), StatusSeen(s), prop[s])

Attempt(s) == Handle(Bump(Sees(s)), StatusSeen(s), prop[s])
Bounded(s) == prop[s].transition \in Inserting => Sees(s).last < BeliefBound

\* The savepoint: the revision, the handler's writes and the log row together.
PublishCommits(s) ==
  /\ Locks(s) /\ CasLands(Sees(s), exp[s]) /\ Bounded(s)
  /\ LET out == Attempt(s)
     IN  /\ \A b \in out.wrote : Exists(Sees(s), b)
         /\ work' = [out.d EXCEPT !.log = @ \cup {LogOf(s, out.created)}]
         /\ view' = [view EXCEPT ![s] = [b \in Belief |->
                        IF b \in out.wrote THEN "unread" ELSE view[s][b]]]
  /\ lock' = s
  /\ Settle(s)

\* Another session committed between the gates and the compare-and-swap.
PublishStale(s) ==
  /\ Locks(s) /\ ~CasLands(Sees(s), exp[s])
  /\ Settle(s)
  /\ UNCHANGED <<work, lock, view>>

\* The flush of a row that another session deleted fails; the savepoint rolls back.
PublishFails(s) ==
  /\ Locks(s) /\ CasLands(Sees(s), exp[s]) /\ Bounded(s)
  /\ \E b \in Attempt(s).wrote : ~Exists(Sees(s), b)
  /\ view' = [view EXCEPT ![s] = [b \in Belief |->
                 IF b \in Attempt(s).wrote THEN "unread" ELSE view[s][b]]]
  /\ Settle(s)
  /\ UNCHANGED <<work, lock>>

EndSession(s) ==
  /\ stage' = [stage EXCEPT ![s] = "idle"]
  /\ left' = [left EXCEPT ![s] = 0]
  /\ prop' = [prop EXCEPT ![s] = NoProposal]
  /\ exp' = [exp EXCEPT ![s] = 0]
  /\ view' = [view EXCEPT ![s] = NothingRead]
  /\ lock' = IF lock = s THEN NoSession ELSE lock
  /\ work' = IF lock = s THEN EmptyDatabase ELSE work

Commit(s) ==
  /\ stage[s] = "ready"
  /\ db' = IF lock = s THEN work ELSE db
  /\ EndSession(s)

\* An exception in the call, or the death of its process.
Abort(s) ==
  /\ stage[s] \notin {"idle", "away"}
  /\ EndSession(s)
  /\ UNCHANGED db

Next ==
  \E s \in Session :
    \/ \E c \in Claim : Resolve(s, c)
    \/ \E b \in Belief, verdict \in {"VERIFY", "REJECT"} : Judge(s, b, verdict)
    \/ \E b \in Belief, p \in Pred, o \in Obj : Correct(s, b, p, o)
    \/ \E b \in Belief : Forget(s, b)
    \/ ToggleConsent(s)
    \/ ReadRevision(s)
    \/ PassGates(s) \/ Refuse(s)
    \/ PublishCommits(s) \/ PublishStale(s) \/ PublishFails(s)
    \/ Commit(s) \/ Abort(s)

Spec == Init /\ [][Next]_vars

-----------------------------------------------------------------------------
(* Properties.                                                              *)

\* "The revision bump is a compare-and-swap (concurrent publishers cannot both
\* win)": two logged truth changes never name the same expected revision, however
\* sessions overlap, fail and roll back.
OneWinnerPerRevision ==
  \A k, l \in db.log : k.expected = l.expected => k = l

\* append_belief_version: a slot has at most one open version, which is what makes
\* a new value a replacement rather than a second live fact.
OneOpenVersionPerSlot ==
  \A v, w \in db.versions : v.slot = w.slot /\ v.open /\ w.open => v = w

\* set_memory_enabled and the CAS: a session that decided while memory was on must
\* not publish after it was turned off.  With memory off beliefs may only go.
ConsentBarrier ==
  [][~db.enabled =>
       /\ \A b \in Belief : db'.rows[b] = db.rows[b] \/ ~Exists(db', b)
       /\ db'.versions \subseteq db.versions]_vars

\* forget_belief: the ledger and the publish log keep nothing about a belief that
\* is gone, whatever another session had in flight about it.
ForgottenLeavesNothing ==
  /\ \A v \in db.versions : Exists(db, v.belief)
  /\ \A l \in db.log :
       /\ l.created # NoBelief => Exists(db, l.created)
       /\ l.target # NoBelief /\ l.transition # "FORGET" => Exists(db, l.target)

\* A SINGLE predicate has only one active value (docs/architecture.md): a handover
\* closes what it replaces, a return closes what it returns past.
SingleCurrentValue ==
  \A b, c \in Belief :
    /\ db.rows[b].status = "active" /\ db.rows[c].status = "active"
    /\ db.rows[b].pred = db.rows[c].pred /\ db.rows[b].pred \in SingleValued
    => b = c

\* ... as long as no two turns overlap.
SingleCurrentValueAlone == Alone => SingleCurrentValue

\* reject_belief and the resurrection guard of record_claim: a rejected belief has
\* no open version and no later statement of its key opens one, as long as no two
\* turns overlap (a turn that has loaded the row before still takes it for active).
RejectedIsClosedAlone ==
  Alone => \A v \in db.versions : v.open => db.rows[v.belief].status # "rejected"

\* "A rejected belief is never resurrected": its row stays rejected until it is
\* forgotten.
RejectionIsFinal ==
  [][\A b \in Belief : db.rows[b].status = "rejected"
        => db'.rows[b].status \in {"rejected", "absent"}]_vars

\* BeliefVersion: "a value the user retracted keeps its truth interval but gets its
\* epistemic interval closed", so an open version shows a current belief.
OpenVersionIsCurrent ==
  \A v \in db.versions : v.open => db.rows[v.belief].status = "active"

\* ProposalLog: refusals are not logged, so a logged CREATE has a belief to show.
LoggedMeansChanged ==
  \A l \in db.log : l.transition = "CREATE" => l.created # NoBelief

\* The pipeline resolves a denial against a stored belief for record_claim to
\* attenuate it; with consent and a current revision the gates let it through.
DenialsReachTheirBelief ==
  \A s \in Session :
    stage[s] = "dated" /\ prop[s].transition = "CONTRADICT"
      => Refusal(s) # "target_belief_missing"

=============================================================================
