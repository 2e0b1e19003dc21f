------------------------------ MODULE Metabolism ------------------------------
(***************************************************************************)
(* The memory-metabolism cycle (metabolism/planner.py) over one user's     *)
(* beliefs and the evidence behind them: it scans, scores, proposes moves  *)
(* between storage tiers and foldings of evidence, and hands them one by   *)
(* one to the Publisher, whose gates (core/publisher.py) look again before *)
(* each is committed.  Users observe, replace, verify, recall and restore  *)
(* beliefs in between.                                                     *)
(*                                                                         *)
(* SQLite: no transaction is open while the cycle reads, and the release   *)
(* of a proposal's savepoint commits it, so others come between any two    *)
(* steps.  The session keeps the beliefs of the scan: what a later step    *)
(* "gets" is what was read then, while counts and revisions are read anew. *)
(***************************************************************************)
EXTENDS Naturals, FiniteSets, FiniteSetsExt

CONSTANTS
  Runner,                 \* cycles that may be in flight for the user
  NBelief, NEvidence,     \* bounds: ids; evidence is observed in the order of its ids
  Authority,              \* evidence -> rank, 0 the user's own words
  Canonical,              \* beliefs of the retention class that never cools
  MinSupport, Oldest, Recent, Highest,   \* the compaction thresholds
  Cap,                    \* max_transitions_per_run
  Budgets                 \* bounds: what a behaviour may have of each event, and how it starts

Belief == 1..NBelief
Evidence == 1..NEvidence
Counters == {"observed", "replaced", "asked", "recalled", "restored", "ticks"}

\* clamp_policy: every slot keeps at least one row, so that a fold leaves a sample
ASSUME KeepAssumption == Oldest \in 1..10 /\ Recent \in 1..10 /\ Highest \in 1..10
ASSUME LimitsAssumption == MinSupport \in 1..1000 /\ Cap \in Nat \ {0}
ASSUME InputsAssumption == /\ NBelief \in Nat \ {0} /\ NEvidence \in Nat
                           /\ Authority \in [Evidence -> 0..3] /\ Canonical \subseteq Belief
ASSUME BudgetsAssumption == \A b \in Budgets : \A c \in Counters : b[c] \in Nat

VARIABLES
  revision,  \* the state revision: moved by truth writes, not by tiers, folds or recalls
  belief,    \* id -> the row; audited is the tier the last audit row moved it to
  links,     \* belief -> evidence -> the relations it is linked by
  evidence,  \* id -> the row; by is the belief whose digest counts it, 0: none
  digest,    \* belief -> the support count of its digest, 0: no digest
  asked,     \* the belief a verification question is pending about, 0: none
  run,       \* the cycles
  broken,    \* history: beliefs whose audit trail has a gap
  refused,   \* history: beliefs whose move to a warmer tier was refused as protected
  budget     \* what is left of the bounds

truth == <<revision, belief, links, evidence, asked>>
history == <<broken, refused>>
vars == <<revision, belief, links, evidence, digest, asked, run, broken, refused, budget>>

Spend(counter) == budget[counter] > 0 /\ budget' = [budget EXCEPT ![counter] = @ - 1]

(* ------------------------------ the tiers ------------------------------ *)
Tier == {"hot", "warm", "dormant", "archived"}
Rank == [hot |-> 0, warm |-> 1, dormant |-> 2, archived |-> 3]
Legal == {<<"hot", "warm">>, <<"warm", "hot">>, <<"warm", "dormant">>, <<"dormant", "hot">>,
          <<"dormant", "archived">>, <<"archived", "warm">>}
StepDown == [hot |-> "warm", warm |-> "dormant"]
\* what a query may scan
ScanTiers(mode) == IF mode = "current" THEN {"hot", "warm"} ELSE Tier \ {"archived"}

\* ages since an event, in the bands the preference class tells apart:
\* today, 60 days, 180 days (it cools) and 720 days (it is archived)
Age == 0..3
CoolAfter == 2
ArchiveAfter == 3
Never == 9
Older(age) == IF age < 3 THEN age + 1 ELSE age
Idle(row) == Min({row.accessed, row.evidenced})

\* the default weights and thresholds, in thousandths: freshness with a half life of 60 days,
\* recalls, support links, authority, and the neutral importance
Freshness == <<300, 110, 15, 0>>

\* mutant: recalls do not count
AnchorOnEvidence(row) == row.evidenced

Anchor(row) == IF row.accessed # Never THEN row.accessed ELSE row.evidenced
Strength(n) == 40 * (IF n < 5 THEN n ELSE 5)
Heat(row, support) ==
  Freshness[Anchor(row) + 1] + <<0, 28, 44>>[row.hits + 1] + Strength(support)
  + (IF row.source = "extracted" THEN 75 ELSE 150) + 75
HeatTier(score) ==
  IF score >= 700 THEN "hot" ELSE IF score >= 400 THEN "warm"
  ELSE IF score >= 150 THEN "dormant" ELSE "archived"

(* --------------------------- the protection ---------------------------- *)
Supports(b) == {e \in Evidence : "support" \in links[b][e]}
Corrected(b) == \E e \in Evidence : "correct" \in links[b][e]

\* protection_reason: a correction, a pending question, a user's confirmation, thin evidence
Protected(b, source) ==
  Corrected(b) \/ asked = b \/ source # "extracted" \/ Cardinality(Supports(b)) <= 1

(* ---------------------------- the decisions ---------------------------- *)
Stay == "stay"

\* mutant: as warm as now is warm enough to reheat
WarmsOrEqual(now, target) == Rank[target] <= Rank[now]

Warms(now, target) == Rank[target] < Rank[now]

\* decide_tier: reheat first, then the archive clock, then cooling by one edge
Cools(b, row) ==
  ~ Protected(b, row.source) /\ b \notin Canonical
DecideTier(b, row) ==
  LET target == HeatTier(Heat(row, Cardinality(Supports(b)))) IN
    IF Warms(row.tier, target) THEN IF <<row.tier, "hot">> \in Legal THEN "hot" ELSE Stay
    ELSE IF ~ Cools(b, row) THEN Stay
    ELSE IF row.tier = "dormant" THEN IF Idle(row) >= ArchiveAfter THEN "archived" ELSE Stay
    ELSE IF row.tier = target \/ Idle(row) < CoolAfter THEN Stay
    ELSE StepDown[row.tier]

\* plan_compaction
Earliest(rows, n) == {e \in rows : Cardinality({x \in rows : x < e}) < n}
Latest(rows, n) == {e \in rows : Cardinality({x \in rows : x > e}) < n}
Before(x, e) == Authority[x] < Authority[e] \/ (Authority[x] = Authority[e] /\ x < e)
Foremost(rows, n) == {e \in rows : Cardinality({x \in rows : Before(x, e)}) < n}
LiveSupports(b) == {e \in Supports(b) : evidence[e].state # "compacted"}

\* mutant: a correction is folded like any support
AlwaysKeptButCorrections == {"contradict", "verify"}

AlwaysKept == {"correct", "contradict", "verify"}

\* mutant: the sample is not taken
NoSample(rows) == {}

Sample(rows) == Earliest(rows, Oldest) \cup Latest(rows, Recent) \cup Foremost(rows, Highest)

Keep(b) == {e \in Evidence : links[b][e] \cap AlwaysKept # {}} \cup Sample(LiveSupports(b))
Fold(b) ==
  IF Cardinality(Supports(b)) <= MinSupport THEN {} ELSE LiveSupports(b) \ Keep(b)

(* ------------------------------ the cycle ------------------------------ *)
NoRun == [pc |-> "idle", revision |-> 0, rows |-> <<>>, todo |-> {}, late |-> {}, guarded |-> {},
          now |-> [kind |-> "none"]]
Scanned == {b \in Belief : /\ belief[b].status \in {"active", "superseded"}
                           /\ belief[b].tier # "archived"}

\* _scan_beliefs: the session keeps these rows until the cycle is over
Scan(r) ==
  /\ run[r].pc = "idle" /\ Scanned # {}
  /\ run' = [run EXCEPT ![r] = [NoRun EXCEPT !.pc = "read", !.rows = [b \in Scanned |-> belief[b]]]]
  /\ UNCHANGED <<truth, digest, history, budget>>

TierProposal(b, row) ==
  [kind |-> "tier", b |-> b, from |-> row.tier, to |-> DecideTier(b, row), keep |-> {}, fold |-> {}]
FoldProposal(b) ==
  [kind |-> "fold", b |-> b, from |-> Stay, to |-> Stay, keep |-> Keep(b), fold |-> Fold(b)]
Candidates(rows) ==
  {TierProposal(b, rows[b]) : b \in {x \in DOMAIN rows : DecideTier(x, rows[x]) # Stay}}
  \cup {FoldProposal(b) : b \in {x \in DOMAIN rows : Fold(x) # {} /\ asked # x}}

\* proposals are made belief by belief, a folding before a move, until the cap; they are
\* published moves first
Made(p) == 2 * p.b + (IF p.kind = "fold" THEN 0 ELSE 1)
Turn(p) == p.b + (IF p.kind = "fold" THEN NBelief ELSE 0)
Capped(ps) == {p \in ps : Cardinality({q \in ps : Made(q) < Made(p)}) < Cap}
FirstOf(ps) == CHOOSE p \in ps : \A q \in ps : Turn(p) <= Turn(q)

\* the graph, the pending question and then the revision, after the beliefs
Plan(r) ==
  /\ run[r].pc = "read"
  /\ LET rows == run[r].rows
         todo == Capped(Candidates(rows))
     IN run' = [run EXCEPT ![r] =
          IF todo = {} THEN NoRun
          ELSE [@ EXCEPT !.pc = "publish", !.todo = todo, !.revision = revision,
                  !.late = {b \in DOMAIN rows : rows[b].source # belief[b].source}]]
  /\ UNCHANGED <<truth, digest, history, budget>>

\* mutant: the revision is not compared
UpToDateAlways(r) == TRUE

UpToDate(r) == run[r].revision = revision

\* mutant: the selection the planner made is taken as it is
SelectedUnchecked(p) == TRUE

Selected(p) == p.keep = Keep(p.b) /\ p.fold = Fold(p.b)

\* the attributes are those of the scan, the links and the question those of now
Guards(r, b) == Protected(b, run[r].rows[b].source)

Passes(r, p) ==
  /\ UpToDate(r)
  /\ IF p.kind = "tier"
     THEN p.from = run[r].rows[p.b].tier /\ <<p.from, p.to>> \in Legal /\ ~ Guards(r, p.b)
     ELSE asked # p.b /\ p.fold # {} /\ Selected(p)

Rest(r, todo) == IF todo = {} THEN NoRun ELSE [run[r] EXCEPT !.pc = "publish", !.todo = todo,
                                                !.guarded = {}, !.now = [kind |-> "none"]]
Gate(r) ==
  /\ run[r].pc = "publish"
  /\ LET p == FirstOf(run[r].todo)
         todo == run[r].todo \ {p}
     IN IF Passes(r, p)
        THEN /\ run' = [run EXCEPT ![r] = [@ EXCEPT !.pc = "commit", !.todo = todo, !.now = p,
                          !.guarded = {b \in Belief : Protected(b, belief[b].source)}]]
             /\ UNCHANGED refused
        ELSE /\ run' = [run EXCEPT ![r] = Rest(r, todo)]
             /\ refused' = IF UpToDate(r) /\ p.to = "hot" THEN refused \cup {p.b} ELSE refused
  /\ UNCHANGED <<truth, digest, broken, budget>>

\* set_belief_tier and its audit row
Move(b, from, to) ==
  /\ belief' = [belief EXCEPT ![b].tier = to, ![b].audited = to]
  /\ broken' = IF belief[b].audited = from THEN broken ELSE broken \cup {b}

CommitTier(r) ==
  /\ run[r].pc = "commit" /\ run[r].now.kind = "tier"
  /\ LET p == run[r].now
         after == Rest(r, run[r].todo)
     IN /\ Move(p.b, p.from, p.to)
        /\ run' = [run EXCEPT ![r] = IF after = NoRun THEN NoRun
                                     ELSE [after EXCEPT !.rows[p.b].tier = p.to]]
  /\ UNCHANGED <<revision, links, evidence, asked, digest, refused, budget>>

\* mutant: the digest counts the rows that are kept
CountsKept(b) == Cardinality(Keep(b))

\* the counts are of the whole graph, folded rows included
Counts(b) == Cardinality(Supports(b))

\* the selection is made once more, and applied: the folded rows lose their content
CommitFold(r) ==
  /\ run[r].pc = "commit" /\ run[r].now.kind = "fold"
  /\ LET b == run[r].now.b IN
       /\ evidence' = [e \in Evidence |->
            IF e \in Fold(b) THEN [evidence[e] EXCEPT !.state = "compacted", !.content = FALSE, !.by = b]
            ELSE IF e \in Keep(b) THEN [evidence[e] EXCEPT !.state = "representative"]
            ELSE evidence[e]]
       /\ digest' = [digest EXCEPT ![b] = Counts(b)]
  /\ run' = [run EXCEPT ![r] = Rest(r, run[r].todo)]
  /\ UNCHANGED <<revision, belief, links, asked, history, budget>>

(* ------------------------------ the users ------------------------------ *)
\* mutant: a row that was folded stays folded when it is observed again
RecordedFolded(e) == [evidence[e] EXCEPT !.content = TRUE]

\* record_evidence: a folded row goes live again, with the content observed now
Recorded(e) ==
  IF evidence[e].state \in {"none", "compacted"}
  THEN [state |-> "hot", content |-> TRUE, by |-> 0] ELSE evidence[e]

Active(b) == belief[b].status = "active"

\* SUPPORT
Observe(b, e) ==
  /\ Active(b) /\ Spend("observed")
  /\ evidence' = [evidence EXCEPT ![e] = Recorded(e)]
  /\ links' = [links EXCEPT ![b][e] = @ \cup {"support"}]
  /\ belief' = [belief EXCEPT ![b].evidenced = 0]
  /\ revision' = revision + 1
  /\ UNCHANGED <<digest, asked, run, history>>

Born(source) == [status |-> "active", tier |-> "hot", source |-> source, accessed |-> Never,
                 hits |-> 0, evidenced |-> 0, audited |-> "hot"]

\* UPDATE: the row behind the new value is a correction of the old one
Update(b, n, e) ==
  /\ Active(b) /\ belief[n].status = "free" /\ Spend("replaced")
  /\ evidence' = [evidence EXCEPT ![e] = Recorded(e)]
  /\ links' = [links EXCEPT ![b][e] = @ \cup {"correct"}, ![n][e] = {"support"}]
  /\ belief' = [belief EXCEPT ![b].status = "superseded", ![n] = Born("extracted")]
  /\ revision' = revision + 1
  /\ UNCHANGED <<digest, asked, run, history>>

\* CORRECT: the user's own words, without evidence
Correct(b, n) ==
  /\ Active(b) /\ belief[n].status = "free" /\ Spend("replaced")
  /\ belief' = [belief EXCEPT ![b].status = "superseded", ![n] = Born("user_corrected")]
  /\ revision' = revision + 1
  /\ UNCHANGED <<links, evidence, digest, asked, run, history>>

\* a question about one belief at a time; neither it nor its answer waits for the cycle
Ask(b) ==
  /\ Active(b) /\ asked = 0 /\ Spend("asked")
  /\ asked' = b
  /\ UNCHANGED <<revision, belief, links, evidence, digest, run, history>>

Answer(verdict) ==
  /\ asked # 0
  /\ asked' = 0
  /\ IF verdict = "unclear" \/ ~ Active(asked) THEN UNCHANGED <<belief, revision>>
     ELSE /\ belief' = [belief EXCEPT ![asked] =
               IF verdict = "confirm" THEN [@ EXCEPT !.source = "user_confirmed"]
               ELSE [@ EXCEPT !.status = "rejected"]]
          /\ revision' = revision + 1
  /\ UNCHANGED <<links, evidence, digest, run, history, budget>>

\* mark_belief_accessed, on what a query of this mode reaches
Recall(b, mode) ==
  /\ belief[b].tier \in ScanTiers(mode)
  /\ Active(b) \/ (mode = "historical" /\ belief[b].status = "superseded")
  /\ Spend("recalled")
  /\ belief' = [belief EXCEPT ![b].accessed = 0, ![b].hits = IF @ < 2 THEN @ + 1 ELSE @]
  /\ UNCHANGED <<revision, links, evidence, digest, asked, run, history>>

\* restore_belief: through the same gates, with the tier it finds, archived or not
Restore(b) ==
  /\ belief[b].status \in {"active", "superseded"}
  /\ <<belief[b].tier, "warm">> \in Legal /\ ~ Protected(b, belief[b].source)
  /\ Spend("restored")
  /\ Move(b, belief[b].tier, "warm")
  /\ UNCHANGED <<revision, links, evidence, digest, asked, run, refused>>

Tick ==
  /\ Spend("ticks")
  /\ belief' = [b \in Belief |-> [belief[b] EXCEPT !.evidenced = Older(@),
                  !.accessed = IF @ = Never THEN @ ELSE Older(@)]]
  /\ UNCHANGED <<revision, links, evidence, digest, asked, run, history>>

(* ----------------------------------------------------------------------- *)
RunStep(r) == Scan(r) \/ Plan(r) \/ Gate(r) \/ CommitTier(r) \/ CommitFold(r)
UserStep ==
  \/ \E b \in Belief, e \in Evidence : Observe(b, e) \/ (\E n \in Belief : Update(b, n, e))
  \/ \E b, n \in Belief : Correct(b, n)
  \/ \E b \in Belief : Ask(b) \/ Restore(b)
  \/ \E b \in Belief, mode \in {"current", "historical", "all"} : Recall(b, mode)
  \/ \E verdict \in {"confirm", "deny", "unclear"} : Answer(verdict)
Next == (\E r \in Runner : RunStep(r)) \/ UserStep \/ Tick

NoBelief == [Born("extracted") EXCEPT !.status = "free"]

ASSUME StartsAssumption ==
  \A b \in Budgets : b.beliefs \in Nat /\ b.ages \subseteq Age /\ b.tiers \subseteq Tier

\* the beliefs 1..budget.beliefs, each with the evidence the mix gives it, old enough to cool
Init ==
  /\ budget \in Budgets
  /\ revision = 1 /\ asked = 0
  /\ \E age \in budget.ages, tier \in budget.tiers :
       belief = [b \in Belief |-> IF b > budget.beliefs THEN NoBelief
                   ELSE [Born("extracted") EXCEPT !.evidenced = age, !.tier = tier, !.audited = tier]]
  /\ links = [b \in Belief |-> [e \in Evidence |->
                IF b <= budget.beliefs /\ e \in budget.backing[b] THEN {"support"} ELSE {}]]
  /\ evidence = [e \in Evidence |->
       [state |-> IF \E b \in Belief : links[b][e] # {} THEN "hot" ELSE "none",
        content |-> \E b \in Belief : links[b][e] # {}, by |-> 0]]
  /\ digest = [b \in Belief |-> 0]
  /\ run = [r \in Runner |-> NoRun]
  /\ broken = {} /\ refused = {}

Spec == Init /\ [][Next]_vars

\* the host runs the cycle again and again, and a cycle that has begun goes on
LiveSpec == Spec /\ \A r \in Runner : WF_vars(RunStep(r))

(* ----------------------------- properties ------------------------------ *)
TypeOK ==
  /\ revision \in Nat \ {0} /\ asked \in 0..NBelief
  /\ belief \in [Belief -> [status : {"free", "active", "superseded", "rejected"}, tier : Tier,
       source : {"extracted", "user_confirmed", "user_corrected"}, accessed : Age \cup {Never},
       hits : 0..2, evidenced : Age, audited : Tier]]
  /\ links \in [Belief -> [Evidence -> SUBSET (AlwaysKept \cup {"support"})]]
  /\ evidence \in [Evidence -> [state : {"none", "hot", "compacted", "representative"},
       content : BOOLEAN, by : 0..NBelief]]
  /\ \A e \in Evidence : evidence[e].content => evidence[e].state \in {"hot", "representative"}
  /\ \A r \in Runner : run[r].todo # {} => Cardinality(run[r].todo) <= Cap

\* A row is folded for a belief only as a plain support of it, and stays so: one that becomes a
\* correction of the belief is live again (compact.py plan_compaction, record_evidence).
FoldedByRule ==
  \A e \in Evidence : evidence[e].state = "compacted" =>
    links[evidence[e].by][e] = {"support"}

\* A belief whose evidence is its own keeps a sample of it, with content, however often it is
\* compacted (compact.py clamp_policy).
Own(b) == \A c \in Belief \ {b}, e \in Supports(b) : links[c][e] = {}
SampleSurvives ==
  \A b \in Belief : Supports(b) # {} /\ Own(b) => \E e \in Supports(b) : evidence[e].content

\* A digest counts every row that was ever folded into it, and the sample beside them
\* (compact.py build_digest_fields).
DigestCountsWhole ==
  \A b \in Belief :
    /\ digest[b] > 0 => Cardinality({e \in Evidence : evidence[e].by = b}) < digest[b]
    /\ digest[b] <= Cardinality(Supports(b))

\* Every move is audited from the tier the last one led to (repository.py set_belief_tier).
TrailIsAPath == broken = {} /\ \A b \in Belief : belief[b].audited = belief[b].tier

\* What is protected when the gate looks is not moved, except a belief the user confirmed
\* between the scan and the revision of the cycle (publisher.py _check_tier_invariants).
Moving(r) == run[r].pc = "commit" /\ run[r].now.kind = "tier"
GuardedStays ==
  \A r \in Runner : Moving(r) /\ run[r].now.b \in run[r].guarded => run[r].now.b \in run[r].late

\* With nobody about, the cycles come to rest: no belief goes back and forth between tiers, and
\* no folding is proposed for ever (planner.py decide_tier).
Restless ==
  {b \in Scanned : \/ DecideTier(b, belief[b]) # Stay /\ ~ Protected(b, belief[b].source)
                   \/ Fold(b) # {} /\ asked # b}
Settles == <>[](Restless = {})

\* A belief that is asked about while it is dormant is hot again, unless it is protected or
\* nobody asks again in time (planner.py, "Reheat first").
Wanted(b) == Active(b) /\ belief[b].tier = "dormant" /\ belief[b].accessed = 0
Reheats ==
  \A b \in Belief : Wanted(b) ~> ~ Wanted(b) \/ Protected(b, belief[b].source)

\* "the invariant must hold even against a buggy or stale planner" (publisher.py
\* _check_tier_invariants): what is protected when the gate looks is not moved.
ProtectedStays ==
  \A r \in Runner : Moving(r) => run[r].now.b \notin run[r].guarded

\* "nothing (not even an overdue archive clock) may block warming something the user is asking
\* about" (planner.py decide_tier).
NothingBlocksWarming == refused = {}

\* "a user correction is never compacted away" (compact.py).
CorrectionsKeepTheirWords ==
  \A b \in Belief, e \in Evidence : "correct" \in links[b][e] => evidence[e].content

\* "Archiving is reversible by design" (api.py restore_belief).
NoDeadEnd ==
  \A b \in Belief : belief[b].tier = "archived" => ~ Protected(b, belief[b].source)

\* "excess cold beliefs are handled on the following run instead" (config/schema.py).
ExcessIsHandled == <>[](\A b \in Scanned : DecideTier(b, belief[b]) # Stay
                                           => Protected(b, belief[b].source))
=============================================================================
