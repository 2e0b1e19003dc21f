-------------------------- MODULE MetabolismProofs --------------------------
(***************************************************************************)
(* Theorems about Metabolism, for every number of cycles, beliefs and rows  *)
(* of evidence, for every authority of the evidence, every threshold the    *)
(* configuration admits and every budget.                                   *)
(*                                                                         *)
(* Running types the cycles, and says which rows they hold; Graph is what   *)
(* the links, the evidence and the digests say of one another.              *)
(***************************************************************************)
EXTENDS Metabolism, FiniteSetTheorems, WellFoundedInduction, TLAPS

Row ==
  [status : {"free", "active", "superseded", "rejected"}, tier : Tier,
   source : {"extracted", "user_confirmed", "user_corrected"}, accessed : Age \cup {Never},
   hits : 0..2, evidenced : Age, audited : Tier]
Piece == [state : {"none", "hot", "compacted", "representative"}, content : BOOLEAN,
          by : 0..NBelief]
Proposal == [kind : {"tier", "fold"}, b : Belief, from : Tier \cup {Stay}, to : Tier \cup {Stay},
             keep : SUBSET Evidence, fold : SUBSET Evidence]
Nothing == [kind |-> "none"]
Cycle == [pc : {"read", "publish", "commit"}, revision : Nat,
          rows : UNION {[S -> Row] : S \in SUBSET Belief}, todo : SUBSET Proposal,
          late : SUBSET Belief, guarded : SUBSET Belief, now : Proposal \cup {Nothing}]

\* The variables of the users, and those of the cycles.
Data == /\ revision \in Nat \ {0} /\ asked \in 0..NBelief
        /\ belief \in [Belief -> Row]
        /\ links \in [Belief -> [Evidence -> SUBSET (AlwaysKept \cup {"support"})]]
        /\ evidence \in [Evidence -> Piece]
        /\ digest \in [Belief -> Nat]

\* What a cycle holds was scanned; a proposal that is being committed names a legal move.
Held(c) ==
  /\ c = NoRun \/ c \in Cycle
  /\ c.pc = "read" => \A b \in DOMAIN c.rows : c.rows[b].tier # "archived"
  /\ c.pc # "idle" => \A p \in c.todo : p.b \in DOMAIN c.rows
  /\ c.pc = "publish" => c.todo # {}
  /\ c.pc = "commit" =>
       /\ c.now \in Proposal /\ c.now.b \in DOMAIN c.rows
       /\ c.now.kind = "tier" => c.now.from \in Tier /\ c.now.to \in Tier
  /\ IsFiniteSet(c.todo) /\ Cardinality(c.todo) <= Cap
Running == run \in [Runner -> {NoRun} \cup Cycle] /\ \A r \in Runner : Held(run[r])

Typed == Data /\ Running

\* A source that has changed since the scan was late, or has moved the revision.
SourcesKnown ==
  \A r \in Runner : run[r].pc \in {"publish", "commit"} =>
    /\ run[r].revision <= revision
    /\ run[r].revision = revision =>
         \A b \in DOMAIN run[r].rows :
           run[r].rows[b].source # belief[b].source => b \in run[r].late

\* What is linked was recorded, by a belief that exists.
Linked ==
  \A b \in Belief, e \in Evidence : links[b][e] # {} =>
    belief[b].status # "free" /\ evidence[e].state # "none"
\* A row is folded by a belief it supports and no more than supports.
Folded ==
  \A e \in Evidence : evidence[e].state = "compacted" =>
    evidence[e].by \in Belief /\ links[evidence[e].by][e] = {"support"}
\* A live row has lost its words only if two beliefs are linked by it: one folded it while the
\* other keeps it.
Shared(e) == \E c, d \in Belief : c # d /\ links[c][e] # {} /\ links[d][e] # {}
Worded ==
  \A e \in Evidence : evidence[e].state \in {"hot", "representative"} =>
    evidence[e].content \/ Shared(e)
Wordless ==
  \A e \in Evidence : evidence[e].content => evidence[e].state \in {"hot", "representative"}
\* A belief never folds the earliest of its supports.
Later ==
  \A e \in Evidence, b \in Belief : evidence[e].by = b =>
    e \in Supports(b) /\ \E x \in Supports(b) : x < e
Graph == Linked /\ Folded /\ Worded /\ Wordless /\ Later

-----------------------------------------------------------------------------
\* A set of naturals that is not empty has a least element.
LEMMA LeastOne ==
  ASSUME NEW S, S \subseteq Nat, S # {}
  PROVE  \E m \in S : \A k \in S : m <= k
<1> DEFINE R == OpToRel(<, Nat)
<1>1. IsWellFoundedOn(R, Nat)
  BY NatLessThanWellFounded
<1>2. \A x, y \in Nat : x < y => <<x, y>> \in R
  BY DEF OpToRel
<1> HIDE DEF R
<1>3. PICK m \in S : \A y \in S : ~(<<y, m>> \in R)
  BY <1>1, WFMin
<1>4. \A k \in S : ~(k < m)
  BY <1>2, <1>3
<1> QED
  BY <1>3, <1>4

\* The ids are natural numbers, and there are finitely many.
LEMMA Ids ==
  /\ Belief \subseteq Nat \ {0} /\ IsFiniteSet(Belief) /\ NBelief \in Belief
  /\ Evidence \subseteq Nat \ {0} /\ IsFiniteSet(Evidence)
<1>1. NBelief \in Nat \ {0} /\ NEvidence \in Nat
  BY InputsAssumption
<1>2. IsFiniteSet(1..NBelief) /\ IsFiniteSet(1..NEvidence)
  BY <1>1, FS_Interval
<1> QED
  BY <1>1, <1>2 DEF Belief, Evidence

\* One of a set of proposals comes first.
LEMMA FirstIsOne ==
  ASSUME NEW ps \in SUBSET Proposal, ps # {}
  PROVE  FirstOf(ps) \in ps
<1>1. \A p \in ps : Turn(p) \in Nat
  <2>1. \A p \in ps : p.b \in Nat /\ NBelief \in Nat
    BY Ids DEF Proposal
  <2> QED
    BY <2>1 DEF Turn
<1>2. PICK m \in {Turn(p) : p \in ps} : \A k \in {Turn(p) : p \in ps} : m <= k
  <2> DEFINE S == {Turn(p) : p \in ps}
  <2>1. S \subseteq Nat /\ S # {}
    BY <1>1
  <2> HIDE DEF S
  <2>2. \E m \in S : \A k \in S : m <= k
    BY <2>1, LeastOne
  <2> QED
    BY <2>2 DEF S
<1>3. PICK p \in ps : \A q \in ps : Turn(p) <= Turn(q)
  BY <1>2
<1> QED
  BY <1>3 DEF FirstOf

\* A set of at most n elements below each of its own has at most n elements: the cap holds.
LEMMA CapHolds ==
  ASSUME NEW ps, IsFiniteSet(ps), NEW K \in Nat, \A p \in ps : Made(p) \in 0..K,
         \A p, q \in ps : Made(p) = Made(q) => p = q
  PROVE  IsFiniteSet(Capped(ps)) /\ Cardinality(Capped(ps)) <= Cap
<1> DEFINE S == Capped(ps)
<1>1. S \subseteq ps /\ \A p \in S : Cardinality({q \in ps : Made(q) < Made(p)}) < Cap
  BY DEF Capped
<1>2. IsFiniteSet(S) /\ Cardinality(S) \in Nat
  BY <1>1, FS_Subset, FS_CardinalityType
<1>3. Cap \in Nat /\ Cap # 0
  BY LimitsAssumption
<1> HIDE DEF S
<1>4. CASE S = {}
  BY <1>2, <1>3, <1>4, FS_EmptySet DEF S
<1>5. CASE S # {}
  <2> DEFINE T == {K - Made(p) : p \in S}
  <2>1. T \subseteq Nat /\ T # {}
    BY <1>1, <1>5
  <2> HIDE DEF T
  <2>2. PICK m \in T : \A k \in T : m <= k
    BY <2>1, LeastOne
  <2>3. PICK p \in S : m = K - Made(p)
    BY <2>2 DEF T
  <2>4. \A q \in S : K - Made(p) <= K - Made(q)
    BY <2>2, <2>3 DEF T
  <2>5. \A q \in S : Made(q) \in 0..K /\ Made(p) \in 0..K
    BY <1>1, <2>3
  <2>6. \A q \in S : Made(q) <= Made(p)
    BY <2>4, <2>5
  <2> DEFINE B == {q \in ps : Made(q) < Made(p)}
  <2>7. IsFiniteSet(B) /\ Cardinality(B) \in Nat /\ Cardinality(B) < Cap
    BY <1>1, <2>3, FS_Subset, FS_CardinalityType
  <2>8. \A q \in S : q \in B \cup {p}
    BY <1>1, <2>3, <2>5, <2>6
  <2> HIDE DEF B
  <2>9. IsFiniteSet(B \cup {p}) /\ Cardinality(B \cup {p}) \in Nat
        /\ Cardinality(B \cup {p}) <= Cardinality(B) + 1
    <3>1. IsFiniteSet(B \cup {p})
          /\ Cardinality(B \cup {p}) = IF p \in B THEN Cardinality(B) ELSE Cardinality(B) + 1
      BY <2>7, FS_AddElement
    <3> QED
      BY <2>7, <3>1
  <2>10. S \in SUBSET (B \cup {p})
    BY <2>8
  <2>11. Cardinality(S) <= Cardinality(B \cup {p})
    BY <2>9, <2>10, FS_Subset
  <2> QED
    BY <1>2, <1>3, <2>7, <2>9, <2>11 DEF S
<1> QED
  BY <1>4, <1>5

-----------------------------------------------------------------------------
\* What the decisions answer with.
LEMMA Decided ==
  ASSUME NEW b, NEW row \in Row, row.tier # "archived"
  PROVE  DecideTier(b, row) \in Tier \cup {Stay}
<1> DEFINE target == HeatTier(Heat(row, Cardinality(Supports(b))))
<1>1. row.tier \in {"hot", "warm", "dormant"}
  BY DEF Row, Tier
<1>2. row.tier # "dormant" => StepDown[row.tier] \in Tier
  BY <1>1 DEF StepDown, Tier
<1>3. {"hot", "archived"} \subseteq Tier
  BY DEF Tier
<1>4. CASE Warms(row.tier, target)
  BY <1>3, <1>4 DEF DecideTier
<1>5. CASE ~ Warms(row.tier, target) /\ ~ Cools(b, row)
  BY <1>5 DEF DecideTier
<1>6. CASE ~ Warms(row.tier, target) /\ Cools(b, row) /\ row.tier = "dormant"
  BY <1>3, <1>6 DEF DecideTier
<1>7. CASE ~ Warms(row.tier, target) /\ Cools(b, row) /\ row.tier # "dormant"
  BY <1>2, <1>7 DEF DecideTier
<1> QED
  BY <1>4, <1>5, <1>6, <1>7

LEMMA Chosen ==
  ASSUME NEW b
  PROVE  /\ Keep(b) \subseteq Evidence /\ Fold(b) \cap Keep(b) = {}
         /\ Fold(b) \subseteq Supports(b) /\ Supports(b) \subseteq Evidence
<1>1. LiveSupports(b) \subseteq Supports(b) /\ Supports(b) \subseteq Evidence
  BY DEF LiveSupports, Supports
<1>2. Sample(LiveSupports(b)) \subseteq LiveSupports(b)
  BY DEF Sample, Earliest, Latest, Foremost
<1> QED
  BY <1>1, <1>2 DEF Keep, Fold

\* The candidates are finitely many proposals about rows that were scanned, told apart by the
\* order in which they are made.
LEMMA CandidatesAre ==
  ASSUME NEW S \in SUBSET Belief, NEW rows \in [S -> Row],
         \A b \in S : rows[b].tier # "archived"
  PROVE  /\ Candidates(rows) \subseteq Proposal
         /\ \A p \in Candidates(rows) : p.b \in S /\ Made(p) \in 0..(2 * NBelief + 1)
         /\ \A p, q \in Candidates(rows) : Made(p) = Made(q) => p = q
         /\ IsFiniteSet(Candidates(rows))
<1> DEFINE C == Candidates(rows)
           M == 2 * NBelief + 1
<1>1. \A p \in C : \E b \in S : p = TierProposal(b, rows[b]) \/ p = FoldProposal(b)
  BY DEF Candidates
<1>2. ASSUME NEW b \in S
      PROVE  TierProposal(b, rows[b]) \in Proposal /\ FoldProposal(b) \in Proposal
  <2>1. rows[b] \in Row /\ rows[b].tier \in Tier /\ DecideTier(b, rows[b]) \in Tier \cup {Stay}
    BY Decided DEF Row
  <2>2. Keep(b) \in SUBSET Evidence /\ Fold(b) \in SUBSET Evidence
    BY Chosen
  <2> QED
    BY <2>1, <2>2 DEF TierProposal, FoldProposal, Proposal
<1>3. \A b \in S : /\ TierProposal(b, rows[b]).b = b /\ Made(TierProposal(b, rows[b])) = 2 * b + 1
                   /\ FoldProposal(b).b = b /\ Made(FoldProposal(b)) = 2 * b
  BY Ids DEF TierProposal, FoldProposal, Made
<1>4. \A b \in S : b \in Nat /\ b <= NBelief
  BY InputsAssumption DEF Belief
<1>5. NBelief \in Nat
  BY InputsAssumption
<1> HIDE DEF C
<1>6. \A p \in C : p.b \in S /\ Made(p) \in 0..M
  BY <1>1, <1>3, <1>4, <1>5
<1>7. ASSUME NEW p \in C, NEW q \in C, Made(p) = Made(q) PROVE p = q
  <2>1. PICK b \in S : p = TierProposal(b, rows[b]) \/ p = FoldProposal(b)
    BY <1>1
  <2>2. PICK c \in S : q = TierProposal(c, rows[c]) \/ q = FoldProposal(c)
    BY <1>1
  <2>3. \/ Made(p) = 2 * b + 1 /\ p = TierProposal(b, rows[b])
        \/ Made(p) = 2 * b /\ p = FoldProposal(b)
    <3>1. CASE p = TierProposal(b, rows[b])
      BY <1>3, <3>1, Zenon
    <3>2. CASE p = FoldProposal(b)
      BY <1>3, <3>2, Zenon
    <3> QED
      BY <2>1, <3>1, <3>2
  <2>4. \/ Made(q) = 2 * c + 1 /\ q = TierProposal(c, rows[c])
        \/ Made(q) = 2 * c /\ q = FoldProposal(c)
    <3>1. CASE q = TierProposal(c, rows[c])
      BY <1>3, <3>1, Zenon
    <3>2. CASE q = FoldProposal(c)
      BY <1>3, <3>2, Zenon
    <3> QED
      BY <2>2, <3>1, <3>2
  <2> QED
    BY <1>4, <1>7, <2>3, <2>4
<1> DEFINE f == [p \in C |-> Made(p)]
<1>8. f \in [C -> 0..M]
  BY <1>6
<1>9. \A p, q \in C : f[p] = f[q] => p = q
  BY <1>7
<1>10. f \in Injection(C, 0..M)
  BY <1>8, <1>9 DEF Injection, IsInjective
<1>11. IsFiniteSet(0..M)
  BY <1>5, FS_Interval
<1> HIDE DEF f
<1>12. IsFiniteSet(C)
  BY <1>10, <1>11, FS_Injection
<1>13. C \subseteq Proposal
  BY <1>1, <1>2
<1> QED
  BY <1>6, <1>7, <1>12, <1>13 DEF C

-----------------------------------------------------------------------------
(* The types. *)

\* The cycle that rests after a proposal.
LEMMA Rests ==
  ASSUME NEW r \in Runner, NEW todo, run[r] \in Cycle, todo \in SUBSET run[r].todo,
         Held(run[r])
  PROVE  /\ Held(Rest(r, todo)) /\ Rest(r, todo) \in {NoRun} \cup Cycle
         /\ Rest(r, todo) # NoRun =>
              /\ Rest(r, todo).pc = "publish" /\ Rest(r, todo).todo = todo /\ todo # {}
              /\ Rest(r, todo).rows = run[r].rows /\ Rest(r, todo).late = run[r].late
              /\ Rest(r, todo).revision = run[r].revision
<1>1. IsFiniteSet(todo) /\ Cardinality(todo) <= Cap
  <2>1. IsFiniteSet(run[r].todo) /\ Cardinality(run[r].todo) <= Cap /\ Cap \in Nat
    BY LimitsAssumption DEF Held
  <2>2. IsFiniteSet(todo) /\ Cardinality(todo) <= Cardinality(run[r].todo)
    BY <2>1, FS_Subset
  <2>3. Cardinality(todo) \in Nat /\ Cardinality(run[r].todo) \in Nat
    BY <2>1, <2>2, FS_CardinalityType
  <2> QED
    BY <2>1, <2>2, <2>3
<1>2. CASE todo = {}
  <2>1. Rest(r, todo) = NoRun
    BY <1>2 DEF Rest
  <2>2. NoRun.pc = "idle" /\ NoRun.todo = {}
    BY DEF NoRun
  <2>3. Held(NoRun)
    BY <2>2, <1>1, <1>2 DEF Held
  <2> QED
    BY <2>1, <2>3
<1>3. CASE todo # {}
  <2> DEFINE c == [run[r] EXCEPT !.pc = "publish", !.todo = todo, !.guarded = {}, !.now = Nothing]
  <2>1. Rest(r, todo) = c
    BY <1>3 DEF Rest, Nothing
  <2>2. /\ c \in Cycle /\ c.pc = "publish" /\ c.todo = todo /\ c.rows = run[r].rows
        /\ c.late = run[r].late /\ c.revision = run[r].revision
    BY DEF Cycle
  <2>3. run[r].pc # "idle"
    BY DEF Cycle
  <2>4. \A p \in todo : p.b \in DOMAIN run[r].rows
    BY <2>3 DEF Held
  <2> HIDE DEF c
  <2>5. Held(c)
    BY <1>1, <1>3, <2>2, <2>4 DEF Held
  <2> QED
    BY <2>1, <2>2, <2>5, <1>3
<1> QED
  BY <1>2, <1>3

\* A cycle that is not idle is a record, and one of its rows is a row.
LEMMA Cycles ==
  ASSUME Running, NEW r \in Runner, run[r].pc # "idle"
  PROVE  /\ run[r] \in Cycle /\ Held(run[r])
         /\ run[r].rows \in [DOMAIN run[r].rows -> Row] /\ DOMAIN run[r].rows \in SUBSET Belief
<1>1. NoRun.pc = "idle"
  BY DEF NoRun
<1>2. run[r] \in Cycle /\ Held(run[r])
  BY <1>1 DEF Running
<1>3. run[r].rows \in UNION {[S -> Row] : S \in SUBSET Belief}
  BY <1>2 DEF Cycle
<1>4. PICK S \in SUBSET Belief : run[r].rows \in [S -> Row]
  BY <1>3
<1> QED
  BY <1>2, <1>4

\* What a cycle becomes, and the others stay.
LEMMA RunningNext ==
  ASSUME Running, NEW r \in Runner, NEW c, c \in {NoRun} \cup Cycle, Held(c),
         run' = [run EXCEPT ![r] = c]
  PROVE  Running'
<1>1. run' \in [Runner -> {NoRun} \cup Cycle]
  BY DEF Running
<1>2. \A q \in Runner : run'[q] = IF q = r THEN c ELSE run[q]
  BY DEF Running
<1>3. \A q \in Runner : Held(run'[q])
  BY <1>2 DEF Running
<1> QED
  BY <1>1, <1>3 DEF Running, Held, Cycle, NoRun, Row, Proposal, Nothing

LEMMA ScanTypes ==
  ASSUME Typed, NEW r \in Runner, Scan(r)
  PROVE  Typed' /\ run'[r].pc = "read" /\ \A q \in Runner \ {r} : run'[q] = run[q]
<1> DEFINE rows == [b \in Scanned |-> belief[b]]
           c == [NoRun EXCEPT !.pc = "read", !.rows = rows]
<1>1. Scanned \in SUBSET Belief /\ rows \in [Scanned -> Row] /\ \A b \in Scanned : rows[b].tier # "archived"
  BY DEF Scanned, Typed, Data
<1> HIDE DEF rows
<1>2. NoRun \in [pc : {"idle"}, revision : {0}, rows : {NoRun.rows}, todo : {{}}, late : {{}},
                 guarded : {{}}, now : {Nothing}]
  BY DEF NoRun, Nothing
<1>3. c \in Cycle /\ c.pc = "read" /\ c.rows = rows /\ c.todo = {}
  <2>1. rows \in UNION {[S -> Row] : S \in SUBSET Belief}
    BY <1>1
  <2>2. c \in [pc : {"read"}, revision : {0}, rows : {rows}, todo : {{}}, late : {{}},
                guarded : {{}}, now : {Nothing}]
    BY <1>2
  <2> HIDE DEF c
  <2>3. 0 \in Nat /\ {} \in SUBSET Proposal /\ {} \in SUBSET Belief
    OBVIOUS
  <2> QED
    BY <2>1, <2>2, <2>3 DEF Cycle
<1>4. c.pc = "read" /\ c.rows = rows /\ c.todo = {}
  BY <1>3
<1>5. IsFiniteSet({}) /\ Cardinality({}) <= Cap
  BY FS_EmptySet, LimitsAssumption
<1> HIDE DEF c
<1>6. Held(c)
  BY <1>1, <1>3, <1>4, <1>5 DEF Held
<1>7. run' = [run EXCEPT ![r] = c]
  BY DEF Scan, c, rows
<1>8. Running'
  BY <1>3, <1>6, <1>7, RunningNext DEF Typed
<1>9. \A q \in Runner : run'[q] = IF q = r THEN c ELSE run[q]
  BY <1>7 DEF Typed, Running
<1> QED
  BY <1>4, <1>8, <1>9 DEF Typed, Data, Scan, truth

LEMMA PlanTypes ==
  ASSUME Typed, NEW r \in Runner, Plan(r)
  PROVE  /\ Typed'
         /\ run'[r].pc = "publish" => /\ run'[r].revision = revision
                                      /\ run'[r].rows = run[r].rows
                                      /\ run'[r].late = {b \in DOMAIN run[r].rows :
                                           run[r].rows[b].source # belief[b].source}
         /\ run'[r].pc \in {"idle", "publish"} /\ \A q \in Runner \ {r} : run'[q] = run[q]
<1> DEFINE rows == run[r].rows
           todo == Capped(Candidates(rows))
           late == {b \in DOMAIN rows : rows[b].source # belief[b].source}
           c == IF todo = {} THEN NoRun
                ELSE [run[r] EXCEPT !.pc = "publish", !.todo = todo, !.revision = revision, !.late = late]
<1>1. run[r].pc = "read" /\ Running
  BY DEF Plan, Typed
<1>2. /\ run[r] \in Cycle /\ Held(run[r]) /\ rows \in [DOMAIN rows -> Row]
      /\ DOMAIN rows \in SUBSET Belief
  BY <1>1, Cycles
<1>3. \A b \in DOMAIN rows : rows[b].tier # "archived"
  BY <1>1, <1>2 DEF Held
<1>4. /\ Candidates(rows) \subseteq Proposal
      /\ \A p \in Candidates(rows) : p.b \in DOMAIN rows /\ Made(p) \in 0..(2 * NBelief + 1)
      /\ \A p, q \in Candidates(rows) : Made(p) = Made(q) => p = q
      /\ IsFiniteSet(Candidates(rows))
  BY <1>2, <1>3, CandidatesAre
<1>5. 2 * NBelief + 1 \in Nat
  BY InputsAssumption
<1>6. IsFiniteSet(todo) /\ Cardinality(todo) <= Cap
  BY <1>4, <1>5, CapHolds
<1>7. todo \in SUBSET Proposal /\ \A p \in todo : p.b \in DOMAIN rows
  BY <1>4 DEF Capped
<1>8. late \in SUBSET Belief /\ late \in SUBSET DOMAIN rows
  BY <1>2
<1>9. run' = [run EXCEPT ![r] = c]
  BY DEF Plan
<1>10. revision \in Nat
  BY DEF Typed, Data
<1> HIDE DEF late, todo
<1>11. CASE todo = {}
  <2>1. c = NoRun
    BY <1>11
  <2>2. NoRun.pc = "idle" /\ NoRun.todo = {}
    BY DEF NoRun
  <2> HIDE DEF c
  <2>3. Held(c)
    BY <2>1, <2>2, <1>6, <1>11 DEF Held
  <2>4. Running'
    BY <1>1, <1>9, <2>1, <2>3, RunningNext
  <2>5. \A q \in Runner : run'[q] = IF q = r THEN c ELSE run[q]
    BY <1>1, <1>9 DEF Running
  <2> QED
    BY <2>1, <2>2, <2>4, <2>5 DEF Typed, Data, Plan, truth
<1>12. CASE todo # {}
  <2>1. /\ c \in Cycle /\ c.pc = "publish" /\ c.todo = todo /\ c.rows = rows
        /\ c.late = late /\ c.revision = revision
    BY <1>2, <1>7, <1>8, <1>10, <1>12 DEF Cycle
  <2> HIDE DEF c
  <2>2. Held(c)
    BY <2>1, <1>6, <1>7, <1>12 DEF Held
  <2>3. Running'
    BY <1>1, <1>9, <2>1, <2>2, RunningNext
  <2>4. \A q \in Runner : run'[q] = IF q = r THEN c ELSE run[q]
    BY <1>1, <1>9 DEF Running
  <2>5. Typed'
    BY <2>3 DEF Typed, Data, Plan, truth
  <2> QED
    BY <2>1, <2>4, <2>5 DEF late
<1> QED
  BY <1>11, <1>12

\* A proposal passes only when its kind's conditions hold.
LEMMA GateTypes ==
  ASSUME Typed, NEW r \in Runner, Gate(r)
  PROVE  /\ Typed' /\ run[r].pc = "publish" /\ run[r] \in Cycle
         /\ run'[r].pc = "commit" =>
              /\ UpToDate(r) /\ run'[r].now.b \in DOMAIN run[r].rows
              /\ run'[r].now.kind = "tier" => ~ Guards(r, run'[r].now.b)
              /\ run'[r].guarded = {b \in Belief : Protected(b, belief[b].source)}
         /\ run'[r].pc \in {"idle", "publish", "commit"}
         /\ run'[r].pc # "idle" => /\ run'[r].rows = run[r].rows /\ run'[r].late = run[r].late
                                   /\ run'[r].revision = run[r].revision
         /\ \A q \in Runner \ {r} : run'[q] = run[q]
<1> DEFINE p == FirstOf(run[r].todo)
           todo == run[r].todo \ {p}
           guarded == {b \in Belief : Protected(b, belief[b].source)}
<1>1. run[r].pc = "publish" /\ Running
  BY DEF Gate, Typed
<1>2. /\ run[r] \in Cycle /\ Held(run[r])
  BY <1>1, Cycles
<1>3. run[r].todo \in SUBSET Proposal /\ run[r].todo # {}
  BY <1>1, <1>2 DEF Held, Cycle
<1>4. p \in run[r].todo
  BY <1>3, FirstIsOne
<1>5. p.b \in DOMAIN run[r].rows /\ p \in Proposal
  BY <1>1, <1>2, <1>3, <1>4 DEF Held
<1>6. todo \in SUBSET run[r].todo /\ guarded \in SUBSET Belief
  OBVIOUS
<1>7. UNCHANGED <<revision, asked, belief, links, evidence, digest>>
  BY DEF Gate, truth
<1> HIDE DEF p, todo, guarded
<1>8. CASE Passes(r, p)
  <2> DEFINE c == [run[r] EXCEPT !.pc = "commit", !.todo = todo, !.now = p, !.guarded = guarded]
  <2>1. run' = [run EXCEPT ![r] = c]
    BY <1>8 DEF Gate, p, todo, guarded
  <2>2. /\ c \in Cycle /\ c.pc = "commit" /\ c.todo = todo /\ c.rows = run[r].rows
        /\ c.late = run[r].late /\ c.revision = run[r].revision /\ c.now = p /\ c.guarded = guarded
    BY <1>2, <1>3, <1>5, <1>6 DEF Cycle
  <2>3. UpToDate(r) /\ (p.kind = "tier" => <<p.from, p.to>> \in Legal /\ ~ Guards(r, p.b))
    BY <1>8 DEF Passes
  <2>4. p.kind = "tier" => p.from \in Tier /\ p.to \in Tier
    BY <2>3 DEF Legal, Tier
  <2>5. IsFiniteSet(todo) /\ Cardinality(todo) <= Cap
    <3>1. IsFiniteSet(run[r].todo) /\ Cardinality(run[r].todo) <= Cap /\ Cap \in Nat
      BY <1>2, LimitsAssumption DEF Held
    <3>2. IsFiniteSet(todo) /\ Cardinality(todo) <= Cardinality(run[r].todo)
      BY <1>6, <3>1, FS_Subset
    <3>3. Cardinality(todo) \in Nat /\ Cardinality(run[r].todo) \in Nat
      BY <3>1, <3>2, FS_CardinalityType
    <3> QED
      BY <3>1, <3>2, <3>3
  <2>6. \A q \in todo : q.b \in DOMAIN run[r].rows
    BY <1>1, <1>2, <1>6 DEF Held
  <2> HIDE DEF c
  <2>7. Held(c)
    BY <1>5, <2>2, <2>4, <2>5, <2>6 DEF Held
  <2>8. Running'
    BY <1>1, <2>1, <2>2, <2>7, RunningNext
  <2>9. \A q \in Runner : run'[q] = IF q = r THEN c ELSE run[q]
    BY <1>1, <2>1 DEF Running
  <2>10. Typed'
    BY <1>7, <2>8 DEF Typed, Data
  <2> QED
    BY <1>1, <1>2, <1>5, <2>2, <2>3, <2>9, <2>10 DEF guarded
<1>9. CASE ~ Passes(r, p)
  <2> DEFINE c == Rest(r, todo)
  <2>1. run' = [run EXCEPT ![r] = c]
    BY <1>9 DEF Gate, p, todo
  <2>2. /\ Held(c) /\ c \in {NoRun} \cup Cycle
        /\ c # NoRun => /\ c.pc = "publish" /\ c.rows = run[r].rows /\ c.late = run[r].late
                        /\ c.revision = run[r].revision
    BY <1>2, <1>6, Rests
  <2>3. NoRun.pc = "idle"
    BY DEF NoRun
  <2> HIDE DEF c
  <2>4. Running'
    BY <1>1, <2>1, <2>2, RunningNext
  <2>5. \A q \in Runner : run'[q] = IF q = r THEN c ELSE run[q]
    BY <1>1, <2>1 DEF Running
  <2>6. Typed'
    BY <1>7, <2>4 DEF Typed, Data
  <2> QED
    BY <1>1, <1>2, <2>2, <2>3, <2>5, <2>6
<1> QED
  BY <1>8, <1>9

\* A move leaves the rest of the row alone.
LEMMA Moved ==
  ASSUME Data, NEW b \in Belief, NEW from, NEW to \in Tier, Move(b, from, to)
  PROVE  /\ belief' \in [Belief -> Row]
         /\ \A x \in Belief : /\ belief'[x].source = belief[x].source
                             /\ belief'[x].status = belief[x].status
<1>1. belief' = [belief EXCEPT ![b].tier = to, ![b].audited = to] /\ belief \in [Belief -> Row]
  BY DEF Data, Move
<1>2. belief' \in [Belief -> Row]
  <2> DEFINE mid == [belief EXCEPT ![b].tier = to]
  <2>1. mid \in [Belief -> Row]
    BY <1>1 DEF Row
  <2>2. belief' = [mid EXCEPT ![b].audited = to]
    BY <1>1
  <2> HIDE DEF mid
  <2> QED
    BY <2>1, <2>2 DEF Row
<1>3. \A x \in Belief : /\ belief'[x].source = belief[x].source
                       /\ belief'[x].status = belief[x].status
  BY <1>1 DEF Row
<1> QED
  BY <1>2, <1>3

LEMMA CommitTierTypes ==
  ASSUME Typed, NEW r \in Runner, CommitTier(r)
  PROVE  /\ Typed' /\ run[r].pc = "commit"
         /\ \A b \in Belief : /\ belief'[b].source = belief[b].source
                             /\ belief'[b].status = belief[b].status
         /\ run'[r].pc \in {"idle", "publish"}
         /\ run'[r].pc # "idle" =>
              /\ run'[r].late = run[r].late /\ run'[r].revision = run[r].revision
              /\ DOMAIN run'[r].rows = DOMAIN run[r].rows
              /\ \A b \in DOMAIN run[r].rows : run'[r].rows[b].source = run[r].rows[b].source
         /\ \A q \in Runner \ {r} : run'[q] = run[q]
<1> DEFINE p == run[r].now
           after == Rest(r, run[r].todo)
<1>1. run[r].pc = "commit" /\ p.kind = "tier" /\ Running /\ Data
  BY DEF CommitTier, Typed
<1>2. run[r] \in Cycle /\ Held(run[r])
  BY <1>1, Cycles
<1>3. p \in Proposal /\ p.b \in DOMAIN run[r].rows /\ p.to \in Tier
  BY <1>1, <1>2 DEF Held
<1>4. p.b \in Belief
  BY <1>3 DEF Proposal
<1>5. /\ Held(after) /\ after \in {NoRun} \cup Cycle
      /\ after # NoRun => /\ after.pc = "publish" /\ after.todo = run[r].todo /\ run[r].todo # {}
                          /\ after.rows = run[r].rows /\ after.late = run[r].late
                          /\ after.revision = run[r].revision
  BY <1>2, Rests
<1>6. Move(p.b, p.from, p.to)
  BY DEF CommitTier
<1>7. /\ belief' \in [Belief -> Row]
      /\ \A b \in Belief : /\ belief'[b].source = belief[b].source
                          /\ belief'[b].status = belief[b].status
  BY <1>1, <1>3, <1>4, <1>6, Moved
<1>8. Data'
  BY <1>1, <1>7 DEF CommitTier, Data
<1> DEFINE c == IF after = NoRun THEN NoRun ELSE [after EXCEPT !.rows[p.b].tier = p.to]
<1>9. run' = [run EXCEPT ![r] = c]
  BY DEF CommitTier
<1>10. NoRun.pc = "idle" /\ NoRun.todo = {}
  BY DEF NoRun
<1> HIDE DEF after, p
<1>11. CASE after = NoRun
  <2>1. c = NoRun
    BY <1>11
  <2> HIDE DEF c
  <2>2. Running'
    BY <1>1, <1>5, <1>9, <1>11, <2>1, RunningNext
  <2>3. \A q \in Runner : run'[q] = IF q = r THEN c ELSE run[q]
    BY <1>1, <1>9 DEF Running
  <2> QED
    BY <1>1, <1>7, <1>8, <1>10, <2>1, <2>2, <2>3 DEF Typed
<1>12. CASE after # NoRun
  <2>1. after \in Cycle /\ after.pc = "publish"
    BY <1>5, <1>12
  <2>2. PICK S \in SUBSET Belief : after.rows \in [S -> Row]
    BY <2>1 DEF Cycle
  <2>3. p.b \in S
    BY <1>3, <1>5, <1>12, <2>2 DEF p
  <2> DEFINE rows == [after.rows EXCEPT ![p.b] = [@ EXCEPT !.tier = p.to]]
  <2>4. rows \in [S -> Row] /\ \A b \in S : rows[b].source = after.rows[b].source
    <3>1. \A row \in Row : [row EXCEPT !.tier = p.to] \in Row
                           /\ [row EXCEPT !.tier = p.to].source = row.source
      BY <1>3 DEF Row, p
    <3> QED
      BY <2>2, <2>3, <3>1
  <2>5. c = [after EXCEPT !.rows = rows]
    BY <1>12
  <2> HIDE DEF rows
  <2>6. rows \in UNION {[T -> Row] : T \in SUBSET Belief}
    BY <2>4
  <2>7. /\ c \in Cycle /\ c.pc = "publish" /\ c.todo = after.todo /\ c.rows = rows
        /\ c.late = after.late /\ c.revision = after.revision
    <3> DEFINE d == [after EXCEPT !.rows = rows]
    <3>1. /\ d \in Cycle /\ d.pc = "publish" /\ d.todo = after.todo /\ d.rows = rows
          /\ d.late = after.late /\ d.revision = after.revision
      BY <2>1, <2>6 DEF Cycle
    <3> HIDE DEF d, c
    <3>2. c = d
      BY <2>5 DEF d
    <3> QED
      BY <3>1, <3>2
  <2> HIDE DEF c
  <2>8. DOMAIN rows = S /\ DOMAIN after.rows = S
    BY <2>2, <2>4
  <2>9. /\ IsFiniteSet(after.todo) /\ Cardinality(after.todo) <= Cap /\ after.todo # {}
        /\ \A q \in after.todo : q.b \in S
    BY <1>5, <1>12, <2>1, <2>8 DEF Held
  <2>10. Held(c)
    BY <2>7, <2>8, <2>9 DEF Held
  <2>11. Running'
    BY <1>1, <1>9, <2>7, <2>10, RunningNext
  <2>12. \A q \in Runner : run'[q] = IF q = r THEN c ELSE run[q]
    BY <1>1, <1>9 DEF Running
  <2> QED
    BY <1>1, <1>5, <1>7, <1>8, <1>12, <2>4, <2>7, <2>8, <2>11, <2>12 DEF Typed
<1> QED
  BY <1>11, <1>12

LEMMA CommitFoldTypes ==
  ASSUME Typed, NEW r \in Runner, CommitFold(r)
  PROVE  /\ Typed' /\ run[r].pc = "commit" /\ run[r].now.b \in Belief
         /\ run'[r].pc \in {"idle", "publish"}
         /\ run'[r].pc # "idle" => /\ run'[r].rows = run[r].rows /\ run'[r].late = run[r].late
                                   /\ run'[r].revision = run[r].revision
         /\ \A q \in Runner \ {r} : run'[q] = run[q]
<1> DEFINE b == run[r].now.b
           c == Rest(r, run[r].todo)
<1>1. run[r].pc = "commit" /\ Running /\ Data
  BY DEF CommitFold, Typed
<1>2. run[r] \in Cycle /\ Held(run[r])
  BY <1>1, Cycles
<1>3. b \in Belief
  BY <1>1, <1>2 DEF Held, Proposal
<1>4. /\ Held(c) /\ c \in {NoRun} \cup Cycle
      /\ c # NoRun => /\ c.pc = "publish" /\ c.rows = run[r].rows /\ c.late = run[r].late
                      /\ c.revision = run[r].revision
  BY <1>2, Rests
<1>5. run' = [run EXCEPT ![r] = c]
  BY DEF CommitFold
<1>6. NoRun.pc = "idle"
  BY DEF NoRun
<1>7. evidence' \in [Evidence -> Piece]
  <2>1. evidence' = [e \in Evidence |->
            IF e \in Fold(b) THEN [evidence[e] EXCEPT !.state = "compacted", !.content = FALSE, !.by = b]
            ELSE IF e \in Keep(b) THEN [evidence[e] EXCEPT !.state = "representative"]
            ELSE evidence[e]]
    BY DEF CommitFold
  <2>2. b \in 0..NBelief
    BY <1>3, InputsAssumption DEF Belief
  <2>3. evidence \in [Evidence -> Piece]
    BY <1>1 DEF Data
  <2> HIDE DEF b
  <2>4. \A x \in Piece : /\ [x EXCEPT !.state = "compacted", !.content = FALSE, !.by = b] \in Piece
                         /\ [x EXCEPT !.state = "representative"] \in Piece
    BY <2>2 DEF Piece
  <2> QED
    BY <2>1, <2>3, <2>4
<1>8. digest' \in [Belief -> Nat]
  <2>1. Supports(b) \subseteq Evidence
    BY DEF Supports
  <2>2. IsFiniteSet(Supports(b)) /\ Cardinality(Supports(b)) \in Nat
    BY <2>1, Ids, FS_Subset, FS_CardinalityType
  <2> QED
    BY <1>1, <2>2 DEF CommitFold, Counts, Data
<1>9. Data'
  BY <1>1, <1>7, <1>8 DEF CommitFold, Data
<1> HIDE DEF b, c
<1>10. Running'
  BY <1>1, <1>4, <1>5, RunningNext
<1>11. \A q \in Runner : run'[q] = IF q = r THEN c ELSE run[q]
  BY <1>1, <1>5 DEF Running
<1> QED
  BY <1>1, <1>3, <1>4, <1>6, <1>9, <1>10, <1>11 DEF Typed, b

\* What a recording makes of a row.
LEMMA RecordedIs ==
  ASSUME Data, Wordless, NEW e \in Evidence
  PROVE  /\ Recorded(e) \in Piece /\ Recorded(e).state \notin {"none", "compacted"}
         /\ evidence[e].content => Recorded(e).content
         /\ \/ Recorded(e) = evidence[e]
            \/ Recorded(e).content /\ Recorded(e).state = "hot" /\ Recorded(e).by = 0
<1>1. evidence[e] \in Piece /\ (evidence[e].content => evidence[e].state \in {"hot", "representative"})
  BY DEF Data, Wordless
<1>2. 0 \in 0..NBelief
  BY InputsAssumption
<1>3. CASE evidence[e].state \in {"none", "compacted"}
  BY <1>1, <1>2, <1>3 DEF Recorded, Piece
<1>4. CASE evidence[e].state \notin {"none", "compacted"}
  BY <1>1, <1>4 DEF Recorded, Piece
<1> QED
  BY <1>3, <1>4

\* What the links become when a row is linked, and the others stay.
LEMMA ObserveTypes ==
  ASSUME Typed, Wordless, NEW b \in Belief, NEW e \in Evidence, Observe(b, e)
  PROVE  /\ Typed' /\ run' = run /\ digest' = digest /\ revision' = revision + 1
         /\ evidence' = [evidence EXCEPT ![e] = Recorded(e)]
         /\ \A c \in Belief, x \in Evidence :
              links'[c][x] = IF c = b /\ x = e THEN links[b][e] \cup {"support"} ELSE links[c][x]
         /\ \A c \in Belief : belief'[c].status = belief[c].status
         /\ belief[b].status = "active"
<1>1. Data /\ Running /\ UNCHANGED run
  BY DEF Typed, Observe
<1>2. links' \in [Belief -> [Evidence -> SUBSET (AlwaysKept \cup {"support"})]]
      /\ \A c \in Belief, x \in Evidence :
           links'[c][x] = IF c = b /\ x = e THEN links[b][e] \cup {"support"} ELSE links[c][x]
  <2>1. links' = [links EXCEPT ![b][e] = @ \cup {"support"}]
    BY DEF Observe
  <2> QED
    BY <1>1, <2>1 DEF Data
<1>3. evidence' \in [Evidence -> Piece]
  BY <1>1, RecordedIs DEF Observe, Data
<1>4. belief' \in [Belief -> Row] /\ \A c \in Belief : belief'[c].status = belief[c].status
  <2>1. belief' = [belief EXCEPT ![b].evidenced = 0] /\ belief \in [Belief -> Row]
    BY <1>1 DEF Observe, Data
  <2>2. 0 \in Age
    BY DEF Age
  <2>3. belief' \in [Belief -> Row]
    BY <2>1, <2>2 DEF Row
  <2>4. \A c \in Belief : belief'[c].status = belief[c].status
    BY <2>1 DEF Row
  <2> QED
    BY <2>3, <2>4
<1>5. Data' /\ Running'
  BY <1>1, <1>2, <1>3, <1>4 DEF Data, Observe, Running
<1> QED
  BY <1>1, <1>2, <1>4, <1>5 DEF Typed, Observe, Active

LEMMA BornIs ==
  ASSUME NEW source \in {"extracted", "user_confirmed", "user_corrected"}
  PROVE  Born(source) \in Row /\ Born(source).status = "active" /\ Born(source).source = source
  BY DEF Born, Row, Tier, Age, Never

LEMMA UpdateTypes ==
  ASSUME Typed, Linked, Wordless, NEW b \in Belief, NEW n \in Belief, NEW e \in Evidence, Update(b, n, e)
  PROVE  /\ Typed' /\ run' = run /\ digest' = digest /\ revision' = revision + 1
         /\ evidence' = [evidence EXCEPT ![e] = Recorded(e)]
         /\ \A c \in Belief, x \in Evidence :
              links'[c][x] = IF c = b /\ x = e THEN links[b][e] \cup {"correct"}
                             ELSE IF c = n /\ x = e THEN {"support"} ELSE links[c][x]
         /\ \A c \in Belief : belief'[c].status = "free" => belief[c].status = "free" /\ c # n
         /\ b # n /\ links[n][e] = {} /\ belief[b].status = "active"
<1>1. Data /\ Running /\ UNCHANGED run /\ belief[b].status = "active" /\ belief[n].status = "free"
  BY DEF Typed, Update, Active
<1>2. b # n
  BY <1>1
<1>3. links' \in [Belief -> [Evidence -> SUBSET (AlwaysKept \cup {"support"})]]
      /\ \A c \in Belief, x \in Evidence :
              links'[c][x] = IF c = b /\ x = e THEN links[b][e] \cup {"correct"}
                             ELSE IF c = n /\ x = e THEN {"support"} ELSE links[c][x]
  <2>1. links' = [links EXCEPT ![b][e] = @ \cup {"correct"}, ![n][e] = {"support"}]
    BY DEF Update
  <2>2. "correct" \in AlwaysKept
    BY DEF AlwaysKept
  <2> QED
    BY <1>1, <1>2, <2>1, <2>2 DEF Data
<1>4. evidence' \in [Evidence -> Piece]
  BY <1>1, RecordedIs DEF Update, Data
<1>5. /\ belief' \in [Belief -> Row]
      /\ \A c \in Belief : belief'[c].status = "free" => belief[c].status = "free" /\ c # n
  <2>1. belief' = [belief EXCEPT ![b].status = "superseded", ![n] = Born("extracted")]
    BY DEF Update
  <2>2. Born("extracted") \in Row /\ Born("extracted").status = "active"
    BY BornIs
  <2>3. \A row \in Row : /\ [row EXCEPT !.status = "superseded"] \in Row
                         /\ [row EXCEPT !.status = "superseded"].status # "free"
    BY DEF Row
  <2>4. belief \in [Belief -> Row]
    BY <1>1 DEF Data
  <2>5. belief' \in [Belief -> Row]
    BY <2>1, <2>2, <2>3, <2>4
  <2>6. \A c \in Belief : belief'[c].status = "free" => belief[c].status = "free" /\ c # n
    BY <1>2, <2>1, <2>2, <2>3, <2>4
  <2> QED
    BY <2>5, <2>6
<1>6. Data' /\ Running'
  <2>1. revision' = revision + 1 /\ UNCHANGED <<asked, run, digest>>
    BY DEF Update
  <2>2. revision' \in Nat \ {0}
    BY <1>1, <2>1 DEF Data
  <2> QED
    BY <1>1, <1>3, <1>4, <1>5, <2>1, <2>2 DEF Data, Running
<1>7. links[n][e] = {}
  BY <1>1 DEF Linked
<1> QED
  BY <1>1, <1>2, <1>3, <1>5, <1>6, <1>7 DEF Typed, Update

\* The steps that leave the graph alone.
LEMMA OtherTypes ==
  ASSUME Typed,
         \/ \E b, n \in Belief : Correct(b, n)
         \/ \E b \in Belief : Ask(b) \/ Restore(b)
         \/ \E b \in Belief, mode \in {"current", "historical", "all"} : Recall(b, mode)
         \/ \E verdict \in {"confirm", "deny", "unclear"} : Answer(verdict)
         \/ Tick
  PROVE  /\ Typed' /\ UNCHANGED <<run, digest, links, evidence>>
         /\ \/ revision' = revision + 1
            \/ revision' = revision /\ \A c \in Belief : belief'[c].source = belief[c].source
         /\ \A c \in Belief : belief'[c].status = "free" => belief[c].status = "free"
<1>1. Data /\ Running
  BY DEF Typed
<1>2. UNCHANGED <<run, digest, links, evidence>>
  BY DEF Correct, Ask, Restore, Recall, Answer, Tick
<1> DEFINE Good == /\ belief' \in [Belief -> Row] /\ asked' \in 0..NBelief
                   /\ \/ revision' = revision + 1
                      \/ revision' = revision /\ \A c \in Belief : belief'[c].source = belief[c].source
                   /\ \A c \in Belief : belief'[c].status = "free" => belief[c].status = "free"
<1>3. ASSUME NEW b \in Belief, NEW n \in Belief, Correct(b, n) PROVE Good
  <2>1. Born("user_corrected") \in Row /\ Born("user_corrected").status = "active"
    BY BornIs
  <2>2. belief' = [belief EXCEPT ![b].status = "superseded", ![n] = Born("user_corrected")]
    BY <1>3 DEF Correct
  <2>3. revision' = revision + 1 /\ asked' = asked
    BY <1>3 DEF Correct
  <2> QED
    BY <1>1, <2>1, <2>2, <2>3 DEF Data, Row
<1>4. ASSUME NEW b \in Belief, Ask(b) PROVE Good
  BY <1>1, <1>4 DEF Ask, Data, Belief
<1>5. ASSUME NEW b \in Belief, Restore(b) PROVE Good
  <2>1. Move(b, belief[b].tier, "warm") /\ "warm" \in Tier
    BY <1>5 DEF Restore, Tier
  <2>2. UNCHANGED <<revision, asked>>
    BY <1>5 DEF Restore
  <2> QED
    BY <1>1, <2>1, <2>2, Moved DEF Data
<1>6. ASSUME NEW b \in Belief, NEW mode, Recall(b, mode) PROVE Good
  <2>1. /\ belief' = [belief EXCEPT ![b].accessed = 0, ![b].hits = IF @ < 2 THEN @ + 1 ELSE @]
        /\ UNCHANGED <<revision, asked>>
    BY <1>6 DEF Recall
  <2>2. belief \in [Belief -> Row] /\ asked \in 0..NBelief
    BY <1>1 DEF Data
  <2>3. 0 \in Age /\ \A h \in 0..2 : (IF h < 2 THEN h + 1 ELSE h) \in 0..2
    BY DEF Age
  <2>4. belief' \in [Belief -> Row]
    <3> DEFINE mid == [belief EXCEPT ![b].accessed = 0]
    <3>1. mid \in [Belief -> Row]
      BY <2>2, <2>3 DEF Row
    <3>2. belief' = [mid EXCEPT ![b].hits = IF @ < 2 THEN @ + 1 ELSE @]
      BY <2>1
    <3>3. \A row \in Row : [row EXCEPT !.hits = IF @ < 2 THEN @ + 1 ELSE @] \in Row
      BY <2>3 DEF Row
    <3> HIDE DEF mid
    <3> QED
      BY <3>1, <3>2, <3>3
  <2>5. \A c \in Belief : belief'[c].source = belief[c].source /\ belief'[c].status = belief[c].status
    BY <2>1, <2>2 DEF Row
  <2> QED
    BY <2>1, <2>2, <2>4, <2>5
<1>7. ASSUME NEW verdict \in {"confirm", "deny", "unclear"}, Answer(verdict) PROVE Good
  <2>1. asked' = 0 /\ asked # 0 /\ 0 \in 0..NBelief
    BY <1>7, InputsAssumption DEF Answer
  <2>2. CASE verdict = "unclear" \/ ~ Active(asked)
    BY <1>1, <1>7, <2>1, <2>2 DEF Answer, Data
  <2>3. CASE ~ (verdict = "unclear" \/ ~ Active(asked))
    <3>1. /\ revision' = revision + 1
          /\ belief' = [belief EXCEPT ![asked] =
                IF verdict = "confirm" THEN [@ EXCEPT !.source = "user_confirmed"]
                ELSE [@ EXCEPT !.status = "rejected"]]
      BY <1>7, <2>3 DEF Answer
    <3>2. belief \in [Belief -> Row] /\ asked \in Belief
      BY <1>1, <2>1, InputsAssumption DEF Data, Belief
    <3>3. \A row \in Row : /\ [row EXCEPT !.source = "user_confirmed"] \in Row
                           /\ [row EXCEPT !.source = "user_confirmed"].status = row.status
                           /\ [row EXCEPT !.status = "rejected"] \in Row
                           /\ [row EXCEPT !.status = "rejected"].status = "rejected"
      BY DEF Row
    <3>4. belief' \in [Belief -> Row]
      BY <3>1, <3>2, <3>3
    <3>5. \A c \in Belief : belief'[c].status = "free" => belief[c].status = "free"
      BY <3>1, <3>2, <3>3
    <3> QED
      BY <2>1, <3>1, <3>4, <3>5
  <2> QED
    BY <2>2, <2>3
<1>8. ASSUME Tick PROVE Good
  <2>1. /\ belief' = [b \in Belief |-> [belief[b] EXCEPT !.evidenced = Older(@),
                  !.accessed = IF @ = Never THEN @ ELSE Older(@)]]
        /\ UNCHANGED <<revision, asked>>
    BY <1>8 DEF Tick
  <2>2. \A a \in Age : Older(a) \in Age
    BY DEF Older, Age
  <2>3. \A row \in Row :
          LET aged == [row EXCEPT !.evidenced = Older(@),
                                  !.accessed = IF @ = Never THEN @ ELSE Older(@)]
          IN  aged \in Row /\ aged.source = row.source /\ aged.status = row.status
    BY <2>2 DEF Row
  <2>4. belief \in [Belief -> Row] /\ asked \in 0..NBelief
    BY <1>1 DEF Data
  <2>5. belief' \in [Belief -> Row]
    BY <2>1, <2>3, <2>4
  <2>6. \A c \in Belief : belief'[c].source = belief[c].source /\ belief'[c].status = belief[c].status
    BY <2>1, <2>3, <2>4
  <2> QED
    BY <2>1, <2>4, <2>5, <2>6
<1>9. Good
  BY <1>3, <1>4, <1>5, <1>6, <1>7, <1>8
<1>10. revision' \in Nat \ {0}
  BY <1>1, <1>9 DEF Data
<1>11. Data' /\ Running'
  BY <1>1, <1>2, <1>9, <1>10 DEF Data, Running
<1> QED
  BY <1>2, <1>9, <1>11 DEF Typed

-----------------------------------------------------------------------------
(* The graph. *)

\* A recording keeps the graph: the row goes live with its words, or was live already.
LEMMA RecordsGraph ==
  ASSUME Typed, Typed', Graph, NEW e \in Evidence,
         evidence' = [evidence EXCEPT ![e] = Recorded(e)],
         \A c \in Belief, x \in Evidence \ {e} : links'[c][x] = links[c][x],
         \A c \in Belief : links[c][e] \subseteq links'[c][e],
         \A c \in Belief : links'[c][e] # {} => belief'[c].status # "free",
         \A c \in Belief : belief'[c].status = "free" => belief[c].status = "free"
  PROVE  Graph'
<1>1. Data /\ evidence \in [Evidence -> Piece] /\ Wordless
  BY DEF Typed, Data, Graph
<1>2. \A x \in Evidence : evidence'[x] = IF x = e THEN Recorded(e) ELSE evidence[x]
  BY <1>1
<1>3. /\ Recorded(e).state \notin {"none", "compacted"}
      /\ \/ Recorded(e) = evidence[e]
         \/ Recorded(e).content /\ Recorded(e).state = "hot" /\ Recorded(e).by = 0
  BY <1>1, RecordedIs
<1>4. \A c \in Belief, x \in Evidence : links[c][x] \subseteq links'[c][x]
  OBVIOUS
<1>5. Linked'
  <2> SUFFICES ASSUME NEW c \in Belief, NEW x \in Evidence, links'[c][x] # {}
               PROVE  belief'[c].status # "free" /\ evidence'[x].state # "none"
    BY DEF Linked
  <2> QED
    BY <1>2, <1>3 DEF Graph, Linked
<1>6. Folded'
  <2> SUFFICES ASSUME NEW x \in Evidence, evidence'[x].state = "compacted"
               PROVE  evidence'[x].by \in Belief /\ links'[evidence'[x].by][x] = {"support"}
    BY DEF Folded, Belief
  <2> QED
    BY <1>2, <1>3 DEF Graph, Folded
<1>7. \A x \in Evidence : Shared(x) => Shared(x)'
  BY <1>4 DEF Shared
<1>8. Worded'
  <2> SUFFICES ASSUME NEW x \in Evidence, evidence'[x].state \in {"hot", "representative"}
               PROVE  evidence'[x].content \/ Shared(x)'
    BY DEF Worded
  <2> QED
    BY <1>2, <1>3, <1>7 DEF Graph, Worded
<1>9. Wordless'
  <2> SUFFICES ASSUME NEW x \in Evidence, evidence'[x].content
               PROVE  evidence'[x].state \in {"hot", "representative"}
    BY DEF Wordless
  <2> QED
    BY <1>2, <1>3 DEF Graph, Wordless
<1>10. \A b \in Belief : Supports(b) \subseteq Supports(b)'
  BY <1>4 DEF Supports
<1>11. Later'
  <2> SUFFICES ASSUME NEW x \in Evidence, NEW b \in Belief, evidence'[x].by = b
               PROVE  x \in Supports(b)' /\ \E y \in Supports(b)' : y < x
    BY DEF Later
  <2>1. evidence[x].by = b
    BY <1>2, <1>3, Ids
  <2> QED
    BY <2>1, <1>10 DEF Graph, Later
<1> QED
  BY <1>5, <1>6, <1>8, <1>9, <1>11 DEF Graph

\* A step that leaves links and evidence alone keeps the graph.
LEMMA StaysGraph ==
  ASSUME Graph, links' = links, evidence' = evidence,
         \A c \in Belief : belief'[c].status = "free" => belief[c].status = "free"
  PROVE  Graph'
<1>1. Linked'
  BY DEF Graph, Linked
<1>2. Folded' /\ Worded' /\ Wordless' /\ Later'
  BY DEF Graph, Folded, Worded, Wordless, Later, Shared, Supports
<1> QED
  BY <1>1, <1>2 DEF Graph

\* A row that is folded was a live support and no more, behind an earlier live one.
LEMMA FoldWhy ==
  ASSUME Data, NEW b \in Belief, NEW e \in Fold(b)
  PROVE  /\ e \in LiveSupports(b) /\ links[b][e] = {"support"}
         /\ \E x \in LiveSupports(b) : x < e /\ x \in Keep(b)
<1>1. e \in LiveSupports(b) /\ e \notin Keep(b)
  BY DEF Fold
<1>2. e \in Evidence /\ "support" \in links[b][e] /\ links[b][e] \cap AlwaysKept = {}
  BY <1>1 DEF Keep, LiveSupports, Supports
<1>3. links[b][e] \subseteq AlwaysKept \cup {"support"}
  BY <1>2 DEF Data
<1>4. links[b][e] = {"support"}
  BY <1>2, <1>3
<1>5. LiveSupports(b) \subseteq Evidence /\ LiveSupports(b) \subseteq Nat
  BY Ids DEF LiveSupports, Supports
<1>6. PICK m \in LiveSupports(b) : \A k \in LiveSupports(b) : m <= k
  BY <1>1, <1>5, LeastOne
<1>7. {x \in LiveSupports(b) : x < m} = {}
  BY <1>5, <1>6
<1>8. Cardinality({x \in LiveSupports(b) : x < m}) < Oldest
  BY <1>7, FS_EmptySet, KeepAssumption
<1>9. m \in Keep(b)
  BY <1>6, <1>8 DEF Keep, Sample, Earliest
<1>10. m < e
  BY <1>1, <1>5, <1>6, <1>9
<1> QED
  BY <1>1, <1>4, <1>6, <1>9, <1>10

\* A row that is kept is linked, and by more than a support if it is folded.
LEMMA KeepWhy ==
  ASSUME NEW b \in Belief, NEW e \in Keep(b)
  PROVE  /\ e \in Evidence /\ links[b][e] # {}
         /\ evidence[e].state = "compacted" => links[b][e] # {"support"}
<1>1. CASE e \in Evidence /\ links[b][e] \cap AlwaysKept # {}
  BY <1>1 DEF AlwaysKept
<1>2. CASE e \in Sample(LiveSupports(b))
  <2>1. e \in LiveSupports(b)
    BY <1>2 DEF Sample, Earliest, Latest, Foremost
  <2> QED
    BY <2>1 DEF LiveSupports, Supports
<1> QED
  BY <1>1, <1>2 DEF Keep

\* What a folding does to the evidence.
LEMMA FoldIs ==
  ASSUME Typed, NEW r \in Runner, CommitFold(r), NEW b, b = run[r].now.b
  PROVE  /\ b \in Belief /\ links' = links /\ belief' = belief
         /\ \A e \in Evidence :
              /\ e \in Fold(b) => /\ evidence'[e].state = "compacted" /\ ~ evidence'[e].content
                                  /\ evidence'[e].by = b
              /\ e \notin Fold(b) => /\ evidence'[e].content = evidence[e].content
                                     /\ evidence'[e].by = evidence[e].by
              /\ e \notin Fold(b) /\ e \in Keep(b) => evidence'[e].state = "representative"
              /\ e \notin Fold(b) /\ e \notin Keep(b) => evidence'[e].state = evidence[e].state
         /\ digest' = [digest EXCEPT ![b] = Cardinality(Supports(b))]
<1>1. b \in Belief
  BY CommitFoldTypes
<1>2. evidence' = [e \in Evidence |->
            IF e \in Fold(b) THEN [evidence[e] EXCEPT !.state = "compacted", !.content = FALSE, !.by = b]
            ELSE IF e \in Keep(b) THEN [evidence[e] EXCEPT !.state = "representative"]
            ELSE evidence[e]]
  BY DEF CommitFold
<1>3. evidence \in [Evidence -> Piece]
  BY DEF Typed, Data
<1>4. \A x \in Piece : /\ [x EXCEPT !.state = "compacted", !.content = FALSE, !.by = b].state = "compacted"
                       /\ ~ [x EXCEPT !.state = "compacted", !.content = FALSE, !.by = b].content
                       /\ [x EXCEPT !.state = "compacted", !.content = FALSE, !.by = b].by = b
                       /\ [x EXCEPT !.state = "representative"].state = "representative"
                       /\ [x EXCEPT !.state = "representative"].content = x.content
                       /\ [x EXCEPT !.state = "representative"].by = x.by
  BY DEF Piece
<1>5. links' = links /\ belief' = belief /\ digest' = [digest EXCEPT ![b] = Cardinality(Supports(b))]
  BY DEF CommitFold, Counts
<1> QED
  BY <1>1, <1>2, <1>3, <1>4, <1>5

LEMMA FoldsGraph ==
  ASSUME Typed, Graph, NEW r \in Runner, CommitFold(r)
  PROVE  Graph'
<1> DEFINE b == run[r].now.b
<1>1. /\ b \in Belief /\ links' = links /\ belief' = belief
      /\ \A e \in Evidence :
              /\ e \in Fold(b) => /\ evidence'[e].state = "compacted" /\ ~ evidence'[e].content
                                  /\ evidence'[e].by = b
              /\ e \notin Fold(b) => /\ evidence'[e].content = evidence[e].content
                                     /\ evidence'[e].by = evidence[e].by
              /\ e \notin Fold(b) /\ e \in Keep(b) => evidence'[e].state = "representative"
              /\ e \notin Fold(b) /\ e \notin Keep(b) => evidence'[e].state = evidence[e].state
  BY FoldIs
<1> HIDE DEF b
<1>2. Data
  BY DEF Typed
<1>3. \A e \in Evidence : e \in Fold(b) =>
        /\ e \in LiveSupports(b) /\ links[b][e] = {"support"}
        /\ \E x \in LiveSupports(b) : x < e
  BY <1>1, <1>2, FoldWhy
<1>4. \A e \in Keep(b) : /\ e \in Evidence /\ links[b][e] # {}
                         /\ evidence[e].state = "compacted" => links[b][e] # {"support"}
  BY <1>1, KeepWhy
<1>5. Linked'
  <2> SUFFICES ASSUME NEW c \in Belief, NEW x \in Evidence, links'[c][x] # {}
               PROVE  belief'[c].status # "free" /\ evidence'[x].state # "none"
    BY DEF Linked
  <2> QED
    BY <1>1 DEF Graph, Linked
<1>6. Folded'
  <2> SUFFICES ASSUME NEW x \in Evidence, evidence'[x].state = "compacted"
               PROVE  evidence'[x].by \in Belief /\ links'[evidence'[x].by][x] = {"support"}
    BY DEF Folded, Belief
  <2> QED
    BY <1>1, <1>3 DEF Graph, Folded
<1>7. \A x \in Evidence : Shared(x)' <=> Shared(x)
  BY <1>1 DEF Shared
<1>8. Worded'
  <2> SUFFICES ASSUME NEW x \in Evidence, evidence'[x].state \in {"hot", "representative"},
                      ~ evidence'[x].content
               PROVE  Shared(x)
    BY <1>7 DEF Worded
  <2>1. x \notin Fold(b) /\ ~ evidence[x].content
    BY <1>1
  <2>2. CASE x \notin Keep(b)
    BY <1>1, <2>1, <2>2 DEF Graph, Worded
  <2>3. CASE x \in Keep(b) /\ evidence[x].state # "compacted"
    <3>1. evidence[x].state # "none"
      BY <1>1, <1>4, <2>3 DEF Graph, Linked
    <3>2. evidence[x].state \in {"hot", "representative"}
      BY <1>2, <2>3, <3>1 DEF Data, Piece
    <3> QED
      BY <2>1, <3>2 DEF Graph, Worded
  <2>4. CASE x \in Keep(b) /\ evidence[x].state = "compacted"
    <3>1. evidence[x].by \in Belief /\ links[evidence[x].by][x] = {"support"}
      BY <2>4 DEF Graph, Folded
    <3>2. links[b][x] # {} /\ links[b][x] # {"support"}
      BY <1>4, <2>4
    <3>3. evidence[x].by # b
      BY <3>1, <3>2
    <3> QED
      BY <1>1, <3>1, <3>2, <3>3 DEF Shared
  <2> QED
    BY <2>2, <2>3, <2>4
<1>9. Wordless'
  <2> SUFFICES ASSUME NEW x \in Evidence, evidence'[x].content
               PROVE  evidence'[x].state \in {"hot", "representative"}
    BY DEF Wordless
  <2> QED
    BY <1>1 DEF Graph, Wordless
<1>10. \A c \in Belief : Supports(c)' = Supports(c)
  BY <1>1 DEF Supports
<1>11. Later'
  <2> SUFFICES ASSUME NEW x \in Evidence, NEW c \in Belief, evidence'[x].by = c
               PROVE  x \in Supports(c) /\ \E y \in Supports(c) : y < x
    BY <1>10 DEF Later
  <2>1. CASE x \in Fold(b)
    BY <1>1, <1>3, <2>1 DEF LiveSupports
  <2>2. CASE x \notin Fold(b)
    BY <1>1, <2>2 DEF Graph, Later
  <2> QED
    BY <2>1, <2>2
<1> QED
  BY <1>5, <1>6, <1>8, <1>9, <1>11 DEF Graph

-----------------------------------------------------------------------------
(* Digests and samples. *)

\* Rows that each come behind another one are fewer than the rows there are.
LEMMA Fewer ==
  ASSUME NEW S \in SUBSET Evidence, S # {}, NEW T \in SUBSET S, \A e \in T : \E x \in S : x < e
  PROVE  Cardinality(T) < Cardinality(S)
<1>1. S \subseteq Nat
  BY Ids
<1>2. PICK m \in S : \A k \in S : m <= k
  BY <1>1, LeastOne
<1>3. m \notin T
  BY <1>1, <1>2
<1>4. IsFiniteSet(S)
  BY Ids, FS_Subset
<1>5. IsFiniteSet(T) /\ Cardinality(T) <= Cardinality(S) /\ (Cardinality(S) = Cardinality(T) => S = T)
  BY <1>4, FS_Subset
<1>6. Cardinality(S) \in Nat /\ Cardinality(T) \in Nat
  BY <1>4, <1>5, FS_CardinalityType
<1> QED
  BY <1>2, <1>3, <1>5, <1>6

By(b) == {e \in Evidence : evidence[e].by = b}

\* What only takes rows from a digest and gives supports to its belief keeps its count true.
LEMMA DigestStays ==
  ASSUME Data, Data', DigestCountsWhole, NEW b \in Belief, digest'[b] = digest[b],
         By(b)' \subseteq By(b), Supports(b) \subseteq Supports(b)'
  PROVE  /\ digest'[b] > 0 => Cardinality(By(b)') < digest'[b]
         /\ digest'[b] <= Cardinality(Supports(b)')
<1>1. /\ digest[b] > 0 => Cardinality(By(b)) < digest[b]
      /\ digest[b] <= Cardinality(Supports(b))
  BY DEF DigestCountsWhole, By
<1>2. IsFiniteSet(By(b)) /\ IsFiniteSet(Supports(b)')
  <2>1. By(b) \in SUBSET Evidence /\ Supports(b)' \in SUBSET Evidence
    BY DEF By, Supports
  <2> QED
    BY <2>1, Ids, FS_Subset
<1>3. IsFiniteSet(By(b)') /\ Cardinality(By(b)') <= Cardinality(By(b))
  BY <1>2, FS_Subset
<1>4. IsFiniteSet(Supports(b)) /\ Cardinality(Supports(b)) <= Cardinality(Supports(b)')
  BY <1>2, FS_Subset
<1>5. /\ Cardinality(By(b)') \in Nat /\ Cardinality(By(b)) \in Nat
      /\ Cardinality(Supports(b)) \in Nat /\ Cardinality(Supports(b)') \in Nat
  BY <1>2, <1>3, <1>4, FS_CardinalityType
<1>6. digest[b] \in Nat
  BY DEF Data
<1> QED
  BY <1>1, <1>3, <1>4, <1>5, <1>6

\* A row that two beliefs are linked by is no belief's own.
LEMMA OwnIsNotShared ==
  ASSUME NEW b \in Belief, Own(b), NEW e \in Supports(b)
  PROVE  ~ Shared(e)
  BY DEF Own, Shared

LEMMA RecordsSample ==
  ASSUME Typed, Typed', Graph, Graph', SampleSurvives, NEW e \in Evidence,
         evidence' = [evidence EXCEPT ![e] = Recorded(e)],
         \A c \in Belief, x \in Evidence \ {e} : links'[c][x] = links[c][x],
         \A c \in Belief : links[c][e] \subseteq links'[c][e]
  PROVE  SampleSurvives'
<1> SUFFICES ASSUME NEW b \in Belief, Supports(b)' # {}, Own(b)'
             PROVE  \E x \in Supports(b)' : evidence'[x].content
  BY DEF SampleSurvives
<1>1. Data /\ Wordless /\ evidence \in [Evidence -> Piece]
  BY DEF Typed, Graph, Data
<1>2. \A x \in Evidence : evidence'[x] = IF x = e THEN Recorded(e) ELSE evidence[x]
  BY <1>1
<1>3. Recorded(e) \in Piece /\ Recorded(e).state \notin {"none", "compacted"}
      /\ (evidence[e].content => Recorded(e).content)
  BY <1>1, RecordedIs
<1>4. \A c \in Belief, x \in Evidence : links[c][x] \subseteq links'[c][x]
  OBVIOUS
<1>5. Supports(b) \subseteq Supports(b)' /\ Supports(b)' \subseteq Evidence
  BY <1>4 DEF Supports
<1>6. CASE Supports(b) # {}
  <2>1. Own(b)
    <3> SUFFICES ASSUME NEW c \in Belief \ {b}, NEW x \in Supports(b) PROVE links[c][x] = {}
      BY DEF Own
    <3>1. x \in Evidence /\ x \in Supports(b)'
      BY <1>5 DEF Supports
    <3>2. links'[c][x] = {}
      BY <3>1 DEF Own
    <3> QED
      BY <1>4, <3>1, <3>2
  <2>2. PICK x \in Supports(b) : evidence[x].content
    BY <1>6, <2>1 DEF SampleSurvives
  <2>3. x \in Supports(b)' /\ x \in Evidence
    BY <1>5, <2>2
  <2> QED
    BY <1>2, <1>3, <2>2, <2>3
<1>7. CASE Supports(b) = {}
  <2>1. PICK x \in Supports(b)' : TRUE
    OBVIOUS
  <2>2. x = e
    BY <1>5, <1>7, <2>1 DEF Supports
  <2>3. ~ Shared(e)'
    BY <2>1, <2>2 DEF Own, Shared
  <2>4. evidence'[e].state \in {"hot", "representative"}
    BY <1>2, <1>3 DEF Piece
  <2> QED
    BY <2>1, <2>2, <2>3, <2>4 DEF Graph, Worded
<1> QED
  BY <1>6, <1>7

LEMMA FoldsSample ==
  ASSUME Typed, Graph, SampleSurvives, NEW r \in Runner, CommitFold(r)
  PROVE  SampleSurvives'
<1> DEFINE c == run[r].now.b
<1>1. /\ c \in Belief /\ links' = links
      /\ \A e \in Evidence : e \notin Fold(c) => evidence'[e].content = evidence[e].content
  BY FoldIs
<1> HIDE DEF c
<1>2. \A b \in Belief : Supports(b)' = Supports(b) /\ (Own(b)' <=> Own(b)) /\ Supports(b) \subseteq Evidence
  BY <1>1 DEF Supports, Own
<1> SUFFICES ASSUME NEW b \in Belief, Supports(b) # {}, Own(b)
             PROVE  \E x \in Supports(b) : evidence'[x].content
  BY <1>2 DEF SampleSurvives
<1>3. PICK e \in Supports(b) : evidence[e].content
  BY DEF SampleSurvives
<1>4. CASE e \notin Fold(c)
  BY <1>1, <1>2, <1>3, <1>4
<1>5. CASE e \in Fold(c)
  <2>1. Data
    BY DEF Typed
  <2>2. e \in Supports(c)
    BY <1>5, Chosen
  <2>3. c = b
    BY <1>1, <1>3, <2>2 DEF Own, Supports
  <2>4. PICK x \in LiveSupports(b) : x \in Keep(b)
    BY <1>5, <2>1, <2>3, FoldWhy
  <2>5. x \in Supports(b) /\ x \in Evidence /\ evidence[x].state # "compacted" /\ links[b][x] # {}
    BY <2>4 DEF LiveSupports, Supports
  <2>6. evidence[x].state # "none"
    BY <2>5 DEF Graph, Linked
  <2>7. evidence[x].state \in {"hot", "representative"}
    BY <2>1, <2>5, <2>6 DEF Data, Piece
  <2>8. evidence[x].content
    BY <2>5, <2>7, OwnIsNotShared DEF Graph, Worded
  <2>9. x \notin Fold(c)
    BY <2>3, <2>4, Chosen
  <2> QED
    BY <1>1, <2>5, <2>8, <2>9
<1> QED
  BY <1>4, <1>5

\* Digests of the beliefs an observation is not about, and of the one it is about.
LEMMA RecordsDigest ==
  ASSUME Typed, Typed', Graph, DigestCountsWhole, NEW e \in Evidence, digest' = digest,
         evidence' = [evidence EXCEPT ![e] = Recorded(e)],
         \A c \in Belief, x \in Evidence : links[c][x] \subseteq links'[c][x]
  PROVE  DigestCountsWhole'
<1>1. Data /\ Data' /\ Wordless /\ evidence \in [Evidence -> Piece]
  BY DEF Typed, Graph, Data
<1>2. \A x \in Evidence : evidence'[x].by = evidence[x].by \/ evidence'[x].by = 0
  BY <1>1, RecordedIs
<1>3. \A b \in Belief : By(b)' \subseteq By(b) /\ Supports(b) \subseteq Supports(b)'
  BY <1>2, Ids DEF By, Supports
<1>4. \A b \in Belief : /\ digest'[b] > 0 => Cardinality(By(b)') < digest'[b]
                       /\ digest'[b] <= Cardinality(Supports(b)')
  BY <1>1, <1>3, DigestStays
<1> QED
  BY <1>4 DEF DigestCountsWhole, By

LEMMA FoldsDigest ==
  ASSUME Typed, Typed', Graph, Graph', DigestCountsWhole, NEW r \in Runner, CommitFold(r)
  PROVE  DigestCountsWhole'
<1> PICK c : c = run[r].now.b
  OBVIOUS
<1>1. /\ c \in Belief /\ links' = links
      /\ \A e \in Evidence : evidence'[e].by = IF e \in Fold(c) THEN c ELSE evidence[e].by
      /\ digest' = [digest EXCEPT ![c] = Cardinality(Supports(c))]
  BY FoldIs
<1>2. Data /\ Data' /\ digest \in [Belief -> Nat]
  BY DEF Typed, Data
<1>3. \A b \in Belief : Supports(b)' = Supports(b)
  BY <1>1 DEF Supports
<1>4. ASSUME NEW b \in Belief, b # c
      PROVE  /\ digest'[b] > 0 => Cardinality(By(b)') < digest'[b]
             /\ digest'[b] <= Cardinality(Supports(b)')
  <2>1. By(b)' \subseteq By(b)
    BY <1>1, <1>4 DEF By
  <2>2. digest'[b] = digest[b]
    BY <1>1, <1>2, <1>4
  <2> QED
    BY <1>2, <1>3, <2>1, <2>2, DigestStays
<1>5. /\ digest'[c] > 0 => Cardinality(By(c)') < digest'[c]
      /\ digest'[c] <= Cardinality(Supports(c)')
  <2>1. digest'[c] = Cardinality(Supports(c)) /\ Supports(c)' = Supports(c)
    <3>1. digest'[c] = Cardinality(Supports(c))
      BY <1>1, <1>2
    <3> QED
      BY <1>1, <1>3, <3>1
  <2>2. Supports(c) \in SUBSET Evidence
    BY DEF Supports
  <2>3. IsFiniteSet(Supports(c)) /\ Cardinality(Supports(c)) \in Nat
    BY <2>2, Ids, FS_Subset, FS_CardinalityType
  <2>4. CASE Supports(c) = {}
    <3>1. Cardinality(Supports(c)) = 0
      BY <2>4, FS_EmptySet
    <3> QED
      BY <2>1, <3>1
  <2>5. CASE Supports(c) # {}
    <3>1. \A e \in By(c)' : e \in Supports(c) /\ \E x \in Supports(c) : x < e
      <4> SUFFICES ASSUME NEW e \in Evidence, evidence'[e].by = c
                   PROVE  e \in Supports(c) /\ \E x \in Supports(c) : x < e
        BY DEF By
      <4>1. e \in Supports(c)' /\ \E x \in Supports(c)' : x < e
        BY <1>1 DEF Graph, Later
      <4> QED
        BY <2>1, <4>1
    <3>2. Cardinality(By(c)') < Cardinality(Supports(c))
      BY <2>2, <2>5, <3>1, Fewer
    <3> QED
      BY <2>1, <2>3, <3>2
  <2> QED
    BY <2>4, <2>5
<1>6. \A b \in Belief : /\ digest'[b] > 0 => Cardinality(By(b)') < digest'[b]
                       /\ digest'[b] <= Cardinality(Supports(b)')
  <2> SUFFICES ASSUME NEW b \in Belief
               PROVE  /\ digest'[b] > 0 => Cardinality(By(b)') < digest'[b]
                      /\ digest'[b] <= Cardinality(Supports(b)')
    OBVIOUS
  <2>1. CASE b = c
    BY <1>5, <2>1
  <2>2. CASE b # c
    BY <1>4, <2>2
  <2> QED
    BY <2>1, <2>2
<1> QED
  BY <1>6 DEF DigestCountsWhole, By

-----------------------------------------------------------------------------
(* The steps. *)

Inv == Typed /\ Graph /\ SampleSurvives /\ DigestCountsWhole /\ SourcesKnown /\ GuardedStays

\* A step of the users moves the revision when it changes a source, and no cycle.
LEMMA UsersKnown ==
  ASSUME Typed, SourcesKnown, GuardedStays, run' = run,
         \/ revision' = revision + 1
         \/ revision' = revision /\ \A c \in Belief : belief'[c].source = belief[c].source
  PROVE  SourcesKnown' /\ GuardedStays'
<1>1. GuardedStays'
  BY DEF GuardedStays, Moving
<1>2. SourcesKnown'
  <2> SUFFICES ASSUME NEW r \in Runner, run[r].pc \in {"publish", "commit"}
               PROVE  /\ run[r].revision <= revision'
                      /\ run[r].revision = revision' =>
                           \A b \in DOMAIN run[r].rows :
                             run[r].rows[b].source # belief'[b].source => b \in run[r].late
    BY DEF SourcesKnown
  <2>1. run[r].pc # "idle" /\ Running
    BY DEF Typed
  <2>2. run[r].revision \in Nat /\ revision \in Nat /\ DOMAIN run[r].rows \in SUBSET Belief
    BY <2>1, Cycles DEF Typed, Data, Cycle
  <2>3. /\ run[r].revision <= revision
        /\ run[r].revision = revision =>
             \A b \in DOMAIN run[r].rows :
               run[r].rows[b].source # belief[b].source => b \in run[r].late
    BY DEF SourcesKnown
  <2>4. CASE revision' = revision + 1
    BY <2>2, <2>3, <2>4
  <2>5. CASE revision' = revision /\ \A c \in Belief : belief'[c].source = belief[c].source
    BY <2>2, <2>3, <2>5
  <2> QED
    BY <2>4, <2>5
<1> QED
  BY <1>1, <1>2

\* A step of a cycle that keeps the revision, the sources, and what it holds of them.
LEMMA RunsKnown ==
  ASSUME Typed, SourcesKnown, GuardedStays, NEW r \in Runner, revision' = revision,
         run[r].pc \in {"publish", "commit"}, run'[r].pc \in {"idle", "publish", "commit"},
         \A c \in Belief : belief'[c].source = belief[c].source,
         \A q \in Runner \ {r} : run'[q] = run[q],
         run'[r].pc # "idle" =>
           /\ run'[r].late = run[r].late /\ run'[r].revision = run[r].revision
           /\ DOMAIN run'[r].rows = DOMAIN run[r].rows
           /\ \A b \in DOMAIN run[r].rows : run'[r].rows[b].source = run[r].rows[b].source
  PROVE  SourcesKnown'
<1> SUFFICES ASSUME NEW q \in Runner, run'[q].pc \in {"publish", "commit"}
             PROVE  /\ run'[q].revision <= revision
                    /\ run'[q].revision = revision =>
                         \A b \in DOMAIN run'[q].rows :
                           run'[q].rows[b].source # belief'[b].source => b \in run'[q].late
  BY DEF SourcesKnown
<1>1. run[q].pc \in {"publish", "commit"}
  BY DEF Typed
<1>2. DOMAIN run[q].rows \in SUBSET Belief
  BY <1>1, Cycles DEF Typed
<1>3. /\ run[q].revision <= revision
      /\ run[q].revision = revision =>
           \A b \in DOMAIN run[q].rows :
             run[q].rows[b].source # belief[b].source => b \in run[q].late
  BY <1>1 DEF SourcesKnown
<1>4. CASE q = r
  BY <1>2, <1>3, <1>4
<1>5. CASE q # r
  BY <1>2, <1>3, <1>5
<1> QED
  BY <1>4, <1>5

LEMMA InvInit == Init => Inv
<1> SUFFICES ASSUME Init PROVE Inv
  OBVIOUS
<1>1. budget \in Budgets /\ revision = 1 /\ asked = 0 /\ run = [r \in Runner |-> NoRun]
  BY DEF Init
<1>2. budget.beliefs \in Nat /\ budget.ages \subseteq Age /\ budget.tiers \subseteq Tier
  BY <1>1, StartsAssumption
<1>3. PICK age \in budget.ages, tier \in budget.tiers :
       belief = [b \in Belief |-> IF b > budget.beliefs THEN NoBelief
                   ELSE [Born("extracted") EXCEPT !.evidenced = age, !.tier = tier, !.audited = tier]]
  BY DEF Init
<1>4. age \in Age /\ tier \in Tier
  BY <1>2
<1>5. Born("extracted") \in Row /\ Born("extracted").status = "active"
  BY BornIs
<1>6. NoBelief \in Row
  BY <1>5 DEF NoBelief, Row
<1>7. \A x \in Row : /\ [x EXCEPT !.evidenced = age, !.tier = tier, !.audited = tier] \in Row
                    /\ [x EXCEPT !.evidenced = age, !.tier = tier, !.audited = tier].status = x.status
  BY <1>4 DEF Row
<1>8. /\ belief \in [Belief -> Row]
      /\ \A b \in Belief : b <= budget.beliefs => belief[b].status # "free"
  <2> DEFINE old == [Born("extracted") EXCEPT !.evidenced = age, !.tier = tier, !.audited = tier]
  <2>1. old \in Row /\ old.status = "active"
    BY <1>5, <1>7
  <2>2. belief = [b \in Belief |-> IF b > budget.beliefs THEN NoBelief ELSE old]
    BY <1>3
  <2> HIDE DEF old
  <2>3. belief \in [Belief -> Row]
    BY <1>6, <2>1, <2>2
  <2>4. \A b \in Belief : b <= budget.beliefs => ~ (b > budget.beliefs)
    BY <1>2, Ids
  <2>5. \A b \in Belief : b <= budget.beliefs => belief[b].status = "active"
    BY <2>1, <2>2, <2>4
  <2> QED
    BY <2>3, <2>5
<1>9. links = [b \in Belief |-> [e \in Evidence |->
                IF b <= budget.beliefs /\ e \in budget.backing[b] THEN {"support"} ELSE {}]]
  BY DEF Init
<1>10. /\ links \in [Belief -> [Evidence -> SUBSET (AlwaysKept \cup {"support"})]]
       /\ \A b \in Belief, e \in Evidence : links[b][e] # {} => belief[b].status # "free"
  BY <1>8, <1>9
<1>11. evidence = [e \in Evidence |->
         [state |-> IF \E b \in Belief : links[b][e] # {} THEN "hot" ELSE "none",
          content |-> \E b \in Belief : links[b][e] # {}, by |-> 0]]
  BY DEF Init
<1>12. \A e \in Evidence : evidence[e] \in Piece /\ evidence[e].by = 0
  <2>1. 0 \in 0..NBelief
    BY InputsAssumption
  <2> SUFFICES ASSUME NEW e \in Evidence PROVE evidence[e] \in Piece /\ evidence[e].by = 0
    OBVIOUS
  <2>2. CASE \E b \in Belief : links[b][e] # {}
    <3>1. evidence[e] = [state |-> "hot", content |-> TRUE, by |-> 0]
      BY <1>11, <2>2, Zenon
    <3> QED
      BY <2>1, <3>1 DEF Piece
  <2>3. CASE ~ \E b \in Belief : links[b][e] # {}
    <3>1. evidence[e] = [state |-> "none", content |-> FALSE, by |-> 0]
      BY <1>11, <2>3, Zenon
    <3> QED
      BY <2>1, <3>1 DEF Piece
  <2> QED
    BY <2>2, <2>3
<1> DEFINE linked(e) == \E b \in Belief : links[b][e] # {}
<1>13. /\ \A e \in Evidence : evidence[e].content <=> linked(e)
       /\ \A e \in Evidence : evidence[e].state = IF linked(e) THEN "hot" ELSE "none"
  <2> HIDE DEF linked
  <2>1. evidence = [e \in Evidence |->
          [state |-> IF linked(e) THEN "hot" ELSE "none", content |-> linked(e), by |-> 0]]
    BY <1>11 DEF linked
  <2> QED
    BY <2>1
<1>14. asked \in 0..NBelief /\ digest \in [Belief -> Nat] /\ \A b \in Belief : digest[b] = 0
  BY <1>1, InputsAssumption DEF Init
<1>15. Data
  <2>1. evidence \in [Evidence -> Piece]
    BY <1>11, <1>12
  <2> QED
    BY <1>1, <1>8, <1>10, <1>14, <2>1 DEF Data
<1>16. Running
  <2>1. NoRun.pc = "idle" /\ NoRun.todo = {}
    BY DEF NoRun
  <2>2. IsFiniteSet({}) /\ Cardinality({}) <= Cap
    BY FS_EmptySet, LimitsAssumption
  <2>3. Held(NoRun)
    BY <2>1, <2>2 DEF Held
  <2> QED
    BY <1>1, <2>3 DEF Running
<1>17. Graph
  <2>1. Linked
    BY <1>10, <1>13 DEF Linked
  <2> HIDE DEF linked
  <2>2. Folded /\ Wordless /\ Worded
    BY <1>13 DEF Folded, Wordless, Worded
  <2>3. Later
    BY <1>12, Ids DEF Later
  <2> QED
    BY <2>1, <2>2, <2>3 DEF Graph
<1>18. SampleSurvives
  <2>1. \A b \in Belief : \A e \in Supports(b) : e \in Evidence /\ links[b][e] # {}
    BY DEF Supports
  <2>2. \A b \in Belief : \A e \in Supports(b) : evidence[e].content
    BY <1>13, <2>1
  <2> QED
    BY <2>2 DEF SampleSurvives
<1>19. DigestCountsWhole
  <2> SUFFICES ASSUME NEW b \in Belief PROVE digest[b] <= Cardinality(Supports(b))
    BY <1>14 DEF DigestCountsWhole
  <2>1. Supports(b) \in SUBSET Evidence
    BY DEF Supports
  <2>2. Cardinality(Supports(b)) \in Nat
    BY <2>1, Ids, FS_Subset, FS_CardinalityType
  <2> QED
    BY <1>14, <2>2
<1>20. SourcesKnown /\ GuardedStays
  <2>1. \A r \in Runner : run[r].pc = "idle"
    BY <1>1 DEF NoRun
  <2> QED
    BY <2>1 DEF SourcesKnown, GuardedStays, Moving
<1> QED
  BY <1>15, <1>16, <1>17, <1>18, <1>19, <1>20 DEF Inv, Typed

\* What a cycle does to what is said of the sources.
LEMMA ScanKnown ==
  ASSUME Typed, SourcesKnown, GuardedStays, NEW r \in Runner, Scan(r)
  PROVE  SourcesKnown' /\ GuardedStays'
<1>1. /\ run'[r].pc = "read" /\ \A q \in Runner \ {r} : run'[q] = run[q]
      /\ belief' = belief /\ revision' = revision
  BY ScanTypes DEF Scan, truth
<1> QED
  BY <1>1 DEF SourcesKnown, GuardedStays, Moving

LEMMA PlanKnown ==
  ASSUME Typed, SourcesKnown, GuardedStays, NEW r \in Runner, Plan(r)
  PROVE  SourcesKnown' /\ GuardedStays'
<1>1. /\ run'[r].pc = "publish" => /\ run'[r].revision = revision
                                  /\ run'[r].rows = run[r].rows
                                  /\ run'[r].late = {b \in DOMAIN run[r].rows :
                                       run[r].rows[b].source # belief[b].source}
      /\ run'[r].pc \in {"idle", "publish"} /\ \A q \in Runner \ {r} : run'[q] = run[q]
  BY PlanTypes
<1>2. belief' = belief /\ revision' = revision /\ revision \in Nat
  BY DEF Plan, truth, Typed, Data
<1>3. GuardedStays'
  BY <1>1 DEF GuardedStays, Moving
<1>4. SourcesKnown'
  <2> SUFFICES ASSUME NEW q \in Runner, run'[q].pc \in {"publish", "commit"}
               PROVE  /\ run'[q].revision <= revision
                      /\ run'[q].revision = revision =>
                           \A b \in DOMAIN run'[q].rows :
                             run'[q].rows[b].source # belief[b].source => b \in run'[q].late
    BY <1>2 DEF SourcesKnown
  <2>1. CASE q = r
    BY <1>1, <1>2, <2>1
  <2>2. CASE q # r
    BY <1>1, <2>2 DEF SourcesKnown
  <2> QED
    BY <2>1, <2>2
<1> QED
  BY <1>3, <1>4

LEMMA GateKnown ==
  ASSUME Typed, SourcesKnown, GuardedStays, NEW r \in Runner, Gate(r)
  PROVE  SourcesKnown' /\ GuardedStays'
<1>1. /\ run[r].pc = "publish" /\ run[r] \in Cycle
      /\ run'[r].pc = "commit" =>
              /\ UpToDate(r) /\ run'[r].now.b \in DOMAIN run[r].rows
              /\ run'[r].now.kind = "tier" => ~ Guards(r, run'[r].now.b)
              /\ run'[r].guarded = {b \in Belief : Protected(b, belief[b].source)}
      /\ run'[r].pc \in {"idle", "publish", "commit"}
      /\ run'[r].pc # "idle" => /\ run'[r].rows = run[r].rows /\ run'[r].late = run[r].late
                                /\ run'[r].revision = run[r].revision
      /\ \A q \in Runner \ {r} : run'[q] = run[q]
  BY GateTypes
<1>2. belief' = belief /\ revision' = revision
  BY DEF Gate, truth
<1>3. SourcesKnown'
  BY <1>1, <1>2, RunsKnown
<1>4. GuardedStays'
  <2> SUFFICES ASSUME NEW q \in Runner, run'[q].pc = "commit", run'[q].now.kind = "tier",
                      run'[q].now.b \in run'[q].guarded
               PROVE  run'[q].now.b \in run'[q].late
    BY DEF GuardedStays, Moving
  <2>1. CASE q # r
    BY <1>1, <2>1 DEF GuardedStays, Moving
  <2>2. CASE q = r
    <3> DEFINE b == run'[r].now.b
    <3>1. Protected(b, belief[b].source) /\ ~ Protected(b, run[r].rows[b].source)
      BY <1>1, <2>2 DEF Guards
    <3> HIDE DEF b
    <3>2. run[r].rows[b].source # belief[b].source
      BY <3>1
    <3>3. run[r].revision = revision /\ b \in DOMAIN run[r].rows
      BY <1>1, <2>2 DEF UpToDate, b
    <3>4. b \in run[r].late
      BY <1>1, <3>2, <3>3 DEF SourcesKnown
    <3> QED
      BY <1>1, <2>2, <3>4 DEF b
  <2> QED
    BY <2>1, <2>2
<1> QED
  BY <1>3, <1>4

LEMMA CommitKnown ==
  ASSUME Typed, SourcesKnown, GuardedStays, NEW r \in Runner, CommitTier(r) \/ CommitFold(r)
  PROVE  SourcesKnown' /\ GuardedStays'
<1>1. /\ run[r].pc = "commit" /\ run'[r].pc \in {"idle", "publish"}
      /\ \A b \in Belief : belief'[b].source = belief[b].source
      /\ run'[r].pc # "idle" =>
              /\ run'[r].late = run[r].late /\ run'[r].revision = run[r].revision
              /\ DOMAIN run'[r].rows = DOMAIN run[r].rows
              /\ \A b \in DOMAIN run[r].rows : run'[r].rows[b].source = run[r].rows[b].source
      /\ \A q \in Runner \ {r} : run'[q] = run[q]
  <2>1. CASE CommitTier(r)
    BY <2>1, CommitTierTypes
  <2>2. CASE CommitFold(r)
    <3>1. belief' = belief
      BY <2>2 DEF CommitFold
    <3> QED
      BY <2>2, <3>1, CommitFoldTypes
  <2> QED
    BY <2>1, <2>2
<1>2. revision' = revision
  BY DEF CommitTier, CommitFold
<1>3. SourcesKnown'
  BY <1>1, <1>2, RunsKnown
<1>4. GuardedStays'
  BY <1>1 DEF GuardedStays, Moving
<1> QED
  BY <1>3, <1>4

\* A step that leaves the graph alone leaves what is counted of it alone.
LEMMA SameGraph ==
  ASSUME Inv, UNCHANGED <<links, evidence, digest>>,
         \A c \in Belief : belief'[c].status = "free" => belief[c].status = "free"
  PROVE  Graph' /\ SampleSurvives' /\ DigestCountsWhole'
<1>1. Graph'
  BY StaysGraph DEF Inv
<1>2. SampleSurvives'
  BY DEF Inv, SampleSurvives, Own, Supports
<1>3. DigestCountsWhole'
  BY DEF Inv, DigestCountsWhole, Supports
<1> QED
  BY <1>1, <1>2, <1>3

LEMMA RunInv == ASSUME Inv, NEW r \in Runner, RunStep(r) PROVE Inv'
<1>1. CASE Scan(r)
  <2>1. Typed' /\ SourcesKnown' /\ GuardedStays'
    BY <1>1, ScanTypes, ScanKnown DEF Inv
  <2>2. Graph' /\ SampleSurvives' /\ DigestCountsWhole'
    BY <1>1, SameGraph DEF Scan, truth
  <2> QED
    BY <2>1, <2>2 DEF Inv
<1>2. CASE Plan(r)
  <2>1. Typed' /\ SourcesKnown' /\ GuardedStays'
    BY <1>2, PlanTypes, PlanKnown DEF Inv
  <2>2. Graph' /\ SampleSurvives' /\ DigestCountsWhole'
    BY <1>2, SameGraph DEF Plan, truth
  <2> QED
    BY <2>1, <2>2 DEF Inv
<1>3. CASE Gate(r)
  <2>1. Typed' /\ SourcesKnown' /\ GuardedStays'
    BY <1>3, GateTypes, GateKnown DEF Inv
  <2>2. Graph' /\ SampleSurvives' /\ DigestCountsWhole'
    BY <1>3, SameGraph DEF Gate, truth
  <2> QED
    BY <2>1, <2>2 DEF Inv
<1>4. CASE CommitTier(r)
  <2>1. /\ Typed' /\ SourcesKnown' /\ GuardedStays'
        /\ \A c \in Belief : belief'[c].status = belief[c].status
    BY <1>4, CommitTierTypes, CommitKnown DEF Inv
  <2>2. UNCHANGED <<links, evidence, digest>>
    BY <1>4 DEF CommitTier
  <2>3. Graph' /\ SampleSurvives' /\ DigestCountsWhole'
    BY <2>1, <2>2, SameGraph
  <2> QED
    BY <2>1, <2>3 DEF Inv
<1>5. CASE CommitFold(r)
  <2>1. Typed' /\ SourcesKnown' /\ GuardedStays'
    BY <1>5, CommitFoldTypes, CommitKnown DEF Inv
  <2>2. Graph' /\ SampleSurvives'
    BY <1>5, FoldsGraph, FoldsSample DEF Inv
  <2>3. DigestCountsWhole'
    BY <1>5, <2>1, <2>2, FoldsDigest DEF Inv
  <2> QED
    BY <2>1, <2>2, <2>3 DEF Inv
<1> QED
  BY <1>1, <1>2, <1>3, <1>4, <1>5 DEF RunStep

LEMMA ObserveInv ==
  ASSUME Inv, NEW b \in Belief, NEW e \in Evidence, Observe(b, e)
  PROVE  Inv'
<1>1. /\ Typed' /\ run' = run /\ digest' = digest /\ revision' = revision + 1
      /\ evidence' = [evidence EXCEPT ![e] = Recorded(e)]
      /\ \A c \in Belief, x \in Evidence :
           links'[c][x] = IF c = b /\ x = e THEN links[b][e] \cup {"support"} ELSE links[c][x]
      /\ \A c \in Belief : belief'[c].status = belief[c].status
      /\ belief[b].status = "active"
  BY ObserveTypes DEF Inv, Graph
<1>2. /\ \A c \in Belief, x \in Evidence \ {e} : links'[c][x] = links[c][x]
      /\ \A c \in Belief : links[c][e] \subseteq links'[c][e]
      /\ \A c \in Belief, x \in Evidence : links[c][x] \subseteq links'[c][x]
  BY <1>1
<1>3. \A c \in Belief : links'[c][e] # {} => belief'[c].status # "free"
  <2> SUFFICES ASSUME NEW c \in Belief, links'[c][e] # {} PROVE belief[c].status # "free"
    BY <1>1
  <2>1. CASE c = b
    BY <1>1, <2>1
  <2>2. CASE c # b
    BY <1>1, <2>2 DEF Inv, Graph, Linked
  <2> QED
    BY <2>1, <2>2
<1>4. Graph'
  BY <1>1, <1>2, <1>3, RecordsGraph DEF Inv
<1>5. SampleSurvives'
  BY <1>1, <1>2, <1>4, RecordsSample DEF Inv
<1>6. DigestCountsWhole'
  BY <1>1, <1>2, RecordsDigest DEF Inv
<1>7. SourcesKnown' /\ GuardedStays'
  BY <1>1, UsersKnown DEF Inv
<1> QED
  BY <1>1, <1>4, <1>5, <1>6, <1>7 DEF Inv

LEMMA UpdateInv ==
  ASSUME Inv, NEW b \in Belief, NEW n \in Belief, NEW e \in Evidence, Update(b, n, e)
  PROVE  Inv'
<1>1. /\ Typed' /\ run' = run /\ digest' = digest /\ revision' = revision + 1
      /\ evidence' = [evidence EXCEPT ![e] = Recorded(e)]
      /\ \A c \in Belief, x \in Evidence :
           links'[c][x] = IF c = b /\ x = e THEN links[b][e] \cup {"correct"}
                          ELSE IF c = n /\ x = e THEN {"support"} ELSE links[c][x]
      /\ \A c \in Belief : belief'[c].status = "free" => belief[c].status = "free" /\ c # n
      /\ b # n /\ links[n][e] = {} /\ belief[b].status = "active"
  BY UpdateTypes DEF Inv, Graph
<1>2. /\ \A c \in Belief, x \in Evidence \ {e} : links'[c][x] = links[c][x]
      /\ \A c \in Belief : links[c][e] \subseteq links'[c][e]
      /\ \A c \in Belief, x \in Evidence : links[c][x] \subseteq links'[c][x]
  BY <1>1
<1>3. \A c \in Belief : links'[c][e] # {} => belief'[c].status # "free"
  <2> SUFFICES ASSUME NEW c \in Belief, links'[c][e] # {}, belief'[c].status = "free" PROVE FALSE
    OBVIOUS
  <2>1. belief[c].status = "free" /\ c # n /\ c # b
    BY <1>1
  <2> QED
    BY <1>1, <2>1 DEF Inv, Graph, Linked
<1>4. Graph'
  BY <1>1, <1>2, <1>3, RecordsGraph DEF Inv
<1>5. SampleSurvives'
  BY <1>1, <1>2, <1>4, RecordsSample DEF Inv
<1>6. DigestCountsWhole'
  BY <1>1, <1>2, RecordsDigest DEF Inv
<1>7. SourcesKnown' /\ GuardedStays'
  BY <1>1, UsersKnown DEF Inv
<1> QED
  BY <1>1, <1>4, <1>5, <1>6, <1>7 DEF Inv

LEMMA OtherInv ==
  ASSUME Inv,
         \/ \E b, n \in Belief : Correct(b, n)
         \/ \E b \in Belief : Ask(b) \/ Restore(b)
         \/ \E b \in Belief, mode \in {"current", "historical", "all"} : Recall(b, mode)
         \/ \E verdict \in {"confirm", "deny", "unclear"} : Answer(verdict)
         \/ Tick
  PROVE  Inv'
<1>1. /\ Typed' /\ UNCHANGED <<run, digest, links, evidence>>
      /\ \/ revision' = revision + 1
         \/ revision' = revision /\ \A c \in Belief : belief'[c].source = belief[c].source
      /\ \A c \in Belief : belief'[c].status = "free" => belief[c].status = "free"
  BY OtherTypes DEF Inv
<1>2. Graph' /\ SampleSurvives' /\ DigestCountsWhole'
  BY <1>1, SameGraph
<1>3. SourcesKnown' /\ GuardedStays'
  BY <1>1, UsersKnown DEF Inv
<1> QED
  BY <1>1, <1>2, <1>3 DEF Inv

\* Inv is inductive.
LEMMA InvNext == Inv /\ [Next]_vars => Inv'
<1> SUFFICES ASSUME Inv, [Next]_vars PROVE Inv'
  OBVIOUS
<1>1. CASE \E r \in Runner : RunStep(r)
  BY <1>1, RunInv
<1>2. CASE UserStep \/ Tick
  <2>1. CASE \E b \in Belief, e \in Evidence : Observe(b, e)
    BY <2>1, ObserveInv
  <2>2. CASE \E b \in Belief, e \in Evidence : \E n \in Belief : Update(b, n, e)
    BY <2>2, UpdateInv
  <2>3. CASE \/ \E b, n \in Belief : Correct(b, n)
             \/ \E b \in Belief : Ask(b) \/ Restore(b)
             \/ \E b \in Belief, mode \in {"current", "historical", "all"} : Recall(b, mode)
             \/ \E verdict \in {"confirm", "deny", "unclear"} : Answer(verdict)
             \/ Tick
    BY <2>3, OtherInv
  <2> QED
    BY <1>2, <2>1, <2>2, <2>3, Zenon DEF UserStep
<1>3. CASE UNCHANGED vars
  <2>1. UNCHANGED <<revision, belief, links, evidence, digest, asked, run>>
    BY <1>3 DEF vars
  <2>2. Typed'
    BY <2>1 DEF Inv, Typed, Data, Running, Held, Cycle, NoRun, Row, Piece, Proposal, Nothing
  <2>3. Graph' /\ SampleSurvives' /\ DigestCountsWhole'
    BY <2>1, SameGraph
  <2>4. SourcesKnown' /\ GuardedStays'
    BY <2>1, UsersKnown DEF Inv
  <2> QED
    BY <2>2, <2>3, <2>4 DEF Inv
<1> QED
  BY <1>1, <1>2, <1>3 DEF Next

-----------------------------------------------------------------------------
(* The theorems. *)

\* Always, whatever the cycles and the users do, Inv holds.
THEOREM Invariance == Spec => []Inv
<1>1. Init => Inv
  BY InvInit
<1>2. Inv /\ [Next]_vars => Inv'
  BY InvNext
<1> QED
  BY <1>1, <1>2, PTL DEF Spec

\* Every variable keeps its type, and no cycle has more proposals than its cap (planner.py).
THEOREM TypesHold == Spec => []TypeOK
<1>1. Inv => TypeOK
  BY DEF Inv, Typed, Data, Running, Held, Graph, Wordless, TypeOK, Row, Piece
<1> QED
  BY <1>1, Invariance, PTL

\* A row is folded by a belief only while it is a plain support of it (compact.py
\* plan_compaction, record_evidence).
THEOREM FoldsAreByRule == Spec => []FoldedByRule
<1>1. Inv => FoldedByRule
  BY DEF Inv, Graph, Folded, FoldedByRule
<1> QED
  BY <1>1, Invariance, PTL

\* A belief whose evidence is its own keeps words of it, however often it is compacted
\* (compact.py clamp_policy).
THEOREM SampleIsKept == Spec => []SampleSurvives
<1>1. Inv => SampleSurvives
  BY DEF Inv
<1> QED
  BY <1>1, Invariance, PTL

\* A digest counts every row folded into it and the sample beside them, and no row that is not
\* a support (compact.py build_digest_fields).
THEOREM DigestIsWhole == Spec => []DigestCountsWhole
<1>1. Inv => DigestCountsWhole
  BY DEF Inv
<1> QED
  BY <1>1, Invariance, PTL

\* What is protected when the gate looks is not moved, but for a confirmation between the scan
\* and the revision the cycle took (publisher.py _check_tier_invariants).
THEOREM GuardHolds == Spec => []GuardedStays
<1>1. Inv => GuardedStays
  BY DEF Inv
<1> QED
  BY <1>1, Invariance, PTL
=============================================================================
