----------------------------- MODULE AccessProofs -----------------------------
(***************************************************************************)
(* Theorems about Access, for every number of readers, issuers, purposes   *)
(* and beliefs, every size of a page and of a batch, and every budget.     *)
(*                                                                         *)
(* Typed types the variables; GrantsStand, LinksStand, DecisionsStand,     *)
(* PagesStand, NumbersStand, AnswersStand and ExportsStand say what holds  *)
(* between the statements of a read, and WithheldStand does where no       *)
(* budget asks for a belief_history.                                       *)
(***************************************************************************)
EXTENDS Access, FiniteSetTheorems, WellFoundedInduction, TLAPS

GrantRow == [version : Nat, ops : SUBSET Operation, revoked : BOOLEAN, expired : BOOLEAN]
Change == [pc : {"idle", "write"}, purpose : Purpose \cup {Nobody}, expected : Nat,
           exists : BOOLEAN, act : {"grant", "revoke"}, ops : SUBSET Operation]
Belief == [status : {"free", "live", "gone"}, links : SUBSET Id, born : SUBSET Source]
Stage == {"idle", "decide", "rule", "rows", "links", "events", "record", "leave", "deny", "whole"}
Section == {"beliefs", "evidence"}
Call == [pc : Stage, kind : Entry, purpose : Purpose \cup {Nobody}, n : Nat, version : Nat,
         rule : SUBSET Purpose, rows : SUBSET Id, links : [Id -> SUBSET (Source \cup {Nobody})],
         kept : SUBSET Id, section : Section, cursor : Nat, next : Nat, target : Nat,
         sent : SUBSET (Section \X Id), late : Nat]
AuditRow == [n : Nat, decision : Decisions, entry : Entry, purpose : Purpose, version : Nat,
             op : Operation, ids : SUBSET Id, count : Nat, old : BOOLEAN]
Answer == [n : Nat, denied : BOOLEAN, ids : SUBSET Id, leaked : SUBSET Id]

\* The variables of the grants, of the memory, and of the reads.
GrantsTyped ==
  /\ grant \in [Purpose -> GrantRow] /\ changes \in [Purpose -> Seq(GrantRow)]
  /\ consent \in BOOLEAN /\ issuer \in [Issuer -> Change]
StoreTyped == belief \in [Id -> Belief] /\ evidence \in [Id -> Source \cup {Nobody}]
ReadsTyped ==
  /\ call \in [Reader -> Call] /\ reads \in Nat
  /\ \A r \in Reader : call[r].pc # "idle" => call[r].purpose \in Purpose /\ call[r].target \in Id
TrailTyped ==
  /\ audit \subseteq AuditRow /\ purged \subseteq Nat
  /\ purge \in [on : BOOLEAN, cut : SUBSET Nat] /\ left \subseteq Answer
Typed == GrantsTyped /\ StoreTyped /\ ReadsTyped /\ TrailTyped /\ budget \in Mixture

\* A change that is being written names a purpose; only what exists is revoked.
GrantsStand ==
  /\ OneWinnerPerVersion
  /\ \A i \in Issuer : issuer[i].pc = "write" =>
       issuer[i].purpose \in Purpose /\ (issuer[i].act = "revoke" => issuer[i].exists)

\* What is linked was recorded.
LinksStand == \A b \in Id : \A e \in belief[b].links : evidence[e] # Nobody

\* The places of a read behind its decision.
Decided == {"rule", "rows", "links", "events", "record", "leave"}

\* What a read was decided on is among the events of its grant.
DecisionsStand ==
  /\ RecordsNameTheGrant
  /\ \A r \in Reader : call[r].pc \in Decided =>
       LET said == changes[call[r].purpose] IN
         /\ call[r].version \in DOMAIN said
         /\ Needs(call[r].kind) \in said[call[r].version].ops
         /\ ~ said[call[r].version].revoked

\* A page is handed over late only when its read was decided before.
PagesStand ==
  \A r \in Reader : call[r].late <= 1 /\ (call[r].pc \in Decided => call[r].late = 0)

\* The reads in progress have numbers of their own, and are not in the audit before they record.
Unrecorded == {"decide", "rule", "rows", "links", "events", "record", "deny"}
NumbersStand ==
  /\ \A row \in audit : row.n \in 1..reads
  /\ \A v, w \in audit : v.n = w.n => v = w
  /\ purge.cut \subseteq 1..reads
  /\ \A r \in Reader : call[r].pc # "idle" => call[r].n \in 1..reads
  /\ \A r, q \in Reader :
       r # q /\ call[r].pc # "idle" /\ call[q].pc # "idle" => call[r].n # call[q].n
  /\ \A r \in Reader : call[r].pc \in Unrecorded => \A row \in audit : row.n # call[r].n

\* What is about to leave has been recorded.
AnswersStand ==
  /\ NothingLeavesUnrecorded
  /\ \A r \in Reader : call[r].pc \in {"record", "leave"} /\ call[r].kind # "history" =>
       call[r].kept \subseteq Ids(call[r])
  /\ \A r \in Reader : call[r].pc = "leave" =>
       \/ call[r].n \in purged
       \/ \E row \in audit : /\ row.n = call[r].n /\ Accounts(row, call[r].kept)
                             /\ row.decision = "allowed"

\* A read keeps nothing that was withheld from its rule on, unless it is gone.
WithheldFrom(r) ==
  /\ hidden[r] \subseteq Id
  /\ \A b \in hidden[r] : belief[b].status # "free" /\ ~ Visible(b, call[r].rule)
  /\ call[r].pc \in {"links", "events"} => \A b \in call[r].rows : belief[b].status # "free"
  /\ call[r].pc = "events" => \A b \in call[r].rows \cap hidden[r] :
       Exists(b) => ~ Passes(call[r].rule, call[r].links[b], belief[b].born)
  /\ call[r].pc \in {"record", "leave"} /\ call[r].section = "beliefs" =>
       \A b \in call[r].kept \cap hidden[r] : belief[b].status = "gone"
NoHistories == "history" \notin budget.kinds /\ \A r \in Reader : call[r].kind # "history"
WithheldStand == WithheldStaysWithheld /\ NoHistories /\ \A r \in Reader : WithheldFrom(r)

\* An export has sent, or is about to send, what it owes of the beliefs up to its cursor.
OwedBy(r) == {b \in Id : <<"beliefs", b>> \in owed[r]}
SentBy(r) == {b \in Id : <<"beliefs", b>> \in call[r].sent}
Whole(r) ==
  /\ owed[r] \subseteq Everything
  /\ \A b \in OwedBy(r) : Exists(b)
  /\ call[r].pc = "whole" => call[r].section = "evidence"
  /\ call[r].section = "evidence" => OwedBy(r) \subseteq SentBy(r)
  /\ call[r].section = "beliefs" =>
       /\ call[r].pc \in {"decide", "rule", "rows", "links", "events"} =>
            \A b \in OwedBy(r) : b <= call[r].cursor => b \in SentBy(r)
       /\ call[r].pc \in {"links", "events"} =>
            \A b \in OwedBy(r) : \/ b <= call[r].cursor \/ b \in call[r].rows
                                 \/ IsFull(call[r]) /\ Max(call[r].rows) < b
       /\ call[r].pc = "events" => \A b \in OwedBy(r) \cap call[r].rows :
            Passes(call[r].rule, call[r].links[b], belief[b].born)
       /\ call[r].pc \in {"record", "leave"} =>
            \A b \in OwedBy(r) : b \in SentBy(r) \/ b \in call[r].kept \/ call[r].next < b
ExportsStand ==
  \A r \in Reader : /\ Walking(call[r]) => Whole(r)
                    /\ call[r].pc = "whole" => call[r].kind = "export"

-----------------------------------------------------------------------------
(* Ids, pages.                                                               *)

LEMMA LeastOne ==
  ASSUME NEW S, S \subseteq Nat, S # {}
  PROVE  \E m \in S : \A k \in S : m <= k
<1> DEFINE R == OpToRel(<, Nat)
<1>1. IsWellFoundedOn(R, Nat)
  BY NatLessThanWellFounded
<1>2. \A x, y \in Nat : x < y => <<x, y>> \in R
  BY DEF OpToRel
<1> HIDE DEF R
<1>3. PICK m \in S : \A y \in S : ~(<<y, m>> \in R)
  BY <1>1, WFMin
<1>4. \A k \in S : ~(k < m)
  BY <1>2, <1>3
<1> QED
  BY <1>3, <1>4

LEMMA IdSet ==
  /\ NBelief \in Nat /\ Id \subseteq Nat \ {0} /\ IsFiniteSet(Id)
  /\ \A b \in Id : b <= NBelief
<1>1. NBelief \in Nat
  BY BoundsAssumption
<1>2. IsFiniteSet(1..NBelief)
  BY <1>1, FS_Interval
<1> QED
  BY <1>1, <1>2 DEF Id

\* A set of ids that is not empty has a greatest one.
LEMMA GreatestId ==
  ASSUME NEW S, S \subseteq Id, S # {}
  PROVE  Max(S) \in S /\ \A k \in S : k <= Max(S)
<1> DEFINE T == {NBelief - k : k \in S}
<1>1. T \subseteq Nat /\ T # {}
  <2>1. \A k \in S : NBelief - k \in Nat
    BY IdSet
  <2> QED
    BY <2>1
<1>2. PICK t \in T : \A u \in T : t <= u
  BY <1>1, LeastOne
<1>3. PICK m \in S : t = NBelief - m
  BY <1>2
<1>4. \A k \in S : m >= k
  <2> SUFFICES ASSUME NEW k \in S PROVE m >= k
    OBVIOUS
  <2>1. NBelief - m <= NBelief - k
    BY <1>2, <1>3
  <2> QED
    BY <2>1, IdSet
<1>5. Max(S) \in S /\ \A k \in S : Max(S) >= k
  BY <1>4 DEF Max
<1> QED
  BY <1>5, IdSet

LEMMA IdsFinite ==
  ASSUME NEW S, S \subseteq Id
  PROVE  IsFiniteSet(S) /\ Cardinality(S) \in Nat
BY IdSet, FS_Subset, FS_CardinalityType

LEMMA FewerIds ==
  ASSUME NEW S, NEW T, S \subseteq Id, T \subseteq S
  PROVE  Cardinality(T) <= Cardinality(S)
BY IdsFinite, FS_Subset

\* What a page leaves out lies above it, and the page is full then.
LEMMA PageIsFirst ==
  ASSUME NEW S, S \subseteq Id
  PROVE  /\ FirstOf(S) \subseteq S
         /\ \A b \in S \ FirstOf(S) :
              Cardinality(FirstOf(S)) = PageSize /\ Max(FirstOf(S)) < b
<1> DEFINE F == FirstOf(S)
           Below(b) == {j \in S : j < b}
<1>1. F \subseteq S /\ F = {i \in S : Cardinality(Below(i)) < PageSize}
  BY DEF FirstOf
<1>2. PageSize \in Nat \ {0} /\ S \subseteq Nat
  BY SizesAssumption, IdSet
<1>3. \A i : IsFiniteSet(Below(i)) /\ Cardinality(Below(i)) \in Nat
  BY IdsFinite
<1>4. IsFiniteSet(F) /\ Cardinality(F) \in Nat
  BY <1>1, IdsFinite
<1> HIDE DEF F
<1> SUFFICES ASSUME NEW b \in S \ F
             PROVE  Cardinality(F) = PageSize /\ Max(F) < b
  BY <1>1 DEF F
<1>5. \A i \in F : i < b
  <2> SUFFICES ASSUME NEW i \in F, b <= i PROVE FALSE
    BY <1>1, <1>2
  <2>1. \A j \in S : j < b => j < i
    BY <1>1, <1>2
  <2>2. Cardinality(Below(b)) <= Cardinality(Below(i))
    <3>1. Below(b) \subseteq Below(i) /\ Below(i) \subseteq Id
      BY <2>1
    <3> HIDE DEF Below
    <3> QED
      BY <3>1, FewerIds
  <2>3. Cardinality(Below(i)) < PageSize /\ ~ (Cardinality(Below(b)) < PageSize)
    BY <1>1
  <2> QED
    BY <1>2, <1>3, <2>2, <2>3
<1>6. Cardinality(F) >= PageSize
  <2>1. PICK m \in S \ F : \A k \in S \ F : m <= k
    BY <1>2, LeastOne
  <2>2. \A j \in S : j < m => j \in F
    BY <1>2, <2>1
  <2>3. Cardinality(Below(m)) <= Cardinality(F)
    <3>1. Below(m) \subseteq F /\ F \subseteq Id
      BY <1>1, <2>2
    <3> HIDE DEF Below
    <3> QED
      BY <3>1, FewerIds
  <2>4. ~ (Cardinality(Below(m)) < PageSize)
    BY <1>1, <2>1
  <2> QED
    BY <1>2, <1>3, <1>4, <2>3, <2>4
<1>7. F # {}
  BY <1>2, <1>4, <1>6, FS_EmptySet
<1>8. Max(F) \in F /\ \A k \in F : k <= Max(F)
  BY <1>1, <1>7, GreatestId
<1>9. Cardinality(F) <= PageSize
  <2> DEFINE B == Below(Max(F))
  <2>1. F \ {Max(F)} \subseteq B /\ B \subseteq Id
    <3>1. ASSUME NEW k \in F, k # Max(F) PROVE k < Max(F)
      <4>1. k \in Nat /\ Max(F) \in Nat /\ k <= Max(F)
        BY <1>1, <1>2, <1>8
      <4> QED
        BY <3>1, <4>1
    <3> QED
      BY <1>1, <3>1
  <2>2. Cardinality(F \ {Max(F)}) = Cardinality(F) - 1
    BY <1>4, <1>8, FS_RemoveElement
  <2>3. Cardinality(B) < PageSize /\ IsFiniteSet(B) /\ Cardinality(B) \in Nat
    BY <1>1, <1>3, <1>8
  <2> HIDE DEF B
  <2>4. Cardinality(F) - 1 <= Cardinality(B)
    BY <2>1, <2>2, FewerIds
  <2> QED
    BY <1>2, <1>4, <2>3, <2>4
<1> QED
  BY <1>2, <1>4, <1>5, <1>6, <1>8, <1>9

-----------------------------------------------------------------------------
(* The steps of a read, as what they do to its call.                         *)

Others(r) == \A s \in Reader \ {r} : call'[s] = call[s]
\* the read goes on: who reads, what it was decided on, and how far an export has come
SameReader(r) ==
  /\ call'[r].kind = call[r].kind /\ call'[r].purpose = call[r].purpose /\ call'[r].n = call[r].n
  /\ call'[r].target = call[r].target /\ call'[r].section = call[r].section
  /\ call'[r].cursor = call[r].cursor /\ call'[r].sent = call[r].sent
SameDecision(r) == call'[r].version = call[r].version /\ call'[r].late = call[r].late
Typing(r) == call' \in [Reader -> Call] /\ Others(r)

LEMMA SetTo ==
  ASSUME Typed, NEW r \in Reader, NEW c \in Call, Set(r, c)
  PROVE  Typing(r) /\ call'[r] = c
BY DEF Typed, ReadsTyped, Set, Typing, Others

LEMMA CallFields ==
  ASSUME Typed, NEW r \in Reader
  PROVE  /\ call[r] \in Call
         /\ call[r].pc \in Stage /\ call[r].kind \in Entry
         /\ call[r].n \in Nat /\ call[r].version \in Nat /\ call[r].late \in Nat
         /\ call[r].rule \subseteq Purpose /\ call[r].rows \subseteq Id /\ call[r].kept \subseteq Id
         /\ call[r].links \in [Id -> SUBSET (Source \cup {Nobody})]
         /\ call[r].section \in Section /\ call[r].cursor \in Nat /\ call[r].next \in Nat
         /\ call[r].sent \subseteq Section \X Id
         /\ call[r].pc # "idle" => call[r].purpose \in Purpose /\ call[r].target \in Id
<1>1. call[r] \in Call
  BY DEF Typed, ReadsTyped
<1> QED
  BY <1>1 DEF Typed, ReadsTyped, Call

LEMMA GrantFields ==
  ASSUME Typed, NEW p \in Purpose
  PROVE  /\ grant[p] \in GrantRow /\ grant[p].version \in Nat /\ grant[p].ops \subseteq Operation
         /\ grant[p].revoked \in BOOLEAN /\ grant[p].expired \in BOOLEAN
<1>1. grant[p] \in GrantRow
  BY DEF Typed, GrantsTyped
<1> QED
  BY <1>1 DEF GrantRow

LEMMA BeliefFields ==
  ASSUME Typed, NEW b \in Id
  PROVE  /\ belief[b] \in Belief /\ belief[b].status \in {"free", "live", "gone"}
         /\ belief[b].links \subseteq Id /\ belief[b].born \subseteq Source
<1>1. belief[b] \in Belief
  BY DEF Typed, StoreTyped
<1> QED
  BY <1>1 DEF Belief

LEMMA IdleCall ==
  /\ Idle \in Call /\ Idle.pc = "idle" /\ Idle.kind = "list" /\ Idle.section = "beliefs"
  /\ Idle.cursor = 0 /\ Idle.late = 0 /\ Idle.rule = {}
BY DEF Idle, Call, Stage, Entry, Section

Begun(d, k, p, b, m) ==
  [d EXCEPT !.pc = "decide", !.kind = k, !.purpose = p, !.target = b, !.n = m]

LEMMA BegunCall ==
  ASSUME NEW d \in Call, NEW k \in Entry, NEW p \in Purpose, NEW b \in Nat, NEW m \in Nat
  PROVE  LET c == Begun(d, k, p, b, m) IN
         /\ c \in Call /\ c.pc = "decide" /\ c.kind = k /\ c.purpose = p /\ c.n = m /\ c.target = b
         /\ c.sent = d.sent /\ c.late = d.late /\ c.section = d.section /\ c.cursor = d.cursor
BY DEF Begun, Call, Stage

LEMMA BeginReadStep ==
  ASSUME Typed, NEW r \in Reader, BeginRead(r)
  PROVE  /\ Typing(r) /\ call[r].pc = "idle" /\ reads' = reads + 1
         /\ call'[r].pc = "decide" /\ call'[r].kind \in budget.kinds
         /\ call'[r].purpose \in Purpose /\ call'[r].target \in Id /\ call'[r].n = reads + 1
         /\ call'[r].late = 0 /\ call'[r].section = "beliefs" /\ call'[r].cursor = 0
<1>1. PICK k \in budget.kinds, p \in Purpose, b \in Id : Set(r, Begun(Idle, k, p, b, reads + 1))
  BY DEF BeginRead, Begun
<1>2. k \in Entry /\ b \in Nat /\ reads + 1 \in Nat
  BY IdSet DEF Typed, ReadsTyped, Mixture
<1> DEFINE c == Begun(Idle, k, p, b, reads + 1)
<1>3. /\ c \in Call /\ c.pc = "decide" /\ c.kind = k /\ c.purpose = p /\ c.n = reads + 1
      /\ c.target = b /\ c.late = Idle.late /\ c.section = Idle.section /\ c.cursor = Idle.cursor
  BY <1>2, IdleCall, BegunCall
<1>4. Set(r, c)
  BY <1>1
<1> HIDE DEF c
<1> QED
  BY <1>3, <1>4, IdleCall, SetTo DEF BeginRead, At

LEMMA DecideStep ==
  ASSUME Typed, NEW r \in Reader, Decide(r)
  PROVE  /\ Typing(r) /\ SameReader(r) /\ call[r].pc = "decide"
         /\ call'[r].pc = (IF Decides(r) THEN "rule" ELSE "deny")
         /\ call'[r].version = grant[call[r].purpose].version
         /\ call'[r].late = (IF Live(call[r].purpose) THEN 0 ELSE call[r].late)
<1>1. call[r] \in Call /\ call[r].purpose \in Purpose /\ call[r].pc = "decide"
  BY CallFields DEF Decide, At
<1>2. grant[call[r].purpose].version \in Nat
  BY <1>1, GrantFields
<1> DEFINE c == [call[r] EXCEPT !.version = grant[call[r].purpose].version,
                   !.late = IF Live(call[r].purpose) THEN 0 ELSE @,
                   !.pc = IF Decides(r) THEN "rule" ELSE "deny"]
<1>3. Set(r, c)
  BY DEF Decide
<1>4. /\ c \in Call /\ c.pc = (IF Decides(r) THEN "rule" ELSE "deny")
      /\ c.version = grant[call[r].purpose].version
      /\ c.late = (IF Live(call[r].purpose) THEN 0 ELSE call[r].late)
      /\ c.kind = call[r].kind /\ c.purpose = call[r].purpose /\ c.n = call[r].n
      /\ c.target = call[r].target /\ c.section = call[r].section /\ c.cursor = call[r].cursor
      /\ c.sent = call[r].sent
  BY <1>1, <1>2 DEF Call, Stage
<1> HIDE DEF c
<1> QED
  BY <1>1, <1>3, <1>4, SetTo DEF SameReader

\* What FetchBeliefs and FetchEvidence find.
Rows(r) ==
  IF call[r].kind = "export" THEN FirstOf(Fetched(r)) ELSE {b \in {call[r].target} : Exists(b)}
FoundRows(r) == FirstOf(Above({e \in Id : evidence[e] # Nobody}, call[r].cursor))
Found(r) == {e \in FoundRows(r) : Shown(call[r].rule, evidence[e])}

LEMMA ReadRuleStep ==
  ASSUME Typed, NEW r \in Reader, ReadRule(r)
  PROVE  /\ Typing(r) /\ SameReader(r) /\ SameDecision(r)
         /\ call'[r].rows = call[r].rows /\ call'[r].links = call[r].links
         /\ call'[r].kept = call[r].kept
         /\ call'[r].rule = LivePurposes
         /\ call'[r].pc = "rows"
         /\ call[r].pc = "rule"
<1>1. call[r] \in Call
  BY CallFields
<1>2. LivePurposes \subseteq Purpose
  BY DEF LivePurposes
<1> DEFINE c == [call[r] EXCEPT !.rule = LivePurposes, !.pc = "rows"]
<1>3. Set(r, c)
  BY DEF ReadRule
<1>4. /\ c \in Call
      /\ c.rule = LivePurposes
      /\ c.pc = "rows"
      /\ c.kind = call[r].kind /\ c.purpose = call[r].purpose /\ c.n = call[r].n
      /\ c.target = call[r].target /\ c.section = call[r].section /\ c.cursor = call[r].cursor
      /\ c.sent = call[r].sent /\ c.version = call[r].version /\ c.late = call[r].late
      /\ c.rows = call[r].rows /\ c.links = call[r].links /\ c.kept = call[r].kept
  BY <1>1, <1>2 DEF Call, Stage
<1> HIDE DEF c
<1> QED
  BY <1>3, <1>4, SetTo DEF SameReader, SameDecision, ReadRule, At

LEMMA ListStep ==
  ASSUME Typed, NEW r \in Reader, List(r)
  PROVE  /\ Typing(r) /\ SameReader(r) /\ SameDecision(r)
         /\ call'[r].rule = call[r].rule
         /\ call'[r].kept = {b \in Id : Visible(b, call[r].rule)}
         /\ call'[r].pc = "record"
         /\ call[r].pc = "rows" /\ call[r].kind = "list"
<1>1. call[r] \in Call
  BY CallFields
<1>2. {b \in Id : Visible(b, call[r].rule)} \subseteq Id
  OBVIOUS
<1> DEFINE c == [call[r] EXCEPT !.kept = {b \in Id : Visible(b, call[r].rule)}, !.pc = "record"]
<1>3. Set(r, c)
  BY DEF List
<1>4. /\ c \in Call
      /\ c.kept = {b \in Id : Visible(b, call[r].rule)}
      /\ c.pc = "record"
      /\ c.kind = call[r].kind /\ c.purpose = call[r].purpose /\ c.n = call[r].n
      /\ c.target = call[r].target /\ c.section = call[r].section /\ c.cursor = call[r].cursor
      /\ c.sent = call[r].sent /\ c.version = call[r].version /\ c.late = call[r].late
      /\ c.rule = call[r].rule
  BY <1>1, <1>2 DEF Call, Stage
<1> HIDE DEF c
<1> QED
  BY <1>3, <1>4, SetTo DEF SameReader, SameDecision, List, At

LEMMA ReadLinksStep ==
  ASSUME Typed, NEW r \in Reader, ReadLinks(r)
  PROVE  /\ Typing(r) /\ SameReader(r) /\ SameDecision(r)
         /\ call'[r].rule = call[r].rule /\ call'[r].rows = call[r].rows
         /\ call'[r].pc = "events"
         /\ call'[r].links = [b \in Id |-> IF b \in call[r].rows THEN Linked(b) ELSE {}]
         /\ call[r].pc = "links"
<1>1. call[r] \in Call
  BY CallFields
<1>2. [b \in Id |-> IF b \in call[r].rows THEN Linked(b) ELSE {}]
        \in [Id -> SUBSET (Source \cup {Nobody})]
  <2>1. \A b \in Id : Linked(b) \subseteq Source \cup {Nobody}
    <3> SUFFICES ASSUME NEW b \in Id, NEW e \in belief[b].links
                 PROVE  evidence[e] \in Source \cup {Nobody}
      BY DEF Linked
    <3>1. e \in Id
      BY BeliefFields
    <3> QED
      BY <3>1 DEF Typed, StoreTyped
  <2> QED
    BY <2>1
<1> DEFINE c == [call[r] EXCEPT
                     !.pc = "events",
                     !.links = [b \in Id |-> IF b \in call[r].rows THEN Linked(b) ELSE {}]]
<1>3. Set(r, c)
  BY DEF ReadLinks
<1>4. /\ c \in Call
      /\ c.pc = "events"
      /\ c.links = [b \in Id |-> IF b \in call[r].rows THEN Linked(b) ELSE {}]
      /\ c.kind = call[r].kind /\ c.purpose = call[r].purpose /\ c.n = call[r].n
      /\ c.target = call[r].target /\ c.section = call[r].section /\ c.cursor = call[r].cursor
      /\ c.sent = call[r].sent /\ c.version = call[r].version /\ c.late = call[r].late
      /\ c.rule = call[r].rule /\ c.rows = call[r].rows
  BY <1>1, <1>2 DEF Call, Stage
<1> HIDE DEF c
<1> QED
  BY <1>3, <1>4, SetTo DEF SameReader, SameDecision, ReadLinks, At

LEMMA RecordStep ==
  ASSUME Typed, NEW r \in Reader, Record(r)
  PROVE  /\ Typing(r) /\ SameReader(r) /\ SameDecision(r)
         /\ call'[r].rule = call[r].rule /\ call'[r].rows = call[r].rows
         /\ call'[r].kept = call[r].kept /\ call'[r].next = call[r].next
         /\ call'[r].pc = "leave"
         /\ call[r].pc = "record"
<1>1. call[r] \in Call
  BY CallFields
<1> DEFINE c == [call[r] EXCEPT !.pc = "leave"]
<1>3. Set(r, c)
  BY DEF Record
<1>4. /\ c \in Call
      /\ c.pc = "leave"
      /\ c.kind = call[r].kind /\ c.purpose = call[r].purpose /\ c.n = call[r].n
      /\ c.target = call[r].target /\ c.section = call[r].section /\ c.cursor = call[r].cursor
      /\ c.sent = call[r].sent /\ c.version = call[r].version /\ c.late = call[r].late
      /\ c.rule = call[r].rule /\ c.rows = call[r].rows /\ c.kept = call[r].kept
      /\ c.next = call[r].next
  BY <1>1 DEF Call, Stage
<1> HIDE DEF c
<1> QED
  BY <1>3, <1>4, SetTo DEF SameReader, SameDecision, Record, At

LEMMA FetchBeliefsStep ==
  ASSUME Typed, NEW r \in Reader, FetchBeliefs(r)
  PROVE  /\ Typing(r) /\ SameReader(r) /\ SameDecision(r)
         /\ call'[r].rule = call[r].rule
         /\ call'[r].pc = "links"
         /\ call'[r].rows = Rows(r)
         /\ call[r].pc = "rows" /\ call[r].section = "beliefs" /\ call[r].kind # "list"
         /\ \A b \in call'[r].rows : b \in Id /\ Exists(b)
<1>1. call[r] \in Call
  BY CallFields
<1>0. call[r].target \in Id /\ call[r].pc = "rows"
  BY CallFields DEF FetchBeliefs, At
<1>2. Rows(r) \subseteq Id /\ \A b \in Rows(r) : Exists(b)
  <2>1. Fetched(r) \subseteq Id /\ \A b \in Fetched(r) : Exists(b)
    BY DEF Fetched, Above
  <2>2. FirstOf(Fetched(r)) \subseteq Fetched(r)
    BY <2>1, PageIsFirst
  <2> QED
    BY <1>0, <2>1, <2>2 DEF Rows
<1> DEFINE c == [call[r] EXCEPT !.pc = "links", !.rows = Rows(r)]
<1>3. Set(r, c)
  BY DEF FetchBeliefs, Rows
<1>4. /\ c \in Call
      /\ c.pc = "links"
      /\ c.rows = Rows(r)
      /\ c.kind = call[r].kind /\ c.purpose = call[r].purpose /\ c.n = call[r].n
      /\ c.target = call[r].target /\ c.section = call[r].section /\ c.cursor = call[r].cursor
      /\ c.sent = call[r].sent /\ c.version = call[r].version /\ c.late = call[r].late
      /\ c.rule = call[r].rule
  BY <1>1, <1>2 DEF Call, Stage
<1> HIDE DEF c
<1> QED
  BY <1>2, <1>3, <1>4, SetTo DEF SameReader, SameDecision, FetchBeliefs, At

LEMMA ReadEventsStep ==
  ASSUME Typed, NEW r \in Reader, ReadEvents(r)
  PROVE  /\ Typing(r) /\ SameReader(r) /\ SameDecision(r)
         /\ call'[r].rule = call[r].rule /\ call'[r].rows = call[r].rows
         /\ call'[r].pc = "record"
         /\ call'[r].kept = Content(call[r].kind, Passed(call[r]))
         /\ call'[r].next = Cursor(call[r].rows, IsFull(call[r]), EndOfSection)
         /\ call[r].pc = "events"
<1>1. call[r] \in Call
  BY CallFields
<1>2. /\ Content(call[r].kind, Passed(call[r])) \subseteq Id
      /\ Cursor(call[r].rows, IsFull(call[r]), EndOfSection) \in Nat
  <2>1. call[r].rows \subseteq Id
    BY CallFields
  <2>2. Content(call[r].kind, Passed(call[r])) \subseteq Id
    BY <2>1 DEF Content, Passed
  <2>3. ASSUME IsFull(call[r]) PROVE Max(call[r].rows) \in Nat
    <3>1. call[r].rows # {}
      BY <2>3, SizesAssumption, FS_EmptySet DEF IsFull
    <3> QED
      BY <2>1, <3>1, GreatestId, IdSet
  <2>4. EndOfSection \in Nat
    BY IdSet DEF EndOfSection
  <2> QED
    BY <2>2, <2>3, <2>4 DEF Cursor
<1> DEFINE c == [call[r] EXCEPT !.pc = "record",
                                !.kept = Content(call[r].kind, Passed(call[r])),
                                !.next = Cursor(call[r].rows, IsFull(call[r]), EndOfSection)]
<1>3. Set(r, c)
  BY DEF ReadEvents
<1>4. /\ c \in Call
      /\ c.pc = "record"
      /\ c.kept = Content(call[r].kind, Passed(call[r]))
      /\ c.next = Cursor(call[r].rows, IsFull(call[r]), EndOfSection)
      /\ c.kind = call[r].kind /\ c.purpose = call[r].purpose /\ c.n = call[r].n
      /\ c.target = call[r].target /\ c.section = call[r].section /\ c.cursor = call[r].cursor
      /\ c.sent = call[r].sent /\ c.version = call[r].version /\ c.late = call[r].late
      /\ c.rule = call[r].rule /\ c.rows = call[r].rows
  BY <1>1, <1>2 DEF Call, Stage
<1> HIDE DEF c
<1> QED
  BY <1>3, <1>4, SetTo DEF SameReader, SameDecision, ReadEvents, At

LEMMA FetchEvidenceStep ==
  ASSUME Typed, NEW r \in Reader, FetchEvidence(r)
  PROVE  /\ Typing(r) /\ SameReader(r) /\ SameDecision(r)
         /\ call'[r].rule = call[r].rule
         /\ call'[r].pc = "record"
         /\ call'[r].rows = Found(r)
         /\ call'[r].kept = Found(r)
         /\ call'[r].next = Cursor(FoundRows(r), Cardinality(Found(r)) = PageSize, EndOfSection)
         /\ call[r].pc = "rows" /\ call[r].section = "evidence"
<1>1. call[r] \in Call
  BY CallFields
<1>2. /\ Found(r) \subseteq Id
      /\ Cursor(FoundRows(r), Cardinality(Found(r)) = PageSize, EndOfSection) \in Nat
  <2>1. FoundRows(r) \subseteq Id
    <3>1. Above({e \in Id : evidence[e] # Nobody}, call[r].cursor) \subseteq Id
      BY DEF Above
    <3> QED
      BY <3>1, PageIsFirst DEF FoundRows
  <2>2. Found(r) \subseteq FoundRows(r)
    BY DEF Found
  <2>3. ASSUME Cardinality(Found(r)) = PageSize PROVE Max(FoundRows(r)) \in Nat
    <3>1. Found(r) # {}
      BY <2>3, SizesAssumption, FS_EmptySet
    <3> QED
      BY <2>1, <2>2, <3>1, GreatestId, IdSet
  <2>4. EndOfSection \in Nat
    BY IdSet DEF EndOfSection
  <2> QED
    BY <2>1, <2>2, <2>3, <2>4 DEF Cursor
<1> DEFINE c == [call[r] EXCEPT
                     !.pc = "record",
                     !.rows = Found(r),
                     !.kept = Found(r),
                     !.next = Cursor(FoundRows(r), Cardinality(Found(r)) = PageSize, EndOfSection)]
<1>3. Set(r, c)
  BY DEF FetchEvidence, FoundRows, Found
<1>4. /\ c \in Call
      /\ c.pc = "record"
      /\ c.rows = Found(r)
      /\ c.kept = Found(r)
      /\ c.next = Cursor(FoundRows(r), Cardinality(Found(r)) = PageSize, EndOfSection)
      /\ c.kind = call[r].kind /\ c.purpose = call[r].purpose /\ c.n = call[r].n
      /\ c.target = call[r].target /\ c.section = call[r].section /\ c.cursor = call[r].cursor
      /\ c.sent = call[r].sent /\ c.version = call[r].version /\ c.late = call[r].late
      /\ c.rule = call[r].rule
  BY <1>1, <1>2 DEF Call, Stage
<1> HIDE DEF c
<1> QED
  BY <1>3, <1>4, SetTo DEF SameReader, SameDecision, FetchEvidence, At

LEMMA CommitFailsStep ==
  ASSUME Typed, NEW r \in Reader, CommitFails(r)
  PROVE  Typing(r) /\ call'[r] = Idle /\ call[r].pc \in {"record", "deny"}
<1>1. Set(r, Idle)
  BY DEF CommitFails, Answers
<1> QED
  BY <1>1, SetTo, IdleCall DEF CommitFails

LEMMA DenyStep ==
  ASSUME Typed, NEW r \in Reader, Deny(r)
  PROVE  Typing(r) /\ call'[r] = Idle /\ call[r].pc = "deny"
BY SetTo, IdleCall DEF Deny, At

LEMMA ReturnStep ==
  ASSUME Typed, NEW r \in Reader, Return(r)
  PROVE  Typing(r) /\ call'[r] = Idle /\ call[r].pc = "leave"
BY SetTo, IdleCall DEF Return, At

LEMMA DoneStep ==
  ASSUME Typed, NEW r \in Reader, Done(r)
  PROVE  Typing(r) /\ call'[r] = Idle /\ call[r].pc \in {"leave", "whole"}
BY SetTo, IdleCall DEF Done, At

\* A call between two pages.
Between(d, s, m, none, l) ==
  [d EXCEPT !.pc = "decide", !.sent = s, !.n = m, !.kept = {}, !.rows = {},
            !.links = none, !.rule = {}, !.late = l]

\* What a page hands over, and when it was decided.
Given(r) == call[r].sent \cup {<<call[r].section, i>> : i \in call[r].kept}
Lateness(r) == IF Live(call[r].purpose) THEN 0 ELSE call[r].late + 1
Turned(r) == Between(call[r], Given(r), reads + 1, [b \in Id |-> {}], Lateness(r))

LEMMA TurnedCall ==
  ASSUME Typed, NEW r \in Reader, Page(r)
  PROVE  LET m == Turned(r) IN
         /\ m \in Call /\ m.pc = "decide" /\ m.sent = Given(r) /\ m.n = reads + 1 /\ m.rule = {}
         /\ m.late = Lateness(r) /\ m.kind = call[r].kind /\ m.purpose = call[r].purpose
         /\ m.target = call[r].target /\ m.section = call[r].section
<1>1. call[r] \in Call
  BY CallFields
<1>2. /\ Given(r) \in SUBSET (Section \X Id) /\ reads + 1 \in Nat /\ Lateness(r) \in Nat
      /\ [b \in Id |-> {}] \in [Id -> SUBSET (Source \cup {Nobody})]
  BY CallFields DEF Typed, ReadsTyped, Given, Lateness
<1> QED
  BY <1>1, <1>2 DEF Turned, Between, Call, Stage

LEMMA PageStep ==
  ASSUME Typed, NEW r \in Reader, Page(r)
  PROVE  /\ Typing(r) /\ call[r].pc = "leave" /\ call[r].kind = "export" /\ reads' = reads + 1
         /\ call'[r].pc = "decide" /\ call'[r].kind = "export"
         /\ call'[r].purpose = call[r].purpose /\ call'[r].target = call[r].target
         /\ call'[r].n = reads + 1 /\ call'[r].rule = {} /\ call'[r].late = Lateness(r)
         /\ call'[r].sent = Given(r)
         /\ \/ /\ call[r].next < EndOfSection
               /\ call'[r].section = call[r].section /\ call'[r].cursor = call[r].next
            \/ /\ call[r].next = EndOfSection /\ call[r].section = "beliefs"
               /\ call'[r].section = "evidence"
<1>1. call[r] \in Call /\ call[r].next \in Nat
  BY CallFields
<1> DEFINE m == Turned(r)
           near == [m EXCEPT !.cursor = call[r].next]
           far == [m EXCEPT !.cursor = 0, !.section = "evidence"]
<1>3. /\ m \in Call /\ m.pc = "decide" /\ m.sent = Given(r) /\ m.n = reads + 1 /\ m.rule = {}
      /\ m.late = Lateness(r) /\ m.kind = call[r].kind /\ m.purpose = call[r].purpose
      /\ m.target = call[r].target /\ m.section = call[r].section
  BY TurnedCall
<1>4. \/ call[r].next < EndOfSection /\ Set(r, near)
      \/ call[r].next = EndOfSection /\ call[r].section = "beliefs" /\ Set(r, far)
  BY DEF Page, Turned, Between, Given, Lateness
<1>5. call[r].pc = "leave" /\ call[r].kind = "export" /\ reads' = reads + 1
  BY DEF Page, At
<1> HIDE DEF m
<1>6. /\ near \in Call /\ near.pc = m.pc /\ near.sent = m.sent /\ near.n = m.n
      /\ near.rule = m.rule /\ near.late = m.late /\ near.kind = m.kind
      /\ near.purpose = m.purpose /\ near.target = m.target /\ near.section = m.section
      /\ near.cursor = call[r].next
  BY <1>1, <1>3 DEF Call
<1>7. /\ far \in Call /\ far.pc = m.pc /\ far.sent = m.sent /\ far.n = m.n
      /\ far.rule = m.rule /\ far.late = m.late /\ far.kind = m.kind
      /\ far.purpose = m.purpose /\ far.target = m.target /\ far.section = "evidence"
  BY <1>1, <1>3 DEF Call, Section
<1> HIDE DEF near, far
<1>8. CASE call[r].next < EndOfSection /\ Set(r, near)
  BY <1>3, <1>5, <1>6, <1>8, SetTo
<1>9. CASE call[r].next = EndOfSection /\ call[r].section = "beliefs" /\ Set(r, far)
  BY <1>3, <1>5, <1>7, <1>9, SetTo
<1> QED
  BY <1>4, <1>8, <1>9

LEMMA LastPageStep ==
  ASSUME Typed, NEW r \in Reader, LastPage(r)
  PROVE  /\ Typing(r) /\ call[r].pc = "leave" /\ call[r].kind = "export"
         /\ call[r].section = "evidence" /\ call'[r].pc = "whole" /\ call'[r].kind = "export"
         /\ call'[r].purpose = call[r].purpose /\ call'[r].target = call[r].target
         /\ call'[r].n = call[r].n /\ call'[r].late = call[r].late /\ call'[r].rule = call[r].rule
         /\ call'[r].section = "evidence" /\ call[r].sent \subseteq call'[r].sent
<1>1. call[r] \in Call
  BY CallFields
<1> DEFINE sent == call[r].sent \cup {<<"evidence", i>> : i \in call[r].kept}
           c == [call[r] EXCEPT !.pc = "whole", !.kept = {}, !.rows = {}, !.sent = sent]
<1>2. sent \subseteq Section \X Id /\ call[r].sent \subseteq sent
  BY CallFields DEF Section
<1>3. /\ Set(r, c) /\ call[r].pc = "leave" /\ call[r].kind = "export"
      /\ call[r].section = "evidence"
  BY DEF LastPage, At
<1> HIDE DEF sent
<1>4. /\ c \in Call /\ c.pc = "whole" /\ c.kind = call[r].kind /\ c.purpose = call[r].purpose
      /\ c.target = call[r].target /\ c.n = call[r].n /\ c.late = call[r].late
      /\ c.rule = call[r].rule /\ c.section = call[r].section /\ c.sent = sent
  BY <1>1, <1>2 DEF Call, Stage
<1> HIDE DEF c
<1> QED
  BY <1>2, <1>3, <1>4, SetTo

-----------------------------------------------------------------------------
(* The types.                                                                *)

Counter == {"changes", "collects", "forgets", "reads", "faults", "ages"}

LEMMA SpendTyped ==
  ASSUME Typed, NEW c \in Counter, Spend(c)
  PROVE  budget' \in Mixture /\ budget'.kinds = budget.kinds
<1>1. budget \in Mixture /\ budget' = [budget EXCEPT ![c] = budget[c] - 1] /\ budget[c] > 0
  BY DEF Typed, Spend
<1>2. c = "changes" \/ c = "collects" \/ c = "forgets" \/ c = "reads" \/ c = "faults" \/ c = "ages"
  BY DEF Counter
<1> QED
  BY <1>1, <1>2 DEF Mixture

\* The rows a call may be recorded with.
IdsFor(r, d) == IF d = "allowed" THEN Ids(call[r]) ELSE {}
RowsFor(r, d) == RowsOf(call[r], IdsFor(r, d), d)

LEMMA IdsTyped ==
  ASSUME Typed, NEW r \in Reader, call[r].pc # "idle"
  PROVE  Ids(call[r]) \subseteq Id
<1>1. call[r].rows \subseteq Id /\ call[r].kept \subseteq Id /\ call[r].target \in Id
  BY CallFields DEF Typed, ReadsTyped
<1>2. CASE call[r].kind = "export"
  BY <1>1, <1>2 DEF Ids
<1>3. CASE call[r].kind = "history"
  BY <1>1, <1>3 DEF Ids
<1>4. CASE call[r].kind # "export" /\ call[r].kind # "history"
  BY <1>1, <1>4 DEF Ids
<1> QED
  BY <1>2, <1>3, <1>4

\* The row of a call names it, and ids as far as it may.
LEMMA RowTyped ==
  ASSUME Typed, NEW r \in Reader, call[r].pc # "idle", NEW d \in Decisions,
         NEW row \in RowsFor(r, d)
  PROVE  /\ row \in AuditRow /\ row.n = call[r].n /\ row.decision = d
         /\ row.purpose = call[r].purpose /\ row.version = call[r].version
         /\ row.op = Needs(call[r].kind) /\ row.entry = call[r].kind
         /\ d = "denied" => row.ids = {} /\ row.count = 0
         /\ d = "allowed" =>
              /\ row.count = Cardinality(Ids(call[r]))
              /\ IF row.count <= MaxIds THEN row.ids = Ids(call[r])
                 ELSE Cardinality(row.ids) = MaxIds
<1> DEFINE all == IdsFor(r, d)
           count == Cardinality(all)
           Made(ids) == [n |-> call[r].n, decision |-> d, entry |-> call[r].kind,
                         purpose |-> call[r].purpose, version |-> call[r].version,
                         op |-> Needs(call[r].kind), ids |-> ids, count |-> count, old |-> FALSE]
<1>1. all \subseteq Id /\ Needs(call[r].kind) \in Operation
  BY IdsTyped DEF IdsFor, Needs, Operation
<1>2. count \in Nat /\ (d # "allowed" => count = 0)
  BY <1>1, IdsFinite, FS_EmptySet DEF IdsFor
<1>3. call[r].n \in Nat /\ call[r].purpose \in Purpose /\ call[r].version \in Nat /\ call[r].kind \in Entry
  BY CallFields
<1>5. PICK ids \in Kept(all) : row = Made(ids)
  BY DEF RowsOf, RowsFor
<1>6. ids \subseteq all /\ IF count <= MaxIds THEN ids = all ELSE Cardinality(ids) = MaxIds
  BY <1>5 DEF Kept
<1>7. (d = "denied" => all = {}) /\ (d = "allowed" => all = Ids(call[r]))
  BY DEF IdsFor
<1> HIDE DEF all, count
<1>9. /\ row \in AuditRow /\ row.n = call[r].n /\ row.decision = d
      /\ row.purpose = call[r].purpose /\ row.version = call[r].version
      /\ row.op = Needs(call[r].kind) /\ row.entry = call[r].kind
      /\ row.ids = ids /\ row.count = count
  BY <1>1, <1>2, <1>3, <1>5, <1>6 DEF AuditRow
<1> HIDE DEF Made
<1>10. d = "denied" => row.ids = {} /\ row.count = 0
  BY <1>2, <1>6, <1>7, <1>9
<1>11. d = "allowed" => /\ row.count = Cardinality(Ids(call[r]))
                       /\ IF row.count <= MaxIds THEN row.ids = Ids(call[r])
                          ELSE Cardinality(row.ids) = MaxIds
  BY <1>6, <1>7, <1>9 DEF count
<1> QED
  BY <1>9, <1>10, <1>11

\* A row accounts for what its call returns.
LEMMA RowAccounts ==
  ASSUME Typed, NEW r \in Reader, call[r].pc # "idle", NEW row \in RowsFor(r, "allowed"),
         call[r].kind # "history" => call[r].kept \subseteq Ids(call[r])
  PROVE  Accounts(row, call[r].kept)
<1>1. /\ row.entry = call[r].kind /\ row.count = Cardinality(Ids(call[r]))
      /\ IF row.count <= MaxIds THEN row.ids = Ids(call[r]) ELSE Cardinality(row.ids) = MaxIds
  BY RowTyped DEF Decisions
<1>2. CASE call[r].kind = "history"
  <2>1. Ids(call[r]) \in {{}, {call[r].target}} /\ (call[r].kept # {} => Ids(call[r]) # {})
    BY <1>2 DEF Ids
  <2>2. Cardinality(Ids(call[r])) \in {0, 1}
    BY <2>1, FS_EmptySet, FS_Singleton
  <2>3. row.count <= MaxIds
    BY <1>1, <2>2, SizesAssumption
  <2> QED
    BY <1>1, <1>2, <2>1, <2>3 DEF Accounts
<1>3. CASE call[r].kind # "history"
  <2>1. Cardinality(call[r].kept) <= row.count
    BY <1>1, <1>3, IdsTyped, FewerIds
  <2> QED
    BY <1>1, <1>3, <2>1 DEF Accounts
<1> QED
  BY <1>2, <1>3

LEMMA DeliveredTyped ==
  ASSUME Typed, NEW r \in Reader
  PROVE  /\ Delivered(call[r], r) \in Answer
         /\ Delivered(call[r], r).n = call[r].n /\ ~ Delivered(call[r], r).denied
         /\ Delivered(call[r], r).ids = call[r].kept
         /\ Delivered(call[r], r).leaked
              = (IF call[r].section = "beliefs" THEN call[r].kept \cap hidden[r] ELSE {})
BY CallFields DEF Delivered, Answer

LEMMA ChangeFields ==
  ASSUME Typed, NEW i \in Issuer
  PROVE  /\ issuer[i].expected \in Nat /\ issuer[i].exists \in BOOLEAN
         /\ issuer[i].act \in {"grant", "revoke"} /\ issuer[i].ops \subseteq Operation
<1>1. issuer[i] \in Change
  BY DEF Typed, GrantsTyped
<1> QED
  BY <1>1 DEF Change

\* What a change makes of its row.
LEMMA ChangedTyped ==
  ASSUME Typed, NEW i \in Issuer, issuer[i].purpose \in Purpose
  PROVE  /\ Changed(issuer[i]) \in GrantRow
         /\ Changed(issuer[i]).version
              = (IF issuer[i].act = "revoke" \/ issuer[i].exists THEN issuer[i].expected + 1 ELSE 1)
         /\ issuer[i].act = "revoke" =>
              Changed(issuer[i]).ops = grant[issuer[i].purpose].ops /\ Changed(issuer[i]).revoked
<1>1. grant[issuer[i].purpose] \in GrantRow
  BY GrantFields
<1>2. CASE issuer[i].act = "revoke"
  <2> DEFINE e == issuer[i].expected + 1
             c == [grant[issuer[i].purpose] EXCEPT !.version = e, !.revoked = TRUE]
  <2>1. Changed(issuer[i]) = c
    BY <1>2 DEF Changed
  <2>2. e \in Nat
    BY ChangeFields
  <2> HIDE DEF e
  <2>3. c \in GrantRow /\ c.version = e /\ c.ops = grant[issuer[i].purpose].ops /\ c.revoked
    BY <1>1, <2>2 DEF GrantRow
  <2> HIDE DEF c
  <2> QED
    BY <1>2, <2>1, <2>3 DEF e
<1>3. CASE issuer[i].act # "revoke"
  BY <1>3, ChangeFields DEF Changed, GrantRow
<1> QED
  BY <1>2, <1>3

LEMMA LookStep ==
  ASSUME Typed, NEW i \in Issuer, Look(i)
  PROVE  /\ issuer' \in [Issuer -> Change] /\ \A j \in Issuer \ {i} : issuer'[j] = issuer[j]
         /\ issuer'[i].purpose \in Purpose
         /\ issuer'[i].exists = (grant[issuer'[i].purpose].version > 0)
         /\ issuer'[i].act = "revoke" => issuer'[i].exists
<1>1. \E p \in Purpose, act \in {"grant", "revoke"}, ops \in Scopes :
        \E e \in 0..grant[p].version :
          /\ act = "revoke" => grant[p].version > 0 /\ ~ grant[p].revoked /\ e = grant[p].version
          /\ act = "grant" => (e = 0 <=> grant[p].version = 0)
          /\ issuer' = [issuer EXCEPT ![i] = [pc |-> "write", purpose |-> p, expected |-> e,
                          exists |-> grant[p].version > 0, act |-> act, ops |-> ops]]
  BY Zenon DEF Look
<1>2. PICK p \in Purpose, act \in {"grant", "revoke"}, ops \in Scopes :
        \E e \in 0..grant[p].version :
          /\ act = "revoke" => grant[p].version > 0 /\ ~ grant[p].revoked /\ e = grant[p].version
          /\ act = "grant" => (e = 0 <=> grant[p].version = 0)
          /\ issuer' = [issuer EXCEPT ![i] = [pc |-> "write", purpose |-> p, expected |-> e,
                          exists |-> grant[p].version > 0, act |-> act, ops |-> ops]]
  BY <1>1, Zenon
<1>20. PICK e \in 0..grant[p].version :
          /\ act = "revoke" => grant[p].version > 0
          /\ issuer' = [issuer EXCEPT ![i] = [pc |-> "write", purpose |-> p, expected |-> e,
                          exists |-> grant[p].version > 0, act |-> act, ops |-> ops]]
  BY <1>2, Zenon
<1>3. e \in Nat /\ ops \subseteq Operation
  BY ScopesAssumption, GrantFields
<1> DEFINE c == [pc |-> "write", purpose |-> p, expected |-> e,
                 exists |-> grant[p].version > 0, act |-> act, ops |-> ops]
<1>4. /\ c \in Change /\ c.purpose = p /\ c.exists = (grant[p].version > 0) /\ c.act = act
  BY <1>3 DEF Change
<1>5. issuer' = [issuer EXCEPT ![i] = c] /\ (act = "revoke" => grant[p].version > 0)
  BY <1>20
<1> HIDE DEF c
<1> QED
  BY <1>4, <1>5 DEF Typed, GrantsTyped

LEMMA WriteStep ==
  ASSUME Typed, GrantsStand, NEW i \in Issuer, Write(i)
  PROVE  /\ GrantsTyped' /\ \A j \in Issuer \ {i} : issuer'[j] = issuer[j]
         /\ issuer'[i].pc = "idle" /\ issuer[i].pc = "write" /\ issuer[i].purpose \in Purpose
         /\ \/ UNCHANGED <<grant, changes, budget>>
            \/ /\ Wins(issuer[i]) /\ Spend("changes")
               /\ grant' = [grant EXCEPT ![issuer[i].purpose] = Changed(issuer[i])]
               /\ changes' = [changes EXCEPT ![issuer[i].purpose] = Append(@, Changed(issuer[i]))]
<1>1. issuer[i].pc = "write" /\ issuer[i].purpose \in Purpose
  BY DEF Write, GrantsStand
<1>2. Changed(issuer[i]) \in GrantRow
  BY <1>1, ChangedTyped
<1>3. \/ UNCHANGED <<grant, changes, budget>>
      \/ /\ Wins(issuer[i]) /\ Spend("changes")
         /\ grant' = [grant EXCEPT ![issuer[i].purpose] = Changed(issuer[i])]
         /\ changes' = [changes EXCEPT ![issuer[i].purpose] = Append(@, Changed(issuer[i]))]
  BY DEF Write
<1>4. NoCall \in Change /\ NoCall.pc = "idle"
  BY DEF NoCall, Change
<1>5. /\ issuer' \in [Issuer -> Change] /\ \A j \in Issuer \ {i} : issuer'[j] = issuer[j]
      /\ issuer'[i].pc = "idle"
  BY <1>4 DEF Write, Typed, GrantsTyped
<1>6. grant' \in [Purpose -> GrantRow] /\ changes' \in [Purpose -> Seq(GrantRow)]
  <2>1. CASE UNCHANGED <<grant, changes, budget>>
    BY <2>1 DEF Typed, GrantsTyped
  <2>2. CASE /\ grant' = [grant EXCEPT ![issuer[i].purpose] = Changed(issuer[i])]
             /\ changes' = [changes EXCEPT ![issuer[i].purpose] = Append(@, Changed(issuer[i]))]
    <3>1. changes[issuer[i].purpose] \in Seq(GrantRow)
      BY <1>1 DEF Typed, GrantsTyped
    <3>2. Append(changes[issuer[i].purpose], Changed(issuer[i])) \in Seq(GrantRow)
      BY <1>2, <3>1
    <3> QED
      BY <1>1, <1>2, <2>2, <3>2 DEF Typed, GrantsTyped
  <2> QED
    BY <1>3, <2>1, <2>2
<1>7. consent' \in BOOLEAN
  BY DEF Write, Typed, GrantsTyped
<1> QED
  BY <1>1, <1>3, <1>5, <1>6, <1>7 DEF GrantsTyped

LEMMA ExpireStep ==
  ASSUME Typed, NEW p \in Purpose, Expire(p)
  PROVE  /\ GrantsTyped' /\ UNCHANGED <<changes, issuer>>
         /\ \A q \in Purpose : /\ grant'[q].version = grant[q].version
                               /\ grant'[q].ops = grant[q].ops
                               /\ grant'[q].revoked = grant[q].revoked
<1> DEFINE g == [grant[p] EXCEPT !.expired = TRUE]
<1>1. grant[p] \in GrantRow
  BY GrantFields
<1>2. /\ g \in GrantRow /\ g.version = grant[p].version /\ g.ops = grant[p].ops
      /\ g.revoked = grant[p].revoked
  BY <1>1 DEF GrantRow
<1>3. grant' = [grant EXCEPT ![p] = g] /\ UNCHANGED <<changes, consent, issuer>>
  BY DEF Expire
<1> HIDE DEF g
<1>4. /\ grant' \in [Purpose -> GrantRow] /\ grant'[p] = g
      /\ \A q \in Purpose \ {p} : grant'[q] = grant[q]
  BY <1>2, <1>3 DEF Typed, GrantsTyped
<1> QED
  BY <1>2, <1>3, <1>4 DEF Typed, GrantsTyped

\* What a step may do to a belief: what is gone stays gone, what is there is not opened again,
\* and the purposes it was collected under stay.
Ahead ==
  \A c \in Id : belief[c].status # "free" =>
    /\ belief'[c].status # "free"
    /\ belief[c].status = "gone" => belief'[c].status = "gone"
    /\ belief'[c].status = "live" => belief'[c].born = belief[c].born

\* What belief b says, and what the others say.
LEMMA CreateStep ==
  ASSUME Typed, LinksStand, NEW p \in Purpose, NEW b \in Id, NEW es \in SUBSET Id, Create(p, b, es)
  PROVE  StoreTyped' /\ LinksStand' /\ Ahead
<1> DEFINE n == [status |-> "live", links |-> es, born |-> {p}]
<1>1. n \in Belief /\ n.links = es /\ n.status = "live"
  BY DEF Belief, Source
<1>2. belief' = [belief EXCEPT ![b] = n] /\ belief[b].status = "free"
  BY DEF Create
<1> HIDE DEF n
<1>3. belief' \in [Id -> Belief] /\ belief'[b] = n /\ \A c \in Id \ {b} : belief'[c] = belief[c]
  BY <1>1, <1>2 DEF Typed, StoreTyped
<1>4. p # Nobody /\ p \in Source
  BY PurposeAssumption DEF Source
<1>5. \A e \in Id : evidence'[e] = IF e \in es /\ evidence[e] = Nobody THEN p ELSE evidence[e]
  BY DEF Create, Recorded, Typed, StoreTyped
<1>6. evidence' \in [Id -> Source \cup {Nobody}]
  <2>1. DOMAIN evidence' = Id /\ evidence' = [e \in Id |-> evidence'[e]]
    BY DEF Create
  <2> QED
    BY <1>4, <1>5, <2>1 DEF Typed, StoreTyped
<1>7. LinksStand'
  BY <1>1, <1>3, <1>4, <1>5, BeliefFields DEF LinksStand
<1> QED
  BY <1>1, <1>2, <1>3, <1>6, <1>7 DEF StoreTyped, Ahead

LEMMA SupportStep ==
  ASSUME Typed, LinksStand, NEW p \in Purpose, NEW b \in Id, NEW e \in Id, Support(p, b, e)
  PROVE  StoreTyped' /\ LinksStand' /\ Ahead
<1> DEFINE n == [belief[b] EXCEPT !.links = belief[b].links \cup {e}]
<1>1. /\ n \in Belief /\ n.links = belief[b].links \cup {e} /\ n.status = belief[b].status
      /\ n.born = belief[b].born
  <2>1. belief[b] \in Belief
    BY BeliefFields
  <2> QED
    BY <2>1 DEF Belief
<1>2. belief' = [belief EXCEPT ![b] = n]
  BY DEF Support
<1> HIDE DEF n
<1>3. belief' \in [Id -> Belief] /\ belief'[b] = n /\ \A c \in Id \ {b} : belief'[c] = belief[c]
  BY <1>1, <1>2 DEF Typed, StoreTyped
<1>4. p # Nobody /\ p \in Source
  BY PurposeAssumption DEF Source
<1>5. evidence' \in [Id -> Source \cup {Nobody}]
  BY <1>4 DEF Support, Recorded, Typed, StoreTyped
<1>6. \A f \in Id : evidence'[f] = IF f = e /\ evidence[e] = Nobody THEN p ELSE evidence[f]
  BY DEF Support, Recorded, Typed, StoreTyped
<1>7. LinksStand'
  BY <1>1, <1>3, <1>4, <1>6, BeliefFields DEF LinksStand
<1> QED
  BY <1>1, <1>3, <1>5, <1>7 DEF StoreTyped, Ahead

LEMMA ForgetStep ==
  ASSUME Typed, LinksStand, NEW b \in Id, Forget(b)
  PROVE  StoreTyped' /\ LinksStand' /\ Ahead
<1> DEFINE n == [NoBelief EXCEPT !.status = "gone"]
<1>1. n \in Belief /\ n.links = {} /\ n.status = "gone"
  BY DEF Belief, NoBelief
<1>2. belief' = [belief EXCEPT ![b] = n]
  BY DEF Forget
<1> HIDE DEF n
<1>3. belief' \in [Id -> Belief] /\ belief'[b] = n /\ \A c \in Id \ {b} : belief'[c] = belief[c]
  BY <1>1, <1>2 DEF Typed, StoreTyped
<1>4. evidence' = [e \in Id |-> IF e \in Orphaned(b) THEN Nobody ELSE evidence[e]]
  BY DEF Forget
<1>5. evidence' \in [Id -> Source \cup {Nobody}]
  BY <1>4 DEF Typed, StoreTyped
<1>6. \A c \in Id \ {b} : \A e \in belief[c].links : e \in Id /\ e \notin Orphaned(b)
  BY BeliefFields DEF Orphaned
<1>7. LinksStand'
  BY <1>1, <1>3, <1>4, <1>6 DEF LinksStand
<1> QED
  BY <1>1, <1>3, <1>5, <1>7 DEF StoreTyped, Ahead

-----------------------------------------------------------------------------
(* The kinds of steps.                                                       *)

Elsewhere == UNCHANGED <<consent, issuer, grant, changes>>
SameStore == UNCHANGED <<belief, evidence>>
SameTrail == UNCHANGED <<audit, purged, purge, left>>
SameReads == UNCHANGED <<call, reads>>

LEMMA GrantSteps ==
  ASSUME Typed, GrantsStand, GrantStep
  PROVE  /\ GrantsTyped' /\ SameStore /\ SameReads /\ SameTrail /\ Remember
         /\ budget' \in Mixture /\ budget'.kinds = budget.kinds
<1>1. ASSUME NEW i \in Issuer, Look(i)
      PROVE  /\ GrantsTyped' /\ SameStore /\ SameReads /\ SameTrail /\ Remember
             /\ budget' = budget
  BY <1>1, LookStep DEF Look, Typed, GrantsTyped, SameStore, SameReads, SameTrail, store, trail
<1>2. ASSUME NEW i \in Issuer, Write(i)
      PROVE  /\ GrantsTyped' /\ SameStore /\ SameReads /\ SameTrail /\ Remember
             /\ budget' = budget \/ Spend("changes")
  BY <1>2, WriteStep DEF Write, SameStore, SameReads, SameTrail, store, trail
<1>3. ASSUME NEW p \in Purpose, Expire(p)
      PROVE  /\ GrantsTyped' /\ SameStore /\ SameReads /\ SameTrail /\ Remember
             /\ Spend("changes")
  BY <1>3, ExpireStep DEF Expire, SameStore, SameReads, SameTrail, store, trail
<1>4. ASSUME SetConsent
      PROVE  /\ GrantsTyped' /\ SameStore /\ SameReads /\ SameTrail /\ Remember
             /\ Spend("changes")
  BY <1>4 DEF SetConsent, SameStore, SameReads, SameTrail, store, trail, Typed, GrantsTyped
<1>5. budget \in Mixture /\ "changes" \in Counter
  BY DEF Typed, Counter
<1> QED
  BY <1>1, <1>2, <1>3, <1>4, <1>5, SpendTyped DEF GrantStep

LEMMA MemorySteps ==
  ASSUME Typed, LinksStand, MemoryStep
  PROVE  /\ StoreTyped' /\ LinksStand' /\ Ahead
         /\ Elsewhere /\ SameReads /\ SameTrail /\ Remember
         /\ budget' \in Mixture /\ budget'.kinds = budget.kinds
<1> DEFINE Q == Elsewhere /\ SameReads /\ SameTrail /\ Remember
<1>1. ASSUME NEW p \in Purpose, NEW b \in Id, NEW es \in SUBSET Id, Create(p, b, es)
      PROVE  StoreTyped' /\ LinksStand' /\ Ahead /\ Q /\ Spend("collects")
  BY <1>1, CreateStep DEF Create, Elsewhere, SameReads, SameTrail, grants, trail
<1>2. ASSUME NEW p \in Purpose, NEW b \in Id, NEW e \in Id, Support(p, b, e)
      PROVE  StoreTyped' /\ LinksStand' /\ Ahead /\ Q /\ Spend("collects")
  BY <1>2, SupportStep DEF Support, Elsewhere, SameReads, SameTrail, grants, trail
<1>3. ASSUME NEW b \in Id, Forget(b)
      PROVE  StoreTyped' /\ LinksStand' /\ Ahead /\ Q /\ Spend("forgets")
  BY <1>3, ForgetStep DEF Forget, Elsewhere, SameReads, SameTrail, grants, trail
<1>4. "collects" \in Counter /\ "forgets" \in Counter
  BY DEF Counter
<1> HIDE DEF Q
<1>5. StoreTyped' /\ LinksStand' /\ Ahead /\ Q /\ (Spend("collects") \/ Spend("forgets"))
  BY <1>1, <1>2, <1>3 DEF MemoryStep
<1> QED
  BY <1>4, <1>5, SpendTyped DEF Q

\* Whose call is in progress, after a step of it.
LEMMA CallTyped ==
  ASSUME Typed, NEW r \in Reader, Typing(r),
         call'[r].pc = "idle" \/ (call'[r].purpose \in Purpose /\ call'[r].target \in Id)
  PROVE  /\ call' \in [Reader -> Call]
         /\ \A s \in Reader : call'[s].pc # "idle" =>
              call'[s].purpose \in Purpose /\ call'[s].target \in Id
BY DEF Typed, ReadsTyped, Typing, Others

LEMMA RunningCallTyped ==
  ASSUME Typed, NEW r \in Reader, Typing(r), SameReader(r), call[r].pc # "idle"
  PROVE  /\ call' \in [Reader -> Call]
         /\ \A s \in Reader : call'[s].pc # "idle" =>
              call'[s].purpose \in Purpose /\ call'[s].target \in Id
BY CallFields, CallTyped DEF SameReader

\* What a step of a reader may do to the audit and to the answers.
Records(r, d) == \E row \in RowsFor(r, d) : audit' = audit \cup {row}
Refusal(r) == [n |-> call[r].n, denied |-> TRUE, ids |-> {}, leaked |-> {}]
Leaves(r, d) == left' = left \cup {d}

LEMMA RecordsTyped ==
  ASSUME Typed, NEW r \in Reader, call[r].pc # "idle", NEW d \in Decisions, Records(r, d)
  PROVE  audit' \subseteq AuditRow
BY RowTyped DEF Records, Typed, TrailTyped

LEMMA LeavesTyped ==
  ASSUME Typed, NEW r \in Reader, NEW d \in Answer, Leaves(r, d)
  PROVE  left' \subseteq Answer
BY DEF Leaves, Typed, TrailTyped

LEMMA RefusalTyped ==
  ASSUME Typed, NEW r \in Reader
  PROVE  /\ Refusal(r) \in Answer /\ Refusal(r).n = call[r].n /\ Refusal(r).denied
         /\ Refusal(r).ids = {} /\ Refusal(r).leaked = {}
BY CallFields DEF Refusal, Answer

\* What every step of a read leaves alone, and what the ones between decision and record do.
Framed == Elsewhere /\ SameStore /\ Remember /\ UNCHANGED <<purge, purged>>
Quiet(r) == SameReader(r) /\ call[r].pc # "idle" /\ UNCHANGED <<reads, audit, left, budget>>

LEMMA ReadStepFrame ==
  ASSUME NEW r \in Reader, ReadStep(r)
  PROVE  Framed
<1> USE DEF Framed, Elsewhere, SameStore, grants, store, trail
<1>1. ASSUME BeginRead(r) \/ Decide(r) \/ ReadRule(r) \/ List(r) \/ FetchBeliefs(r) PROVE Framed
  BY <1>1 DEF BeginRead, Decide, ReadRule, List, FetchBeliefs
<1>2. ASSUME ReadLinks(r) \/ ReadEvents(r) \/ FetchEvidence(r) \/ Record(r) PROVE Framed
  BY <1>2 DEF ReadLinks, ReadEvents, FetchEvidence, Record
<1>3. ASSUME CommitFails(r) \/ Deny(r) \/ Return(r) PROVE Framed
  BY <1>3 DEF CommitFails, Deny, Return
<1>4. ASSUME Page(r) \/ LastPage(r) \/ Done(r) PROVE Framed
  BY <1>4 DEF Page, LastPage, Done
<1> QED
  BY <1>1, <1>2, <1>3, <1>4 DEF ReadStep

LEMMA QuietSteps ==
  ASSUME Typed, NEW r \in Reader,
         \/ Decide(r) \/ ReadRule(r) \/ List(r) \/ FetchBeliefs(r) \/ ReadLinks(r)
         \/ ReadEvents(r) \/ FetchEvidence(r)
  PROVE  Typing(r) /\ Quiet(r) /\ (SameDecision(r) \/ Decide(r))
<1>1. ASSUME Decide(r) \/ ReadRule(r) \/ List(r) \/ FetchBeliefs(r)
      PROVE  Typing(r) /\ Quiet(r) /\ (SameDecision(r) \/ Decide(r))
  BY <1>1, DecideStep, ReadRuleStep, ListStep, FetchBeliefsStep
     DEF Decide, ReadRule, List, FetchBeliefs, Quiet, trail
<1>2. ASSUME ReadLinks(r) \/ ReadEvents(r) \/ FetchEvidence(r)
      PROVE  Typing(r) /\ Quiet(r) /\ SameDecision(r)
  BY <1>2, ReadLinksStep, ReadEventsStep, FetchEvidenceStep
     DEF ReadLinks, ReadEvents, FetchEvidence, Quiet, trail
<1> QED
  BY <1>1, <1>2

LEMMA ReadStepTypes ==
  ASSUME Typed, NEW r \in Reader, ReadStep(r)
  PROVE  /\ ReadsTyped' /\ TrailTyped' /\ Typing(r)
         /\ budget' \in Mixture /\ budget'.kinds = budget.kinds
<1> DEFINE Goal == /\ ReadsTyped' /\ TrailTyped' /\ Typing(r)
                   /\ budget' \in Mixture /\ budget'.kinds = budget.kinds
<1> SUFFICES Goal
  OBVIOUS
<1>1. /\ Framed /\ reads \in Nat /\ audit \subseteq AuditRow /\ left \subseteq Answer
      /\ budget \in Mixture /\ "reads" \in Counter /\ "faults" \in Counter
      /\ purged \subseteq Nat /\ purge \in [on : BOOLEAN, cut : SUBSET Nat]
  BY ReadStepFrame DEF Typed, ReadsTyped, TrailTyped, Counter
<1>2. ASSUME /\ Typing(r)
             /\ call'[r].pc = "idle" \/ (call'[r].purpose \in Purpose /\ call'[r].target \in Id)
             /\ reads' \in Nat /\ audit' \subseteq AuditRow /\ left' \subseteq Answer
             /\ budget' = budget \/ Spend("reads") \/ Spend("faults")
      PROVE  Goal
  <2>1. ReadsTyped' /\ TrailTyped'
    BY <1>1, <1>2, CallTyped DEF ReadsTyped, TrailTyped, Framed
  <2>2. budget' \in Mixture /\ budget'.kinds = budget.kinds
    BY <1>1, <1>2, SpendTyped
  <2> QED
    BY <1>2, <2>1, <2>2
<1> HIDE DEF Goal
<1>3. CASE BeginRead(r)
  <2>1. UNCHANGED <<audit, left>> /\ Spend("reads")
    BY <1>3 DEF BeginRead, trail
  <2>2. reads' \in Nat /\ Typing(r) /\ call'[r].purpose \in Purpose /\ call'[r].target \in Id
    BY <1>1, <1>3, BeginReadStep
  <2> QED
    BY <1>1, <1>2, <2>1, <2>2
<1>4. CASE \/ Decide(r) \/ ReadRule(r) \/ List(r) \/ FetchBeliefs(r) \/ ReadLinks(r)
           \/ ReadEvents(r) \/ FetchEvidence(r)
  BY <1>1, <1>2, <1>4, QuietSteps, CallFields DEF Quiet, SameReader
<1>5. CASE Record(r)
  <2>1. Records(r, "allowed") /\ UNCHANGED <<reads, left, budget>> /\ call[r].pc # "idle"
    BY <1>5, RecordStep DEF Record, Records, RowsFor, IdsFor
  <2> QED
    BY <1>1, <1>2, <1>5, <2>1, RecordStep, RecordsTyped, CallFields DEF SameReader, Decisions
<1>6. CASE CommitFails(r)
  BY <1>1, <1>2, <1>6, CommitFailsStep, IdleCall DEF CommitFails, trail
<1>7. CASE Deny(r)
  <2>1. Records(r, "denied") /\ Leaves(r, Refusal(r)) /\ UNCHANGED <<reads, budget>>
    BY <1>7 DEF Deny, Records, RowsFor, IdsFor, Leaves, Refusal
  <2> QED
    BY <1>1, <1>2, <1>7, <2>1, DenyStep, IdleCall, RecordsTyped, LeavesTyped, RefusalTyped
       DEF Decisions
<1>8. CASE Return(r)
  <2>1. (Leaves(r, Delivered(call[r], r)) \/ UNCHANGED left) /\ UNCHANGED <<reads, audit, budget>>
    BY <1>8 DEF Return, Leaves, trail
  <2> QED
    BY <1>1, <1>2, <1>8, <2>1, ReturnStep, IdleCall, LeavesTyped, DeliveredTyped
<1>9. CASE Page(r)
  <2>1. Leaves(r, Delivered(call[r], r)) /\ UNCHANGED audit /\ Spend("reads")
    BY <1>9 DEF Page, Leaves, trail
  <2>2. reads' \in Nat /\ Typing(r) /\ call'[r].purpose \in Purpose /\ call'[r].target \in Id
    BY <1>1, <1>9, PageStep, CallFields
  <2> QED
    BY <1>1, <1>2, <2>1, <2>2, LeavesTyped, DeliveredTyped
<1>10. CASE LastPage(r)
  <2>1. Leaves(r, Delivered(call[r], r)) /\ UNCHANGED <<reads, audit, budget>>
    BY <1>10 DEF LastPage, Leaves, trail
  <2> QED
    BY <1>1, <1>2, <1>10, <2>1, LastPageStep, CallFields, LeavesTyped, DeliveredTyped
<1>11. CASE Done(r)
  BY <1>1, <1>2, <1>11, DoneStep, IdleCall DEF Done, trail
<1> QED
  BY <1>3, <1>4, <1>5, <1>6, <1>7, <1>8, <1>9, <1>10, <1>11 DEF ReadStep

LEMMA AgesStep ==
  ASSUME Typed, NEW row \in audit, Ages(row)
  PROVE  \E w \in AuditRow : /\ audit' = (audit \ {row}) \cup {w}
                             /\ w.n = row.n /\ w.decision = row.decision /\ w.purpose = row.purpose
                             /\ w.version = row.version /\ w.op = row.op /\ w.ids = row.ids
                             /\ w.entry = row.entry /\ w.count = row.count
<1>1. row \in AuditRow
  BY DEF Typed, TrailTyped
<1> DEFINE w == [row EXCEPT !.old = TRUE]
<1>2. /\ w \in AuditRow /\ w.n = row.n /\ w.decision = row.decision /\ w.purpose = row.purpose
      /\ w.version = row.version /\ w.op = row.op /\ w.ids = row.ids
      /\ w.entry = row.entry /\ w.count = row.count
  BY <1>1 DEF AuditRow
<1>3. audit' = (audit \ {row}) \cup {w}
  BY DEF Ages
<1> HIDE DEF w
<1> QED
  BY <1>2, <1>3

TrailStep == (\E row \in audit : Ages(row)) \/ PurgeBegins \/ PurgeBatchOf

LEMMA TrailSteps ==
  ASSUME Typed, TrailStep
  PROVE  /\ TrailTyped' /\ Elsewhere /\ SameStore /\ SameReads /\ Remember
         /\ budget' \in Mixture /\ budget'.kinds = budget.kinds /\ UNCHANGED left
<1> DEFINE Q == /\ Elsewhere /\ SameStore /\ SameReads /\ Remember
                /\ (budget' = budget \/ Spend("ages")) /\ UNCHANGED left
<1>1. /\ audit \subseteq AuditRow /\ left \subseteq Answer /\ budget \in Mixture
      /\ "ages" \in Counter /\ purged \subseteq Nat /\ \A row \in audit : row.n \in Nat
      /\ purge \in [on : BOOLEAN, cut : SUBSET Nat]
  BY DEF Typed, TrailTyped, Counter, AuditRow
<1>2. ASSUME NEW row \in audit, Ages(row) PROVE TrailTyped' /\ Q
  <2>1. audit' \subseteq AuditRow
    BY <1>1, <1>2, AgesStep
  <2>2. Q /\ UNCHANGED <<purge, purged>>
    BY <1>2 DEF Ages, Elsewhere, SameStore, SameReads, grants, store
  <2> QED
    BY <1>1, <2>1, <2>2 DEF TrailTyped
<1>3. ASSUME PurgeBegins PROVE TrailTyped' /\ Q
  <2>1. purge' \in [on : BOOLEAN, cut : SUBSET Nat]
    BY <1>1, <1>3 DEF PurgeBegins
  <2>2. Q /\ UNCHANGED <<audit, purged>>
    BY <1>3 DEF PurgeBegins, Elsewhere, SameStore, SameReads, grants, store
  <2> QED
    BY <1>1, <2>1, <2>2 DEF TrailTyped
<1>4. ASSUME PurgeBatchOf PROVE TrailTyped' /\ Q
  <2>1. PICK batch \in SUBSET Expired :
          /\ audit' = audit \ batch /\ purged' = purged \cup {row.n : row \in batch}
          /\ purge' = NoPurge \/ purge' = purge
    BY <1>4 DEF PurgeBatchOf
  <2>2. batch \subseteq audit
    BY DEF Expired
  <2>3. NoPurge \in [on : BOOLEAN, cut : SUBSET Nat]
    BY DEF NoPurge
  <2>4. Q
    BY <1>4 DEF PurgeBatchOf, Elsewhere, SameStore, SameReads, grants, store
  <2> QED
    BY <1>1, <2>1, <2>2, <2>3, <2>4 DEF TrailTyped
<1> HIDE DEF Q
<1>5. TrailTyped' /\ Q
  BY <1>2, <1>3, <1>4 DEF TrailStep
<1> QED
  BY <1>1, <1>5, SpendTyped DEF Q

LEMMA NextCases ==
  ASSUME Next
  PROVE  GrantStep \/ MemoryStep \/ (\E r \in Reader : ReadStep(r)) \/ TrailStep
BY DEF Next, TrailStep

LEMMA NextTyped ==
  ASSUME Typed, GrantsStand, LinksStand, Next
  PROVE  Typed' /\ LinksStand' /\ Remember /\ budget'.kinds = budget.kinds
<1>1. CASE GrantStep
  BY <1>1, GrantSteps
     DEF Typed, StoreTyped, ReadsTyped, TrailTyped, LinksStand, SameStore, SameReads, SameTrail
<1>2. CASE MemoryStep
  BY <1>2, MemorySteps
     DEF Typed, GrantsTyped, ReadsTyped, TrailTyped, Elsewhere, SameReads, SameTrail
<1>3. ASSUME NEW r \in Reader, ReadStep(r)
      PROVE  Typed' /\ LinksStand' /\ Remember /\ budget'.kinds = budget.kinds
  BY <1>3, ReadStepTypes, ReadStepFrame
     DEF Framed, Typed, GrantsTyped, StoreTyped, LinksStand, Elsewhere, SameStore
<1>4. CASE TrailStep
  BY <1>4, TrailSteps
     DEF Typed, GrantsTyped, StoreTyped, ReadsTyped, LinksStand, Elsewhere, SameStore, SameReads
<1> QED
  BY <1>1, <1>2, <1>3, <1>4, NextCases

LEMMA InitGrants ==
  ASSUME Init
  PROVE  GrantsTyped /\ GrantsStand
<1>1. PICK withdrawn \in SUBSET Purpose :
        changes = [p \in Purpose |-> IF budget.store = "empty" THEN <<>>
                     ELSE IF p \in withdrawn THEN <<Granted, Withdrawn>> ELSE <<Granted>>]
  BY DEF Init
<1>2. /\ Granted \in GrantRow /\ Withdrawn \in GrantRow /\ NoGrant \in GrantRow
      /\ Granted.version = 1 /\ Withdrawn.version = 2 /\ NoGrant.version = 0
      /\ Granted.ops = Operation /\ ~ Granted.revoked
  BY DEF Granted, Withdrawn, NoGrant, GrantRow
<1>3. grant = [p \in Purpose |-> IF changes[p] = <<>> THEN NoGrant ELSE Last(changes[p])]
  BY DEF Init
<1>4. ASSUME NEW p \in Purpose
      PROVE  \/ changes[p] = <<>> /\ grant[p] = NoGrant
             \/ changes[p] = <<Granted, Withdrawn>> /\ grant[p] = Withdrawn
             \/ changes[p] = <<Granted>> /\ grant[p] = Granted
  BY <1>1, <1>3 DEF Last
<1>5. changes \in [Purpose -> Seq(GrantRow)] /\ grant \in [Purpose -> GrantRow]
  <2>1. ASSUME NEW p \in Purpose PROVE changes[p] \in Seq(GrantRow) /\ grant[p] \in GrantRow
    <3>1. /\ <<>> \in Seq(GrantRow) /\ <<Granted, Withdrawn>> \in Seq(GrantRow)
          /\ <<Granted>> \in Seq(GrantRow)
      BY <1>2
    <3> QED
      BY <1>2, <1>4, <3>1
  <2> QED
    BY <1>1, <1>3, <2>1
<1>6. NoCall \in Change /\ NoCall.pc = "idle"
  BY DEF NoCall, Change
<1>7. issuer = [i \in Issuer |-> NoCall] /\ consent = TRUE
  BY DEF Init
<1>8. OneWinnerPerVersion
  <2> SUFFICES ASSUME NEW p \in Purpose
               PROVE  /\ grant[p].version = Len(changes[p])
                      /\ \A i \in DOMAIN changes[p] : changes[p][i].version = i
                      /\ grant[p].version > 0 =>
                           /\ changes[p][grant[p].version].ops = grant[p].ops
                           /\ changes[p][grant[p].version].revoked = grant[p].revoked
    BY DEF OneWinnerPerVersion
  <2>1. CASE changes[p] = <<>> /\ grant[p] = NoGrant
    BY <1>2, <2>1
  <2>2. CASE changes[p] = <<Granted, Withdrawn>> /\ grant[p] = Withdrawn
    BY <1>2, <2>2
  <2>3. CASE changes[p] = <<Granted>> /\ grant[p] = Granted
    BY <1>2, <2>3
  <2> QED
    BY <1>4, <2>1, <2>2, <2>3
<1> QED
  BY <1>5, <1>6, <1>7, <1>8 DEF GrantsTyped, GrantsStand

LEMMA InitTyped ==
  ASSUME Init
  PROVE  Typed /\ LinksStand
<1>1. GrantsTyped
  BY InitGrants
<1>2. StoreTyped /\ LinksStand
  <2>1. CASE budget.store = "empty"
    <3>1. NoBelief \in Belief /\ NoBelief.links = {}
      BY DEF NoBelief, Belief
    <3>2. belief = [b \in Id |-> NoBelief] /\ evidence = [e \in Id |-> Nobody]
      BY <2>1 DEF Init
    <3> QED
      BY <3>1, <3>2 DEF StoreTyped, LinksStand
  <2>2. CASE budget.store # "empty"
    <3>1. PICK source \in [Id -> Purpose], linked \in SUBSET Id, recorded \in SUBSET Id :
            /\ budget.store = "plain" => linked = Id /\ recorded = Id
                                         /\ \A b, c \in Id : source[b] = source[c]
            /\ belief = [b \in Id |-> [status |-> "live", links |-> linked \cap {b},
                          born |-> IF b \in recorded THEN {source[b]} ELSE {}]]
            /\ evidence = [e \in Id |-> IF e \notin linked THEN Nobody
                                        ELSE IF e \in recorded THEN source[e] ELSE Unknown]
      BY <2>2, Zenon DEF Init
    <3>2. StoreTyped
      BY <3>1 DEF StoreTyped, Belief, Source
    <3>3. \A e \in linked : evidence[e] # Nobody
      BY <3>1, PurposeAssumption DEF Nobody, Unknown
    <3>4. \A b \in Id : belief[b].links \subseteq linked
      BY <3>1
    <3> QED
      BY <3>2, <3>3, <3>4 DEF LinksStand
  <2> QED
    BY <2>1, <2>2
<1>3. ReadsTyped
  BY IdleCall DEF Init, ReadsTyped
<1>4. TrailTyped /\ budget \in Mixture
  BY BoundsAssumption DEF Init, TrailTyped, NoPurge
<1> QED
  BY <1>1, <1>2, <1>3, <1>4 DEF Typed

-----------------------------------------------------------------------------
(* The grants and the decisions.                                             *)

\* The events of a grant are only added to.
ChangesGrow ==
  \A p \in Purpose : \A v \in DOMAIN changes[p] :
    v \in DOMAIN changes'[p] /\ changes'[p][v] = changes[p][v]

LEMMA WriteStands ==
  ASSUME Typed, GrantsStand, NEW i \in Issuer, Write(i)
  PROVE  GrantsStand' /\ ChangesGrow
<1> DEFINE c == issuer[i]
           q == issuer[i].purpose
<1>1. /\ \A j \in Issuer \ {i} : issuer'[j] = issuer[j]
      /\ issuer'[i].pc = "idle" /\ q \in Purpose /\ c.pc = "write"
  BY WriteStep
<1>2. \A j \in Issuer : issuer'[j].pc = "write" =>
        issuer'[j].purpose \in Purpose /\ (issuer'[j].act = "revoke" => issuer'[j].exists)
  BY <1>1 DEF GrantsStand
<1>3. CASE UNCHANGED <<grant, changes, budget>>
  BY <1>2, <1>3 DEF GrantsStand, OneWinnerPerVersion, ChangesGrow
<1>4. CASE /\ Wins(c)
           /\ grant' = [grant EXCEPT ![q] = Changed(c)]
           /\ changes' = [changes EXCEPT ![q] = Append(changes[q], Changed(c))]
  <2>1. /\ changes[q] \in Seq(GrantRow) /\ Changed(c) \in GrantRow
        /\ grant'[q] = Changed(c) /\ changes'[q] = Append(changes[q], Changed(c))
        /\ \A p \in Purpose \ {q} : grant'[p] = grant[p] /\ changes'[p] = changes[p]
    BY <1>1, <1>4, ChangedTyped DEF Typed, GrantsTyped
  <2>2. Changed(c).version = grant[q].version + 1
    BY <1>1, <1>4, ChangedTyped, GrantFields, ChangeFields DEF Wins, GrantsStand
  <2>3. grant[q].version = Len(changes[q]) /\ \A v \in DOMAIN changes[q] : changes[q][v].version = v
    BY <1>1 DEF GrantsStand, OneWinnerPerVersion
  <2>4. /\ Len(changes'[q]) = Len(changes[q]) + 1
        /\ changes'[q][Len(changes[q]) + 1] = Changed(c)
        /\ \A v \in DOMAIN changes[q] : v \in DOMAIN changes'[q] /\ changes'[q][v] = changes[q][v]
        /\ \A v \in DOMAIN changes'[q] : v \in DOMAIN changes[q] \/ v = Len(changes[q]) + 1
    BY <2>1
  <2>5. OneWinnerPerVersion'
    <3> SUFFICES ASSUME NEW p \in Purpose
                 PROVE  /\ grant'[p].version = Len(changes'[p])
                        /\ \A v \in DOMAIN changes'[p] : changes'[p][v].version = v
                        /\ grant'[p].version > 0 =>
                             /\ changes'[p][grant'[p].version].ops = grant'[p].ops
                             /\ changes'[p][grant'[p].version].revoked = grant'[p].revoked
      BY DEF OneWinnerPerVersion
    <3>1. CASE p = q
      BY <2>1, <2>2, <2>3, <2>4, <3>1
    <3>2. CASE p # q
      BY <2>1, <3>2 DEF GrantsStand, OneWinnerPerVersion
    <3> QED
      BY <3>1, <3>2
  <2>6. ChangesGrow
    BY <2>1, <2>4 DEF ChangesGrow
  <2> QED
    BY <1>2, <2>5, <2>6 DEF GrantsStand
<1> QED
  BY <1>3, <1>4, WriteStep

LEMMA GrantsKept ==
  ASSUME Typed, GrantsStand, LinksStand, Next
  PROVE  GrantsStand' /\ ChangesGrow
<1>1. ASSUME NEW i \in Issuer, Look(i) PROVE GrantsStand' /\ ChangesGrow
  BY <1>1, LookStep DEF Look, GrantsStand, OneWinnerPerVersion, ChangesGrow
<1>2. ASSUME NEW i \in Issuer, Write(i) PROVE GrantsStand' /\ ChangesGrow
  BY <1>2, WriteStands
<1>3. ASSUME NEW p \in Purpose, Expire(p) PROVE GrantsStand' /\ ChangesGrow
  BY <1>3, ExpireStep DEF GrantsStand, OneWinnerPerVersion, ChangesGrow
<1>4. ASSUME Elsewhere \/ SetConsent PROVE GrantsStand' /\ ChangesGrow
  BY <1>4 DEF Elsewhere, SetConsent, GrantsStand, OneWinnerPerVersion, ChangesGrow
<1>5. GrantStep \/ Elsewhere
  BY NextCases, MemorySteps, ReadStepFrame, TrailSteps DEF Framed
<1> QED
  BY <1>1, <1>2, <1>3, <1>4, <1>5 DEF GrantStep

\* What a step does to a read's place: it comes to be decided only by Decide.
LEMMA DecidedOnce ==
  ASSUME Typed, NEW r \in Reader, ReadStep(r)
  PROVE  /\ Typing(r)
         /\ call'[r].pc \in Decided =>
              \/ Decide(r) /\ Decides(r)
              \/ SameDecision(r) /\ SameReader(r) /\ call[r].pc \in Decided
<1>1. Typing(r)
  BY ReadStepTypes
<1>2. CASE BeginRead(r)
  BY <1>1, <1>2, BeginReadStep DEF Decided
<1>3. CASE Decide(r)
  BY <1>1, <1>3, DecideStep DEF Decided
<1>4. CASE ReadRule(r) \/ List(r) \/ FetchBeliefs(r) \/ ReadLinks(r)
  BY <1>1, <1>4, ReadRuleStep, ListStep, FetchBeliefsStep, ReadLinksStep DEF Decided
<1>5. CASE ReadEvents(r) \/ FetchEvidence(r) \/ Record(r)
  BY <1>1, <1>5, ReadEventsStep, FetchEvidenceStep, RecordStep DEF Decided
<1>6. CASE CommitFails(r) \/ Deny(r) \/ Return(r) \/ Done(r)
  BY <1>1, <1>6, CommitFailsStep, DenyStep, ReturnStep, DoneStep, IdleCall DEF Decided
<1>7. CASE Page(r) \/ LastPage(r)
  BY <1>1, <1>7, PageStep, LastPageStep DEF Decided
<1> QED
  BY <1>2, <1>3, <1>4, <1>5, <1>6, <1>7 DEF ReadStep

\* What the committed row says is what its last event said.
LEMMA DecisionIsOnRecord ==
  ASSUME Typed, GrantsStand, NEW p \in Purpose, NEW op, Allows(p, op)
  PROVE  /\ grant[p].version \in DOMAIN changes[p]
         /\ op \in changes[p][grant[p].version].ops /\ ~ changes[p][grant[p].version].revoked
<1>1. grant[p].version > 0 /\ ~ grant[p].revoked /\ op \in grant[p].ops
  BY DEF Allows, Live
<1>2. /\ grant[p].version \in Nat /\ grant[p].version = Len(changes[p])
      /\ changes[p] \in Seq(GrantRow)
      /\ changes[p][grant[p].version].ops = grant[p].ops
      /\ changes[p][grant[p].version].revoked = grant[p].revoked
  BY <1>1, GrantFields DEF Typed, GrantsTyped, GrantsStand, OneWinnerPerVersion
<1> QED
  BY <1>1, <1>2

\* The call is what it was decided on; then its row, too, is.
OnRecord(p, v, op) ==
  v \in DOMAIN changes[p] /\ op \in changes[p][v].ops /\ ~ changes[p][v].revoked

LEMMA CallsDecided ==
  ASSUME Typed, GrantsStand, LinksStand, DecisionsStand, Next
  PROVE  \A r \in Reader : call'[r].pc \in Decided =>
           OnRecord(call[r].purpose, call'[r].version, Needs(call[r].kind))
           /\ call'[r].purpose = call[r].purpose /\ call'[r].kind = call[r].kind
           /\ call[r].purpose \in Purpose
<1>1. \A r \in Reader : call[r].pc \in Decided =>
        OnRecord(call[r].purpose, call[r].version, Needs(call[r].kind))
        /\ call[r].purpose \in Purpose
  BY CallFields DEF DecisionsStand, OnRecord, Decided
<1>2. CASE SameReads
  BY <1>1, <1>2 DEF SameReads
<1>3. ASSUME NEW r \in Reader, ReadStep(r), NEW q \in Reader, call'[q].pc \in Decided
      PROVE  OnRecord(call[q].purpose, call'[q].version, Needs(call[q].kind))
             /\ call'[q].purpose = call[q].purpose /\ call'[q].kind = call[q].kind
             /\ call[q].purpose \in Purpose
  <2>1. CASE q # r
    BY <1>1, <1>3, <2>1, DecidedOnce DEF Typing, Others
  <2>2. CASE q = r /\ Decide(r) /\ Decides(r)
    <3>1. /\ call'[r].version = grant[call[r].purpose].version /\ call'[r].purpose = call[r].purpose
          /\ call'[r].kind = call[r].kind /\ call[r].purpose \in Purpose
      BY <2>2, DecideStep, CallFields DEF SameReader
    <3> QED
      BY <2>2, <3>1, DecisionIsOnRecord DEF Decides, OnRecord
  <2>3. CASE q = r /\ SameDecision(r) /\ SameReader(r) /\ call[r].pc \in Decided
    BY <1>1, <2>3 DEF SameDecision, SameReader
  <2> QED
    BY <1>3, <2>1, <2>2, <2>3, DecidedOnce
<1> QED
  BY <1>2, <1>3, NextCases, GrantSteps, MemorySteps, TrailSteps

-----------------------------------------------------------------------------
(* The audit.                                                                *)

Alike(v, w) ==
  /\ w.n = v.n /\ w.decision = v.decision /\ w.purpose = v.purpose /\ w.version = v.version
  /\ w.op = v.op /\ w.ids = v.ids /\ w.entry = v.entry /\ w.count = v.count

\* What a step of a read does to the audit.
LEMMA AuditByRead ==
  ASSUME Typed, NEW r \in Reader, ReadStep(r)
  PROVE  \/ UNCHANGED audit
         \/ Record(r) /\ Records(r, "allowed")
         \/ Deny(r) /\ Records(r, "denied")
<1>1. CASE BeginRead(r) \/ CommitFails(r) \/ Return(r)
  BY <1>1 DEF BeginRead, CommitFails, Return, trail
<1>2. CASE Page(r) \/ LastPage(r) \/ Done(r)
  BY <1>2 DEF Page, LastPage, Done, trail
<1>3. CASE \/ Decide(r) \/ ReadRule(r) \/ List(r) \/ FetchBeliefs(r) \/ ReadLinks(r)
           \/ ReadEvents(r) \/ FetchEvidence(r)
  BY <1>3, QuietSteps DEF Quiet
<1>4. CASE Record(r)
  BY <1>4 DEF Record, Records, RowsFor, IdsFor
<1>5. CASE Deny(r)
  BY <1>5 DEF Deny, Records, RowsFor, IdsFor
<1> QED
  BY <1>1, <1>2, <1>3, <1>4, <1>5 DEF ReadStep

\* Where a row of the audit comes from.
LEMMA RowsComeFrom ==
  ASSUME Typed, GrantsStand, LinksStand, Next, NEW w \in audit'
  PROVE  \/ \E v \in audit : Alike(v, w)
         \/ \E r \in Reader : Record(r) /\ w \in RowsFor(r, "allowed")
         \/ \E r \in Reader : Deny(r) /\ w \in RowsFor(r, "denied")
<1>1. CASE UNCHANGED audit
  BY <1>1 DEF Alike
<1>2. CASE \E r \in Reader : ReadStep(r)
  BY <1>1, <1>2, AuditByRead DEF Records, Alike
<1>3. CASE \E row \in audit : Ages(row)
  BY <1>3, AgesStep DEF Alike
<1>4. CASE PurgeBegins \/ PurgeBatchOf
  BY <1>1, <1>4 DEF PurgeBegins, PurgeBatchOf, Alike
<1>5. CASE GrantStep \/ MemoryStep
  BY <1>1, <1>5, GrantSteps, MemorySteps DEF SameTrail
<1> QED
  BY <1>2, <1>3, <1>4, <1>5, NextCases DEF TrailStep

LEMMA DecisionsKept ==
  ASSUME Typed, GrantsStand, LinksStand, DecisionsStand, Next
  PROVE  DecisionsStand'
<1>1. ChangesGrow
  BY GrantsKept
<1>2. ASSUME NEW w \in audit', w.decision = "allowed"
      PROVE  w.version \in DOMAIN changes[w.purpose] /\ w.op \in changes[w.purpose][w.version].ops
             /\ ~ changes[w.purpose][w.version].revoked /\ w.purpose \in Purpose
  <2>1. CASE \E v \in audit : Alike(v, w)
    <3>1. PICK v \in audit : Alike(v, w)
      BY <2>1
    <3>2. v \in AuditRow /\ v.purpose \in Purpose
      BY DEF Typed, TrailTyped, AuditRow
    <3> QED
      BY <1>2, <3>1, <3>2 DEF Alike, DecisionsStand, RecordsNameTheGrant
  <2>2. CASE \E r \in Reader : Record(r) /\ w \in RowsFor(r, "allowed")
    <3>1. PICK r \in Reader : Record(r) /\ w \in RowsFor(r, "allowed")
      BY <2>2
    <3>2. call[r].pc = "record" /\ call[r].purpose \in Purpose
      BY <3>1, RecordStep, CallFields
    <3>3. /\ w.purpose = call[r].purpose /\ w.version = call[r].version
          /\ w.op = Needs(call[r].kind)
      BY <3>1, <3>2, RowTyped DEF Decisions
    <3> QED
      BY <3>2, <3>3 DEF DecisionsStand, Decided
  <2>3. CASE \E r \in Reader : Deny(r) /\ w \in RowsFor(r, "denied")
    <3>1. PICK r \in Reader : Deny(r) /\ w \in RowsFor(r, "denied")
      BY <2>3
    <3> QED
      BY <1>2, <3>1, DenyStep, RowTyped DEF Decisions
  <2> QED
    BY <2>1, <2>2, <2>3, RowsComeFrom
<1>3. RecordsNameTheGrant'
  BY <1>1, <1>2 DEF RecordsNameTheGrant, ChangesGrow
<1>4. ASSUME NEW r \in Reader, call'[r].pc \in Decided
      PROVE  /\ call'[r].version \in DOMAIN changes'[call'[r].purpose]
             /\ Needs(call'[r].kind) \in changes'[call'[r].purpose][call'[r].version].ops
             /\ ~ changes'[call'[r].purpose][call'[r].version].revoked
  BY <1>1, <1>4, CallsDecided DEF OnRecord, ChangesGrow
<1> QED
  BY <1>3, <1>4 DEF DecisionsStand

LEMMA PagesKept ==
  ASSUME Typed, GrantsStand, LinksStand, PagesStand, Next
  PROVE  PagesStand'
<1>1. CASE SameReads
  BY <1>1 DEF SameReads, PagesStand
<1>2. ASSUME NEW r \in Reader, ReadStep(r) PROVE PagesStand'
  <2>1. ASSUME NEW q \in Reader \ {r}
        PROVE  call'[q].late <= 1 /\ (call'[q].pc \in Decided => call'[q].late = 0)
    BY <1>2, ReadStepTypes DEF Typing, Others, PagesStand
  <2>2. call'[r].pc \in Decided => call'[r].late = 0
    <3>1. CASE Decide(r) /\ Decides(r)
      BY <3>1, DecideStep DEF Decides, Allows
    <3>2. CASE SameDecision(r) /\ SameReader(r) /\ call[r].pc \in Decided
      BY <3>2 DEF PagesStand, SameDecision
    <3> QED
      BY <1>2, <3>1, <3>2, DecidedOnce
  <2>3. call[r].late \in Nat /\ call[r].late <= 1 /\ (call[r].pc \in Decided => call[r].late = 0)
    BY CallFields DEF PagesStand
  <2>4. call'[r].late <= 1
    <3>1. CASE BeginRead(r) \/ CommitFails(r) \/ Deny(r) \/ Return(r) \/ Done(r)
      BY <3>1, BeginReadStep, CommitFailsStep, DenyStep, ReturnStep, DoneStep, IdleCall
    <3>2. CASE Page(r)
      BY <2>3, <3>2, PageStep DEF Lateness, Decided
    <3>3. CASE \/ Decide(r) \/ ReadRule(r) \/ List(r) \/ FetchBeliefs(r) \/ ReadLinks(r)
               \/ ReadEvents(r) \/ FetchEvidence(r)
      BY <2>3, <3>3, QuietSteps, DecideStep DEF SameDecision
    <3>4. CASE Record(r) \/ LastPage(r)
      BY <2>3, <3>4, RecordStep, LastPageStep DEF SameDecision
    <3> QED
      BY <1>2, <3>1, <3>2, <3>3, <3>4 DEF ReadStep
  <2> QED
    BY <2>1, <2>2, <2>4 DEF PagesStand
<1> QED
  BY <1>1, <1>2, NextCases, GrantSteps, MemorySteps, TrailSteps

\* The number of a read, before and after its step.
LEMMA NumberOfRead ==
  ASSUME Typed, NEW r \in Reader, ReadStep(r)
  PROVE  \/ call'[r].pc = "idle" /\ reads' = reads
         \/ call'[r].n = reads + 1 /\ reads' = reads + 1 /\ UNCHANGED audit
         \/ /\ call[r].pc # "idle" /\ call'[r].n = call[r].n /\ reads' = reads
            /\ call'[r].pc \in Unrecorded => call[r].pc \in Unrecorded /\ UNCHANGED audit
<1>1. CASE BeginRead(r)
  BY <1>1, BeginReadStep DEF BeginRead, trail
<1>2. CASE Page(r)
  BY <1>2, PageStep DEF Page, trail
<1>3. CASE LastPage(r)
  BY <1>3, LastPageStep DEF LastPage, Unrecorded
<1>4. CASE Record(r)
  BY <1>4, RecordStep DEF Record, Unrecorded, SameReader
<1>5. CASE CommitFails(r) \/ Deny(r) \/ Return(r) \/ Done(r)
  BY <1>5, CommitFailsStep, DenyStep, ReturnStep, DoneStep, IdleCall
     DEF CommitFails, Deny, Return, Done
<1>6. CASE \/ Decide(r) \/ ReadRule(r) \/ List(r) \/ FetchBeliefs(r)
  BY <1>6, DecideStep, ReadRuleStep, ListStep, FetchBeliefsStep, QuietSteps
     DEF Quiet, SameReader, Unrecorded
<1>7. CASE ReadLinks(r) \/ ReadEvents(r) \/ FetchEvidence(r)
  BY <1>7, ReadLinksStep, ReadEventsStep, FetchEvidenceStep, QuietSteps
     DEF Quiet, SameReader, Unrecorded
<1> QED
  BY <1>1, <1>2, <1>3, <1>4, <1>5, <1>6, <1>7 DEF ReadStep

LEMMA RowsNumbered ==
  ASSUME Typed, GrantsStand, LinksStand, NumbersStand, Next
  PROVE  /\ \A w \in audit' : w.n \in 1..reads
         /\ \A v, w \in audit' : v.n = w.n => v = w
<1> DEFINE Single == \A v, w \in audit' : v.n = w.n => v = w
<1>1. ASSUME NEW w \in audit' PROVE w.n \in 1..reads
  <2>1. CASE \E v \in audit : Alike(v, w)
    BY <2>1 DEF NumbersStand, Alike
  <2>2. ASSUME NEW r \in Reader, call[r].pc # "idle", NEW d \in Decisions, w \in RowsFor(r, d)
        PROVE  w.n \in 1..reads
    BY <2>2, RowTyped DEF NumbersStand
  <2> QED
    BY <2>1, <2>2, RowsComeFrom, RecordStep, DenyStep DEF Decisions
<1>2. ASSUME audit' \subseteq audit PROVE Single
  BY <1>1, <1>2 DEF NumbersStand
<1>3. ASSUME NEW r \in Reader, call[r].pc \in Unrecorded, NEW d \in Decisions, Records(r, d)
      PROVE  Single
  <2>1. \A row \in RowsFor(r, d) : row.n = call[r].n
    BY <1>3, RowTyped DEF Unrecorded
  <2>2. \A row \in audit : row.n # call[r].n
    BY <1>3 DEF NumbersStand
  <2> QED
    BY <1>3, <2>1, <2>2 DEF Records, NumbersStand
<1>4. ASSUME NEW row \in audit, Ages(row) PROVE Single
  <2>1. PICK a : audit' = (audit \ {row}) \cup {a} /\ a.n = row.n
    BY <1>4, AgesStep
  <2> QED
    BY <2>1 DEF NumbersStand
<1> HIDE DEF Single
<1>5. ASSUME NEW r \in Reader, ReadStep(r) PROVE Single
  BY <1>2, <1>3, <1>5, AuditByRead, RecordStep, DenyStep DEF Unrecorded, Decisions
<1>6. ASSUME GrantStep \/ MemoryStep PROVE Single
  BY <1>2, <1>6, GrantSteps, MemorySteps DEF SameTrail
<1>7. ASSUME PurgeBegins \/ PurgeBatchOf PROVE Single
  BY <1>2, <1>7 DEF PurgeBegins, PurgeBatchOf
<1>8. Single
  BY <1>4, <1>5, <1>6, <1>7, NextCases DEF TrailStep
<1> QED
  BY <1>1, <1>8 DEF Single

LEMMA NumbersKept ==
  ASSUME Typed, GrantsStand, LinksStand, NumbersStand, Next
  PROVE  NumbersStand'
<1> DEFINE Pieces ==
      /\ reads' \in Nat /\ reads <= reads'
      /\ purge.cut' \subseteq 1..reads'
      /\ \A r \in Reader : call'[r].pc # "idle" => call'[r].n \in 1..reads'
      /\ \A r, q \in Reader :
           r # q /\ call'[r].pc # "idle" /\ call'[q].pc # "idle" => call'[r].n # call'[q].n
      /\ \A r \in Reader : call'[r].pc \in Unrecorded => \A row \in audit' : row.n # call'[r].n
<1>1. reads \in Nat /\ purge.cut \subseteq 1..reads
  BY DEF Typed, ReadsTyped, NumbersStand
<1>2. ASSUME SameReads, purge'.cut \subseteq 1..reads,
             \A w \in audit' : \E v \in audit : w.n = v.n
      PROVE  Pieces
  BY <1>1, <1>2 DEF SameReads, NumbersStand
<1>3. ASSUME NEW r \in Reader, ReadStep(r) PROVE Pieces
  <2>1. /\ \A q \in Reader \ {r} : call'[q] = call[q]
        /\ purge' = purge
    BY <1>3, ReadStepTypes, ReadStepFrame DEF Typing, Others, Framed
  <2>2. \A q \in Reader : call[q].pc # "idle" => call[q].n \in 1..reads
    BY DEF NumbersStand
  <2>3. \A q \in Reader \ {r} : call'[q].pc \in Unrecorded => \A row \in audit' : row.n # call[q].n
    <3> SUFFICES ASSUME NEW q \in Reader \ {r}, call[q].pc \in Unrecorded, NEW row \in audit'
                 PROVE  row.n # call[q].n
      BY <2>1
    <3>1. CASE \E v \in audit : Alike(v, row)
      BY <3>1 DEF Alike, NumbersStand
    <3>2. ASSUME NEW s \in Reader, call[s].pc \in {"record", "deny"}, s # q, NEW d \in Decisions,
                 row \in RowsFor(s, d)
          PROVE  row.n # call[q].n
      BY <3>2, RowTyped DEF NumbersStand, Unrecorded
    <3>3. CASE UNCHANGED audit
      BY <3>3 DEF NumbersStand
    <3>4. ASSUME NEW d \in Decisions, call[r].pc \in {"record", "deny"}, Records(r, d)
          PROVE  row.n # call[q].n
      BY <3>2, <3>4 DEF Records, NumbersStand
    <3> QED
      BY <1>3, <3>3, <3>4, AuditByRead, RecordStep, DenyStep DEF Decisions
  <2>4. CASE call'[r].pc = "idle" /\ reads' = reads
    BY <1>1, <2>1, <2>2, <2>3, <2>4 DEF NumbersStand, Unrecorded
  <2>5. CASE call'[r].n = reads + 1 /\ reads' = reads + 1 /\ UNCHANGED audit
    <3>1. \A n \in 1..reads : n \in 1..reads' /\ n # reads + 1
      BY <1>1, <2>5
    <3>2. reads + 1 \in 1..reads' /\ reads' \in Nat /\ reads <= reads'
      BY <1>1, <2>5
    <3>3. \A row \in audit' : row.n \in 1..reads
      BY <2>5 DEF NumbersStand
    <3> QED
      BY <1>1, <2>1, <2>2, <2>3, <2>5, <3>1, <3>2, <3>3 DEF NumbersStand
  <2>6. CASE /\ call[r].pc # "idle" /\ call'[r].n = call[r].n /\ reads' = reads
             /\ call'[r].pc \in Unrecorded => call[r].pc \in Unrecorded /\ UNCHANGED audit
    BY <1>1, <2>1, <2>2, <2>3, <2>6 DEF NumbersStand
  <2> QED
    BY <1>3, <2>4, <2>5, <2>6, NumberOfRead
<1>4. ASSUME GrantStep \/ MemoryStep PROVE Pieces
  BY <1>1, <1>2, <1>4, GrantSteps, MemorySteps DEF SameTrail
<1>5. ASSUME TrailStep PROVE Pieces
  <2>1. purge'.cut \subseteq 1..reads
    <3>1. CASE \E row \in audit : Ages(row)
      BY <1>1, <3>1 DEF Ages
    <3>2. CASE PurgeBegins
      BY <3>2 DEF PurgeBegins, NumbersStand
    <3>3. CASE PurgeBatchOf
      BY <1>1, <3>3 DEF PurgeBatchOf, NoPurge
    <3> QED
      BY <1>5, <3>1, <3>2, <3>3 DEF TrailStep
  <2>2. \A w \in audit' : \E v \in audit : w.n = v.n
    <3>1. CASE \E row \in audit : Ages(row)
      BY <3>1, AgesStep
    <3>2. CASE PurgeBegins \/ PurgeBatchOf
      BY <3>2 DEF PurgeBegins, PurgeBatchOf
    <3> QED
      BY <1>5, <3>1, <3>2 DEF TrailStep
  <2> QED
    BY <1>2, <1>5, <2>1, <2>2, TrailSteps
<1>6. Pieces
  BY <1>3, <1>4, <1>5, NextCases
<1>7. \A n \in 1..reads : n \in 1..reads'
  BY <1>1, <1>6
<1> QED
  BY <1>6, <1>7, RowsNumbered DEF NumbersStand

-----------------------------------------------------------------------------
(* The answers.                                                              *)

\* A row of that decision, which accounts for those ids, is or was in the audit.
Covered(n, ids, decision) ==
  \/ n \in purged
  \/ \E row \in audit : row.n = n /\ Accounts(row, ids) /\ row.decision = decision
CoveredNext(n, ids, decision) ==
  \/ n \in purged'
  \/ \E row \in audit' : row.n = n /\ Accounts(row, ids) /\ row.decision = decision

\* A row stays, or is purged.
LEMMA RowsGoTo ==
  ASSUME Typed, GrantsStand, LinksStand, Next
  PROVE  /\ purged \subseteq purged'
         /\ \A v \in audit : v.n \in purged' \/ \E w \in audit' : Alike(v, w)
<1> DEFINE Goal == /\ purged \subseteq purged'
                   /\ \A v \in audit : v.n \in purged' \/ \E w \in audit' : Alike(v, w)
<1>1. ASSUME UNCHANGED purged, audit \subseteq audit' PROVE Goal
  BY <1>1 DEF Alike
<1>2. ASSUME NEW r \in Reader, ReadStep(r) PROVE Goal
  BY <1>1, <1>2, AuditByRead, ReadStepFrame DEF Framed, Records
<1>3. ASSUME NEW row \in audit, Ages(row) PROVE Goal
  <2>1. UNCHANGED purged /\ \E w : audit' = (audit \ {row}) \cup {w} /\ Alike(row, w)
    BY <1>3, AgesStep DEF Ages, Alike
  <2> QED
    BY <2>1 DEF Alike
<1>4. ASSUME PurgeBatchOf PROVE Goal
  <2>1. PICK batch : audit' = audit \ batch /\ purged' = purged \cup {row.n : row \in batch}
    BY <1>4 DEF PurgeBatchOf
  <2> QED
    BY <2>1 DEF Alike
<1> HIDE DEF Goal
<1>5. ASSUME GrantStep \/ MemoryStep \/ PurgeBegins PROVE Goal
  BY <1>1, <1>5, GrantSteps, MemorySteps DEF SameTrail, PurgeBegins
<1>6. Goal
  BY <1>2, <1>3, <1>4, <1>5, NextCases DEF TrailStep
<1> QED
  BY <1>6 DEF Goal

LEMMA CoverKept ==
  ASSUME Typed, GrantsStand, LinksStand, Next, NEW n, NEW ids, NEW decision,
         Covered(n, ids, decision)
  PROVE  CoveredNext(n, ids, decision)
<1>1. CASE n \in purged
  BY <1>1, RowsGoTo DEF CoveredNext
<1>2. CASE \E row \in audit : row.n = n /\ Accounts(row, ids) /\ row.decision = decision
  BY <1>2, RowsGoTo DEF CoveredNext, Alike, Accounts
<1> QED
  BY <1>1, <1>2 DEF Covered

\* What a step of a read does to the answers.
LEMMA LeftByRead ==
  ASSUME Typed, NEW r \in Reader, ReadStep(r)
  PROVE  \/ UNCHANGED left
         \/ call[r].pc = "leave" /\ Leaves(r, Delivered(call[r], r))
         \/ Deny(r) /\ Records(r, "denied") /\ Leaves(r, Refusal(r))
<1>1. CASE BeginRead(r) \/ CommitFails(r) \/ Done(r) \/ Record(r)
  BY <1>1 DEF BeginRead, CommitFails, Done, Record, trail
<1>2. CASE \/ Decide(r) \/ ReadRule(r) \/ List(r) \/ FetchBeliefs(r) \/ ReadLinks(r)
           \/ ReadEvents(r) \/ FetchEvidence(r)
  BY <1>2, QuietSteps DEF Quiet
<1>3. CASE Return(r) \/ Page(r) \/ LastPage(r)
  BY <1>3 DEF Return, Page, LastPage, At, Leaves
<1>4. CASE Deny(r)
  BY <1>4 DEF Deny, Records, RowsFor, IdsFor, Leaves, Refusal
<1> QED
  BY <1>1, <1>2, <1>3, <1>4 DEF ReadStep

\* What a call is about to hand over is among the ids its row has, and the row is there.
LEMMA KeptIsNamed ==
  ASSUME Typed, AnswersStand, NEW r \in Reader, ReadStep(r)
  PROVE  /\ call'[r].pc \in {"record", "leave"} /\ call'[r].kind # "history" =>
              call'[r].kept \subseteq Ids(call'[r])
         /\ call'[r].pc = "leave" => Record(r) /\ call'[r].kept = call[r].kept
<1>1. CASE BeginRead(r) \/ Decide(r) \/ ReadRule(r) \/ FetchBeliefs(r) \/ ReadLinks(r)
  BY <1>1, BeginReadStep, DecideStep, ReadRuleStep, FetchBeliefsStep, ReadLinksStep
<1>2. CASE List(r)
  BY <1>2, ListStep DEF SameReader, Ids
<1>3. CASE ReadEvents(r)
  BY <1>3, ReadEventsStep DEF SameReader, Ids, Content, Passed
<1>4. CASE FetchEvidence(r)
  BY <1>4, FetchEvidenceStep DEF Ids
<1>5. CASE Record(r)
  BY <1>5, RecordStep DEF SameReader, Ids, AnswersStand
<1>6. CASE CommitFails(r) \/ Deny(r) \/ Return(r) \/ Done(r)
  BY <1>6, CommitFailsStep, DenyStep, ReturnStep, DoneStep, IdleCall
<1>7. CASE Page(r) \/ LastPage(r)
  BY <1>7, PageStep, LastPageStep
<1> QED
  BY <1>1, <1>2, <1>3, <1>4, <1>5, <1>6, <1>7 DEF ReadStep

LEMMA AnswersKept ==
  ASSUME Typed, GrantsStand, LinksStand, AnswersStand, Next
  PROVE  AnswersStand'
<1> DEFINE Named(r) == call[r].pc \in {"record", "leave"} /\ call[r].kind # "history" =>
                         call[r].kept \subseteq Ids(call[r])
           Awaited(r) == call[r].pc = "leave" => Covered(call[r].n, call[r].kept, "allowed")
           Said(d) == IF d.denied THEN "denied" ELSE "allowed"
           AwaitedNext(r) == call'[r].pc = "leave" =>
                               CoveredNext(call'[r].n, call'[r].kept, "allowed")
           ToldNext(d) == CoveredNext(d.n, d.ids, Said(d))
<1>1. /\ \A d \in left : Covered(d.n, d.ids, Said(d))
      /\ \A r \in Reader : Named(r) /\ Awaited(r)
  BY DEF AnswersStand, NothingLeavesUnrecorded, Covered
<1>2. \A d \in left : ToldNext(d)
  BY <1>1, CoverKept
<1>3. ASSUME NEW r \in Reader, call'[r] = call[r] PROVE Named(r)' /\ AwaitedNext(r)
  BY <1>1, <1>3, CoverKept DEF Ids
<1>4. ASSUME NEW r \in Reader, ReadStep(r)
      PROVE  /\ \A d \in left' : ToldNext(d)
             /\ \A q \in Reader : Named(q)' /\ AwaitedNext(q)
  <2>1. \A q \in Reader \ {r} : Named(q)' /\ AwaitedNext(q)
    BY <1>3, <1>4, ReadStepTypes DEF Typing, Others
  <2>2. Named(r)'
    BY <1>4, KeptIsNamed
  <2>3. AwaitedNext(r)
    <3> SUFFICES ASSUME call'[r].pc = "leave"
                 PROVE  CoveredNext(call'[r].n, call'[r].kept, "allowed")
      OBVIOUS
    <3>1. Record(r) /\ call'[r].kept = call[r].kept
      BY <1>4, KeptIsNamed
    <3>2. /\ call'[r].n = call[r].n /\ call[r].pc = "record"
          /\ \E row \in RowsFor(r, "allowed") : audit' = audit \cup {row}
      BY <3>1, RecordStep DEF SameReader, Record, RowsFor, IdsFor
    <3>3. PICK row \in RowsFor(r, "allowed") : audit' = audit \cup {row}
      BY <3>2
    <3>4. row.n = call[r].n /\ row.decision = "allowed" /\ row \in audit'
      BY <3>2, <3>3, RowTyped DEF Decisions
    <3>5. Accounts(row, call[r].kept)
      BY <1>1, <3>2, RowAccounts
    <3> QED
      BY <3>1, <3>2, <3>4, <3>5 DEF CoveredNext
  <2>4. \A d \in left' : ToldNext(d)
    <3>1. CASE UNCHANGED left
      BY <1>2, <3>1
    <3>2. CASE call[r].pc = "leave" /\ Leaves(r, Delivered(call[r], r))
      <4>2. CoveredNext(call[r].n, call[r].kept, "allowed")
        BY <1>1, <3>2, CoverKept
      <4>3. ToldNext(Delivered(call[r], r))
        BY <4>2, DeliveredTyped
      <4> QED
        BY <1>2, <3>2, <4>3 DEF Leaves
    <3>3. CASE Deny(r) /\ Records(r, "denied") /\ Leaves(r, Refusal(r))
      <4>1. call[r].pc # "idle"
        BY <3>3, DenyStep
      <4>2. PICK row \in RowsFor(r, "denied") : audit' = audit \cup {row}
        BY <3>3 DEF Records
      <4>20. /\ row.n = call[r].n /\ row.decision = "denied" /\ row \in audit'
             /\ row.ids = {} /\ row.count = 0
        BY <4>1, <4>2, RowTyped DEF Decisions
      <4>21. Accounts(row, {})
        BY <4>20, FS_EmptySet, SizesAssumption DEF Accounts
      <4>3. CoveredNext(call[r].n, {}, "denied")
        BY <4>20, <4>21 DEF CoveredNext
      <4>4. ToldNext(Refusal(r))
        BY <4>3, RefusalTyped
      <4> QED
        BY <1>2, <3>3, <4>4 DEF Leaves
    <3> QED
      BY <1>4, <3>1, <3>2, <3>3, LeftByRead
  <2> QED
    BY <2>1, <2>2, <2>3, <2>4
<1>5. ASSUME SameReads, UNCHANGED left
      PROVE  /\ \A d \in left' : ToldNext(d)
             /\ \A q \in Reader : Named(q)' /\ AwaitedNext(q)
  BY <1>2, <1>3, <1>5 DEF SameReads
<1>6. /\ \A d \in left' : ToldNext(d)
      /\ \A q \in Reader : Named(q)' /\ AwaitedNext(q)
  BY <1>4, <1>5, NextCases, GrantSteps, MemorySteps, TrailSteps DEF SameTrail
<1> QED
  BY <1>6 DEF AnswersStand, NothingLeavesUnrecorded, CoveredNext

-----------------------------------------------------------------------------
(* What a read withholds.                                                    *)

\* After a step a belief is hidden from a read when it was before, or existed when the rule
\* was read; and the rule does not show it.
LEMMA HiddenNow ==
  ASSUME Remember, NEW r \in Reader, hidden[r] \subseteq Id
  PROVE  /\ hidden'[r] \subseteq Id /\ \A b \in hidden'[r] : ~ Visible(b, call[r].rule)'
         /\ \/ hidden'[r] \subseteq hidden[r]
            \/ /\ call[r].pc = "rule" /\ call'[r].pc = "rows"
               /\ \A b \in hidden'[r] : Exists(b)
         /\ call'[r].pc = "idle" => hidden'[r] = {}
<1>1. hidden'[r] =
       (IF call'[r].pc = "idle" THEN {}
        ELSE IF At(r, "rule") /\ call'[r].pc = "rows"
        THEN {b \in Id : Exists(b)} \ ShownNow(r)'
        ELSE hidden[r] \ ShownNow(r)')
  BY DEF Remember
<1>2. ShownNow(r)' = {b \in Id : Visible(b, call[r].rule)'}
  BY DEF ShownNow
<1>3. CASE call'[r].pc = "idle"
  BY <1>1, <1>3
<1>4. CASE call'[r].pc # "idle" /\ At(r, "rule") /\ call'[r].pc = "rows"
  BY <1>1, <1>2, <1>4 DEF At
<1>5. CASE call'[r].pc # "idle" /\ ~ (At(r, "rule") /\ call'[r].pc = "rows")
  BY <1>1, <1>2, <1>5
<1> QED
  BY <1>3, <1>4, <1>5

\* A read that makes no step.
LEMMA WithheldElsewhere ==
  ASSUME Typed, WithheldStand, Remember, Ahead, NEW r \in Reader, call'[r] = call[r]
  PROVE  WithheldFrom(r)'
<1>0. hidden[r] \subseteq Id
  BY DEF WithheldStand, WithheldFrom
<1>1. /\ hidden'[r] \subseteq hidden[r] /\ hidden[r] \subseteq Id
      /\ \A b \in hidden'[r] : ~ Visible(b, call[r].rule)'
  <2>1. ~ (call[r].pc = "rule" /\ call'[r].pc = "rows")
    OBVIOUS
  <2> QED
    BY <1>0, <2>1, HiddenNow
<1>2. WithheldFrom(r) /\ call[r].rows \subseteq Id /\ call[r].kept \subseteq Id
  BY CallFields DEF WithheldStand
<1>3. \A b \in hidden'[r] : belief'[b].status # "free"
  BY <1>1, <1>2 DEF WithheldFrom, Ahead
<1>4. call[r].pc \in {"links", "events"} => \A b \in call[r].rows : belief'[b].status # "free"
  BY <1>2 DEF WithheldFrom, Ahead
<1>5. ASSUME call[r].pc = "events", NEW b \in call[r].rows \cap hidden'[r],
             belief'[b].status = "live"
      PROVE  ~ Passes(call[r].rule, call[r].links[b], belief'[b].born)
  <2>1. b \in Id /\ b \in hidden[r] /\ belief[b].status # "free"
    BY <1>1, <1>2, <1>5 DEF WithheldFrom
  <2>2. Exists(b) /\ belief'[b].born = belief[b].born
    BY <1>5, <2>1, BeliefFields DEF Ahead, Exists
  <2> QED
    BY <1>2, <1>5, <2>1, <2>2 DEF WithheldFrom
<1>6. call[r].pc \in {"record", "leave"} /\ call[r].section = "beliefs" =>
        \A b \in call[r].kept \cap hidden'[r] : belief'[b].status = "gone"
  <2> SUFFICES ASSUME call[r].pc \in {"record", "leave"}, call[r].section = "beliefs",
                      NEW b \in call[r].kept \cap hidden'[r]
               PROVE  belief'[b].status = "gone"
    OBVIOUS
  <2>1. b \in Id /\ belief[b].status = "gone"
    BY <1>1, <1>2 DEF WithheldFrom
  <2> QED
    BY <2>1 DEF Ahead
<1> QED
  BY <1>1, <1>3, <1>4, <1>5, <1>6 DEF WithheldFrom, Exists

\* A step of the read itself.
LEMMA WithheldByRead ==
  ASSUME Typed, WithheldStand, NEW r \in Reader, ReadStep(r)
  PROVE  WithheldFrom(r)'
<1>0. /\ hidden[r] \subseteq Id /\ WithheldFrom(r) /\ SameStore /\ Remember /\ Typed
      /\ call[r].kind # "history"
  BY ReadStepFrame DEF WithheldStand, WithheldFrom, NoHistories, Framed
<1>1. /\ hidden'[r] \subseteq Id /\ \A b \in hidden'[r] : ~ Visible(b, call[r].rule)'
      /\ \/ hidden'[r] \subseteq hidden[r]
         \/ call[r].pc = "rule" /\ \A b \in hidden'[r] : Exists(b)
      /\ call'[r].pc = "idle" => hidden'[r] = {}
  BY <1>0, HiddenNow
<1>2. belief' = belief /\ evidence' = evidence
  BY <1>0 DEF SameStore
<1>3. \A b \in hidden'[r] : belief'[b].status # "free"
  BY <1>0, <1>1, <1>2 DEF WithheldFrom, Exists
<1>4. \A b \in Id : Visible(b, call[r].rule)' <=> Visible(b, call'[r].rule)
  BY <1>2 DEF Visible, Exists, Linked
<1>5. ASSUME call'[r].pc \notin {"links", "events", "record", "leave"} PROVE WithheldFrom(r)'
  BY <1>1, <1>3, <1>5 DEF WithheldFrom
<1>6. CASE \/ BeginRead(r) \/ Decide(r) \/ ReadRule(r) \/ CommitFails(r) \/ Deny(r) \/ Return(r)
           \/ Page(r) \/ LastPage(r) \/ Done(r)
  BY <1>5, <1>6, BeginReadStep, DecideStep, ReadRuleStep, CommitFailsStep, DenyStep, ReturnStep,
     PageStep, LastPageStep, DoneStep, IdleCall
<1>7. CASE List(r)
  <2>1. call'[r].pc = "record" /\ call'[r].kept = {b \in Id : Visible(b, call'[r].rule)}
    BY <1>7, ListStep
  <2>2. call'[r].kept \cap hidden'[r] = {}
    BY <1>1, <1>4, <2>1
  <2> QED
    BY <1>1, <1>3, <2>1, <2>2 DEF WithheldFrom
<1>8. CASE FetchBeliefs(r)
  <2>1. call'[r].pc = "links" /\ \A b \in call'[r].rows : Exists(b)
    BY <1>8, FetchBeliefsStep
  <2>2. \A b \in call'[r].rows : belief'[b].status # "free"
    BY <1>2, <2>1 DEF Exists
  <2> QED
    BY <1>1, <1>3, <2>1, <2>2 DEF WithheldFrom
<1>9. CASE ReadLinks(r)
  <2>1. /\ call'[r].pc = "events" /\ call[r].pc = "links" /\ call'[r].rows = call[r].rows
        /\ call'[r].links = [b \in Id |-> IF b \in call[r].rows THEN Linked(b) ELSE {}]
    BY <1>9, ReadLinksStep
  <2>2. \A b \in call'[r].rows : belief'[b].status # "free"
    BY <1>0, <1>2, <2>1 DEF WithheldFrom
  <2>3. ASSUME NEW b \in call'[r].rows \cap hidden'[r], belief'[b].status = "live"
        PROVE  ~ Passes(call'[r].rule, call'[r].links[b], belief'[b].born)
    <3>1. b \in Id /\ call'[r].links[b] = Linked(b) /\ Exists(b)
      BY <1>1, <1>2, <2>1, <2>3 DEF Exists
    <3>2. ~ Visible(b, call'[r].rule)
      BY <1>1, <1>4, <2>3, <3>1
    <3> QED
      BY <1>2, <3>1, <3>2 DEF Visible
  <2> QED
    BY <1>1, <1>3, <2>1, <2>2, <2>3 DEF WithheldFrom, Exists
<1>10. CASE ReadEvents(r)
  <2>1. /\ call'[r].pc = "record" /\ call[r].pc = "events"
        /\ call'[r].kept = Content(call[r].kind, Passed(call[r]))
    BY <1>10, ReadEventsStep
  <2>2. call'[r].kept = Passed(call[r])
    BY <1>0, <2>1 DEF Content
  <2>3. ASSUME NEW b \in call'[r].kept \cap hidden'[r] PROVE belief'[b].status = "gone"
    <3>1. b \in Id /\ b \in hidden[r] /\ b \in call[r].rows
      BY <1>1, <2>1, <2>2, <2>3 DEF Passed
    <3>2. Passes(call[r].rule, call[r].links[b], belief[b].born)
      BY <2>2, <2>3 DEF Passed
    <3>3. belief[b].status # "free" /\ ~ Exists(b)
      BY <1>0, <2>1, <3>1, <3>2 DEF WithheldFrom
    <3> QED
      BY <1>2, <3>1, <3>3, BeliefFields DEF Exists
  <2> QED
    BY <1>1, <1>3, <2>1, <2>3 DEF WithheldFrom
<1>11. CASE FetchEvidence(r)
  <2>1. call'[r].pc = "record" /\ call'[r].section = "evidence"
    BY <1>11, FetchEvidenceStep DEF SameReader
  <2> QED
    BY <1>1, <1>3, <2>1 DEF WithheldFrom
<1>12. CASE Record(r)
  <2>1. /\ call'[r].pc = "leave" /\ call[r].pc = "record" /\ call'[r].kept = call[r].kept
        /\ call'[r].section = call[r].section
    BY <1>12, RecordStep DEF SameReader
  <2>2. hidden'[r] \subseteq hidden[r]
    BY <1>1, <2>1
  <2> QED
    BY <1>0, <1>1, <1>2, <1>3, <2>1, <2>2 DEF WithheldFrom
<1> QED
  BY <1>6, <1>7, <1>8, <1>9, <1>10, <1>11, <1>12 DEF ReadStep

LEMMA WithheldKept ==
  ASSUME Typed, GrantsStand, LinksStand, WithheldStand, Next
  PROVE  WithheldStand'
<1>1. Remember /\ budget'.kinds = budget.kinds
  BY NextTyped
<1>2. Ahead
  <2>1. SameStore \/ MemoryStep
    BY NextCases, GrantSteps, ReadStepFrame, TrailSteps DEF Framed
  <2>2. SameStore => Ahead
    BY DEF SameStore, Ahead
  <2> QED
    BY <2>1, <2>2, MemorySteps
<1>3. ASSUME NEW d \in left, NEW b \in d.leaked PROVE belief'[b].status = "gone"
  <2>1. b \in Id /\ belief[b].status = "gone"
    BY <1>3 DEF WithheldStand, WithheldStaysWithheld, Typed, TrailTyped, Answer
  <2> QED
    BY <1>2, <2>1 DEF Ahead
<1>4. CASE SameReads /\ UNCHANGED left
  <2>1. \A r \in Reader : WithheldFrom(r)'
    BY <1>1, <1>2, <1>4, WithheldElsewhere DEF SameReads
  <2> QED
    BY <1>1, <1>3, <1>4, <2>1 DEF WithheldStand, WithheldStaysWithheld, NoHistories, SameReads
<1>5. ASSUME NEW r \in Reader, ReadStep(r) PROVE WithheldStand'
  <2>1. Others(r)
    BY <1>5, ReadStepTypes DEF Typing
  <2>2. \A q \in Reader : WithheldFrom(q)'
    <3>1. \A q \in Reader \ {r} : WithheldFrom(q)'
      BY <1>1, <1>2, <2>1, WithheldElsewhere DEF Others
    <3> QED
      BY <1>5, <3>1, WithheldByRead
  <2>3. WithheldStaysWithheld'
    <3>1. CASE UNCHANGED left
      BY <1>3, <3>1 DEF WithheldStaysWithheld
    <3>2. CASE call[r].pc = "leave" /\ Leaves(r, Delivered(call[r], r))
      <4>1. ASSUME NEW b \in Delivered(call[r], r).leaked PROVE belief'[b].status = "gone"
        <5>1. call[r].section = "beliefs" /\ b \in call[r].kept \cap hidden[r] /\ b \in Id
          BY <4>1, DeliveredTyped, CallFields
        <5>2. belief[b].status = "gone"
          BY <3>2, <5>1 DEF WithheldStand, WithheldFrom
        <5> QED
          BY <1>2, <5>1, <5>2 DEF Ahead
      <4> QED
        BY <1>3, <3>2, <4>1 DEF WithheldStaysWithheld, Leaves
    <3>3. CASE Deny(r) /\ Leaves(r, Refusal(r))
      BY <1>3, <3>3, RefusalTyped DEF WithheldStaysWithheld, Leaves
    <3> QED
      BY <1>5, <3>1, <3>2, <3>3, LeftByRead
  <2>4. NoHistories'
    <3>1. call'[r].kind = "list" \/ call'[r].kind = call[r].kind \/ call'[r].kind \in budget.kinds
      <4>1. CASE BeginRead(r) \/ Page(r) \/ LastPage(r)
        BY <4>1, BeginReadStep, PageStep, LastPageStep
      <4>2. CASE CommitFails(r) \/ Deny(r) \/ Return(r) \/ Done(r)
        BY <4>2, CommitFailsStep, DenyStep, ReturnStep, DoneStep, IdleCall
      <4>3. CASE Record(r)
        BY <4>3, RecordStep DEF SameReader
      <4>4. CASE \/ Decide(r) \/ ReadRule(r) \/ List(r) \/ FetchBeliefs(r) \/ ReadLinks(r)
                 \/ ReadEvents(r) \/ FetchEvidence(r)
        BY <4>4, QuietSteps DEF Quiet, SameReader
      <4> QED
        BY <1>5, <4>1, <4>2, <4>3, <4>4 DEF ReadStep
    <3> QED
      BY <1>1, <2>1, <3>1 DEF NoHistories, WithheldStand, Others
  <2> QED
    BY <2>2, <2>3, <2>4 DEF WithheldStand
<1> QED
  BY <1>4, <1>5, NextCases, GrantSteps, MemorySteps, TrailSteps DEF SameTrail

-----------------------------------------------------------------------------
(* What an export owes.                                                      *)

\* After a step an export owes what it owed, or has just begun; it exists, and while a page is
\* read its rule shows it.
LEMMA OwedNext ==
  ASSUME Remember, NEW r \in Reader, Walking(call[r])'
  PROVE  /\ owed'[r] \subseteq Everything
         /\ \A b \in OwedBy(r)' : Exists(b)'
         /\ Walking(call[r]) => OwedBy(r)' \subseteq OwedBy(r)
         /\ Reading(call[r])' => \A b \in OwedBy(r)' : Visible(b, call[r].rule)'
<1> DEFINE before == IF Walking(call[r]) THEN owed[r] ELSE Everything
           rule == call'[r].rule
<1>1. owed'[r] = before \cap OwedNow(LivePurposes)'
                 \cap (IF Reading(call'[r]) THEN OwedNow(call[r].rule)' ELSE Everything)
  <2>1. owed'[r] = IF ~ Walking(call'[r]) THEN {} ELSE before \cap OwedNow(LivePurposes)'
                     \cap (IF Reading(call'[r]) THEN OwedNow(call[r].rule)' ELSE Everything)
    BY DEF Remember
  <2>2. Walking(call'[r])
    BY DEF Walking
  <2> QED
    BY <2>1, <2>2
<1>2. OwedNow(LivePurposes)' \subseteq Everything
  BY DEF OwedNow, Everything
<1>3. ASSUME NEW b \in Id, <<"beliefs", b>> \in OwedNow(LivePurposes)' PROVE Exists(b)'
  BY <1>3 DEF OwedNow, Visible
<1>4. ASSUME NEW b \in Id, <<"beliefs", b>> \in OwedNow(call[r].rule)'
      PROVE  Visible(b, call[r].rule)'
  BY <1>4 DEF OwedNow
<1> HIDE DEF before
<1>5. owed'[r] \subseteq Everything
  BY <1>1, <1>2
<1>6. \A b \in OwedBy(r)' : Exists(b)'
  BY <1>1, <1>3 DEF OwedBy
<1>7. Walking(call[r]) => OwedBy(r)' \subseteq OwedBy(r)
  BY <1>1 DEF OwedBy, before
<1>8. Reading(call[r])' => \A b \in OwedBy(r)' : Visible(b, call[r].rule)'
  <2>1. Reading(call[r])' => Reading(call'[r])
    BY DEF Reading
  <2> QED
    BY <1>1, <1>4, <2>1 DEF OwedBy
<1> QED
  BY <1>5, <1>6, <1>7, <1>8

LEMMA WholeElsewhere ==
  ASSUME Typed, ExportsStand, Remember, Ahead, NEW r \in Reader, call'[r] = call[r],
         Walking(call[r])
  PROVE  Whole(r)'
<1>1. Whole(r) /\ Walking(call[r])'
  BY DEF ExportsStand, Walking
<1>2. /\ owed'[r] \subseteq Everything /\ \A b \in OwedBy(r)' : Exists(b)'
      /\ OwedBy(r)' \subseteq OwedBy(r)
  BY <1>1, OwedNext
<1>3. SentBy(r)' = SentBy(r)
  BY DEF SentBy
<1>4. IsFull(call[r])' = IsFull(call[r])
  BY DEF IsFull
<1>5. ASSUME call[r].pc = "events", call[r].section = "beliefs",
             NEW b \in OwedBy(r)' \cap call[r].rows
      PROVE  Passes(call[r].rule, call[r].links[b], belief'[b].born)
  <2>1. b \in OwedBy(r) /\ b \in Id /\ Exists(b) /\ Exists(b)'
    BY <1>1, <1>2, <1>5 DEF Whole, OwedBy
  <2>2. belief'[b].born = belief[b].born
    BY <2>1 DEF Ahead, Exists
  <2> QED
    BY <1>1, <1>5, <2>1, <2>2 DEF Whole
<1> USE DEF Whole
<1>6. /\ call[r].pc = "whole" => call[r].section = "evidence"
      /\ call[r].section = "evidence" => OwedBy(r)' \subseteq SentBy(r)'
  BY <1>1, <1>2, <1>3
<1>7. ASSUME call[r].section = "beliefs", NEW b \in OwedBy(r)'
      PROVE  /\ call[r].pc \in {"decide", "rule", "rows", "links", "events"} =>
                  (b <= call[r].cursor => b \in SentBy(r)')
             /\ call[r].pc \in {"links", "events"} =>
                  \/ b <= call[r].cursor \/ b \in call[r].rows
                  \/ IsFull(call[r]) /\ Max(call[r].rows) < b
             /\ call[r].pc \in {"record", "leave"} =>
                  b \in SentBy(r)' \/ b \in call[r].kept \/ call[r].next < b
  BY <1>1, <1>2, <1>3, <1>7
<1> QED
  BY <1>2, <1>4, <1>5, <1>6, <1>7

\* A page of beliefs holds what is owed above the cursor, up to its last row when it is full.
LEMMA PageHoldsOwed ==
  ASSUME Typed, NEW r \in Reader, FetchBeliefs(r), call[r].kind = "export",
         NEW b \in Id, Exists(b)
  PROVE  \/ b <= call[r].cursor \/ b \in call'[r].rows
         \/ IsFull(call'[r]) /\ Max(call'[r].rows) < b
<1>1. call'[r].rows = FirstOf(Fetched(r))
  BY FetchBeliefsStep DEF Rows
<1>2. Fetched(r) \subseteq Id /\ (b > call[r].cursor => b \in Fetched(r))
  BY DEF Fetched, Above
<1>3. b \in Nat /\ call[r].cursor \in Nat
  BY IdSet, CallFields
<1> QED
  BY <1>1, <1>2, <1>3, PageIsFirst DEF IsFull

LEMMA WholeByRead ==
  ASSUME Typed, ExportsStand, NEW r \in Reader, ReadStep(r), Walking(call[r])'
  PROVE  Whole(r)'
<1>1. SameStore /\ Remember
  BY ReadStepFrame DEF Framed
<1>2. belief' = belief /\ evidence' = evidence
  BY <1>1 DEF SameStore
<1>3. /\ owed'[r] \subseteq Everything /\ \A b \in OwedBy(r)' : Exists(b)' /\ b \in Id
      /\ Walking(call[r]) => OwedBy(r)' \subseteq OwedBy(r)
      /\ Reading(call[r])' => \A b \in OwedBy(r)' : Visible(b, call[r].rule)'
  BY <1>1, OwedNext DEF OwedBy
<1>4. \A b \in Id : Exists(b)' <=> Exists(b)
  BY <1>2 DEF Exists
<1>5. call'[r].kind = "export" /\ call'[r].pc # "idle"
  BY DEF Walking
<1>6. call[r].kind = "export" /\ call[r].pc # "idle" => Walking(call[r]) /\ Whole(r)
  BY DEF Walking, ExportsStand
<1>7. CASE BeginRead(r)
  <2>1. call'[r].pc = "decide" /\ call'[r].section = "beliefs" /\ call'[r].cursor = 0
    BY <1>7, BeginReadStep
  <2>2. ASSUME NEW b \in OwedBy(r)' PROVE ~ (b <= 0)
    <3>1. b \in Nat \ {0}
      BY <1>3, IdSet
    <3> QED
      BY <3>1
  <2> QED
    BY <1>3, <2>1, <2>2 DEF Whole
<1> DEFINE Steady == /\ call[r].kind = "export" /\ call[r].pc # "idle"
                     /\ call'[r].section = call[r].section /\ call'[r].cursor = call[r].cursor
                     /\ SentBy(r)' = SentBy(r)
           Still(b) == call'[r].section = "beliefs" => (b <= call'[r].cursor => b \in SentBy(r)')
           Base == /\ owed'[r] \subseteq Everything /\ \A b \in OwedBy(r)' : Exists(b)'
                   /\ call'[r].section = "evidence" => OwedBy(r)' \subseteq SentBy(r)'
<1>8. ASSUME SameReader(r), call[r].pc # "idle" PROVE Steady
  BY <1>5, <1>8 DEF SameReader, SentBy
<1>9. ASSUME Steady PROVE Base /\ OwedBy(r)' \subseteq OwedBy(r) /\ Whole(r)
  BY <1>3, <1>6, <1>9 DEF Whole
<1>10. ASSUME Steady, call[r].pc \in {"decide", "rule", "rows", "links", "events"}
       PROVE  \A b \in OwedBy(r)' : Still(b)
  <2>1. Whole(r) /\ OwedBy(r)' \subseteq OwedBy(r)
    BY <1>9, <1>10
  <2> QED
    BY <1>10, <2>1 DEF Whole
<1> HIDE DEF Steady, Base
<1>11. CASE Decide(r) \/ ReadRule(r)
  <2>1. /\ Steady /\ call[r].pc \in {"decide", "rule"} /\ call'[r].pc \in {"rule", "rows", "deny"}
    BY <1>8, <1>11, DecideStep, ReadRuleStep
  <2>2. Base /\ \A b \in OwedBy(r)' : Still(b)
    BY <1>9, <1>10, <2>1
  <2> QED
    BY <2>1, <2>2 DEF Whole, Base
<1>12. CASE List(r)
  BY <1>5, <1>12, ListStep DEF SameReader
<1>13. CASE FetchBeliefs(r)
  <2>1. /\ Steady /\ call[r].pc = "rows" /\ call'[r].pc = "links" /\ call[r].kind = "export"
    BY <1>8, <1>13, FetchBeliefsStep, CallFields DEF Steady
  <2>2. Base /\ \A b \in OwedBy(r)' : Still(b)
    BY <1>9, <1>10, <2>1
  <2>3. \A b \in OwedBy(r)' : \/ b <= call'[r].cursor \/ b \in call'[r].rows
                              \/ IsFull(call'[r]) /\ Max(call'[r].rows) < b
    BY <1>3, <1>4, <1>13, <2>1, PageHoldsOwed DEF Steady
  <2>4. IsFull(call[r])' = IsFull(call'[r])
    BY DEF IsFull
  <2> QED
    BY <2>1, <2>2, <2>3, <2>4 DEF Whole, Base
<1>14. CASE ReadLinks(r)
  <2>1. /\ Steady /\ call[r].pc = "links" /\ call'[r].pc = "events" /\ call[r].kind = "export"
        /\ call'[r].rows = call[r].rows
        /\ call'[r].links = [b \in Id |-> IF b \in call[r].rows THEN Linked(b) ELSE {}]
    BY <1>8, <1>14, ReadLinksStep DEF Steady
  <2>2. Base /\ (\A b \in OwedBy(r)' : Still(b)) /\ OwedBy(r)' \subseteq OwedBy(r) /\ Whole(r)
    BY <1>9, <1>10, <2>1
  <2>3. IsFull(call[r])' = IsFull(call[r])
    BY <2>1 DEF IsFull
  <2>4. ASSUME call'[r].section = "beliefs", NEW b \in OwedBy(r)'
        PROVE  \/ b <= call'[r].cursor \/ b \in call'[r].rows
               \/ IsFull(call[r])' /\ Max(call'[r].rows) < b
    <3>1. call[r].section = "beliefs" /\ call'[r].cursor = call[r].cursor
      BY <2>1, <2>4 DEF Steady
    <3> QED
      BY <2>1, <2>2, <2>3, <2>4, <3>1 DEF Whole
  <2>5. ASSUME NEW b \in OwedBy(r)' \cap call'[r].rows
        PROVE  Passes(call'[r].rule, call'[r].links[b], belief'[b].born)
    <3>1. Visible(b, call[r].rule)' /\ b \in Id
      BY <1>3, <2>1, <2>5 DEF Reading
    <3>2. Linked(b)' = Linked(b) /\ call'[r].links[b] = Linked(b)
      BY <1>2, <2>1, <2>5, <3>1 DEF Linked
    <3> QED
      BY <3>1, <3>2 DEF Visible
  <2> QED
    BY <2>1, <2>2, <2>4, <2>5 DEF Whole, Base
<1>15. CASE ReadEvents(r)
  <2>1. /\ Steady /\ call[r].pc = "events" /\ call'[r].pc = "record" /\ call[r].kind = "export"
        /\ call'[r].kept = Content(call[r].kind, Passed(call[r]))
        /\ call'[r].next = Cursor(call[r].rows, IsFull(call[r]), EndOfSection)
    BY <1>8, <1>15, ReadEventsStep DEF Steady
  <2>2. Base /\ OwedBy(r)' \subseteq OwedBy(r) /\ Whole(r)
    BY <1>9, <2>1
  <2>3. call'[r].kept = Passed(call[r])
    BY <2>1 DEF Content
  <2>4. ASSUME call'[r].section = "beliefs", NEW b \in OwedBy(r)'
        PROVE  b \in SentBy(r)' \/ b \in call'[r].kept \/ call'[r].next < b
    <3>1. call[r].section = "beliefs" /\ b \in OwedBy(r) /\ SentBy(r)' = SentBy(r)
      BY <2>1, <2>2, <2>4 DEF Steady
    <3>2. \/ b \in SentBy(r) \/ b \in call[r].rows
          \/ IsFull(call[r]) /\ Max(call[r].rows) < b
      BY <2>1, <2>2, <3>1 DEF Whole
    <3>3. b \in call[r].rows => b \in Passed(call[r])
      BY <2>1, <2>2, <3>1 DEF Whole, Passed
    <3> QED
      BY <2>1, <2>3, <3>1, <3>2, <3>3 DEF Cursor
  <2> QED
    BY <2>1, <2>2, <2>4 DEF Whole, Base
<1>16. CASE FetchEvidence(r)
  <2>1. Steady /\ call'[r].pc = "record" /\ call'[r].section = "evidence"
    BY <1>8, <1>16, FetchEvidenceStep DEF SameReader
  <2> QED
    BY <1>9, <2>1 DEF Whole, Base
<1>17. CASE Record(r)
  <2>1. /\ Steady /\ call[r].pc = "record" /\ call'[r].pc = "leave"
        /\ call'[r].kept = call[r].kept /\ call'[r].next = call[r].next
        /\ call'[r].section = call[r].section
    BY <1>8, <1>17, RecordStep DEF SameReader
  <2>2. Base /\ OwedBy(r)' \subseteq OwedBy(r) /\ Whole(r) /\ SentBy(r)' = SentBy(r)
    BY <1>9, <2>1 DEF Steady
  <2> QED
    BY <2>1, <2>2 DEF Whole, Base
<1>18. CASE Page(r) \/ LastPage(r)
  <2>1. /\ call[r].kind = "export" /\ call[r].pc = "leave"
        /\ Whole(r) /\ OwedBy(r)' \subseteq OwedBy(r)
    BY <1>3, <1>6, <1>18, PageStep, LastPageStep
  <2>2. call[r].sent \subseteq call'[r].sent
    BY <1>18, PageStep, LastPageStep DEF Given
  <2>3. SentBy(r) \subseteq SentBy(r)'
    BY <2>2 DEF SentBy
  <2>4. CASE call[r].section = "evidence"
    <3>1. call'[r].section = "evidence" /\ OwedBy(r)' \subseteq SentBy(r)'
      BY <1>18, <2>1, <2>3, <2>4, PageStep, LastPageStep DEF Whole
    <3> QED
      BY <1>3, <3>1 DEF Whole
  <2>5. CASE call[r].section = "beliefs"
    <3>1. Page(r)
      BY <1>18, <2>5, LastPageStep
    <3>2. \A b \in Id : b \in call[r].kept => b \in SentBy(r)'
      BY <2>5, <3>1, PageStep DEF Given, SentBy
    <3>3. \A b \in OwedBy(r)' : b \in SentBy(r)' \/ call[r].next < b
      BY <1>3, <2>1, <2>3, <2>5, <3>2 DEF Whole
    <3>4. CASE call'[r].section = call[r].section /\ call'[r].cursor = call[r].next
      <4>1. ASSUME NEW b \in OwedBy(r)', b <= call'[r].cursor PROVE b \in SentBy(r)'
        <5>1. b \in Nat /\ call[r].next \in Nat
          BY <1>3, IdSet, CallFields
        <5>2. ~ (call[r].next < b)
          BY <3>4, <4>1, <5>1
        <5> QED
          BY <3>3, <5>2
      <4> QED
        BY <1>3, <2>5, <3>1, <3>4, <4>1, PageStep DEF Whole
    <3>5. CASE call[r].next = EndOfSection /\ call'[r].section = "evidence"
      <4>1. ASSUME NEW b \in OwedBy(r)' PROVE ~ (call[r].next < b)
        <5>1. b \in Nat /\ b <= NBelief /\ NBelief \in Nat
          BY <1>3, IdSet
        <5> QED
          BY <3>5, <5>1 DEF EndOfSection
      <4> QED
        BY <1>3, <3>3, <3>5, <4>1 DEF Whole
    <3> QED
      BY <3>1, <3>4, <3>5, PageStep
  <2> QED
    BY <2>4, <2>5, CallFields DEF Section
<1>19. CASE CommitFails(r) \/ Deny(r) \/ Return(r) \/ Done(r)
  BY <1>5, <1>19, CommitFailsStep, DenyStep, ReturnStep, DoneStep, IdleCall
<1> QED
  BY <1>7, <1>11, <1>12, <1>13, <1>14, <1>15, <1>16, <1>17, <1>18, <1>19 DEF ReadStep

LEMMA ExportsKept ==
  ASSUME Typed, GrantsStand, LinksStand, ExportsStand, Next
  PROVE  ExportsStand'
<1> DEFINE Sound(r) == /\ Walking(call[r])' => Whole(r)'
                       /\ call'[r].pc = "whole" => call'[r].kind = "export"
<1>1. Remember
  BY NextTyped
<1>2. Ahead
  <2>1. SameStore \/ MemoryStep
    BY NextCases, GrantSteps, ReadStepFrame, TrailSteps DEF Framed
  <2>2. SameStore => Ahead
    BY DEF SameStore, Ahead
  <2> QED
    BY <2>1, <2>2, MemorySteps
<1>3. ASSUME NEW r \in Reader, call'[r] = call[r] PROVE Sound(r)
  BY <1>1, <1>2, <1>3, WholeElsewhere DEF Walking, ExportsStand
<1>4. ASSUME NEW r \in Reader, ReadStep(r), NEW q \in Reader PROVE Sound(q)
  <2>1. CASE q # r
    BY <1>3, <1>4, <2>1, ReadStepTypes DEF Typing, Others
  <2>2. call'[r].pc = "whole" => call'[r].kind = "export"
    <3>1. CASE BeginRead(r) \/ Page(r) \/ LastPage(r)
      BY <3>1, BeginReadStep, PageStep, LastPageStep
    <3>2. CASE CommitFails(r) \/ Deny(r) \/ Return(r) \/ Done(r)
      BY <3>2, CommitFailsStep, DenyStep, ReturnStep, DoneStep, IdleCall
    <3>3. CASE Record(r) \/ Decide(r) \/ ReadRule(r) \/ List(r)
      BY <3>3, RecordStep, DecideStep, ReadRuleStep, ListStep
    <3>4. CASE FetchBeliefs(r) \/ ReadLinks(r) \/ ReadEvents(r) \/ FetchEvidence(r)
      BY <3>4, FetchBeliefsStep, ReadLinksStep, ReadEventsStep, FetchEvidenceStep
    <3> QED
      BY <1>4, <3>1, <3>2, <3>3, <3>4 DEF ReadStep
  <2>3. Sound(r)
    BY <1>4, <2>2, WholeByRead
  <2> QED
    BY <2>1, <2>3
<1> HIDE DEF Sound
<1>5. SameReads => \A r \in Reader : Sound(r)
  BY <1>3 DEF SameReads
<1>6. \A r \in Reader : Sound(r)
  BY <1>4, <1>5, NextCases, GrantSteps, MemorySteps, TrailSteps
<1> QED
  BY <1>6 DEF ExportsStand, Sound

-----------------------------------------------------------------------------
(* The theorems.                                                             *)

Standing ==
  /\ Typed /\ GrantsStand /\ LinksStand /\ DecisionsStand /\ PagesStand /\ NumbersStand
  /\ AnswersStand /\ ExportsStand

LEMMA InitStanding ==
  ASSUME Init
  PROVE  Standing
<1>1. /\ audit = {} /\ left = {} /\ reads = 0 /\ purge.cut = {}
      /\ \A r \in Reader : call[r].pc = "idle" /\ call[r].late = 0
  BY IdleCall DEF Init, NoPurge
<1>2. DecisionsStand
  BY <1>1 DEF DecisionsStand, RecordsNameTheGrant, Decided
<1>3. PagesStand
  BY <1>1 DEF PagesStand, Decided
<1>4. NumbersStand
  BY <1>1 DEF NumbersStand, Unrecorded
<1>5. AnswersStand
  BY <1>1 DEF AnswersStand, NothingLeavesUnrecorded
<1>6. ExportsStand
  BY <1>1 DEF ExportsStand, Walking
<1> QED
  BY <1>2, <1>3, <1>4, <1>5, <1>6, InitGrants, InitTyped DEF Standing

LEMMA Stuttering ==
  ASSUME Standing, UNCHANGED vars
  PROVE  Standing'
<1> USE DEF vars
<1>1. Typed' /\ LinksStand'
  BY DEF Standing, Typed, GrantsTyped, StoreTyped, ReadsTyped, TrailTyped, LinksStand
<1>2. GrantsStand'
  BY DEF Standing, GrantsStand, OneWinnerPerVersion
<1>3. DecisionsStand'
  BY DEF Standing, DecisionsStand, RecordsNameTheGrant
<1>4. PagesStand' /\ NumbersStand'
  BY DEF Standing, PagesStand, NumbersStand
<1>5. AnswersStand'
  BY DEF Standing, AnswersStand, NothingLeavesUnrecorded, Ids, Accounts
<1>6. ExportsStand'
  BY DEF Standing, ExportsStand, Walking, Whole, OwedBy, SentBy, Exists, IsFull
<1> QED
  BY <1>1, <1>2, <1>3, <1>4, <1>5, <1>6 DEF Standing

\* The inductive invariant.
THEOREM Invariance == Spec => []Standing
<1>1. Standing /\ [Next]_vars => Standing'
  <2> SUFFICES ASSUME Standing, [Next]_vars PROVE Standing'
    OBVIOUS
  <2>1. CASE Next
    <3>1. Typed /\ GrantsStand /\ LinksStand
      BY DEF Standing
    <3>2. Typed' /\ LinksStand' /\ GrantsStand'
      BY <2>1, <3>1, NextTyped, GrantsKept
    <3>3. DecisionsStand' /\ PagesStand'
      BY <2>1, <3>1, DecisionsKept, PagesKept DEF Standing
    <3>4. NumbersStand' /\ AnswersStand' /\ ExportsStand'
      BY <2>1, <3>1, NumbersKept, AnswersKept, ExportsKept DEF Standing
    <3> QED
      BY <3>2, <3>3, <3>4 DEF Standing
  <2>2. CASE UNCHANGED vars
    BY <2>2, Stuttering
  <2> QED
    BY <2>1, <2>2
<1> QED
  BY <1>1, InitStanding, PTL DEF Spec

\* The types of the variables, and that what is linked was recorded (core/authorization.py,
\* core/repository.py, core/access_audit.py).
THEOREM TypesHold == Spec => []TypeOK
<1>1. Standing => TypeOK
  <2> SUFFICES ASSUME Standing PROVE TypeOK
    OBVIOUS
  <2>1. /\ grant \in [Purpose -> GrantRow] /\ consent \in BOOLEAN /\ reads \in Nat
        /\ belief \in [Id -> Belief] /\ evidence \in [Id -> Source \cup {Nobody}]
    BY DEF Standing, Typed, GrantsTyped, StoreTyped, ReadsTyped
  <2>2. \A b \in Id, e \in Id : e \in belief[b].links => evidence[e] # Nobody
    BY DEF Standing, LinksStand
  <2>3. \A row \in audit : row.decision \in Decisions /\ row.n \in 1..reads
    BY DEF Standing, Typed, TrailTyped, AuditRow, NumbersStand
  <2>4. (\A v, w \in audit : v.n = w.n => v = w) /\ purge.cut \subseteq 1..reads
    BY DEF Standing, NumbersStand
  <2>5. \A r \in Reader : call[r].kept \subseteq Id
    BY CallFields DEF Standing
  <2> QED
    BY <2>1, <2>2, <2>3, <2>4, <2>5 DEF TypeOK, GrantRow, Belief
<1> QED
  BY <1>1, Invariance, PTL

\* Whatever was returned, and every refusal, has a committed audit row that accounts for it, or
\* had one until the retention pass: the row counts what was returned and names it all or, past
\* max_ids, as much as it may; of a history it names the belief that was asked for (api.py _audit,
\* _authorize, belief_history; access_audit.py record_access; worker/maintenance.py).
THEOREM EveryAnswerIsRecorded == Spec => []NothingLeavesUnrecorded
<1>1. Standing => NothingLeavesUnrecorded
  BY DEF Standing, AnswersStand
<1> QED
  BY <1>1, Invariance, PTL

\* However many callers change a grant at once, its events are numbered without a gap and the
\* row says what the last of them said (core/authorization.py grant_purpose, revoke_purpose).
THEOREM ChangesAreNumbered == Spec => []OneWinnerPerVersion
<1>1. Standing => OneWinnerPerVersion
  BY DEF Standing, GrantsStand
<1> QED
  BY <1>1, Invariance, PTL

\* An audit row can be read back against the event whose version it names
\* (core/access_audit.py record_access).
THEOREM RowsNameTheirGrant == Spec => []RecordsNameTheGrant
<1>1. Standing => RecordsNameTheGrant
  BY DEF Standing, DecisionsStand
<1> QED
  BY <1>1, Invariance, PTL

\* After a revocation at most the page that was decided before it leaves, however often the
\* grant is given back and taken away (core/export.py, api.py export_page).
THEOREM RevocationStops == Spec => []RevocationStopsTheExport
<1>1. Standing => RevocationStopsTheExport
  BY DEF Standing, PagesStand, RevocationStopsTheExport
<1> QED
  BY <1>1, Invariance, PTL

\* What exists and may be shown, from the beginning of an export to its end, is in it, whatever
\* is collected, forgotten, granted and revoked meanwhile (core/export.py read_page).
THEOREM ExportsAreWhole == Spec => []BeliefsExportedWhole
<1>1. Standing => BeliefsExportedWhole
  <2> SUFFICES ASSUME Standing, NEW r \in Reader, call[r].pc = "whole",
                      NEW o \in owed[r], o[1] = "beliefs"
               PROVE  o \in call[r].sent
    BY DEF BeliefsExportedWhole, At
  <2>1. Whole(r)
    BY DEF Standing, ExportsStand, Walking
  <2>2. PICK b \in Id : o = <<"beliefs", b>>
    BY <2>1 DEF Whole, Everything
  <2>3. b \in SentBy(r)
    BY <2>1, <2>2 DEF Whole, OwedBy
  <2> QED
    BY <2>2, <2>3 DEF SentBy
<1> QED
  BY <1>1, Invariance, PTL

\* What the rule of a read withholds from its first statement to its answer is not in the answer,
\* unless it was forgotten meanwhile: for every reading entry but belief_history, whose chain of
\* versions is not filtered again (core/provenance.py beliefs_visible).
THEOREM WithheldIsKeptBack ==
  ASSUME \A m \in Budgets : "history" \notin m.kinds
  PROVE  Spec => []WithheldStaysWithheld
<1>1. Init => WithheldStand
  <2> SUFFICES ASSUME Init PROVE WithheldStand
    OBVIOUS
  <2>1. NoHistories /\ WithheldStaysWithheld
    BY IdleCall DEF Init, NoHistories, WithheldStaysWithheld
  <2>2. \A r \in Reader : call[r].pc = "idle" /\ hidden[r] = {}
    BY IdleCall DEF Init
  <2> QED
    BY <2>1, <2>2 DEF WithheldStand, WithheldFrom
<1>2. Standing /\ WithheldStand /\ [Next]_vars => WithheldStand'
  <2> SUFFICES ASSUME Standing, WithheldStand, [Next]_vars PROVE WithheldStand'
    OBVIOUS
  <2>1. CASE Next
    BY <2>1, WithheldKept DEF Standing
  <2>2. CASE UNCHANGED vars
    <3>1. WithheldStaysWithheld' /\ NoHistories'
      BY <2>2 DEF vars, WithheldStand, WithheldStaysWithheld, NoHistories
    <3>2. ASSUME NEW r \in Reader PROVE WithheldFrom(r)'
      <4>1. WithheldFrom(r)
        BY DEF WithheldStand
      <4>2. \A b : Visible(b, call[r].rule)' <=> Visible(b, call[r].rule)
        BY <2>2 DEF vars, Visible, Exists, Linked
      <4> QED
        BY <2>2, <4>1, <4>2 DEF vars, WithheldFrom, Exists
    <3> QED
      BY <3>1, <3>2 DEF WithheldStand
  <2> QED
    BY <2>1, <2>2
<1>3. WithheldStand => WithheldStaysWithheld
  BY DEF WithheldStand
<1> QED
  BY <1>1, <1>2, <1>3, Invariance, PTL DEF Spec
=============================================================================
