-------------------------------- MODULE Access --------------------------------
(***************************************************************************)
(* Who may read which memory, and what is left behind when they do: the    *)
(* purpose grants (authorization.py), the visibility of memory collected   *)
(* under another purpose (provenance.py), the reading entries of the       *)
(* engine (api.py), the export (export.py) and the access audit with its   *)
(* retention (access_audit.py, worker/maintenance.py).  One user.          *)
(*                                                                         *)
(* A read is one transaction of several statements: the decision, the rule *)
(* (which purposes are live), the rows, their provenance, the audit row    *)
(* and the commit.  Each statement is a step and sees what is committed    *)
(* when it runs, on SQLite (no transaction before the first write) as on   *)
(* PostgreSQL (READ COMMITTED); writers of memory and grants come between. *)
(***************************************************************************)
EXTENDS Naturals, FiniteSets, SequencesExt, FiniteSetsExt

CONSTANTS
  Reader,      \* callers that read memory
  Issuer,      \* callers that change grants
  Purpose,
  Scopes,      \* the sets of operations a grant may be issued for
  PageSize, PurgeBatch,
  MaxIds,      \* ids an audit row may name (access_audit.max_ids)
  NBelief,     \* bound: ids of beliefs, and of evidence
  Budgets      \* bounds: how many grant changes and expiries, claims, forgotten beliefs, reads,
               \* failing commits and ageing audit rows a behaviour may have, and which entries
               \* its readers use, and what is stored at the start: one mix for each
               \* kind of behaviour

ASSUME SizesAssumption == {PageSize, PurgeBatch, MaxIds} \subseteq Nat \ {0}
Entry == {"list", "explain", "history", "export"}
Mixture == [kinds : SUBSET Entry, store : {"empty", "plain", "any"}, changes : Nat, collects : Nat,
            forgets : Nat, reads : Nat, faults : Nat, ages : Nat]
ASSUME BoundsAssumption == NBelief \in Nat /\ Budgets \subseteq Mixture

Nobody == "nobody"
Unknown == "unknown"      \* the empty source purpose: never recorded
Source == Purpose \cup {Unknown}
Id == 1..NBelief
Operation == {"explain", "export"}
ASSUME PurposeAssumption == {Nobody, Unknown} \cap Purpose = {}
ASSUME ScopesAssumption == Scopes \subseteq SUBSET Operation
\* the operation an entry asks for
Needs(kind) == IF kind = "export" THEN "export" ELSE "explain"

VARIABLES
  grant,     \* purpose -> the grant row; version 0: no row
  changes,   \* purpose -> the grant events, each with what the row then said
  consent,   \* what the feature consents and the memory switch answer
  issuer,    \* a grant or revoke call between its look and its write
  belief,    \* id -> status, links to evidence, purposes of its created and corrected events
  evidence,  \* id -> its source purpose, or Nobody: no row
  call,      \* a reader's call
  reads,     \* reads begun; a read is named by its number
  audit,     \* committed audit rows
  purged,    \* numbers of the rows the retention pass removed
  purge,     \* the retention pass: what is beyond its cutoff
  left,      \* history: what was returned to a caller
  owed,      \* history: what exists, and is visible, since an export began
  hidden,    \* history: beliefs the rule of a read withheld all along
  budget     \* what is left of the bounds

grants == <<grant, changes, consent, issuer>>
store == <<belief, evidence>>
trail == <<audit, purged, purge>>
vars == <<grant, changes, consent, issuer, belief, evidence, call, reads, audit, purged,
          purge, left, owed, hidden, budget>>

NoGrant == [version |-> 0, ops |-> {}, revoked |-> FALSE, expired |-> FALSE]
NoBelief == [status |-> "free", links |-> {}, born |-> {}]
Idle == [pc |-> "idle", kind |-> "list", purpose |-> Nobody, n |-> 0, version |-> 0,
         rule |-> {}, rows |-> {}, links |-> [b \in Id |-> {}], kept |-> {}, section |-> "beliefs",
         cursor |-> 0, next |-> 0, target |-> 0, sent |-> {}, late |-> 0]
NoPurge == [on |-> FALSE, cut |-> {}]
NoCall == [pc |-> "idle", purpose |-> Nobody, expected |-> 0, exists |-> FALSE, act |-> "grant",
           ops |-> {}]

Spend(counter) == budget[counter] > 0 /\ budget' = [budget EXCEPT ![counter] = @ - 1]
May(counter) == budget[counter] > 0

(* ---------------------------- the visibility --------------------------- *)
Exists(b) == belief[b].status = "live"
Live(p) == grant[p].version > 0 /\ ~ grant[p].revoked /\ ~ grant[p].expired

Shown(rule, source) == source = Unknown \/ source \in rule

\* the A2 rule: any linked evidence; without any, a created or corrected event;
\* with neither, the unknown marker
Passes(rule, linked, born) ==
  IF linked # {} THEN \E s \in linked : Shown(rule, s)
  ELSE IF born # {} THEN \E s \in born : Shown(rule, s)
  ELSE TRUE

Linked(b) == {evidence[e] : e \in belief[b].links}
Visible(b, rule) == Exists(b) /\ Passes(rule, Linked(b), belief[b].born)
LivePurposes == {p \in Purpose : Live(p)}

At(r, pc) == call[r].pc = pc
\* history: what an export owes is what exists, and is visible, from its start to its last
\* page, also by the rule a page has read while it reads its rows; what a read withholds is
\* what was invisible from its rule to its answer
Everything == {<<"beliefs", b>> : b \in Id} \cup {<<"evidence", e>> : e \in Id}
Walking(c) == c.kind = "export" /\ c.pc # "idle"
OwedNow(rule) ==
  {<<"beliefs", b>> : b \in {x \in Id : Visible(x, rule)}}
  \cup {<<"evidence", e>> : e \in {x \in Id : evidence[x] # Nobody /\ Shown(rule, evidence[x])}}
Reading(c) == c.pc \in {"rows", "links", "events"}
ShownNow(r) == {b \in Id : Visible(b, call[r].rule)}
Remember ==
  /\ owed' = [r \in Reader |->
       IF ~ Walking(call'[r]) THEN {}
       ELSE (IF Walking(call[r]) THEN owed[r] ELSE Everything) \cap OwedNow(LivePurposes)'
            \cap (IF Reading(call'[r]) THEN OwedNow(call[r].rule)' ELSE Everything)]
  /\ hidden' = [r \in Reader |->
       IF call'[r].pc = "idle" THEN {}
       ELSE IF At(r, "rule") /\ call'[r].pc = "rows"
       THEN {b \in Id : Exists(b)} \ ShownNow(r)'
       ELSE hidden[r] \ ShownNow(r)']

(* ----------------------------- the grants ------------------------------ *)

\* mutant: the decision does not look at the revocation
AllowsRevoked(p, op) == grant[p].version > 0 /\ ~ grant[p].expired /\ op \in grant[p].ops /\ consent

\* the order of the refusals does not matter here: each of them refuses
Allows(p, op) == Live(p) /\ op \in grant[p].ops /\ consent

\* a call looks the row up; a first issuance takes no expected version
Look(i) ==
  /\ issuer[i].pc = "idle" /\ May("changes")
  /\ \E p \in Purpose, act \in {"grant", "revoke"}, ops \in Scopes :
     \E expected \in 0..grant[p].version :
       /\ act = "revoke" => grant[p].version > 0 /\ ~ grant[p].revoked /\ expected = grant[p].version
       /\ act = "grant" => (expected = 0 <=> grant[p].version = 0)
       /\ issuer' = [issuer EXCEPT ![i] = [pc |-> "write", purpose |-> p, expected |-> expected,
                       exists |-> grant[p].version > 0, act |-> act, ops |-> ops]]
  /\ UNCHANGED <<grant, changes, consent, store, call, reads, trail, left, budget>>
  /\ Remember

\* mutant: an update does not compare the version
WinsAnyway(c) == TRUE

\* the primary key for a first issuance, compare-and-swap for a change
Wins(c) ==
  IF c.exists THEN grant[c.purpose].version = c.expected ELSE grant[c.purpose].version = 0

Changed(c) ==
  IF c.act = "revoke" THEN [grant[c.purpose] EXCEPT !.version = c.expected + 1, !.revoked = TRUE]
  ELSE [version |-> IF c.exists THEN c.expected + 1 ELSE 1, ops |-> c.ops,
        revoked |-> FALSE, expired |-> FALSE]

\* the row and its event, committed together; the loser raises StaleGrantVersion
Write(i) ==
  /\ issuer[i].pc = "write"
  /\ LET c == issuer[i] IN
       IF Wins(c) /\ May("changes")
       THEN /\ grant' = [grant EXCEPT ![c.purpose] = Changed(c)]
            /\ changes' = [changes EXCEPT ![c.purpose] = Append(@, Changed(c))]
            /\ Spend("changes")
       ELSE UNCHANGED <<grant, changes, budget>>
  /\ issuer' = [issuer EXCEPT ![i] = NoCall]
  /\ UNCHANGED <<consent, store, call, reads, trail, left>>
  /\ Remember

Expire(p) ==
  /\ Live(p) /\ May("changes")
  /\ grant' = [grant EXCEPT ![p].expired = TRUE]
  /\ Spend("changes")
  /\ UNCHANGED <<changes, consent, issuer, store, call, reads, trail, left>>
  /\ Remember

\* set_enabled, set_consent
SetConsent ==
  /\ May("changes")
  /\ consent' = ~ consent
  /\ Spend("changes")
  /\ UNCHANGED <<grant, changes, issuer, store, call, reads, trail, left>>
  /\ Remember

(* ----------------------------- the memory ------------------------------ *)
\* evidence is found again by its reference and keeps the purpose that collected it first
Recorded(e, p) == [evidence EXCEPT ![e] = IF @ = Nobody THEN p ELSE @]

\* a claim under purpose p opens a belief, with or without evidence behind it
Create(p, b, es) ==
  /\ May("collects") /\ Live(p)
  /\ belief[b].status = "free" /\ \A c \in Id : c < b => belief[c].status # "free"
  /\ belief' = [belief EXCEPT ![b] = [status |-> "live", links |-> es, born |-> {p}]]
  /\ evidence' = [e \in Id |-> IF e \in es THEN Recorded(e, p)[e] ELSE evidence[e]]
  /\ Spend("collects")
  /\ UNCHANGED <<grants, call, reads, trail, left>>
  /\ Remember

Support(p, b, e) ==
  /\ May("collects") /\ Live(p)
  /\ Exists(b) /\ e \notin belief[b].links
  /\ belief' = [belief EXCEPT ![b].links = @ \cup {e}]
  /\ evidence' = Recorded(e, p)
  /\ Spend("collects")
  /\ UNCHANGED <<grants, call, reads, trail, left>>
  /\ Remember

\* mutant: evidence goes with the belief although another belief points at it
OrphanedShared(b) == belief[b].links

\* evidence no other belief points at
Orphaned(b) == Id \ UNION {belief[c].links : c \in Id \ {b}}

\* one transaction: the belief, its events, its links and the evidence nothing else points at
Forget(b) ==
  /\ May("forgets") /\ Exists(b)
  /\ belief' = [belief EXCEPT ![b] = [NoBelief EXCEPT !.status = "gone"]]
  /\ evidence' = [e \in Id |-> IF e \in Orphaned(b) THEN Nobody ELSE evidence[e]]
  /\ Spend("forgets")
  /\ UNCHANGED <<grants, call, reads, trail, left>>
  /\ Remember

(* ------------------------------- a read -------------------------------- *)
Set(r, c) == call' = [call EXCEPT ![r] = c]

BeginRead(r) ==
  /\ At(r, "idle") /\ May("reads")
  /\ \E kind \in budget.kinds, p \in Purpose, b \in Id :
       /\ kind \in {"list", "export"} => b = 1
       /\ Set(r, [Idle EXCEPT !.pc = "decide", !.kind = kind, !.purpose = p, !.target = b,
                              !.n = reads + 1])
  /\ reads' = reads + 1 /\ Spend("reads")
  /\ UNCHANGED <<grants, store, trail, left>>
  /\ Remember

\* mutant: only the first page of an export is authorized
DecidesOnce(r) ==
  Allows(call[r].purpose, Needs(call[r].kind)) \/ call[r].version > 0

\* every page and every call decides again, from the committed row
Decides(r) == Allows(call[r].purpose, Needs(call[r].kind))

Decide(r) ==
  /\ At(r, "decide")
  /\ Set(r, [call[r] EXCEPT !.version = grant[call[r].purpose].version,
               !.late = IF Live(call[r].purpose) THEN 0 ELSE @,
               !.pc = IF Decides(r) THEN "rule" ELSE "deny"])
  /\ UNCHANGED <<grants, store, reads, trail, left, budget>>
  /\ Remember

\* the purposes with a grant in force, read once
ReadRule(r) ==
  /\ At(r, "rule")
  /\ Set(r, [call[r] EXCEPT !.rule = LivePurposes, !.pc = "rows"])
  /\ UNCHANGED <<grants, store, reads, trail, left, budget>>
  /\ Remember

Above(ids, cursor) == {i \in ids : i > cursor}
FirstOf(ids) == {i \in ids : Cardinality({j \in ids : j < i}) < PageSize}

\* get_beliefs, recall, panel, the verification candidates: the rule is part of the query
List(r) ==
  /\ At(r, "rows") /\ call[r].kind = "list"
  /\ Set(r, [call[r] EXCEPT !.kept = {b \in Id : Visible(b, call[r].rule)}, !.pc = "record"])
  /\ UNCHANGED <<grants, store, reads, trail, left, budget>>
  /\ Remember

Fetched(r) == Above({b \in Id : Exists(b)}, call[r].cursor)

\* explain, history, belief_by_id: one belief; an export page: the next ones
FetchBeliefs(r) ==
  /\ At(r, "rows") /\ call[r].kind # "list" /\ call[r].section = "beliefs"
  /\ Set(r, [call[r] EXCEPT !.pc = "links",
       !.rows = IF call[r].kind = "export" THEN FirstOf(Fetched(r))
                ELSE {b \in {call[r].target} : Exists(b)}])
  /\ UNCHANGED <<grants, store, reads, trail, left, budget>>
  /\ Remember

ReadLinks(r) ==
  /\ At(r, "links")
  /\ Set(r, [call[r] EXCEPT !.pc = "events",
       !.links = [b \in Id |-> IF b \in call[r].rows THEN Linked(b) ELSE {}]])
  /\ UNCHANGED <<grants, store, reads, trail, left, budget>>
  /\ Remember

\* a history is the chain of versions of the slot, whichever belief each came from
Content(kind, kept) ==
  IF kind = "history" /\ kept # {} THEN {b \in Id : Exists(b)} ELSE kept

Cursor(rows, full, last) == IF full THEN Max(rows) ELSE last
EndOfSection == NBelief + 1

\* mutant: a belief without evidence passes whatever its events say
PassedWithoutEvents(c) == {b \in c.rows : Passes(c.rule, c.links[b], {})}

Passed(c) == {b \in c.rows : Passes(c.rule, c.links[b], belief[b].born)}

\* mutant: the beliefs shown are counted
IsFullShown(c) == Cardinality(Passed(c)) = PageSize

\* the page is full when its rows are, shown or not
IsFull(c) == Cardinality(c.rows) = PageSize

ReadEvents(r) ==
  /\ At(r, "events")
  /\ LET c == call[r]
     IN Set(r, [c EXCEPT !.pc = "record", !.kept = Content(c.kind, Passed(c)),
                  !.next = Cursor(c.rows, IsFull(c), EndOfSection)])
  /\ UNCHANGED <<grants, store, reads, trail, left, budget>>
  /\ Remember

\* the section of evidence; the one of events is read the same way.  The page is taken for
\* the last when the rows that may be SHOWN are fewer than a page.
FetchEvidence(r) ==
  /\ At(r, "rows") /\ call[r].section = "evidence"
  /\ LET c == call[r]
         rows == FirstOf(Above({e \in Id : evidence[e] # Nobody}, c.cursor))
         shown == {e \in rows : Shown(c.rule, evidence[e])}
     IN Set(r, [c EXCEPT !.pc = "record", !.rows = shown, !.kept = shown,
                  !.next = Cursor(rows, Cardinality(shown) = PageSize, EndOfSection)])
  /\ UNCHANGED <<grants, store, reads, trail, left, budget>>
  /\ Remember

(* ------------------------- the audit and the answer -------------------- *)
\* the ids a read is recorded with.  An export page names the rows fetched, shown or not;
\* belief_history the belief it was asked for, whichever its chain of versions returns.
Ids(c) ==
  IF c.kind = "export" THEN c.rows
  ELSE IF c.kind = "history" /\ c.kept # {} THEN {c.target} ELSE c.kept

\* ids beyond max_ids are dropped: any of them, since the order of the ids is not modelled
Kept(ids) ==
  IF Cardinality(ids) <= MaxIds THEN {ids} ELSE {s \in SUBSET ids : Cardinality(s) = MaxIds}

\* the row of a call, by what is kept of its ids; it is marked truncated when it counts more
RowsOf(c, ids, decision) ==
  {[n |-> c.n, decision |-> decision, entry |-> c.kind, purpose |-> c.purpose,
    version |-> c.version, op |-> Needs(c.kind), ids |-> kept, count |-> Cardinality(ids),
    old |-> FALSE] : kept \in Kept(ids)}

\* mutant: what could not be recorded is returned all the same
AnswersAnyway == "leave"

\* the row is part of the read's transaction: without it nothing is returned
Answers == "idle"

Record(r) ==
  /\ At(r, "record")
  /\ \E row \in RowsOf(call[r], Ids(call[r]), "allowed") : audit' = audit \cup {row}
  /\ Set(r, [call[r] EXCEPT !.pc = "leave"])
  /\ UNCHANGED <<grants, store, reads, purged, purge, left, budget>>
  /\ Remember

CommitFails(r) ==
  /\ call[r].pc \in {"record", "deny"} /\ May("faults")
  /\ Set(r, IF Answers = "leave" /\ At(r, "record") THEN [call[r] EXCEPT !.pc = "leave"] ELSE Idle)
  /\ Spend("faults")
  /\ UNCHANGED <<grants, store, reads, trail, left>>
  /\ Remember

Deny(r) ==
  /\ At(r, "deny")
  /\ \E row \in RowsOf(call[r], {}, "denied") : audit' = audit \cup {row}
  /\ left' = left \cup {[n |-> call[r].n, denied |-> TRUE, ids |-> {}, leaked |-> {}]}
  /\ Set(r, Idle)
  /\ UNCHANGED <<grants, store, reads, purged, purge, budget>>
  /\ Remember

Delivered(c, r) ==
  [n |-> c.n, denied |-> FALSE, ids |-> c.kept,
   leaked |-> IF c.section = "beliefs" THEN c.kept \cap hidden[r] ELSE {}]

\* get_beliefs touches its rows after the commit, which loads them again: a row that is
\* gone by then raises
Return(r) ==
  /\ At(r, "leave") /\ call[r].kind # "export"
  /\ left' = IF call[r].kind = "list" /\ \E b \in call[r].kept : ~ Exists(b) THEN left
             ELSE left \cup {Delivered(call[r], r)}
  /\ Set(r, Idle)
  /\ UNCHANGED <<grants, store, reads, trail, budget>>
  /\ Remember

\* a page is handed over; the consumer asks for the next one, or the walk is over
Page(r) ==
  /\ At(r, "leave") /\ call[r].kind = "export" /\ May("reads")
  /\ left' = left \cup {Delivered(call[r], r)}
  /\ reads' = reads + 1 /\ Spend("reads")
  /\ LET c == call[r]
         sent == c.sent \cup {<<c.section, i>> : i \in c.kept}
         more == [c EXCEPT !.pc = "decide", !.sent = sent, !.n = reads + 1, !.kept = {}, !.rows = {},
                    !.links = [b \in Id |-> {}], !.rule = {},
                    !.late = IF Live(c.purpose) THEN 0 ELSE @ + 1]
     IN \/ c.next < EndOfSection /\ Set(r, [more EXCEPT !.cursor = c.next])
        \/ /\ c.next = EndOfSection /\ c.section = "beliefs"
           /\ Set(r, [more EXCEPT !.cursor = 0, !.section = "evidence"])
  /\ UNCHANGED <<grants, store, trail>>
  /\ Remember

LastPage(r) ==
  /\ At(r, "leave") /\ call[r].kind = "export"
  /\ call[r].next = EndOfSection /\ call[r].section = "evidence"
  /\ left' = left \cup {Delivered(call[r], r)}
  /\ Set(r, [call[r] EXCEPT !.pc = "whole", !.kept = {}, !.rows = {},
               !.sent = @ \cup {<<"evidence", i>> : i \in call[r].kept}])
  /\ UNCHANGED <<grants, store, reads, trail, budget>>
  /\ Remember

Done(r) ==
  /\ \/ At(r, "whole")
     \/ At(r, "leave") /\ call[r].kind = "export" /\ ~ May("reads")   \* bound: it stops reading
  /\ Set(r, Idle)
  /\ UNCHANGED <<grants, store, reads, trail, left, budget>>
  /\ Remember

(* ---------------------------- the retention ---------------------------- *)
Ages(row) ==
  /\ row \in audit /\ ~ row.old /\ Spend("ages")
  /\ audit' = (audit \ {row}) \cup {[row EXCEPT !.old = TRUE]}
  /\ UNCHANGED <<grants, store, call, reads, purged, purge, left>>
  /\ Remember

\* the pass is due; its cutoff is fixed before the first batch
PurgeBegins ==
  /\ ~ purge.on /\ \E row \in audit : row.old
  /\ purge' = [on |-> TRUE, cut |-> {row.n : row \in {w \in audit : w.old}}]
  /\ UNCHANGED <<grants, store, call, reads, audit, purged, left, budget>>
  /\ Remember

\* a batch that is not full is the last
Stops(batch) == Cardinality(batch) < PurgeBatch

\* mutant: the age is compared the wrong way round
ExpiredNot == {row \in audit : row.n \in purge.cut /\ ~ row.old}

\* what is beyond the cutoff
Expired == {row \in audit : row.n \in purge.cut}

PurgeBatchOf ==
  /\ purge.on
  /\ \E batch \in SUBSET Expired :
       /\ Cardinality(batch) = IF Cardinality(Expired) < PurgeBatch THEN Cardinality(Expired)
                               ELSE PurgeBatch
       /\ audit' = audit \ batch
       /\ purged' = purged \cup {row.n : row \in batch}
       /\ purge' = IF Stops(batch) THEN NoPurge ELSE purge
  /\ UNCHANGED <<grants, store, call, reads, left, budget>>
  /\ Remember

(* ----------------------------------------------------------------------- *)
GrantStep == (\E i \in Issuer : Look(i) \/ Write(i)) \/ (\E p \in Purpose : Expire(p)) \/ SetConsent
MemoryStep ==
  \/ \E p \in Purpose, b \in Id : (\E es \in SUBSET Id : Cardinality(es) <= 1 /\ Create(p, b, es))
                                  \/ (\E e \in Id : Support(p, b, e))
  \/ \E b \in Id : Forget(b)
ReadStep(r) ==
  \/ BeginRead(r) \/ Decide(r) \/ ReadRule(r) \/ List(r) \/ FetchBeliefs(r) \/ ReadLinks(r)
  \/ ReadEvents(r) \/ FetchEvidence(r) \/ Record(r) \/ CommitFails(r) \/ Deny(r) \/ Return(r)
  \/ Page(r) \/ LastPage(r) \/ Done(r)

Next ==
  \/ GrantStep
  \/ MemoryStep
  \/ \E r \in Reader : ReadStep(r)
  \/ \E row \in audit : Ages(row)
  \/ PurgeBegins \/ PurgeBatchOf

Withdrawn == [version |-> 2, ops |-> Operation, revoked |-> TRUE, expired |-> FALSE]
Granted == [version |-> 1, ops |-> Operation, revoked |-> FALSE, expired |-> FALSE]

\* either a new database, or one with a grant for every purpose and beliefs of any provenance
Init ==
  /\ budget \in Budgets
  /\ consent = TRUE
  /\ \E withdrawn \in SUBSET Purpose :
       /\ budget.changes > 0 => withdrawn = {}
       /\ changes = [p \in Purpose |-> IF budget.store = "empty" THEN <<>>
                   ELSE IF p \in withdrawn THEN <<Granted, Withdrawn>> ELSE <<Granted>>]
  /\ grant = [p \in Purpose |-> IF changes[p] = <<>> THEN NoGrant ELSE Last(changes[p])]
  /\ issuer = [i \in Issuer |-> NoCall]
  /\ IF budget.store = "empty"
     THEN belief = [b \in Id |-> NoBelief] /\ evidence = [e \in Id |-> Nobody]
     ELSE \E source \in [Id -> Purpose], linked \in SUBSET Id, recorded \in SUBSET Id :
            /\ budget.store = "plain" => linked = Id /\ recorded = Id /\ \A b, c \in Id : source[b] = source[c]
            /\ belief = [b \in Id |-> [status |-> "live", links |-> linked \cap {b},
                          born |-> IF b \in recorded THEN {source[b]} ELSE {}]]
            /\ evidence = [e \in Id |-> IF e \notin linked THEN Nobody
                                        ELSE IF e \in recorded THEN source[e] ELSE Unknown]
  /\ call = [r \in Reader |-> Idle] /\ reads = 0
  /\ audit = {} /\ purged = {} /\ purge = NoPurge /\ left = {}
  /\ owed = [r \in Reader |-> {}] /\ hidden = [r \in Reader |-> {}]

Spec == Init /\ [][Next]_vars

\* the worker runs the pass at its interval and a pass goes on until it is over
LiveSpec == Spec /\ WF_vars(PurgeBegins) /\ WF_vars(PurgeBatchOf)

(* ----------------------------- properties ------------------------------ *)
Decisions == {"allowed", "denied"}
TypeOK ==
  /\ grant \in [Purpose -> [version : Nat, ops : SUBSET Operation, revoked : BOOLEAN,
                            expired : BOOLEAN]]
  /\ consent \in BOOLEAN /\ reads \in Nat
  /\ belief \in [Id -> [status : {"free", "live", "gone"}, links : SUBSET Id, born : SUBSET Source]]
  /\ evidence \in [Id -> Source \cup {Nobody}]
  /\ \A b \in Id, e \in Id : e \in belief[b].links => evidence[e] # Nobody
  /\ \A row \in audit : row.decision \in Decisions /\ row.n \in 1..reads
  /\ \A v, w \in audit : v.n = w.n => v = w
  /\ purge.cut \subseteq 1..reads
  /\ \A r \in Reader : call[r].kept \subseteq Id

\* what a row says of the ids that were returned: it counts them and names them all or, when
\* truncated, as many as it may; of a history it only says that there was one
Accounts(row, ids) ==
  IF row.entry = "history" THEN ids # {} => row.ids # {}
  ELSE /\ Cardinality(ids) <= row.count
       /\ IF row.count <= MaxIds THEN ids \subseteq row.ids ELSE Cardinality(row.ids) = MaxIds

\* Memory never leaves unrecorded: whatever a call returned, and every refusal it raised, has a
\* committed audit row that accounts for it, unless the row aged out and was purged
\* (api.py _audit, _authorize).
NothingLeavesUnrecorded ==
  \A d \in left : \/ d.n \in purged
                  \/ \E row \in audit : /\ row.n = d.n /\ Accounts(row, d.ids)
                                         /\ row.decision = IF d.denied THEN "denied" ELSE "allowed"

\* Of the calls that change one version of a grant one wins: the events are numbered 1, 2, ...
\* without a gap, and the row says what its last event made it (authorization.py grant_purpose,
\* revoke_purpose).
OneWinnerPerVersion ==
  \A p \in Purpose :
    /\ grant[p].version = Len(changes[p])
    /\ \A i \in DOMAIN changes[p] : changes[p][i].version = i
    /\ grant[p].version > 0 =>
         LET said == changes[p][grant[p].version] IN
           said.ops = grant[p].ops /\ said.revoked = grant[p].revoked

\* An audit row can be read back against the grant events: the version it names allowed the
\* operation, whatever became of the grant since (access_audit.py record_access).
RecordsNameTheGrant ==
  \A row \in {w \in audit : w.decision = "allowed"} :
    /\ row.version \in DOMAIN changes[row.purpose]
    /\ row.op \in changes[row.purpose][row.version].ops
    /\ ~ changes[row.purpose][row.version].revoked

\* A revocation in the middle of an export lets the page through that was already decided and
\* no other; late counts the pages handed over since the grant was last in force (export_page, "a grant revoked mid-export refuses the next page").
RevocationStopsTheExport == \A r \in Reader : call[r].late <= 1

\* What a read withholds from its first statement to its answer is not in the answer, unless it
\* was being forgotten meanwhile (provenance.py beliefs_visible).
WithheldStaysWithheld ==
  \A d \in left : \A b \in d.leaked : belief[b].status = "gone"

\* A belief that exists and is visible from the start of an export to the last page, also by the
\* rule each page has read, is in it (export.py read_page).
BeliefsExportedWhole ==
  \A r \in Reader : At(r, "whole") => {o \in owed[r] : o[1] = "beliefs"} \subseteq call[r].sent

\* Audit rows out of retention are removed, however many there are
\* (worker/maintenance.py purge_expired_audit).
MostReads == Max({b.reads : b \in Budgets})
OldRowsGo == \A n \in 1..MostReads : (\E row \in audit : row.n = n /\ row.old) ~> n \in purged

\* "The cursor always advances by the FETCHED rows ... never because rows were skipped in the
\* keyset" (export.py read_page): the whole of every section is exported.
ExportIsWhole == \A r \in Reader : At(r, "whole") => owed[r] \subseteq call[r].sent

\* "memory never leaves unrecorded" (api.py _audit), read as it stands: every id that was
\* returned is in the row.
EveryIdIsRecorded ==
  \A d \in left : d.n \in purged \/ \E row \in audit : row.n = d.n /\ d.ids \subseteq row.ids

\* "An invisible belief is 'not found' under this rule: returning it would leak the claim text"
\* (repository.py explain_belief): nothing withheld is ever returned.
NothingWithheldLeaves == \A d \in left : d.leaked = {}
=============================================================================
