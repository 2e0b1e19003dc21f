-------------------------- MODULE PublisherProofs ---------------------------
(***************************************************************************)
(* Theorems about Publisher, for every set of sessions, predicates, values  *)
(* and bounds.  The inductive invariant says of the committed database and  *)
(* of the lock holder's copy that the ledger and the log are Sound, and of  *)
(* the copy that its revision is ahead and that, with memory off, it only   *)
(* lacks what the database has; and of a proposal that passed the gates     *)
(* that, while its revision stands, the consent it was gated under stands.  *)
(*                                                                         *)
(* Two more invariants build on it.  WInv: a database is Whole, its versions *)
(* and log rows name beliefs that exist, which every handler preserves       *)
(* because what the gates found of a target stands while the revision does.  *)
(* Calm and One: when one session alone calls, what it has loaded is what    *)
(* the database holds, so a handler is told the truth about every row.       *)
(***************************************************************************)
EXTENDS Publisher, FiniteSetTheorems, WellFoundedInduction, TLAPS

\* A database and a row with the given fields.
Made(r, vs, l, rv, en, la) ==
  [rows |-> r, versions |-> vs, log |-> l, rev |-> rv, enabled |-> en, last |-> la]
MadeRow(st, p, o, n) == [status |-> st, pred |-> p, obj |-> o, n |-> n]

ShapedRow(r) == r = MadeRow(r.status, r.pred, r.obj, r.n)
ShapedVersion(v) == v = [slot |-> v.slot, belief |-> v.belief, open |-> v.open]
ShapedRows(r) == r = [b \in Belief |-> r[b]] /\ \A b \in Belief : ShapedRow(r[b])
Shaped(d) ==
  /\ d = Made(d.rows, d.versions, d.log, d.rev, d.enabled, d.last)
  /\ ShapedRows(d.rows)
  /\ \A v \in d.versions : ShapedVersion(v)

OneOpenOf(vs) == \A v, w \in vs : v.slot = w.slot /\ v.open /\ w.open => v = w

\* e has versions and rows of the same form as d, the same revision and switch,
\* and no log row d has not.
Keeps(d, e) ==
  /\ Shaped(e) /\ OneOpenOf(e.versions)
  /\ e.rev = d.rev /\ e.enabled = d.enabled /\ e.log \subseteq d.log

\* With memory off e only lacks what d has.
Lacks(d, e) ==
  /\ \A b \in Belief : e.rows[b] = d.rows[b] \/ ~Exists(e, b)
  /\ e.versions \subseteq d.versions
Barrier(d, e) == ~d.enabled => Lacks(d, e)

-----------------------------------------------------------------------------
(* Changing one field of a record.                                          *)

LEMMA MadeFields ==
  ASSUME NEW r, NEW vs, NEW l, NEW rv, NEW en, NEW la
  PROVE  LET e == Made(r, vs, l, rv, en, la)
         IN  /\ e.rows = r /\ e.versions = vs /\ e.log = l
             /\ e.rev = rv /\ e.enabled = en /\ e.last = la
  BY DEF Made

LEMMA MadeRowStatus ==
  ASSUME NEW st, NEW p, NEW o, NEW n, NEW status
  PROVE  [MadeRow(st, p, o, n) EXCEPT !.status = status] = MadeRow(status, p, o, n)
  BY DEF MadeRow

LEMMA RowStatus ==
  ASSUME NEW r, ShapedRow(r), NEW status
  PROVE  [r EXCEPT !.status = status] = MadeRow(status, r.pred, r.obj, r.n)
<1>1. r = MadeRow(r.status, r.pred, r.obj, r.n)
  BY DEF ShapedRow
<1>2. [MadeRow(r.status, r.pred, r.obj, r.n) EXCEPT !.status = status]
        = MadeRow(status, r.pred, r.obj, r.n)
  BY MadeRowStatus
<1> QED
  BY <1>1, <1>2

LEMMA MadeRowShaped ==
  ASSUME NEW st, NEW p, NEW o, NEW n
  PROVE  ShapedRow(MadeRow(st, p, o, n)) /\ MadeRow(st, p, o, n).status = st
  BY DEF ShapedRow, MadeRow

LEMMA VersionClosed ==
  ASSUME NEW v
  PROVE  ShapedVersion(Closed(v)) /\ Closed(v).slot = v.slot /\ ~Closed(v).open
  BY DEF Closed, ShapedVersion

LEMMA VersionOpened ==
  ASSUME NEW s, NEW b, NEW v, v = [slot |-> s, belief |-> b, open |-> TRUE]
  PROVE  ShapedVersion(v) /\ v.slot = s
  BY DEF ShapedVersion

\* A database put together from sound parts.
LEMMA MadeKeeps ==
  ASSUME NEW d, NEW r, NEW vs, NEW l, NEW la, NEW e,
         e = Made(r, vs, l, d.rev, d.enabled, la),
         ShapedRows(r), \A v \in vs : ShapedVersion(v), OneOpenOf(vs), l \subseteq d.log
  PROVE  /\ Keeps(d, e) /\ e.rows = r /\ e.versions = vs /\ e.log = l /\ e.last = la
<1>1. /\ e.rows = r /\ e.versions = vs /\ e.log = l
      /\ e.rev = d.rev /\ e.enabled = d.enabled /\ e.last = la
  BY MadeFields
<1> QED
  BY <1>1 DEF Keeps, Shaped

LEMMA WithRows ==
  ASSUME NEW d, Shaped(d), NEW x
  PROVE  [d EXCEPT !.rows = x] = Made(x, d.versions, d.log, d.rev, d.enabled, d.last)
<1>1. d = Made(d.rows, d.versions, d.log, d.rev, d.enabled, d.last)
  BY DEF Shaped
<1>2. [Made(d.rows, d.versions, d.log, d.rev, d.enabled, d.last) EXCEPT !.rows = x] = Made(x, d.versions, d.log, d.rev, d.enabled, d.last)
  BY DEF Made
<1> QED
  BY <1>1, <1>2, Zenon

LEMMA WithVersions ==
  ASSUME NEW d, Shaped(d), NEW x
  PROVE  [d EXCEPT !.versions = x] = Made(d.rows, x, d.log, d.rev, d.enabled, d.last)
<1>1. d = Made(d.rows, d.versions, d.log, d.rev, d.enabled, d.last)
  BY DEF Shaped
<1>2. [Made(d.rows, d.versions, d.log, d.rev, d.enabled, d.last) EXCEPT !.versions = x] = Made(d.rows, x, d.log, d.rev, d.enabled, d.last)
  BY DEF Made
<1> QED
  BY <1>1, <1>2, Zenon

LEMMA WithLog ==
  ASSUME NEW d, Shaped(d), NEW x
  PROVE  [d EXCEPT !.log = x] = Made(d.rows, d.versions, x, d.rev, d.enabled, d.last)
<1>1. d = Made(d.rows, d.versions, d.log, d.rev, d.enabled, d.last)
  BY DEF Shaped
<1>2. [Made(d.rows, d.versions, d.log, d.rev, d.enabled, d.last) EXCEPT !.log = x] = Made(d.rows, d.versions, x, d.rev, d.enabled, d.last)
  BY DEF Made
<1> QED
  BY <1>1, <1>2, Zenon

LEMMA WithRev ==
  ASSUME NEW d, Shaped(d), NEW x
  PROVE  [d EXCEPT !.rev = x] = Made(d.rows, d.versions, d.log, x, d.enabled, d.last)
<1>1. d = Made(d.rows, d.versions, d.log, d.rev, d.enabled, d.last)
  BY DEF Shaped
<1>2. [Made(d.rows, d.versions, d.log, d.rev, d.enabled, d.last) EXCEPT !.rev = x] = Made(d.rows, d.versions, d.log, x, d.enabled, d.last)
  BY DEF Made
<1> QED
  BY <1>1, <1>2, Zenon

LEMMA WithEnabled ==
  ASSUME NEW d, Shaped(d), NEW x
  PROVE  [d EXCEPT !.enabled = x] = Made(d.rows, d.versions, d.log, d.rev, x, d.last)
<1>1. d = Made(d.rows, d.versions, d.log, d.rev, d.enabled, d.last)
  BY DEF Shaped
<1>2. [Made(d.rows, d.versions, d.log, d.rev, d.enabled, d.last) EXCEPT !.enabled = x] = Made(d.rows, d.versions, d.log, d.rev, x, d.last)
  BY DEF Made
<1> QED
  BY <1>1, <1>2, Zenon

LEMMA WithLast ==
  ASSUME NEW d, Shaped(d), NEW x
  PROVE  [d EXCEPT !.last = x] = Made(d.rows, d.versions, d.log, d.rev, d.enabled, x)
<1>1. d = Made(d.rows, d.versions, d.log, d.rev, d.enabled, d.last)
  BY DEF Shaped
<1>2. [Made(d.rows, d.versions, d.log, d.rev, d.enabled, d.last) EXCEPT !.last = x] = Made(d.rows, d.versions, d.log, d.rev, d.enabled, x)
  BY DEF Made
<1> QED
  BY <1>1, <1>2, Zenon

-----------------------------------------------------------------------------
(* What the handlers are made of.                                           *)

Good(d) == Shaped(d) /\ OneOpenOf(d.versions)

LEMMA AppendKeeps ==
  ASSUME NEW d, Good(d), NEW b
  PROVE  Keeps(d, AppendVersion(d, b))
<1> DEFINE slot == SlotOf(d.rows[b])
           rest == {v \in d.versions : v.slot # slot}
           past == {Closed(v) : v \in d.versions \ rest}
           new == [slot |-> slot, belief |-> b, open |-> TRUE]
           all == rest \cup past \cup {new}
           e == Made(d.rows, all, d.log, d.rev, d.enabled, d.last)
<1>1. AppendVersion(d, b) = e
  <2>1. AppendVersion(d, b) = [d EXCEPT !.versions = all]
    BY DEF AppendVersion
  <2> HIDE DEF all
  <2>2. [d EXCEPT !.versions = all] = e
    BY WithVersions, Zenon DEF Good
  <2> QED
    BY <2>1, <2>2
<1>2. \A v \in past : ShapedVersion(v) /\ v.slot = slot /\ ~v.open
  <2>1. \A v \in d.versions : v \notin rest => v.slot = slot
    OBVIOUS
  <2> HIDE DEF slot, rest
  <2> QED
    BY <2>1, VersionClosed
<1>3. ShapedVersion(new) /\ new.slot = slot
  BY VersionOpened
<1>4. \A v \in rest : ShapedVersion(v) /\ v \in d.versions /\ v.slot # slot
  BY DEF Good, Shaped
<1>5. OneOpenOf(d.versions) /\ ShapedRows(d.rows)
  BY DEF Good, Shaped
<1> HIDE DEF slot, rest, past, new
<1>6. \A v \in all : ShapedVersion(v)
  BY <1>2, <1>3, <1>4
<1>7. OneOpenOf(all)
  BY <1>2, <1>3, <1>4, <1>5 DEF OneOpenOf
<1> HIDE DEF all
<1> QED
  BY <1>1, <1>5, <1>6, <1>7, MadeKeeps

LEMMA InsertKeeps ==
  ASSUME NEW d, Good(d), NEW p, NEW o, NEW n
  PROVE  Keeps(d, InsertBelief(d, p, o, n))
<1> DEFINE row == MadeRow("active", p, o, n)
           rows == [d.rows EXCEPT ![d.last + 1] = row]
           c == Made(rows, d.versions, d.log, d.rev, d.enabled, d.last)
           e == Made(rows, d.versions, d.log, d.rev, d.enabled, d.last + 1)
<1>1. InsertBelief(d, p, o, n) = e
  <2>1. row = [status |-> "active", pred |-> p, obj |-> o, n |-> n]
    BY DEF MadeRow
  <2>2. InsertBelief(d, p, o, n) = [d EXCEPT !.rows = [@ EXCEPT ![d.last + 1] = row],
                                             !.last = @ + 1]
    BY <2>1 DEF InsertBelief
  <2>3. InsertBelief(d, p, o, n) = [[d EXCEPT !.rows = rows] EXCEPT !.last = d.last + 1]
    BY <2>2
  <2> HIDE DEF rows
  <2>4. [d EXCEPT !.rows = rows] = c
    BY WithRows, Zenon DEF Good
  <2>5. [c EXCEPT !.last = d.last + 1] = e
    BY DEF Made
  <2> QED
    BY <2>3, <2>4, <2>5
<1>2. ShapedRows(d.rows) /\ OneOpenOf(d.versions) /\ \A v \in d.versions : ShapedVersion(v)
  BY DEF Good, Shaped
<1>3. rows = [b \in Belief |-> rows[b]] /\ \A b \in Belief : rows[b] = row \/ rows[b] = d.rows[b]
  BY <1>2 DEF ShapedRows
<1>4. ShapedRow(row)
  BY MadeRowShaped
<1> HIDE DEF row, rows
<1>5. ShapedRows(rows)
  BY <1>2, <1>3, <1>4 DEF ShapedRows
<1> QED
  BY <1>1, <1>2, <1>5, MadeKeeps

LEMMA StatusKeeps ==
  ASSUME NEW d, Good(d), NEW S, NEW status
  PROVE  LET e == SetStatus(d, S, status)
         IN  /\ Keeps(d, e) /\ e.versions = d.versions /\ e.log = d.log
             /\ \A b \in Belief : IF b \in S THEN e.rows[b].status = status
                                             ELSE e.rows[b] = d.rows[b]
<1> DEFINE rows == [b \in Belief |-> IF b \in S THEN [d.rows[b] EXCEPT !.status = status]
                                                ELSE d.rows[b]]
           e == Made(rows, d.versions, d.log, d.rev, d.enabled, d.last)
<1>1. SetStatus(d, S, status) = e
  BY WithRows, Zenon DEF SetStatus, Good
<1>2. ShapedRows(d.rows) /\ OneOpenOf(d.versions) /\ \A v \in d.versions : ShapedVersion(v)
  BY DEF Good, Shaped
<1>3. \A b \in Belief : /\ ShapedRow(rows[b])
                        /\ IF b \in S THEN rows[b].status = status ELSE rows[b] = d.rows[b]
  <2> TAKE b \in Belief
  <2>1. ShapedRow(d.rows[b])
    BY <1>2 DEF ShapedRows
  <2>2. CASE b \in S
    <3>1. rows[b] = MadeRow(status, d.rows[b].pred, d.rows[b].obj, d.rows[b].n)
      BY <2>1, <2>2, RowStatus
    <3> QED
      BY <2>2, <3>1, MadeRowShaped
  <2>3. CASE b \notin S
    BY <2>1, <2>3
  <2> QED
    BY <2>2, <2>3
<1>4. rows = [b \in Belief |-> rows[b]]
  OBVIOUS
<1> HIDE DEF rows
<1>5. ShapedRows(rows)
  BY <1>3, <1>4 DEF ShapedRows
<1>6. /\ Keeps(d, e) /\ e.rows = rows /\ e.versions = d.versions /\ e.log = d.log
  BY <1>2, <1>5, MadeKeeps
<1> QED
  BY <1>1, <1>3, <1>6

LEMMA CloseKeeps ==
  ASSUME NEW d, Good(d), NEW b
  PROVE  Keeps(d, CloseVersionsOf(d, b))
<1> DEFINE all == {IF v.belief = b THEN Closed(v) ELSE v : v \in d.versions}
           e == Made(d.rows, all, d.log, d.rev, d.enabled, d.last)
<1>1. CloseVersionsOf(d, b) = e
  <2>1. CloseVersionsOf(d, b) = [d EXCEPT !.versions = all]
    BY DEF CloseVersionsOf
  <2> HIDE DEF all
  <2> QED
    BY <2>1, WithVersions, Zenon DEF Good
<1>2. OneOpenOf(d.versions) /\ ShapedRows(d.rows) /\ \A v \in d.versions : ShapedVersion(v)
  BY DEF Good, Shaped
<1>3. \A v \in all : ShapedVersion(v) /\ (v.open => v \in d.versions)
  BY <1>2, VersionClosed
<1> HIDE DEF all
<1>4. OneOpenOf(all)
  BY <1>2, <1>3 DEF OneOpenOf
<1> QED
  BY <1>1, <1>2, <1>3, <1>4, MadeKeeps

LEMMA PurgeLedgerKeeps ==
  ASSUME NEW d, Good(d), NEW b
  PROVE  /\ Keeps(d, PurgeLedger(d, b))
         /\ PurgeLedger(d, b).versions \subseteq d.versions
         /\ PurgeLedger(d, b).rows = d.rows
<1> DEFINE kept == {v \in d.versions : v.slot # SlotOf(d.rows[b])}
           e == Made(d.rows, kept, d.log, d.rev, d.enabled, d.last)
<1>1. PurgeLedger(d, b) = e
  BY WithVersions, Zenon DEF PurgeLedger, Good
<1>2. OneOpenOf(d.versions) /\ ShapedRows(d.rows) /\ \A v \in d.versions : ShapedVersion(v)
  BY DEF Good, Shaped
<1>3. kept \subseteq d.versions
  OBVIOUS
<1> HIDE DEF kept
<1>4. OneOpenOf(kept) /\ \A v \in kept : ShapedVersion(v)
  BY <1>2, <1>3 DEF OneOpenOf
<1>5. e = Made(d.rows, kept, d.log, d.rev, d.enabled, d.last)
  OBVIOUS
<1> HIDE DEF e
<1>6. Keeps(d, e) /\ e.rows = d.rows /\ e.versions = kept
  BY <1>2, <1>4, <1>5, MadeKeeps
<1> QED
  BY <1>1, <1>3, <1>6

LEMMA PurgeLogKeeps ==
  ASSUME NEW d, Good(d), NEW b
  PROVE  /\ Keeps(d, PurgeLog(d, b))
         /\ PurgeLog(d, b).versions = d.versions /\ PurgeLog(d, b).rows = d.rows
<1> DEFINE kept == {l \in d.log : l.target # b /\ l.created # b}
           e == Made(d.rows, d.versions, kept, d.rev, d.enabled, d.last)
<1>1. PurgeLog(d, b) = e
  BY WithLog, Zenon DEF PurgeLog, Good
<1>2. OneOpenOf(d.versions) /\ ShapedRows(d.rows) /\ \A v \in d.versions : ShapedVersion(v)
  BY DEF Good, Shaped
<1>3. kept \subseteq d.log
  OBVIOUS
<1> HIDE DEF kept
<1>4. Keeps(d, e) /\ e.rows = d.rows /\ e.versions = d.versions
  BY <1>2, <1>3, MadeKeeps
<1> HIDE DEF e
<1> QED
  BY <1>1, <1>4

LEMMA KeepsGood ==
  ASSUME NEW d, NEW e, Keeps(d, e)
  PROVE  Good(e)
  BY DEF Keeps, Good

LEMMA KeepsItself ==
  ASSUME NEW d, Good(d)
  PROVE  Keeps(d, d)
  BY DEF Keeps, Good

LEMMA KeepsOn ==
  ASSUME NEW d, NEW e, NEW f, Keeps(d, e), Keeps(e, f)
  PROVE  Keeps(d, f)
  BY DEF Keeps

-----------------------------------------------------------------------------
(* What a handler leaves.                                                   *)

\* A new row whose slot gets a new open version, after rows in S were marked.
LEMMA ReplaceKeeps ==
  ASSUME NEW d, Good(d), NEW p, NEW o, NEW n, NEW S
  PROVE  LET new == InsertBelief(d, p, o, n)
         IN  /\ Keeps(d, AppendVersion(new, new.last))
             /\ Keeps(d, AppendVersion(SetStatus(new, S, "superseded"), new.last))
<1> DEFINE new == InsertBelief(d, p, o, n)
           marked == SetStatus(new, S, "superseded")
<1>1. Keeps(d, new)
  BY InsertKeeps
<1> HIDE DEF new
<1>2. Keeps(new, marked)
  BY <1>1, KeepsGood, StatusKeeps
<1>3. Keeps(new, AppendVersion(new, new.last))
  BY <1>1, KeepsGood, AppendKeeps
<1> HIDE DEF marked
<1>4. Keeps(marked, AppendVersion(marked, new.last))
  BY <1>2, KeepsGood, AppendKeeps
<1>5. Keeps(d, AppendVersion(new, new.last)) /\ Keeps(d, AppendVersion(marked, new.last))
  BY <1>1, <1>2, <1>3, <1>4, KeepsOn
<1> QED
  BY <1>5 DEF new, marked
LEMMA HandleKeeps ==
  ASSUME NEW d, Good(d), NEW st, NEW p, p.transition \in Transition \ {"CONTRADICT"}
  PROVE  Keeps(d, Handle(d, st, p).d)
<1> DEFINE e == Handle(d, st, p).d
<1>0. Keeps(d, d)
  BY KeepsItself
<1>1. CASE p.transition = "CREATE"
  <2> DEFINE holders == HoldersOf(d, <<p.pred, p.obj, 0>>)
             new == InsertBelief(d, p.pred, p.obj, 0)
  <2>1. e \in {AppendVersion(new, new.last), d, AppendVersion(d, Newest(holders))}
    BY <1>1 DEF Handle, CommitCreate, Outcome
  <2>2. Keeps(d, AppendVersion(new, new.last))
    BY ReplaceKeeps
  <2>3. Keeps(d, AppendVersion(d, Newest(holders)))
    BY AppendKeeps
  <2> HIDE DEF holders, new, e
  <2>4. Keeps(d, e)
    BY <1>0, <2>1, <2>2, <2>3
  <2> QED
    BY <2>4 DEF e
<1>2. CASE p.transition = "UPDATE"
  <2> DEFINE new == InsertBelief(d, p.pred, p.obj, FreeSuffix(d, p.pred, p.obj))
             closing == {p.target} \cup {b \in p.close : st[b] = "active"}
             end == AppendVersion(SetStatus(new, closing, "superseded"), new.last)
  <2>1. e \in {end, d}
    BY <1>2 DEF Handle, CommitUpdate, Outcome
  <2>2. Keeps(d, end)
    BY ReplaceKeeps
  <2> HIDE DEF end, e
  <2>3. Keeps(d, e)
    BY <1>0, <2>1, <2>2
  <2> QED
    BY <2>3 DEF e
<1>3. CASE p.transition = "CORRECT"
  <2> DEFINE new == InsertBelief(d, p.pred, p.obj, FreeSuffix(d, p.pred, p.obj))
             end == AppendVersion(SetStatus(new, {p.target}, "superseded"), new.last)
  <2>1. e \in {end, d}
    BY <1>3 DEF Handle, CommitCorrect, Outcome
  <2>2. Keeps(d, end)
    BY ReplaceKeeps
  <2> HIDE DEF end, e
  <2>3. Keeps(d, e)
    BY <1>0, <2>1, <2>2
  <2> QED
    BY <2>3 DEF e
<1>4. CASE p.transition = "FORGET"
  <2> DEFINE gone == SetStatus(d, {p.target}, "absent")
             bare == PurgeLedger(gone, p.target)
             end == PurgeLog(bare, p.target)
  <2>1. e = end
    BY <1>4 DEF Handle, CommitForget, Outcome
  <2>2. Keeps(d, gone)
    BY StatusKeeps
  <2> HIDE DEF gone
  <2>3. Keeps(gone, bare)
    BY <2>2, KeepsGood, PurgeLedgerKeeps
  <2> HIDE DEF bare
  <2>4. Keeps(bare, end)
    BY <2>3, KeepsGood, PurgeLogKeeps
  <2> HIDE DEF end, e
  <2>5. Keeps(d, e)
    BY <2>1, <2>2, <2>3, <2>4, KeepsOn
  <2> QED
    BY <2>5 DEF e
<1>5. CASE p.transition = "REJECT"
  <2> DEFINE closed == CloseVersionsOf(d, p.target)
             end == SetStatus(closed, {p.target}, "rejected")
  <2>1. e \in {end, closed}
    BY <1>5 DEF Handle, CommitReject, Outcome
  <2>2. Keeps(d, closed)
    BY CloseKeeps
  <2> HIDE DEF closed
  <2>3. Keeps(closed, end)
    BY <2>2, KeepsGood, StatusKeeps
  <2> HIDE DEF end, e
  <2>4. Keeps(d, e)
    BY <2>1, <2>2, <2>3, KeepsOn
  <2> QED
    BY <2>4 DEF e
<1>6. CASE p.transition \in {"SUPPORT", "VERIFY"}
  <2>1. e = d
    BY <1>6 DEF Handle, CommitSupport, CommitVerify, Outcome
  <2> QED
    BY <1>0, <2>1
<1> QED
  BY <1>1, <1>2, <1>3, <1>4, <1>5, <1>6 DEF Transition

LEMMA ForgetLacks ==
  ASSUME NEW d, Good(d), NEW st, NEW p, p.transition = "FORGET"
  PROVE  Lacks(d, Handle(d, st, p).d)
<1> DEFINE gone == SetStatus(d, {p.target}, "absent")
           bare == PurgeLedger(gone, p.target)
           end == PurgeLog(bare, p.target)
<1>1. Handle(d, st, p).d = end
  BY DEF Handle, CommitForget, Outcome
<1>2. /\ Keeps(d, gone) /\ gone.versions = d.versions
      /\ \A b \in Belief : gone.rows[b].status = "absent" \/ gone.rows[b] = d.rows[b]
  BY StatusKeeps
<1> HIDE DEF gone
<1>3. Keeps(gone, bare) /\ bare.versions \subseteq gone.versions /\ bare.rows = gone.rows
  BY <1>2, KeepsGood, PurgeLedgerKeeps
<1> HIDE DEF bare
<1>4. end.versions = bare.versions /\ end.rows = bare.rows
  BY <1>3, KeepsGood, PurgeLogKeeps
<1> HIDE DEF end
<1>5. Lacks(d, end)
  BY <1>2, <1>3, <1>4 DEF Lacks, Exists
<1> QED
  BY <1>1, <1>5

-----------------------------------------------------------------------------
(* The inductive invariant.                                                 *)

\* What a logged change expected is behind the revision, and told apart by it.
Logged(d) ==
  /\ d.rev \in Nat /\ d.enabled \in BOOLEAN
  /\ \A l \in d.log : l.expected \in Nat /\ l.expected < d.rev
  /\ \A k, l \in d.log : k.expected = l.expected => k = l
Sound(d) == Good(d) /\ Logged(d)

Typed ==
  /\ stage \in [Session -> Stage] /\ exp \in [Session -> Nat]
  /\ prop = [s \in Session |-> prop[s]]
  /\ lock \in Session \cup {NoSession}

\* The holder of the lock is ahead of the database and of its consent only by loss.
Ahead(d, e) == d.rev < e.rev /\ e.enabled = d.enabled /\ Barrier(d, e)
Copied == lock # NoSession => Sound(work) /\ Ahead(db, work)

Proposed(p) ==
  p.transition \in Transition /\ (p.transition = "CONTRADICT" => p.target = NoBelief)

\* A proposal that passed the gates was allowed by the consent of its revision.
Allowed(p, n, d) ==
  /\ p.transition # "CONTRADICT"
  /\ n <= d.rev
  /\ n = d.rev /\ p.transition # "FORGET" => d.enabled

Calling(s) == Proposed(prop[s]) /\ (stage[s] = "gated" => Allowed(prop[s], exp[s], Sees(s)))

IInv == Typed /\ Sound(db) /\ Copied /\ \A s \in Session : Calling(s)

LEMMA NoneProposed == Proposed(NoProposal)
<1>1. NoProposal.transition = "CREATE"
  BY DEF NoProposal, Proposing
<1> QED
  BY <1>1 DEF Proposed, Transition

LEMMA DecisionsProposed ==
  ASSUME NEW d, NEW st, NEW rows, NEW c \in Claim, NEW p \in Decide(d, st, rows, c)
  PROVE  Proposed(p)
<1>1. c.form \in {"states", "denies", "returns", "withdraws"}
  BY DEF Claim, Form
<1>2. CASE c.form \in {"states", "denies"}
  <2>1. p \in DecideStated(d, st, rows, c)
    BY <1>2 DEF Decide
  <2> DEFINE fresh == Proposing(IF c.form = "denies" THEN "CONTRADICT" ELSE "CREATE",
                                NoBelief, c.pred, c.obj)
  <2>2. \/ p = fresh
        \/ \E b : p \in {Proposing("SUPPORT", b, c.pred, c.obj),
                         Proposing("UPDATE", b, c.pred, c.obj)}
    BY <2>1 DEF DecideStated
  <2>3. CASE p = fresh
    BY <2>3 DEF Proposing, Proposed, Transition
  <2>4. CASE \E b : p \in {Proposing("SUPPORT", b, c.pred, c.obj),
                           Proposing("UPDATE", b, c.pred, c.obj)}
    BY <2>4 DEF Proposing, Proposed, Transition
  <2> QED
    BY <2>2, <2>3, <2>4
<1>3. CASE c.form = "returns"
  <2>1. p \in DecideReturn(d, st, rows, c)
    BY <1>3 DEF Decide
  <2>2. p.transition = "UPDATE"
    BY <2>1 DEF DecideReturn, Proposing
  <2> QED
    BY <2>2 DEF Proposed, Transition
<1>4. CASE c.form = "withdraws"
  <2>1. p \in DecideWithdrawal(d, st, rows, c)
    BY <1>4 DEF Decide
  <2>2. p.transition = "UPDATE"
    BY <2>1 DEF DecideWithdrawal, Proposing
  <2> QED
    BY <2>2 DEF Proposed, Transition
<1> QED
  BY <1>1, <1>2, <1>3, <1>4

LEMMA InitIInv == Init => IInv
<1> SUFFICES ASSUME Init PROVE IInv
  OBVIOUS
<1>1. Good(db)
  <2> DEFINE row == NoRow
             rows == [b \in Belief |-> row]
  <2>1. db = Made(rows, {}, {}, 1, TRUE, 0)
    BY DEF Init, EmptyDatabase, Made
  <2>2. ShapedRow(row)
    BY DEF NoRow, ShapedRow, MadeRow
  <2>3. ShapedRows(rows)
    BY <2>2 DEF ShapedRows
  <2> HIDE DEF rows
  <2>4. db.rows = rows /\ db.versions = {} /\ db.log = {} /\ db.rev = 1 /\ db.enabled = TRUE
        /\ db.last = 0
    BY <2>1 DEF Made
  <2> QED
    BY <2>1, <2>3, <2>4 DEF Good, Shaped, OneOpenOf
<1>2. Logged(db)
  BY DEF Init, EmptyDatabase, Logged
<1>3. Typed
  BY NamesAssumption DEF Init, Typed, Stage
<1>4. Copied
  BY DEF Init, Copied
<1>5. \A s \in Session : Calling(s)
  BY NoneProposed DEF Init, Calling
<1> QED
  BY <1>1, <1>2, <1>3, <1>4, <1>5 DEF IInv, Sound

LEMMA QuietStep ==
  ASSUME IInv, NEW s \in Session, UNCHANGED <<db, work, lock>>,
         NEW x \in Stage, NEW p, NEW n \in Nat, Proposed(p),
         stage' = [stage EXCEPT ![s] = x], prop' = [prop EXCEPT ![s] = p],
         exp' = [exp EXCEPT ![s] = n], x = "gated" => Allowed(p, n, Sees(s))
  PROVE  IInv'
<1>1. Sound(db)' /\ Copied'
  BY DEF IInv, Sound, Good, Shaped, ShapedRows, OneOpenOf, Logged, Copied, Ahead, Barrier, Lacks,
         Exists, ShapedRow, ShapedVersion
<1>2. Typed'
  BY DEF IInv, Typed
<1>3. ASSUME NEW t \in Session PROVE Calling(t)'
  <2>1. Sees(t)' = Sees(t)
    BY DEF Sees
  <2>2. CASE t = s
    <3>1. stage'[t] = x /\ prop'[t] = p /\ exp'[t] = n
      BY <2>2 DEF IInv, Typed
    <3> QED
      BY <2>1, <2>2, <3>1 DEF Calling
  <2>3. CASE t # s
    <3>1. stage'[t] = stage[t] /\ prop'[t] = prop[t] /\ exp'[t] = exp[t]
      BY <2>3 DEF IInv, Typed
    <3> QED
      BY <2>1, <3>1 DEF Calling, IInv
  <2> QED
    BY <2>2, <2>3
<1> QED
  BY <1>1, <1>2, <1>3 DEF IInv

\* What a session reads is the database, or the copy it holds.
LEMMA SeesSound ==
  ASSUME IInv, NEW s \in Session
  PROVE  /\ Sound(Sees(s)) /\ Sees(s).rev \in Nat /\ db.rev \in Nat
         /\ db.rev <= Sees(s).rev
         /\ Sees(s).enabled = db.enabled /\ Barrier(db, Sees(s))
<1>1. db.rev \in Nat
  BY DEF IInv, Sound, Logged
<1>2. CASE lock = s
  <2>1. Sound(work) /\ Ahead(db, work)
    BY <1>2, NamesAssumption DEF IInv, Copied
  <2>2. work.rev \in Nat
    BY <2>1 DEF Sound, Logged
  <2> QED
    BY <1>1, <1>2, <2>1, <2>2 DEF Sees, Ahead
<1>3. CASE lock # s
  <2>1. Barrier(db, db)
    BY DEF Barrier, Lacks
  <2> QED
    BY <1>1, <1>3, <2>1 DEF Sees, IInv
<1> QED
  BY <1>2, <1>3

\* The session decides; its proposal has no revision yet.
LEMMA DecidedStep ==
  ASSUME IInv, NEW s \in Session, NEW p, Proposed(p), NEW claims, Decided(s, p, claims),
         UNCHANGED <<db, work, lock, exp>>
  PROVE  IInv'
<1>1. exp' = [exp EXCEPT ![s] = exp[s]] /\ exp[s] \in Nat
  BY DEF IInv, Typed
<1>2. stage' = [stage EXCEPT ![s] = "decided"] /\ prop' = [prop EXCEPT ![s] = p]
  BY DEF Decided
<1>3. "decided" \in Stage
  BY DEF Stage
<1> QED
  BY <1>1, <1>2, <1>3, QuietStep

\* The publish is over without a change.
LEMMA SettleStep ==
  ASSUME IInv, NEW s \in Session, Settle(s), UNCHANGED <<work, lock>>
  PROVE  IInv'
<1>1. stage' = [stage EXCEPT ![s] = "ready"] /\ prop' = [prop EXCEPT ![s] = NoProposal]
      /\ exp' = [exp EXCEPT ![s] = 0] /\ UNCHANGED db
  BY DEF Settle
<1>2. "ready" \in Stage
  BY DEF Stage
<1> QED
  BY <1>1, <1>2, NoneProposed, QuietStep

LEMMA ReadRevisionStep ==
  ASSUME IInv, NEW s \in Session, ReadRevision(s)
  PROVE  IInv'
<1>1. prop' = [prop EXCEPT ![s] = prop[s]] /\ Proposed(prop[s])
  BY DEF IInv, Typed, ReadRevision, Calling
<1>2. Sees(s).rev \in Nat
  BY SeesSound
<1>3. "dated" \in Stage
  BY DEF Stage
<1> QED
  BY <1>1, <1>2, <1>3, QuietStep DEF ReadRevision

LEMMA PassGatesStep ==
  ASSUME IInv, NEW s \in Session, PassGates(s)
  PROVE  IInv'
<1>1. /\ prop' = [prop EXCEPT ![s] = prop[s]] /\ exp' = [exp EXCEPT ![s] = exp[s]]
      /\ Proposed(prop[s]) /\ exp[s] \in Nat
  BY DEF IInv, Typed, PassGates, Calling
<1>2. Sees(s).rev \in Nat
  BY SeesSound
<1>3. /\ Sees(s).rev = exp[s]
      /\ prop[s].transition # "FORGET" => Sees(s).enabled
      /\ prop[s].transition # "CONTRADICT"
  <2>1. Refusal(s) = ""
    BY DEF PassGates
  <2> QED
    BY <1>1, <2>1 DEF Refusal, Proposed
<1>4. Allowed(prop[s], exp[s], Sees(s)) /\ "gated" \in Stage
  BY <1>2, <1>3 DEF Allowed, Stage
<1> QED
  BY <1>1, <1>4, QuietStep DEF PassGates

-----------------------------------------------------------------------------
(* The steps that change the database or the copy.                          *)

LEMMA BumpKeeps ==
  ASSUME NEW d, Sound(d)
  PROVE  LET e == Bump(d)
         IN  /\ Good(e) /\ e.rows = d.rows /\ e.versions = d.versions /\ e.log = d.log
             /\ e.rev = d.rev + 1 /\ e.enabled = d.enabled
<1> DEFINE e == Bump(d)
<1>1. e = Made(d.rows, d.versions, d.log, d.rev + 1, d.enabled, d.last)
  <2>1. Bump(d) = [d EXCEPT !.rev = d.rev + 1]
    BY DEF Bump
  <2> QED
    BY <2>1, WithRev, Zenon DEF Sound, Good
<1> HIDE DEF e
<1>2. /\ e.rows = d.rows /\ e.versions = d.versions /\ e.log = d.log
      /\ e.rev = d.rev + 1 /\ e.enabled = d.enabled /\ e.last = d.last
  BY <1>1, MadeFields
<1>3. Good(e)
  BY <1>1, <1>2 DEF Sound, Good, Shaped
<1> QED
  BY <1>2, <1>3 DEF e

LEMMA LoggedOn ==
  ASSUME NEW d, Logged(d), NEW e, NEW row, row.expected = d.rev,
         e.rev = d.rev + 1, e.enabled = d.enabled, e.log \subseteq d.log \cup {row}
  PROVE  Logged(e)
<1>1. d.rev \in Nat /\ e.rev \in Nat /\ e.enabled \in BOOLEAN
  BY DEF Logged
<1>2. \A l \in d.log : l.expected \in Nat /\ l.expected < d.rev
  BY DEF Logged
<1>3. \A l \in e.log : l.expected \in Nat /\ l.expected < e.rev
  BY <1>1, <1>2
<1>4. \A k, l \in e.log : k.expected = l.expected => k = l
  <2>1. \A k, l \in d.log : k.expected = l.expected => k = l
    BY DEF Logged
  <2>2. \A l \in d.log : l.expected # row.expected
    BY <1>1, <1>2
  <2> QED
    BY <2>1, <2>2
<1> QED
  BY <1>1, <1>3, <1>4 DEF Logged

\* What a publish leaves in the copy is sound, and with memory off only a loss.
LEMMA PublishedSound ==
  ASSUME NEW d, Sound(d), NEW st, NEW p, p.transition \in Transition \ {"CONTRADICT"},
         ~d.enabled => p.transition = "FORGET",
         NEW h, h = Handle(Bump(d), st, p).d,
         NEW row, row.expected = d.rev,
         NEW e, e = Made(h.rows, h.versions, h.log \cup {row}, h.rev, h.enabled, h.last)
  PROVE  Sound(e) /\ e.rev = d.rev + 1 /\ e.enabled = d.enabled /\ Barrier(d, e)
<1> DEFINE b == Bump(d)
<1>1. /\ Good(b) /\ b.rows = d.rows /\ b.versions = d.versions /\ b.log = d.log
      /\ b.rev = d.rev + 1 /\ b.enabled = d.enabled
  BY BumpKeeps
<1>0. h = Handle(b, st, p).d
  OBVIOUS
<1> HIDE DEF b
<1>2. Keeps(b, h)
  BY <1>0, <1>1, HandleKeeps
<1>3. p.transition = "FORGET" => Lacks(b, h)
  BY <1>0, <1>1, ForgetLacks
<1>6. /\ e.rows = h.rows /\ e.versions = h.versions /\ e.log = h.log \cup {row}
      /\ e.rev = h.rev /\ e.enabled = h.enabled /\ e.last = h.last
  BY DEF Made
<1>7. Good(e)
  BY <1>2, <1>6 DEF Keeps, Good, Shaped
<1>8. Logged(e)
  <2>1. Logged(d) /\ h.log \subseteq d.log /\ h.rev = d.rev + 1 /\ h.enabled = d.enabled
    BY <1>1, <1>2 DEF Keeps, Sound
  <2>2. e.rev = d.rev + 1 /\ e.enabled = d.enabled /\ e.log \subseteq d.log \cup {row}
    BY <1>6, <2>1
  <2> QED
    BY <2>1, <2>2, LoggedOn
<1>9. Barrier(d, e)
  <2> SUFFICES ASSUME ~d.enabled PROVE Lacks(d, e)
    BY DEF Barrier
  <2>1. Lacks(b, h)
    BY <1>3
  <2>2. e.rows = h.rows /\ e.versions = h.versions /\ b.rows = d.rows /\ b.versions = d.versions
    BY <1>1, <1>6
  <2> QED
    BY <2>1, <2>2 DEF Lacks, Exists
<1> QED
  BY <1>1, <1>2, <1>6, <1>7, <1>8, <1>9 DEF Sound, Keeps

LEMMA BarrierOn ==
  ASSUME NEW d, NEW e, NEW f, Barrier(d, e), Barrier(e, f), e.enabled = d.enabled
  PROVE  Barrier(d, f)
  BY DEF Barrier, Lacks, Exists

LEMMA PublishCommitsStep ==
  ASSUME IInv, NEW s \in Session, PublishCommits(s)
  PROVE  IInv'
<1> DEFINE d == Sees(s)
<1>1. /\ Sound(d) /\ d.rev \in Nat /\ db.rev \in Nat /\ db.rev <= d.rev
      /\ d.enabled = db.enabled /\ Barrier(db, d)
  BY SeesSound
<1>2. /\ stage[s] = "gated" /\ exp[s] = d.rev
      /\ Proposed(prop[s]) /\ Allowed(prop[s], exp[s], d)
  BY DEF PublishCommits, Locks, CasLands, IInv, Calling
<1>3. /\ Sound(work)' /\ work'.rev = d.rev + 1 /\ work'.enabled = d.enabled
      /\ Barrier(d, work')
  <2> DEFINE out == Attempt(s)
             h == Handle(Bump(d), StatusSeen(s), prop[s]).d
             row == LogOf(s, out.created)
  <2>1. work' = [h EXCEPT !.log = h.log \cup {row}]
    BY DEF PublishCommits, Attempt
  <2>2. row.expected = d.rev
    BY <1>2 DEF LogOf
  <2> HIDE DEF row, d
  <2>3. prop[s].transition \in Transition \ {"CONTRADICT"}
    BY <1>2 DEF Proposed, Allowed
  <2>4. ~d.enabled => prop[s].transition = "FORGET"
    BY <1>2 DEF Allowed
  <2>5. h = Handle(Bump(d), StatusSeen(s), prop[s]).d
    OBVIOUS
  <2> HIDE DEF h
  <2>6. Shaped(h)
    BY <1>1, <2>3, <2>5, BumpKeeps, HandleKeeps DEF Keeps
  <2>7. work' = Made(h.rows, h.versions, h.log \cup {row}, h.rev, h.enabled, h.last)
    BY <2>1, <2>6, WithLog, Zenon
  <2>8. Sound(work') /\ work'.rev = d.rev + 1 /\ work'.enabled = d.enabled /\ Barrier(d, work')
    BY <1>1, <2>2, <2>3, <2>4, <2>5, <2>7, PublishedSound
  <2> QED
    BY <2>8 DEF Sound, Good, Shaped, ShapedRows, ShapedRow, ShapedVersion, OneOpenOf, Logged
<1> HIDE DEF d
<1>4. /\ UNCHANGED db /\ lock' = s /\ lock \in {NoSession, s}
      /\ stage' = [stage EXCEPT ![s] = "ready"]
      /\ prop' = [prop EXCEPT ![s] = NoProposal] /\ exp' = [exp EXCEPT ![s] = 0]
  BY DEF PublishCommits, Settle, Locks
<1>5. Sound(db)'
  BY <1>4 DEF IInv, Sound, Good, Shaped, ShapedRows, OneOpenOf, Logged
<1>6. Copied'
  <2>1. Barrier(db, work')
    BY <1>1, <1>3, BarrierOn
  <2>2. Ahead(db, work)'
    BY <1>1, <1>3, <1>4, <2>1 DEF Ahead, Barrier, Lacks, Exists
  <2> QED
    BY <1>3, <2>2 DEF Copied
<1>7. Typed'
  BY <1>4 DEF IInv, Typed, Stage
<1>8. ASSUME NEW t \in Session PROVE Calling(t)'
  <2>1. CASE t = s
    <3>1. stage'[t] = "ready" /\ prop'[t] = NoProposal
      BY <1>4, <2>1 DEF IInv, Typed
    <3> QED
      BY <3>1, NoneProposed DEF Calling
  <2>2. CASE t # s
    <3>1. stage'[t] = stage[t] /\ prop'[t] = prop[t] /\ exp'[t] = exp[t]
      BY <1>4, <2>2 DEF IInv, Typed
    <3>2. Sees(t)' = Sees(t)
      BY <1>4, <2>2, NamesAssumption DEF Sees
    <3> QED
      BY <3>1, <3>2 DEF Calling, IInv
  <2> QED
    BY <2>1, <2>2
<1> QED
  BY <1>5, <1>6, <1>7, <1>8 DEF IInv

LEMMA ToggleConsentStep ==
  ASSUME IInv, NEW s \in Session, ToggleConsent(s)
  PROVE  IInv'
<1>1. /\ stage[s] = "idle" /\ lock = NoSession /\ UNCHANGED <<lock, stage, prop, exp>>
      /\ db' = Bump([db EXCEPT !.enabled = ~db.enabled])
  BY DEF ToggleConsent
<1>2. Sound(db) /\ db.rev \in Nat /\ db.enabled \in BOOLEAN
  BY DEF IInv, Sound, Logged
<1> DEFINE off == [db EXCEPT !.enabled = ~db.enabled]
<1>3. /\ Sound(off) /\ off.rows = db.rows /\ off.versions = db.versions /\ off.log = db.log
      /\ off.rev = db.rev
  <2> DEFINE flipped == ~db.enabled
  <2>1. flipped \in BOOLEAN
    OBVIOUS
  <2> HIDE DEF flipped
  <2>2. off = Made(db.rows, db.versions, db.log, db.rev, flipped, db.last)
    <3>1. off = [db EXCEPT !.enabled = flipped]
      BY DEF flipped
    <3> QED
      BY <1>2, <3>1, WithEnabled, Zenon DEF Sound, Good
  <2> HIDE DEF off
  <2>3. /\ off.rows = db.rows /\ off.versions = db.versions /\ off.log = db.log
        /\ off.rev = db.rev /\ off.enabled = flipped /\ off.last = db.last
    BY <2>2, MadeFields
  <2>4. Sound(off)
    BY <1>2, <2>1, <2>2, <2>3 DEF Sound, Good, Shaped, Logged
  <2> QED
    BY <2>3, <2>4
<1>0. db' = Bump(off)
  BY <1>1
<1> HIDE DEF off
<1>4. /\ Good(db') /\ db'.rows = db.rows /\ db'.versions = db.versions /\ db'.log = db.log
      /\ db'.rev = db.rev + 1 /\ db'.enabled = off.enabled
  BY <1>0, <1>3, BumpKeeps
<1>5. Sound(db')
  BY <1>2, <1>3, <1>4 DEF Sound, Logged
<1>6. Typed' /\ Copied'
  BY <1>1 DEF IInv, Typed, Copied
<1>7. ASSUME NEW t \in Session PROVE Calling(t)'
  <2>1. Sees(t) = db /\ Sees(t)' = db'
    BY <1>1, NamesAssumption DEF Sees
  <2>2. exp[t] \in Nat
    BY DEF IInv, Typed
  <2>3. stage[t] = "gated" => exp[t] < db'.rev
    BY <1>2, <1>4, <2>1, <2>2 DEF IInv, Calling, Allowed
  <2>4. stage[t] = "gated" => Allowed(prop[t], exp[t], db')
    BY <1>2, <1>4, <2>1, <2>2, <2>3 DEF IInv, Calling, Allowed
  <2> QED
    BY <1>1, <2>1, <2>4 DEF IInv, Calling
<1>8. Sound(db)'
  BY <1>5 DEF Sound, Good, Shaped, ShapedRows, ShapedRow, ShapedVersion, OneOpenOf, Logged
<1> QED
  BY <1>6, <1>7, <1>8 DEF IInv

\* A transaction ends: with its holder's copy, or leaving the database alone.
LEMMA EndStep ==
  ASSUME IInv, NEW s \in Session, EndSession(s),
         db' = db \/ (lock = s /\ db' = work)
  PROVE  IInv'
<1>1. /\ stage' = [stage EXCEPT ![s] = "idle"]
      /\ prop' = [prop EXCEPT ![s] = NoProposal] /\ exp' = [exp EXCEPT ![s] = 0]
      /\ lock' = (IF lock = s THEN NoSession ELSE lock)
      /\ work' = (IF lock = s THEN EmptyDatabase ELSE work)
  BY DEF EndSession
<1>2. Sound(db')
  BY NamesAssumption DEF IInv, Copied
<1>3. Sound(db)'
  BY <1>2 DEF Sound, Good, Shaped, ShapedRows, ShapedRow, ShapedVersion, OneOpenOf, Logged
<1>4. Copied'
  <2>1. CASE lock = s
    BY <1>1, <2>1 DEF Copied
  <2>2. CASE lock # s
    <3>1. UNCHANGED <<db, work, lock>>
      BY <1>1, <2>2
    <3> QED
      BY <3>1 DEF IInv, Copied, Sound, Good, Shaped, ShapedRows, OneOpenOf, Logged, Ahead, Barrier,
                  Lacks, Exists
  <2> QED
    BY <2>1, <2>2
<1>5. Typed'
  BY <1>1 DEF IInv, Typed, Stage
<1>6. ASSUME NEW t \in Session PROVE Calling(t)'
  <2>1. CASE t = s
    <3>1. stage'[t] = "idle" /\ prop'[t] = NoProposal
      BY <1>1, <2>1 DEF IInv, Typed
    <3> QED
      BY <3>1, NoneProposed DEF Calling
  <2>2. CASE t # s
    <3>1. stage'[t] = stage[t] /\ prop'[t] = prop[t] /\ exp'[t] = exp[t] /\ exp[t] \in Nat
      BY <1>1, <2>2 DEF IInv, Typed
    <3>2. CASE lock = s
      <4>1. Sees(t) = db /\ Sees(t)' = db' /\ db.rev \in Nat
        BY <1>1, <2>2, <3>2, SeesSound, NamesAssumption DEF Sees
      <4>2. db' = db \/ (db.rev < db'.rev /\ db'.rev \in Nat)
        BY <1>2, <3>2, NamesAssumption DEF IInv, Copied, Ahead, Sound, Logged
      <4>3. stage[t] = "gated" => Allowed(prop[t], exp[t], db')
        BY <3>1, <4>1, <4>2 DEF IInv, Calling, Allowed
      <4> QED
        BY <3>1, <4>1, <4>3 DEF IInv, Calling
    <3>3. CASE lock # s
      <4>1. Sees(t)' = Sees(t)
        BY <1>1, <3>3 DEF Sees
      <4> QED
        BY <3>1, <4>1 DEF IInv, Calling
    <3> QED
      BY <3>2, <3>3
  <2> QED
    BY <2>1, <2>2
<1> QED
  BY <1>3, <1>4, <1>5, <1>6 DEF IInv

-----------------------------------------------------------------------------
(* Every step, and the theorems.                                            *)

LEMMA NextIInv == IInv /\ [Next]_vars => IInv'
<1> SUFFICES ASSUME IInv, [Next]_vars PROVE IInv'
  OBVIOUS
<1>1. ASSUME NEW s \in Session, NEW c \in Claim, Resolve(s, c) PROVE IInv'
  <2>1. PICK p \in Decide(Sees(s), StatusSeen(s), Candidates(Sees(s), c), c) :
          Decided(s, p, (IF stage[s] = "idle" THEN MaxClaims ELSE left[s]) - 1)
    BY <1>1 DEF Resolve
  <2>2. Proposed(p)
    BY DecisionsProposed
  <2> QED
    BY <1>1, <2>1, <2>2, DecidedStep DEF Resolve
<1>2. ASSUME NEW s \in Session, NEW b \in Belief, NEW verdict \in {"VERIFY", "REJECT"},
             Judge(s, b, verdict)
      PROVE  IInv'
  <2>1. Proposed(Proposing(verdict, b, db.rows[b].pred, db.rows[b].obj))
    BY DEF Proposed, Proposing, Transition
  <2> QED
    BY <1>2, <2>1, DecidedStep DEF Judge
<1>3. ASSUME NEW s \in Session, NEW b \in Belief, NEW p \in Pred, NEW o \in Obj,
             Correct(s, b, p, o)
      PROVE  IInv'
  <2>1. Proposed(Proposing("CORRECT", b, p, o))
    BY DEF Proposed, Proposing, Transition
  <2> QED
    BY <1>3, <2>1, DecidedStep DEF Correct
<1>4. ASSUME NEW s \in Session, NEW b \in Belief, Forget(s, b) PROVE IInv'
  <2>1. Proposed(Proposing("FORGET", b, db.rows[b].pred, db.rows[b].obj))
    BY DEF Proposed, Proposing, Transition
  <2> QED
    BY <1>4, <2>1, DecidedStep DEF Forget
<1>5. ASSUME NEW s \in Session, Refuse(s) \/ PublishStale(s) \/ PublishFails(s) PROVE IInv'
  BY <1>5, SettleStep DEF Refuse, PublishStale, PublishFails
<1>6. ASSUME NEW s \in Session, Commit(s) PROVE IInv'
  <2>1. db' = db \/ (lock = s /\ db' = work)
    BY <1>6 DEF Commit
  <2> QED
    BY <1>6, <2>1, EndStep DEF Commit
<1>7. ASSUME NEW s \in Session, Abort(s) PROVE IInv'
  BY <1>7, EndStep DEF Abort
<1>8. CASE UNCHANGED vars
  <2>1. \A t : Sees(t)' = Sees(t)
    BY <1>8 DEF vars, Sees
  <2> QED
    BY <1>8, <2>1 DEF vars, IInv, Typed, Copied, Calling, Sound, Good, Shaped, ShapedRows,
       OneOpenOf, Logged, Ahead, Barrier, Lacks, Exists
<1> QED
  BY <1>1, <1>2, <1>3, <1>4, <1>5, <1>6, <1>7, <1>8, ToggleConsentStep, ReadRevisionStep,
     PassGatesStep, PublishCommitsStep DEF Next

\* The invariant of the proofs holds in every behaviour.
THEOREM Invariance == Spec => []IInv
  BY InitIInv, NextIInv, PTL DEF Spec

\* Two logged truth changes never name the same expected revision, however many
\* sessions publish at once: the compare-and-swap of Publisher.publish.
THEOREM OneWinner == Spec => []OneWinnerPerRevision
<1>1. IInv => OneWinnerPerRevision
  BY DEF IInv, Sound, Logged, OneWinnerPerRevision
<1> QED
  BY <1>1, Invariance, PTL

\* A slot of the ledger has at most one open version: append_belief_version.
THEOREM OneOpenVersion == Spec => []OneOpenVersionPerSlot
<1>1. IInv => OneOpenVersionPerSlot
  BY DEF IInv, Sound, Good, OneOpenOf, OneOpenVersionPerSlot
<1> QED
  BY <1>1, Invariance, PTL

\* A commit of the holder's copy, the only change of the rows.
LEMMA StepBarrier ==
  ASSUME IInv, [Next]_vars, ~db.enabled
  PROVE  Lacks(db, db')
<1>1. Lacks(db, db)
  BY DEF Lacks
<1>2. CASE UNCHANGED db
  BY <1>1, <1>2 DEF Lacks, Exists
<1>3. ASSUME NEW s \in Session, ToggleConsent(s) PROVE Lacks(db, db')
  <2> DEFINE on == TRUE
  <2>1. db' = Bump([db EXCEPT !.enabled = ~db.enabled])
    BY <1>3 DEF ToggleConsent
  <2>2. db' = [[db EXCEPT !.enabled = ~db.enabled] EXCEPT !.rev = @ + 1]
    BY <2>1 DEF Bump
  <2>3. db'.rows = db.rows /\ db'.versions = db.versions
    BY <2>2 DEF IInv, Sound, Good, Shaped, Made
  <2> QED
    BY <1>1, <2>3 DEF Lacks, Exists
<1>4. ASSUME NEW s \in Session, Commit(s) PROVE Lacks(db, db')
  <2>1. CASE lock = s
    <3>1. db' = work /\ Barrier(db, work)
      BY <1>4, <2>1, NamesAssumption DEF Commit, IInv, Copied, Ahead
    <3> QED
      BY <3>1 DEF Barrier
  <2>2. CASE lock # s
    BY <1>2, <1>4, <2>2 DEF Commit
  <2> QED
    BY <2>1, <2>2
<1>5. UNCHANGED db \/ (\E s \in Session : ToggleConsent(s) \/ Commit(s))
  BY DEF Next, vars, Resolve, Judge, Correct, Forget, ReadRevision, PassGates, Refuse, Settle,
     PublishCommits, PublishStale, PublishFails, Abort
<1> QED
  BY <1>2, <1>3, <1>4, <1>5

\* With memory off a step only takes rows and versions away: no session publishes
\* on the consent it was gated under once set_memory_enabled has turned it off.
THEOREM ConsentHolds == Spec => ConsentBarrier
<1>1. IInv /\ [Next]_vars =>
        [~db.enabled =>
           /\ \A b \in Belief : db'.rows[b] = db.rows[b] \/ ~Exists(db', b)
           /\ db'.versions \subseteq db.versions]_vars
  BY StepBarrier DEF Lacks
<1> QED
  BY <1>1, Invariance, PTL DEF Spec, ConsentBarrier

-----------------------------------------------------------------------------
(* What is chosen: the newest row of some, the first free key of a family.   *)

LEMMA LeastOf ==
  ASSUME NEW S, S \subseteq Nat, S # {}
  PROVE  \E m \in S : \A k \in S : m <= k
<1> DEFINE R == OpToRel(<, Nat)
<1>1. IsWellFoundedOn(R, Nat)
  BY NatLessThanWellFounded
<1>2. \A x, y \in Nat : x < y => <<x, y>> \in R
  BY DEF OpToRel
<1> HIDE DEF R
<1>3. PICK m \in S : \A y \in S : ~(<<y, m>> \in R)
  BY <1>1, WFMin
<1>4. \A k \in S : ~(k < m)
  BY <1>2, <1>3
<1>5. \A k \in S : m <= k
  BY <1>4
<1> QED
  BY <1>5

LEMMA NewestIn ==
  ASSUME NEW S, S \subseteq Belief, S # {}
  PROVE  Newest(S) \in S
<1> DEFINE T == {n \in Nat : \A c \in S : c <= n}
<1>1. S \subseteq Nat /\ MaxBelief \in T
  BY SizeAssumption DEF Belief
<1>2. PICK m \in T : \A n \in T : m <= n
  BY <1>1, LeastOf
<1>3. m \in S
  <2>1. SUFFICES ASSUME m \notin S PROVE FALSE
    OBVIOUS
  <2>2. \A c \in S : c <= m - 1 /\ c >= 1
    BY <1>1, <1>2, <2>1 DEF Belief
  <2>3. PICK c : c \in S
    OBVIOUS
  <2>4. m - 1 \in Nat
    BY <1>1, <1>2, <2>2, <2>3
  <2>5. m - 1 \in T
    BY <2>2, <2>4
  <2> QED
    BY <1>2, <2>5
<1>4. \E b \in S : \A c \in S : c <= b
  BY <1>2, <1>3
<1> QED
  BY <1>4 DEF Newest

LEMMA FreeSuffixIn ==
  ASSUME NEW d, NEW p, NEW o
  PROVE  FreeSuffix(d, p, o) \in 0 .. MaxBelief
<1> DEFINE N == 0 .. MaxBelief
           Held(n) == HoldersOf(d, <<p, o, n>>)
           free == {n \in N : Held(n) = {}}
<1>1. free # {}
  <2> SUFFICES ASSUME \A n \in N : Held(n) # {} PROVE FALSE
    OBVIOUS
  <2> DEFINE f == [n \in N |-> CHOOSE b \in Held(n) : TRUE]
  <2>1. \A n \in N : f[n] \in Held(n)
    OBVIOUS
  <2>2. \A n : \A b \in Held(n) : b \in Belief /\ d.rows[b].n = n
    BY DEF HoldersOf, KeyOf
  <2>3. f \in [N -> Belief] /\ \A m, n \in N : f[m] = f[n] => m = n
    <3>1. \A n \in N : f[n] \in Belief /\ d.rows[f[n]].n = n
      BY <2>1, <2>2
    <3>2. f = [n \in N |-> f[n]]
      OBVIOUS
    <3> HIDE DEF f
    <3> QED
      BY <3>1, <3>2
  <2>4. /\ IsFiniteSet(N) /\ Cardinality(N) = MaxBelief + 1
        /\ IsFiniteSet(Belief) /\ Cardinality(Belief) = MaxBelief
    <3>1. MaxBelief \in Nat
      BY SizeAssumption
    <3>2. IsFiniteSet(0 .. MaxBelief) /\ Cardinality(0 .. MaxBelief) = MaxBelief + 1
      BY <3>1, FS_Interval
    <3>3. IsFiniteSet(1 .. MaxBelief) /\ Cardinality(1 .. MaxBelief) = MaxBelief
      BY <3>1, FS_Interval
    <3> QED
      BY <3>2, <3>3 DEF Belief
  <2> HIDE DEF f, Held, N
  <2>5. \E m, n \in N : m # n /\ f[m] = f[n]
    BY <2>3, <2>4, SizeAssumption, FS_PigeonHole
  <2> QED
    BY <2>3, <2>5
<1>2. free \subseteq Nat
  BY SizeAssumption
<1>3. PICK m \in free : \A k \in free : m <= k
  BY <1>1, <1>2, LeastOf
<1>4. m \in N /\ Held(m) = {} /\ \A k \in 0 .. m - 1 : Held(k) # {}
  BY <1>3, SizeAssumption
<1> QED
  BY <1>4 DEF FreeSuffix

-----------------------------------------------------------------------------
(* Changing one field of a database, with its type.                         *)

LEMMA SetRows ==
  ASSUME NEW d \in Database, NEW x \in [Belief -> Row]
  PROVE  LET e == [d EXCEPT !.rows = x]
         IN  /\ e \in Database /\ e.rows = x /\ e.versions = d.versions /\ e.log = d.log
             /\ e.rev = d.rev /\ e.enabled = d.enabled /\ e.last = d.last
  BY DEF Database

LEMMA SetVersions ==
  ASSUME NEW d \in Database, NEW x \in SUBSET Version
  PROVE  LET e == [d EXCEPT !.versions = x]
         IN  /\ e \in Database /\ e.rows = d.rows /\ e.versions = x /\ e.log = d.log
             /\ e.rev = d.rev /\ e.enabled = d.enabled /\ e.last = d.last
  BY DEF Database

LEMMA SetLog ==
  ASSUME NEW d \in Database, NEW x \in SUBSET LogRow
  PROVE  LET e == [d EXCEPT !.log = x]
         IN  /\ e \in Database /\ e.rows = d.rows /\ e.versions = d.versions /\ e.log = x
             /\ e.rev = d.rev /\ e.enabled = d.enabled /\ e.last = d.last
  BY DEF Database

LEMMA SetLast ==
  ASSUME NEW d \in Database, NEW x \in 0 .. MaxBelief
  PROVE  LET e == [d EXCEPT !.last = x]
         IN  /\ e \in Database /\ e.rows = d.rows /\ e.versions = d.versions /\ e.log = d.log
             /\ e.rev = d.rev /\ e.enabled = d.enabled /\ e.last = x
  BY DEF Database

LEMMA BumpTyped ==
  ASSUME NEW d \in Database
  PROVE  LET e == Bump(d)
         IN  /\ e \in Database /\ e.rows = d.rows /\ e.versions = d.versions /\ e.log = d.log
             /\ e.enabled = d.enabled /\ e.last = d.last /\ e.rev = d.rev + 1
  BY DEF Database, Bump

LEMMA SlotTyped ==
  ASSUME NEW r \in Row
  PROVE  SlotOf(r) \in Slot
  BY DEF Row, SlotOf, Slot, KeyOf

LEMMA StatusTyped ==
  ASSUME NEW r \in Row, NEW status \in Status
  PROVE  LET q == [r EXCEPT !.status = status]
         IN  /\ q \in Row /\ q.status = status /\ q.pred = r.pred /\ q.obj = r.obj
             /\ SlotOf(q) = SlotOf(r)
<1> DEFINE q == [r EXCEPT !.status = status]
<1>1. /\ q \in Row /\ q.status = status /\ q.pred = r.pred /\ q.obj = r.obj /\ q.n = r.n
  BY DEF Row
<1> HIDE DEF q
<1>2. SlotOf(q) = SlotOf(r)
  BY <1>1 DEF SlotOf, KeyOf
<1> QED
  BY <1>1, <1>2 DEF q

LEMMA ClosedTyped ==
  ASSUME NEW v \in Version
  PROVE  Closed(v) \in Version /\ Closed(v).slot = v.slot /\ Closed(v).belief = v.belief
         /\ ~Closed(v).open
  BY DEF Version, Closed

-----------------------------------------------------------------------------
(* What a database holds: of a belief that is gone, nothing.                 *)

\* The beliefs created so far are numbered up to the last.
Numbered(d) == \A b \in Belief : Exists(d, b) => b <= d.last
VersionsShow(d) ==
  \A v \in d.versions : Exists(d, v.belief) /\ v.slot = SlotOf(d.rows[v.belief])
LogShows(d) ==
  \A l \in d.log :
    /\ l.created # NoBelief => Exists(d, l.created)
    /\ l.target # NoBelief /\ l.transition # "FORGET" => Exists(d, l.target)
Whole(d) == d \in Database /\ Numbered(d) /\ VersionsShow(d) /\ LogShows(d)

\* The same but for the rows and versions.
Beside(d, e) == /\ e.log = d.log /\ e.rev = d.rev /\ e.enabled = d.enabled

LEMMA WholeTyped ==
  ASSUME NEW d, Whole(d)
  PROVE  /\ d \in Database /\ d.rows \in [Belief -> Row] /\ d.versions \in SUBSET Version
         /\ d.log \in SUBSET LogRow /\ d.last \in 0 .. MaxBelief
         /\ \A b \in Belief : d.rows[b] \in Row
         /\ \A v \in d.versions : v.belief \in Belief
         /\ \A l \in d.log : l.created \in Belief \cup {NoBelief} /\ l.target \in Belief \cup {NoBelief}
  BY DEF Whole, Database, Version, LogRow

LEMMA AppendFacts ==
  ASSUME NEW d, Whole(d), NEW b \in Belief, Exists(d, b)
  PROVE  LET e == AppendVersion(d, b)
         IN  /\ Whole(e) /\ e.rows = d.rows /\ e.last = d.last /\ Beside(d, e)
             /\ \A v \in e.versions : v.open =>
                  v.belief = b \/ \E w \in d.versions : w.open /\ w.belief = v.belief
<1> DEFINE slot == SlotOf(d.rows[b])
           rest == {v \in d.versions : v.slot # slot}
           past == {Closed(v) : v \in d.versions \ rest}
           new == [slot |-> slot, belief |-> b, open |-> TRUE]
           all == rest \cup past \cup {new}
           e == [d EXCEPT !.versions = all]
<1>1. AppendVersion(d, b) = e
  BY DEF AppendVersion
<1>2. \A v \in rest : v \in d.versions
  OBVIOUS
<1>3. \A v \in past : \E w \in d.versions : v \in Version /\ v.slot = w.slot
                                             /\ v.belief = w.belief /\ ~v.open
  <2>1. \A w \in d.versions : w \in Version
    BY WholeTyped
  <2> HIDE DEF rest
  <2> QED
    BY <2>1, ClosedTyped
<1>4. new \in Version /\ new.slot = slot /\ new.belief = b
  <2>1. slot \in Slot
    BY WholeTyped, SlotTyped
  <2> HIDE DEF slot
  <2> QED
    BY <2>1 DEF Version
<1> HIDE DEF rest, past, new
<1>5. \A v \in all : /\ v \in Version
                     /\ \/ v = new
                        \/ \E w \in d.versions : v.slot = w.slot /\ v.belief = w.belief
                                                  /\ (v.open => w.open)
  BY <1>2, <1>3, <1>4, WholeTyped
<1> HIDE DEF all
<1>6. /\ e \in Database /\ e.rows = d.rows /\ e.versions = all /\ e.log = d.log
      /\ e.rev = d.rev /\ e.enabled = d.enabled /\ e.last = d.last
  BY <1>5, SetVersions, WholeTyped
<1> HIDE DEF e
<1>7. VersionsShow(e)
  BY <1>4, <1>5, <1>6 DEF Whole, VersionsShow, Exists, slot
<1>8. Numbered(e) /\ LogShows(e)
  BY <1>6 DEF Whole, Numbered, LogShows, Exists
<1>9. \A v \in e.versions : v.open =>
         v.belief = b \/ \E w \in d.versions : w.open /\ w.belief = v.belief
  BY <1>4, <1>5, <1>6
<1> QED
  BY <1>1, <1>6, <1>7, <1>8, <1>9 DEF Whole, Beside

LEMMA InsertFacts ==
  ASSUME NEW d, Whole(d), NEW p \in Pred, NEW o \in Obj, NEW n \in 0 .. MaxBelief,
         d.last < MaxBelief
  PROVE  LET e == InsertBelief(d, p, o, n)
         IN  /\ Whole(e) /\ e.versions = d.versions /\ Beside(d, e)
             /\ e.last = d.last + 1 /\ e.last \in Belief
             /\ ~Exists(d, e.last) /\ e.rows[e.last].status = "active" /\ e.rows[e.last].pred = p
             /\ \A b \in Belief \ {e.last} : e.rows[b] = d.rows[b]
<1> DEFINE k == d.last + 1
           row == [status |-> "active", pred |-> p, obj |-> o, n |-> n]
           rows == [d.rows EXCEPT ![k] = row]
           c == [d EXCEPT !.rows = rows]
           e == [c EXCEPT !.last = k]
<1>1. InsertBelief(d, p, o, n) = e
  BY DEF InsertBelief
<1>2. row \in Row /\ row.status = "active" /\ row.pred = p
  BY DEF Row, Status
<1>3. k \in Belief /\ k \in 0 .. MaxBelief /\ k = d.last + 1
  BY WholeTyped, SizeAssumption DEF Belief
<1>4. ~Exists(d, k)
  BY <1>3, WholeTyped, SizeAssumption DEF Whole, Numbered
<1> HIDE DEF row, k
<1>5. rows \in [Belief -> Row] /\ rows[k] = row /\ \A b \in Belief \ {k} : rows[b] = d.rows[b]
  BY <1>2, <1>3, WholeTyped
<1> HIDE DEF rows
<1>6. /\ c \in Database /\ c.rows = rows /\ c.versions = d.versions /\ Beside(d, c)
      /\ c.last = d.last
  BY <1>5, SetRows, WholeTyped DEF Beside
<1> HIDE DEF c
<1>7. /\ e \in Database /\ e.rows = rows /\ e.versions = d.versions /\ Beside(d, e) /\ e.last = k
  BY <1>3, <1>6, SetLast DEF Beside
<1> HIDE DEF e
<1>8. \A b \in Belief : Exists(d, b) => b # k /\ Exists(e, b) /\ e.rows[b] = d.rows[b]
  BY <1>4, <1>5, <1>7 DEF Exists
<1>9. VersionsShow(e) /\ LogShows(e)
  BY <1>7, <1>8, WholeTyped DEF Whole, VersionsShow, LogShows, Beside
<1>10. Numbered(e)
  <2> SUFFICES ASSUME NEW b \in Belief, Exists(e, b) PROVE b <= e.last
    BY DEF Numbered
  <2>1. CASE b = k
    BY <1>3, <1>7, <2>1
  <2>2. CASE b # k
    <3>1. Exists(d, b)
      BY <1>5, <1>7, <2>2 DEF Exists
    <3>2. b <= d.last
      BY <3>1 DEF Whole, Numbered
    <3> QED
      BY <1>3, <1>7, <3>2, WholeTyped DEF Belief
  <2> QED
    BY <2>1, <2>2
<1> QED
  BY <1>1, <1>2, <1>3, <1>4, <1>5, <1>7, <1>9, <1>10 DEF Whole

LEMMA StatusFacts ==
  ASSUME NEW d, Whole(d), NEW S, NEW status \in Status
  PROVE  LET e == SetStatus(d, S, status)
         IN  /\ e \in Database /\ e.versions = d.versions /\ e.last = d.last /\ Beside(d, e)
             /\ \A b \in Belief :
                  /\ b \in S => /\ e.rows[b].status = status /\ e.rows[b].pred = d.rows[b].pred
                                /\ SlotOf(e.rows[b]) = SlotOf(d.rows[b])
                  /\ b \notin S => e.rows[b] = d.rows[b]
<1> DEFINE rows == [b \in Belief |-> IF b \in S THEN [d.rows[b] EXCEPT !.status = status]
                                                ELSE d.rows[b]]
           e == [d EXCEPT !.rows = rows]
<1>1. SetStatus(d, S, status) = e
  BY DEF SetStatus
<1>2. \A b \in Belief :
        /\ rows[b] \in Row
        /\ b \in S => /\ rows[b].status = status /\ rows[b].pred = d.rows[b].pred
                      /\ SlotOf(rows[b]) = SlotOf(d.rows[b])
        /\ b \notin S => rows[b] = d.rows[b]
  <2> TAKE b \in Belief
  <2>1. d.rows[b] \in Row
    BY WholeTyped
  <2>2. rows[b] = IF b \in S THEN [d.rows[b] EXCEPT !.status = status] ELSE d.rows[b]
    OBVIOUS
  <2> DEFINE q == [d.rows[b] EXCEPT !.status = status]
  <2>3. q \in Row /\ q.status = status /\ q.pred = d.rows[b].pred /\ SlotOf(q) = SlotOf(d.rows[b])
    BY <2>1, StatusTyped
  <2> HIDE DEF q, rows
  <2> QED
    BY <2>1, <2>2, <2>3 DEF q
<1>3. rows = [b \in Belief |-> rows[b]]
  OBVIOUS
<1> HIDE DEF rows
<1>4. rows \in [Belief -> Row]
  BY <1>2, <1>3
<1>5. /\ e \in Database /\ e.rows = rows /\ e.versions = d.versions /\ e.last = d.last
      /\ Beside(d, e)
  BY <1>4, SetRows, WholeTyped DEF Beside
<1> HIDE DEF e
<1> QED
  BY <1>1, <1>2, <1>5

\* Marking rows that exist loses nothing.
LEMMA MarkFacts ==
  ASSUME NEW d, Whole(d), NEW S, \A b \in S : Exists(d, b), NEW status \in Status,
         status # "absent"
  PROVE  LET e == SetStatus(d, S, status)
         IN  /\ Whole(e) /\ e.versions = d.versions /\ e.last = d.last /\ Beside(d, e)
             /\ \A b \in Belief : /\ e.rows[b].pred = d.rows[b].pred
                                  /\ Exists(e, b) <=> Exists(d, b)
                                  /\ b \in S => e.rows[b].status = status
                                  /\ b \notin S => e.rows[b] = d.rows[b]
<1> DEFINE e == SetStatus(d, S, status)
<1>1. /\ e \in Database /\ e.versions = d.versions /\ e.last = d.last /\ Beside(d, e)
      /\ \A b \in Belief :
           /\ b \in S => /\ e.rows[b].status = status /\ e.rows[b].pred = d.rows[b].pred
                         /\ SlotOf(e.rows[b]) = SlotOf(d.rows[b])
           /\ b \notin S => e.rows[b] = d.rows[b]
  BY StatusFacts
<1> HIDE DEF e
<1>2. \A b \in Belief : /\ Exists(e, b) <=> Exists(d, b)
                        /\ SlotOf(e.rows[b]) = SlotOf(d.rows[b])
                        /\ e.rows[b].pred = d.rows[b].pred
  BY <1>1 DEF Exists
<1>3. VersionsShow(e) /\ LogShows(e) /\ Numbered(e)
  BY <1>1, <1>2, WholeTyped DEF Whole, VersionsShow, LogShows, Numbered, Beside
<1> QED
  BY <1>1, <1>2, <1>3 DEF Whole, e

LEMMA CloseFacts ==
  ASSUME NEW d, Whole(d), NEW b
  PROVE  LET e == CloseVersionsOf(d, b)
         IN  /\ Whole(e) /\ e.rows = d.rows /\ e.last = d.last /\ Beside(d, e)
             /\ \A v \in e.versions : v.open =>
                  v.belief # b /\ \E w \in d.versions : w.open /\ w.belief = v.belief
<1> DEFINE all == {IF v.belief = b THEN Closed(v) ELSE v : v \in d.versions}
           e == [d EXCEPT !.versions = all]
<1>1. CloseVersionsOf(d, b) = e
  BY DEF CloseVersionsOf
<1>2. \A v \in all : /\ v \in Version
                     /\ \E w \in d.versions : /\ v.slot = w.slot /\ v.belief = w.belief
                                              /\ v.open => w.open /\ v.belief # b
  BY ClosedTyped, WholeTyped
<1> HIDE DEF all
<1>3. /\ e \in Database /\ e.rows = d.rows /\ e.versions = all /\ e.last = d.last /\ Beside(d, e)
  BY <1>2, SetVersions, WholeTyped DEF Beside
<1> HIDE DEF e
<1>4. VersionsShow(e)
  BY <1>2, <1>3 DEF Whole, VersionsShow, Exists
<1>5. LogShows(e) /\ Numbered(e)
  BY <1>3 DEF Whole, LogShows, Numbered, Exists, Beside
<1> QED
  BY <1>1, <1>2, <1>3, <1>4, <1>5 DEF Whole

\* forget_belief takes the row, its slot's versions and its log rows.
LEMMA ForgetFacts ==
  ASSUME NEW d, Whole(d), NEW b \in Belief
  PROVE  LET e == PurgeLog(PurgeLedger(SetStatus(d, {b}, "absent"), b), b)
         IN  /\ Whole(e) /\ e.last = d.last /\ e.versions \subseteq d.versions
             /\ e.rev = d.rev /\ e.enabled = d.enabled
             /\ ~Exists(e, b) /\ \A a \in Belief \ {b} : e.rows[a] = d.rows[a]
<1> DEFINE gone == SetStatus(d, {b}, "absent")
           versions == {v \in gone.versions : v.slot # SlotOf(gone.rows[b])}
           bare == [gone EXCEPT !.versions = versions]
           log == {l \in bare.log : l.target # b /\ l.created # b}
           e == [bare EXCEPT !.log = log]
<1>1. /\ gone \in Database /\ gone.versions = d.versions /\ gone.last = d.last /\ Beside(d, gone)
      /\ gone.rows[b].status = "absent" /\ SlotOf(gone.rows[b]) = SlotOf(d.rows[b])
      /\ \A a \in Belief \ {b} : gone.rows[a] = d.rows[a]
  <2>1. "absent" \in Status
    BY DEF Status
  <2> QED
    BY <2>1, StatusFacts
<1>2. PurgeLog(PurgeLedger(gone, b), b) = e
  BY DEF PurgeLog, PurgeLedger
<1> HIDE DEF gone
<1>3. versions \subseteq d.versions /\ \A v \in versions : v.slot # SlotOf(d.rows[b])
  BY <1>1
<1> HIDE DEF versions
<1>4. /\ bare \in Database /\ bare.rows = gone.rows /\ bare.versions = versions
      /\ bare.last = d.last /\ Beside(d, bare)
  BY <1>1, <1>3, SetVersions, WholeTyped DEF Beside
<1> HIDE DEF bare
<1>5. log \subseteq d.log /\ \A l \in log : l.target # b /\ l.created # b
  BY <1>4 DEF Beside
<1> HIDE DEF log
<1>6. /\ e \in Database /\ e.rows = gone.rows /\ e.versions = versions /\ e.log = log
      /\ e.last = d.last /\ e.rev = d.rev /\ e.enabled = d.enabled
  BY <1>4, <1>5, SetLog, WholeTyped DEF Beside
<1> HIDE DEF e
<1>7. ~Exists(e, b) /\ \A a \in Belief \ {b} : e.rows[a] = d.rows[a]
  BY <1>1, <1>6 DEF Exists
<1>8. VersionsShow(e)
  BY <1>3, <1>6, <1>7, WholeTyped DEF Whole, VersionsShow, Exists
<1>9. LogShows(e)
  BY <1>5, <1>6, <1>7, WholeTyped DEF Whole, LogShows, Exists
<1>10. Numbered(e)
  BY <1>6, <1>7 DEF Whole, Numbered, Exists
<1> QED
  BY <1>2, <1>3, <1>6, <1>7, <1>8, <1>9, <1>10 DEF Whole, gone

-----------------------------------------------------------------------------
(* What a handler does to the rows and to the open versions.                 *)

Opened(d) == {b \in Belief : \E v \in d.versions : v.open /\ v.belief = b}

\* A proposal names a belief unless it is a new claim, and only a return revives.
Aimed(p) ==
  /\ p \in Proposal
  /\ p.target = NoBelief <=> p.transition \in {"CREATE", "CONTRADICT"}
  /\ p.revival => p.transition = "UPDATE"

\* What the gates leave of the target's status.
Fit(p, st) ==
  p.transition \notin {"CREATE", "CONTRADICT", "FORGET"} =>
    st[p.target] = "active" \/ (p.transition = "UPDATE" /\ st[p.target] = "superseded")

\* The rows a new value of p closes.
Replaces(p, st) == (IF p.transition = "CREATE" THEN {} ELSE {p.target})
                   \cup {b \in p.close : p.transition = "UPDATE" /\ st[b] = "active"}

KeepsRows(d, st, e) ==
  e.rows = d.rows /\ \A b \in Opened(e) : b \in Opened(d) \/ st[b] # "rejected"
GrowsBy(d, st, p, e, k) ==
  /\ ~Exists(d, k) /\ e.rows[k].status = "active" /\ e.rows[k].pred = p.pred
  /\ \A b \in Belief \ {k} :
       /\ e.rows[b].pred = d.rows[b].pred
       /\ b \in Replaces(p, st) => e.rows[b].status = "superseded"
       /\ b \notin Replaces(p, st) => e.rows[b] = d.rows[b]
  /\ Opened(e) \subseteq Opened(d) \cup {k}
Grows(d, st, p, e) ==
  /\ p.transition \in Inserting
  /\ p.transition = "CORRECT" => st[p.target] = "active"
  /\ \E k \in Belief : GrowsBy(d, st, p, e, k)
Loses(d, p, e) ==
  /\ p.transition = "FORGET"
  /\ e.rows[p.target].status = "absent"
  /\ \A b \in Belief \ {p.target} : e.rows[b] = d.rows[b]
  /\ Opened(e) \subseteq Opened(d)
Denies(d, p, e) ==
  /\ p.transition = "REJECT"
  /\ e.rows[p.target].status = "rejected"
  /\ \A b \in Belief \ {p.target} : e.rows[b] = d.rows[b]
  /\ Opened(e) \subseteq Opened(d) \ {p.target}

\* The rows a handler changed but did not announce as written are new or forgotten.
Announced(d, p, wrote, e) ==
  \A b \in Belief : \/ b \in wrote
                    \/ e.rows[b].status = d.rows[b].status
                    \/ ~Exists(d, b)
                    \/ p.transition = "FORGET"

Handled(d, st, p, out) ==
  /\ Whole(out.d) /\ Announced(d, p, out.wrote, out.d)
  /\ out.created \in Belief \cup {NoBelief}
  /\ out.created # NoBelief => Exists(out.d, out.created)
  /\ p.transition \notin {"CREATE", "FORGET"} => Exists(out.d, p.target)
  /\ \/ KeepsRows(d, st, out.d) \/ Grows(d, st, p, out.d)
     \/ Loses(d, p, out.d) \/ Denies(d, p, out.d)

LEMMA OutcomeFields ==
  ASSUME NEW d, NEW wrote, NEW created
  PROVE  LET out == Outcome(d, wrote, created)
         IN  out.d = d /\ out.wrote = wrote /\ out.created = created
  BY DEF Outcome

LEMMA AimedTyped ==
  ASSUME NEW p, Aimed(p)
  PROVE  /\ p.pred \in Pred /\ p.obj \in Obj /\ p.close \subseteq Belief
         /\ p.transition \in Transition /\ p.target \in Belief \cup {NoBelief}
         /\ p.transition \notin {"CREATE", "CONTRADICT"} => p.target \in Belief
  BY DEF Aimed, Proposal

\* Nothing changes, and what the proposal names is there.
LEMMA SameHandled ==
  ASSUME NEW d, Whole(d), NEW st, NEW p, Aimed(p), NEW out, out.d = d,
         out.created \in Belief \cup {NoBelief},
         out.created # NoBelief => Exists(d, out.created),
         p.transition \notin {"CREATE", "FORGET"} => Exists(d, p.target)
  PROVE  Handled(d, st, p, out)
  BY DEF Handled, Announced, KeepsRows, Opened

LEMMA AppendOpens ==
  ASSUME NEW d, Whole(d), NEW b \in Belief, Exists(d, b)
  PROVE  Opened(AppendVersion(d, b)) \subseteq Opened(d) \cup {b}
  BY AppendFacts DEF Opened

\* A new row, after the rows it replaces were marked, and its version.
LEMMA ReplaceHandled ==
  ASSUME NEW d, Whole(d), NEW st, NEW p, Aimed(p), NEW n \in 0 .. MaxBelief,
         d.last < MaxBelief, p.transition \in Inserting,
         p.transition = "CORRECT" => st[p.target] = "active",
         \A b \in Replaces(p, st) : Exists(d, b),
         NEW new, new = InsertBelief(d, p.pred, p.obj, n),
         NEW mid, \/ mid = new /\ Replaces(p, st) = {}
                  \/ mid = SetStatus(new, Replaces(p, st), "superseded"),
         NEW out, out.d = AppendVersion(mid, new.last), out.created = new.last,
         Replaces(p, st) \subseteq out.wrote
  PROVE  Handled(d, st, p, out)
<1> DEFINE k == new.last
           S == Replaces(p, st)
           e == out.d
<1>1. /\ Whole(new) /\ new.versions = d.versions /\ k \in Belief /\ ~Exists(d, k)
      /\ new.rows[k].status = "active" /\ new.rows[k].pred = p.pred
      /\ \A b \in Belief \ {k} : new.rows[b] = d.rows[b]
  BY AimedTyped, InsertFacts
<1>2. S \subseteq Belief \ {k}
  <2>1. S \subseteq Belief
    BY AimedTyped DEF Replaces, Inserting
  <2> HIDE DEF S
  <2>2. \A b \in S : Exists(d, b)
    BY DEF S
  <2> QED
    BY <1>1, <2>1, <2>2
<1>3. \A b \in S : Exists(new, b)
  <2>1. \A b \in S : Exists(d, b)
    OBVIOUS
  <2> HIDE DEF S
  <2> QED
    BY <1>1, <1>2, <2>1 DEF Exists
<1>4. /\ Whole(mid) /\ mid.versions = d.versions
      /\ mid.rows[k].status = "active" /\ mid.rows[k].pred = p.pred
      /\ \A b \in Belief \ {k} : /\ mid.rows[b].pred = d.rows[b].pred
                                 /\ b \in S => mid.rows[b].status = "superseded"
                                 /\ b \notin S => mid.rows[b] = d.rows[b]
  <2>1. CASE mid = new /\ S = {}
    BY <1>1, <2>1
  <2>2. CASE mid = SetStatus(new, S, "superseded")
    <3>1. "superseded" \in Status /\ "superseded" # "absent"
      BY DEF Status
    <3> HIDE DEF S, k
    <3>2. /\ Whole(mid) /\ mid.versions = new.versions
          /\ \A b \in Belief : /\ mid.rows[b].pred = new.rows[b].pred
                               /\ b \in S => mid.rows[b].status = "superseded"
                               /\ b \notin S => mid.rows[b] = new.rows[b]
      BY <1>1, <1>3, <2>2, <3>1, MarkFacts
    <3> QED
      BY <1>1, <1>2, <3>2
  <2> QED
    BY <2>1, <2>2
<1> HIDE DEF S, k
<1>5. Exists(mid, k)
  BY <1>4 DEF Exists
<1>6. /\ Whole(e) /\ e.rows = mid.rows /\ Opened(e) \subseteq Opened(mid) \cup {k}
  BY <1>1, <1>4, <1>5, AppendFacts, AppendOpens DEF k
<1>7. Opened(mid) = Opened(d)
  BY <1>4 DEF Opened
<1> HIDE DEF e
<1>8. GrowsBy(d, st, p, e, k)
  BY <1>1, <1>4, <1>6, <1>7 DEF GrowsBy, S
<1>9. Announced(d, p, out.wrote, e)
  <2>1. S \subseteq out.wrote
    BY DEF S
  <2> QED
    BY <1>1, <1>4, <1>6, <2>1 DEF Announced
<1>10. Exists(e, k) /\ out.created = k /\ e = out.d
  BY <1>4, <1>6 DEF Exists, k, e
<1>11. p.transition \notin {"CREATE", "FORGET"} => Exists(e, p.target)
  <2> SUFFICES ASSUME p.transition \notin {"CREATE", "FORGET"} PROVE Exists(e, p.target)
    OBVIOUS
  <2>1. p.target \in S
    BY DEF S, Replaces
  <2> QED
    BY <1>2, <1>4, <1>6, <2>1 DEF Exists
<1> QED
  BY <1>1, <1>6, <1>8, <1>9, <1>10, <1>11 DEF Handled, Grows

LEMMA CreateHandled ==
  ASSUME NEW d, Whole(d), NEW st, NEW p, Aimed(p), p.transition = "CREATE",
         d.last < MaxBelief, NEW out, out = CommitCreate(d, st, p)
  PROVE  Handled(d, st, p, out)
<1> DEFINE holders == HoldersOf(d, <<p.pred, p.obj, 0>>)
           b == Newest(holders)
           new == InsertBelief(d, p.pred, p.obj, 0)
<1>1. CASE holders = {}
  <2>1. out = Outcome(AppendVersion(new, new.last), {}, new.last)
    BY <1>1 DEF CommitCreate
  <2>2. out.d = AppendVersion(new, new.last) /\ out.created = new.last /\ out.wrote = {}
    BY <2>1, OutcomeFields
  <2>3. Replaces(p, st) = {}
    BY DEF Replaces
  <2>4. 0 \in 0 .. MaxBelief /\ p.transition \in Inserting
    BY SizeAssumption DEF Inserting
  <2> HIDE DEF new
  <2> QED
    BY <2>2, <2>3, <2>4, ReplaceHandled DEF new
<1>2. CASE holders # {}
  <2>1. b \in Belief /\ Exists(d, b)
    <3>1. holders \subseteq Belief
      BY DEF HoldersOf
    <3>2. b \in holders
      BY <1>2, <3>1, NewestIn
    <3> QED
      BY <3>2 DEF HoldersOf
  <2>2. CASE st[b] = "rejected"
    <3>1. out = Outcome(d, {}, NoBelief)
      BY <1>2, <2>2 DEF CommitCreate
    <3>2. out.d = d /\ out.created = NoBelief
      BY <3>1, OutcomeFields
    <3> QED
      BY <3>2, SameHandled
  <2>3. CASE st[b] # "rejected"
    <3> DEFINE e == AppendVersion(d, b)
    <3>1. out = Outcome(e, {b}, b)
      BY <1>2, <2>3 DEF CommitCreate
    <3> HIDE DEF e
    <3>2. out.d = e /\ out.created = b
      BY <3>1, OutcomeFields
    <3> HIDE DEF b
    <3>3. Whole(e) /\ e.rows = d.rows /\ Opened(e) \subseteq Opened(d) \cup {b}
      BY <2>1, AppendFacts, AppendOpens DEF e
    <3>4. KeepsRows(d, st, e) /\ Announced(d, p, out.wrote, e) /\ Exists(e, b)
      BY <2>1, <2>3, <3>3 DEF KeepsRows, Announced, Exists
    <3> QED
      BY <2>1, <3>2, <3>3, <3>4 DEF Handled
  <2> QED
    BY <2>2, <2>3
<1> QED
  BY <1>1, <1>2

LEMMA UpdateHandled ==
  ASSUME NEW d, Whole(d), NEW st, NEW p, Aimed(p), Fit(p, st), p.transition = "UPDATE",
         d.last < MaxBelief, NEW out, out = CommitUpdate(d, st, p),
         \A b \in out.wrote : Exists(d, b)
  PROVE  Handled(d, st, p, out)
<1> DEFINE n == FreeSuffix(d, p.pred, p.obj)
           new == InsertBelief(d, p.pred, p.obj, n)
           closing == {p.target} \cup {b \in p.close : st[b] = "active"}
           mid == SetStatus(new, closing, "superseded")
           e == AppendVersion(mid, new.last)
<1>1. st[p.target] # "rejected"
  BY DEF Fit
<1>2. out = Outcome(e, closing, new.last)
  BY <1>1 DEF CommitUpdate
<1> HIDE DEF e, new, closing
<1>3. out.d = e /\ out.wrote = closing /\ out.created = new.last
  BY <1>2, OutcomeFields
<1>4. closing = Replaces(p, st)
  BY DEF closing, Replaces
<1>5. n \in 0 .. MaxBelief /\ p.transition \in Inserting
  BY FreeSuffixIn DEF Inserting
<1> HIDE DEF n
<1>6. new = InsertBelief(d, p.pred, p.obj, n) /\ mid = SetStatus(new, Replaces(p, st), "superseded")
  BY <1>4 DEF new
<1> HIDE DEF mid
<1> QED
  <2>1. \A b \in Replaces(p, st) : Exists(d, b)
    BY <1>3, <1>4
  <2>2. out.d = AppendVersion(mid, new.last) /\ Replaces(p, st) \subseteq out.wrote
    BY <1>3, <1>4 DEF e
  <2> QED
    BY <1>3, <1>5, <1>6, <2>1, <2>2, ReplaceHandled

LEMMA CorrectHandled ==
  ASSUME NEW d, Whole(d), NEW st, NEW p, Aimed(p), Fit(p, st), p.transition = "CORRECT",
         d.last < MaxBelief, NEW out, out = CommitCorrect(d, st, p),
         \A b \in out.wrote : Exists(d, b)
  PROVE  Handled(d, st, p, out)
<1> DEFINE n == FreeSuffix(d, p.pred, p.obj)
           new == InsertBelief(d, p.pred, p.obj, n)
           mid == SetStatus(new, {p.target}, "superseded")
           e == AppendVersion(mid, new.last)
<1>1. st[p.target] = "active"
  BY DEF Fit
<1>2. out = Outcome(e, {p.target}, new.last)
  BY <1>1 DEF CommitCorrect
<1> HIDE DEF e, new
<1>3. out.d = e /\ out.wrote = {p.target} /\ out.created = new.last
  BY <1>2, OutcomeFields
<1>4. {p.target} = Replaces(p, st)
  BY DEF Replaces
<1>5. n \in 0 .. MaxBelief /\ p.transition \in Inserting
  BY FreeSuffixIn DEF Inserting
<1> HIDE DEF n
<1>6. new = InsertBelief(d, p.pred, p.obj, n) /\ mid = SetStatus(new, Replaces(p, st), "superseded")
  BY <1>4 DEF new
<1> HIDE DEF mid
<1>7. out.d = AppendVersion(mid, new.last)
  BY <1>3 DEF e
<1>8. /\ \A b \in Replaces(p, st) : Exists(d, b)
      /\ Replaces(p, st) \subseteq out.wrote
  BY <1>3, <1>4
<1> QED
  BY <1>1, <1>3, <1>5, <1>6, <1>7, <1>8, ReplaceHandled

LEMMA TouchHandled ==
  ASSUME NEW d, Whole(d), NEW st, NEW p, Aimed(p), Fit(p, st),
         p.transition \in {"SUPPORT", "VERIFY"},
         NEW out, out = CommitSupport(d, st, p), \A b \in out.wrote : Exists(d, b)
  PROVE  Handled(d, st, p, out)
<1>1. st[p.target] = "active"
  BY DEF Fit
<1>2. out.d = d /\ out.wrote = {p.target} /\ out.created = p.target
  BY <1>1, OutcomeFields DEF CommitSupport
<1> QED
  BY <1>2, SameHandled, AimedTyped

LEMMA ForgetHandled ==
  ASSUME NEW d, Whole(d), NEW st, NEW p, Aimed(p), p.transition = "FORGET",
         NEW out, out = CommitForget(d, st, p)
  PROVE  Handled(d, st, p, out)
<1> DEFINE b == p.target
           e == PurgeLog(PurgeLedger(SetStatus(d, {b}, "absent"), b), b)
<1>1. b \in Belief
  BY AimedTyped
<1>2. out = Outcome(e, {}, NoBelief)
  BY DEF CommitForget
<1>3. /\ Whole(e) /\ e.versions \subseteq d.versions
      /\ ~Exists(e, b) /\ \A a \in Belief \ {b} : e.rows[a] = d.rows[a]
  BY <1>1, ForgetFacts
<1> HIDE DEF e
<1>4. out.d = e /\ out.created = NoBelief
  BY <1>2, OutcomeFields
<1>5. Loses(d, p, e)
  BY <1>3 DEF Loses, Exists, Opened
<1> QED
  BY <1>3, <1>4, <1>5 DEF Handled, Announced

LEMMA RejectHandled ==
  ASSUME NEW d, Whole(d), NEW st, NEW p, Aimed(p), Fit(p, st), p.transition = "REJECT",
         NEW out, out = CommitReject(d, st, p), \A b \in out.wrote : Exists(d, b)
  PROVE  Handled(d, st, p, out)
<1> DEFINE b == p.target
           closed == CloseVersionsOf(d, b)
           e == SetStatus(closed, {b}, "rejected")
<1>1. b \in Belief /\ st[b] = "active"
  BY AimedTyped DEF Fit
<1>2. out = Outcome(e, {b}, b)
  BY <1>1 DEF CommitReject
<1>3. /\ Whole(closed) /\ closed.rows = d.rows
      /\ \A v \in closed.versions : v.open =>
           v.belief # b /\ \E w \in d.versions : w.open /\ w.belief = v.belief
  BY CloseFacts
<1> HIDE DEF e, closed
<1>4. out.d = e /\ out.wrote = {b} /\ out.created = b
  BY <1>2, OutcomeFields
<1>5. Exists(closed, b)
  BY <1>3, <1>4 DEF Exists
<1>6. "rejected" \in Status /\ "rejected" # "absent"
  BY DEF Status
<1>7. /\ Whole(e) /\ e.versions = closed.versions
      /\ Exists(e, b) /\ e.rows[b].status = "rejected"
      /\ \A a \in Belief \ {b} : e.rows[a] = closed.rows[a]
  <2>1. \A a \in {b} : Exists(closed, a)
    BY <1>5
  <2> HIDE DEF b
  <2>2. /\ Whole(e) /\ e.versions = closed.versions
        /\ \A a \in Belief : /\ Exists(e, a) <=> Exists(closed, a)
                             /\ a \in {b} => e.rows[a].status = "rejected"
                             /\ a \notin {b} => e.rows[a] = closed.rows[a]
    BY <1>3, <1>6, <2>1, MarkFacts DEF e
  <2> QED
    BY <1>1, <1>5, <2>2
<1>8. Denies(d, p, e)
  BY <1>3, <1>7 DEF Denies, Opened
<1>9. Announced(d, p, out.wrote, e)
  BY <1>3, <1>4, <1>7 DEF Announced
<1> QED
  BY <1>1, <1>4, <1>7, <1>8, <1>9 DEF Handled

\* Whatever the transition, if it announces only rows that exist.
LEMMA HandleHandled ==
  ASSUME NEW d, Whole(d), NEW st, NEW p, Aimed(p), Fit(p, st), p.transition # "CONTRADICT",
         p.transition \in Inserting => d.last < MaxBelief,
         NEW out, out = Handle(d, st, p), \A b \in out.wrote : Exists(d, b)
  PROVE  Handled(d, st, p, out)
<1>1. CASE p.transition = "CREATE"
  BY <1>1, CreateHandled DEF Handle, Inserting
<1>2. CASE p.transition = "UPDATE"
  BY <1>2, UpdateHandled DEF Handle, Inserting
<1>3. CASE p.transition = "CORRECT"
  BY <1>3, CorrectHandled DEF Handle, Inserting
<1>4. CASE p.transition = "FORGET"
  BY <1>4, ForgetHandled DEF Handle
<1>5. CASE p.transition = "REJECT"
  BY <1>5, RejectHandled DEF Handle
<1>6. CASE p.transition \in {"SUPPORT", "VERIFY"}
  BY <1>6, TouchHandled DEF Handle, CommitSupport, CommitVerify
<1> QED
  BY <1>1, <1>2, <1>3, <1>4, <1>5, <1>6, AimedTyped DEF Transition

-----------------------------------------------------------------------------
(* Nothing is left of what was forgotten: the inductive invariant.           *)

\* What the gates found of the target stands as long as the revision does.
Passed(s) ==
  stage[s] = "gated" /\ exp[s] = Sees(s).rev => Fit(prop[s], StatusSeen(s))

WInv ==
  /\ TypeOK /\ Whole(db) /\ Whole(work)
  /\ \A s \in Session : Aimed(prop[s]) /\ Passed(s)

Views == [Belief -> Status \cup {"unread"}]

LEMMA EmptyWhole == Whole(EmptyDatabase)
<1> DEFINE o == CHOOSE x \in Obj : TRUE
           row == [status |-> "absent", pred |-> Retraction, obj |-> o, n |-> 0]
           rows == [b \in Belief |-> row]
           e == EmptyDatabase
<1>1. row \in Row /\ row.status = "absent"
  <2>1. o \in Obj
    BY NamesAssumption
  <2> HIDE DEF o
  <2> QED
    BY <2>1, NamesAssumption, SizeAssumption DEF Row, Status
<1>2. NoRow = row
  BY DEF NoRow
<1> HIDE DEF row
<1>3. rows \in [Belief -> Row] /\ \A b \in Belief : rows[b].status = "absent"
  BY <1>1
<1>4. e = [rows |-> rows, versions |-> {}, log |-> {}, rev |-> 1, enabled |-> TRUE, last |-> 0]
  BY <1>2 DEF EmptyDatabase
<1> HIDE DEF rows, e
<1>5. /\ e \in Database /\ e.rows = rows /\ e.versions = {} /\ e.log = {}
  BY <1>3, <1>4, SizeAssumption DEF Database
<1>6. Whole(e)
  BY <1>3, <1>5 DEF Whole, Numbered, VersionsShow, LogShows, Exists
<1> QED
  BY <1>6 DEF e

LEMMA NoProposalAimed == Aimed(NoProposal)
<1> DEFINE o == CHOOSE x \in Obj : TRUE
<1>1. o \in Obj
  BY NamesAssumption
<1>2. NoRow.obj = o
  BY DEF NoRow
<1> HIDE DEF o
<1> QED
  BY <1>1, <1>2, NamesAssumption DEF NoProposal, Proposing, Aimed, Proposal, Transition

LEMMA ProposingAimed ==
  ASSUME NEW t \in Transition, NEW b \in Belief \cup {NoBelief}, NEW p \in Pred, NEW o \in Obj,
         b = NoBelief <=> t \in {"CREATE", "CONTRADICT"}
  PROVE  /\ Aimed(Proposing(t, b, p, o))
         /\ Proposing(t, b, p, o).transition = t /\ Proposing(t, b, p, o).target = b
         /\ Proposing(t, b, p, o).pred = p /\ Proposing(t, b, p, o).close = {}
  BY DEF Proposing, Aimed, Proposal

\* An update that closes other rows than its target.
LEMMA ClosingAimed ==
  ASSUME NEW b \in Belief, NEW p \in Pred, NEW o \in Obj, NEW S \in SUBSET Belief,
         NEW revival \in BOOLEAN
  PROVE  LET q == [Proposing("UPDATE", b, p, o) EXCEPT !.close = S, !.revival = revival]
         IN  /\ Aimed(q) /\ q.transition = "UPDATE" /\ q.target = b /\ q.pred = p /\ q.close = S
<1>1. b # NoBelief
  BY SizeAssumption DEF Belief, NoBelief
<1> QED
  BY <1>1 DEF Proposing, Aimed, Proposal, Transition

LEMMA WithdrawingAimed ==
  ASSUME NEW b \in Belief, NEW p \in Pred, NEW o \in Obj, NEW S \in SUBSET Belief
  PROVE  LET q == [Proposing("UPDATE", b, p, o) EXCEPT !.close = S]
         IN  /\ Aimed(q) /\ q.transition = "UPDATE" /\ q.target = b /\ q.pred = p /\ q.close = S
<1>1. b # NoBelief
  BY SizeAssumption DEF Belief, NoBelief
<1> QED
  BY <1>1 DEF Proposing, Aimed, Proposal, Transition

LEMMA BeliefIsSome == \A b \in Belief : b # NoBelief
  BY SizeAssumption DEF Belief, NoBelief

LEMMA CandidatesExist ==
  ASSUME NEW d, Whole(d), NEW c
  PROVE  Candidates(d, c) \subseteq {b \in Belief : Exists(d, b)}
  BY DEF Candidates, Exists

LEMMA ClaimTyped ==
  ASSUME NEW c \in Claim
  PROVE  /\ c.form \in Form /\ c.pred \in Pred /\ c.obj \in Obj
         /\ c.pred = Retraction <=> c.form \in {"returns", "withdraws"}
  BY DEF Claim

\* The three ways a claim is decided, with what the decision names.
LEMMA StatedDecision ==
  ASSUME NEW d, Whole(d), NEW st, NEW rows, rows \subseteq Belief, NEW c \in Claim,
         c.form \in {"states", "denies"}, NEW q \in Decide(d, st, rows, c)
  PROVE  \/ /\ q = Proposing("CONTRADICT", NoBelief, c.pred, c.obj)
         \/ /\ q = Proposing("CREATE", NoBelief, c.pred, c.obj)
            /\ c.pred \in SingleValued =>
                 \A b \in rows : ~(st[b] = "active" /\ d.rows[b].pred = c.pred)
         \/ \E b \in rows : /\ st[b] = "active" /\ d.rows[b].pred = c.pred
                            /\ q \in {Proposing("SUPPORT", b, c.pred, c.obj),
                                      Proposing("UPDATE", b, c.pred, c.obj)}
<1> DEFINE current == {b \in rows : st[b] = "active" /\ d.rows[b].pred = c.pred}
           fresh == Proposing(IF c.form = "denies" THEN "CONTRADICT" ELSE "CREATE",
                              NoBelief, c.pred, c.obj)
           support(b) == Proposing("SUPPORT", b, c.pred, c.obj)
           update(b) == Proposing("UPDATE", b, c.pred, c.obj)
<1>1. q \in DecideStated(d, st, rows, c)
  BY DEF Decide
<1>2. \/ current = {} /\ q = fresh
      \/ \E b \in current :
           q = IF d.rows[b].obj = c.obj
               THEN IF c.form = "denies" THEN fresh ELSE support(b)
               ELSE IF c.pred \in SingleValued THEN update(b) ELSE fresh
  BY <1>1 DEF DecideStated
<1>3. \/ c.form = "denies" /\ fresh = Proposing("CONTRADICT", NoBelief, c.pred, c.obj)
      \/ c.form # "denies" /\ fresh = Proposing("CREATE", NoBelief, c.pred, c.obj)
  OBVIOUS
<1> HIDE DEF fresh, support, update
<1>4. CASE current = {} /\ q = fresh
  BY <1>3, <1>4
<1>5. CASE current # {}
  <2>1. PICK b \in current :
           q = IF d.rows[b].obj = c.obj
               THEN IF c.form = "denies" THEN fresh ELSE support(b)
               ELSE IF c.pred \in SingleValued THEN update(b) ELSE fresh
    BY <1>2, <1>5
  <2>2. CASE q = support(b) \/ q = update(b)
    BY <2>1, <2>2 DEF support, update
  <2>3. CASE q = fresh /\ c.form = "denies"
    BY <1>3, <2>3
  <2>4. CASE q = fresh /\ c.form # "denies" /\ c.pred \notin SingleValued
    BY <1>3, <2>4
  <2> QED
    BY <2>1, <2>2, <2>3, <2>4
<1> QED
  BY <1>2, <1>4, <1>5

\* What a return closes beside its target, and the proposal it makes.
Others(d, st, rows, b) ==
  {x \in rows \ {b} : st[x] = "active" /\ d.rows[x].pred = d.rows[b].pred}
Returning(d, st, rows, b, o) ==
  [Proposing("UPDATE", b, d.rows[b].pred, o) EXCEPT
     !.close = Others(d, st, rows, b), !.revival = TRUE]

LEMMA ReturnDecision ==
  ASSUME NEW d, Whole(d), NEW st, NEW rows, rows \subseteq Belief, NEW c \in Claim,
         c.form = "returns", NEW q \in Decide(d, st, rows, c)
  PROVE  \E b \in rows :
           d.rows[b].obj = c.obj /\ q = Returning(d, st, rows, b, c.obj)
<1> DEFINE held == {b \in rows : st[b] \in {"active", "superseded"} /\ d.rows[b].obj = c.obj}
           b == Newest(held)
<1>1. q \in DecideReturn(d, st, rows, c)
  BY DEF Decide
<1>2. held # {}
  BY <1>1 DEF DecideReturn
<1>3. b \in held
  <2>1. held \subseteq Belief
    OBVIOUS
  <2> HIDE DEF held
  <2> QED
    BY <1>2, <2>1, NewestIn
<1>4. q = Returning(d, st, rows, b, c.obj)
  BY <1>1 DEF DecideReturn, Returning, Others
<1> HIDE DEF b
<1> QED
  BY <1>3, <1>4

LEMMA WithdrawalDecision ==
  ASSUME NEW d, Whole(d), NEW st, NEW rows, rows \subseteq Belief, NEW c \in Claim,
         c.form = "withdraws", NEW q \in Decide(d, st, rows, c)
  PROVE  \E b \in rows : \E S \in SUBSET rows :
           q = [Proposing("UPDATE", b, Retraction, c.obj) EXCEPT !.close = S]
<1> DEFINE held == {b \in rows : st[b] = "active"}
           b == Newest(held)
           S == held \ {b}
<1>1. q \in DecideWithdrawal(d, st, rows, c)
  BY DEF Decide
<1>2. held # {} /\ q = [Proposing("UPDATE", b, Retraction, c.obj) EXCEPT !.close = S]
  BY <1>1 DEF DecideWithdrawal
<1>3. held \subseteq rows /\ held \subseteq Belief
  OBVIOUS
<1> HIDE DEF held
<1>4. b \in rows /\ S \in SUBSET rows
  BY <1>2, <1>3, NewestIn
<1> HIDE DEF b, S
<1> QED
  BY <1>2, <1>4

LEMMA DecisionsAimed ==
  ASSUME NEW d, Whole(d), NEW st, NEW rows, rows \subseteq Belief, NEW c \in Claim,
         NEW q \in Decide(d, st, rows, c)
  PROVE  Aimed(q)
<1>1. c.form \in Form /\ c.pred \in Pred /\ c.obj \in Obj
  BY ClaimTyped
<1>2. CASE c.form \in {"states", "denies"}
  <2>1. CASE q \in {Proposing("CONTRADICT", NoBelief, c.pred, c.obj),
                    Proposing("CREATE", NoBelief, c.pred, c.obj)}
    BY <1>1, <2>1, ProposingAimed DEF Transition
  <2>2. CASE \E b \in rows : q \in {Proposing("SUPPORT", b, c.pred, c.obj),
                                  Proposing("UPDATE", b, c.pred, c.obj)}
    BY <1>1, <2>2, ProposingAimed, BeliefIsSome DEF Transition
  <2> QED
    BY <1>2, <2>1, <2>2, StatedDecision
<1>3. CASE c.form = "returns"
  <2>1. PICK b \in rows : q = Returning(d, st, rows, b, c.obj)
    BY <1>3, ReturnDecision
  <2>2. d.rows[b].pred \in Pred
    BY WholeTyped DEF Row
  <2>3. Others(d, st, rows, b) \in SUBSET Belief
    BY DEF Others
  <2> QED
    BY <1>1, <2>1, <2>2, <2>3, ClosingAimed DEF Returning
<1>4. CASE c.form = "withdraws"
  <2>1. PICK b \in rows, S \in SUBSET rows :
           q = [Proposing("UPDATE", b, Retraction, c.obj) EXCEPT !.close = S]
    BY <1>4, WithdrawalDecision
  <2> QED
    BY <1>1, <2>1, NamesAssumption, WithdrawingAimed
<1> QED
  BY <1>1, <1>2, <1>3, <1>4 DEF Form

LEMMA Primed ==
  /\ Whole(db)' <=> Whole(db')
  /\ Whole(work)' <=> Whole(work')
  /\ \A s \in Session : Aimed(prop[s])' <=> Aimed(prop'[s])
  BY DEF Whole, Numbered, VersionsShow, LogShows, Exists, Aimed

LEMMA SeesWhole ==
  ASSUME WInv, NEW s \in Session
  PROVE  Whole(Sees(s))
  BY DEF WInv, Sees

LEMMA StatusTypes ==
  ASSUME WInv, NEW s \in Session
  PROVE  /\ StatusSeen(s) \in [Belief -> Status] /\ view[s] \in Views
         /\ \A S : Loading(s, S) = [view EXCEPT ![s] =
                     [b \in Belief |-> IF b \in S THEN StatusSeen(s)[b] ELSE view[s][b]]]
         /\ \A S : [b \in Belief |-> IF b \in S THEN StatusSeen(s)[b] ELSE view[s][b]] \in Views
<1>1. view[s] \in Views
  BY DEF WInv, TypeOK, Views
<1>2. \A b \in Belief : Sees(s).rows[b].status \in Status
  BY SeesWhole, WholeTyped DEF Row
<1>3. StatusSeen(s) \in [Belief -> Status]
  BY <1>1, <1>2 DEF StatusSeen, Views
<1> QED
  BY <1>1, <1>3 DEF Views, Loading

LEMMA SeesSame ==
  ASSUME NEW t, Sees(t)' = Sees(t), view'[t] = view[t]
  PROVE  StatusSeen(t)' = StatusSeen(t)
  BY DEF StatusSeen

\* A step of a session that leaves the database alone.
LEMMA QuietWInv ==
  ASSUME WInv, NEW s \in Session, UNCHANGED <<db, work, lock>>,
         NEW x \in Stage, NEW p, Aimed(p), NEW n \in Nat, NEW m \in 0 .. MaxClaims, NEW w \in Views,
         stage' = [stage EXCEPT ![s] = x], prop' = [prop EXCEPT ![s] = p],
         exp' = [exp EXCEPT ![s] = n], left' = [left EXCEPT ![s] = m],
         view' = [view EXCEPT ![s] = w],
         x = "gated" => w = view[s] /\ Fit(p, StatusSeen(s))
  PROVE  WInv'
<1>1. Whole(db)' /\ Whole(work)'
  BY Primed DEF WInv
<1>2. TypeOK'
  BY DEF WInv, TypeOK, Views, Aimed
<1>3. ASSUME NEW t \in Session PROVE (Aimed(prop[t]) /\ Passed(t))'
  <2>1. Sees(t)' = Sees(t)
    BY DEF Sees
  <2>2. CASE t = s
    <3>1. stage'[t] = x /\ prop'[t] = p /\ view'[t] = w
      BY <2>2 DEF WInv, TypeOK
    <3>2. x = "gated" => StatusSeen(t)' = StatusSeen(t)
      BY <2>1, <2>2, <3>1, SeesSame
    <3> QED
      BY <2>2, <3>1, <3>2, Primed DEF Passed, Fit
  <2>3. CASE t # s
    <3>1. stage'[t] = stage[t] /\ prop'[t] = prop[t] /\ exp'[t] = exp[t] /\ view'[t] = view[t]
      BY <2>3 DEF WInv, TypeOK
    <3>2. StatusSeen(t)' = StatusSeen(t)
      BY <2>1, <3>1, SeesSame
    <3> QED
      BY <2>1, <3>1, <3>2, Primed DEF Passed, Fit, WInv
  <2> QED
    BY <2>2, <2>3
<1> QED
  BY <1>1, <1>2, <1>3 DEF WInv

\* The session decides upon p.
LEMMA DecidedWInv ==
  ASSUME WInv, NEW s \in Session, NEW p, Aimed(p), NEW m \in 0 .. MaxClaims, Decided(s, p, m),
         UNCHANGED <<db, work, lock, exp>>,
         NEW w \in Views, view' = [view EXCEPT ![s] = w]
  PROVE  WInv'
<1>1. exp' = [exp EXCEPT ![s] = exp[s]] /\ exp[s] \in Nat
  BY DEF WInv, TypeOK
<1>2. /\ stage' = [stage EXCEPT ![s] = "decided"] /\ prop' = [prop EXCEPT ![s] = p]
      /\ left' = [left EXCEPT ![s] = m]
  BY DEF Decided
<1>3. "decided" \in Stage
  BY DEF Stage
<1> QED
  BY <1>1, <1>2, <1>3, QuietWInv

LEMMA SettledWInv ==
  ASSUME WInv, NEW s \in Session, Settle(s), UNCHANGED <<work, lock>>,
         NEW w \in Views, view' = [view EXCEPT ![s] = w]
  PROVE  WInv'
<1>1. /\ stage' = [stage EXCEPT ![s] = "ready"] /\ prop' = [prop EXCEPT ![s] = NoProposal]
      /\ exp' = [exp EXCEPT ![s] = 0] /\ left' = [left EXCEPT ![s] = left[s]] /\ UNCHANGED db
      /\ left[s] \in 0 .. MaxClaims
  BY DEF Settle, WInv, TypeOK
<1>2. "ready" \in Stage
  BY DEF Stage
<1> QED
  BY <1>1, <1>2, NoProposalAimed, QuietWInv

LEMMA CallWInv ==
  ASSUME WInv, NEW s \in Session, NEW b \in Belief, NEW p \in Pred, NEW o \in Obj,
         NEW verdict \in {"VERIFY", "REJECT"},
         Judge(s, b, verdict) \/ Correct(s, b, p, o) \/ Forget(s, b)
  PROVE  WInv'
<1>1. 0 \in 0 .. MaxClaims /\ view' \in {view, Loading(s, {b})}
  BY SizeAssumption DEF Judge, Correct, Forget
<1>2. db.rows[b].pred \in Pred /\ db.rows[b].obj \in Obj
  BY WholeTyped DEF WInv, Row
<1>3. PICK t \in {"VERIFY", "REJECT", "CORRECT", "FORGET"}, q \in Pred, u \in Obj :
         Decided(s, Proposing(t, b, q, u), 0) /\ UNCHANGED <<db, work, lock, exp>>
  BY <1>2 DEF Judge, Correct, Forget
<1>4. Aimed(Proposing(t, b, q, u))
  BY BeliefIsSome, ProposingAimed DEF Transition
<1>5. PICK w \in Views : view' = [view EXCEPT ![s] = w]
  <2>1. view = [view EXCEPT ![s] = view[s]] /\ view[s] \in Views
    BY StatusTypes DEF WInv, TypeOK
  <2> DEFINE w == [a \in Belief |-> IF a \in {b} THEN StatusSeen(s)[a] ELSE view[s][a]]
  <2>2. w \in Views /\ Loading(s, {b}) = [view EXCEPT ![s] = w]
    BY StatusTypes
  <2> HIDE DEF w
  <2> QED
    BY <1>1, <2>1, <2>2
<1> QED
  BY <1>1, <1>3, <1>4, <1>5, DecidedWInv

LEMMA ResolveWInv ==
  ASSUME WInv, NEW s \in Session, NEW c \in Claim, Resolve(s, c)
  PROVE  WInv'
<1> DEFINE rows == Candidates(Sees(s), c)
           room == IF stage[s] = "idle" THEN MaxClaims ELSE left[s]
<1>1. rows \subseteq Belief
  BY SeesWhole, CandidatesExist
<1>2. PICK p \in Decide(Sees(s), StatusSeen(s), rows, c) : Decided(s, p, room - 1)
  BY DEF Resolve
<1>3. Aimed(p)
  BY <1>1, SeesWhole, DecisionsAimed
<1>4. room - 1 \in 0 .. MaxClaims /\ UNCHANGED <<db, work, lock, exp>> /\ view' = Loading(s, rows)
  BY SizeAssumption DEF Resolve, WInv, TypeOK
<1> HIDE DEF rows, room
<1>5. PICK w \in Views : view' = [view EXCEPT ![s] = w]
  BY <1>4, StatusTypes
<1> QED
  BY <1>2, <1>3, <1>4, <1>5, DecidedWInv

LEMMA ReadRevisionWInv ==
  ASSUME WInv, NEW s \in Session, ReadRevision(s)
  PROVE  WInv'
<1>1. /\ prop' = [prop EXCEPT ![s] = prop[s]] /\ left' = [left EXCEPT ![s] = left[s]]
      /\ view' = [view EXCEPT ![s] = view[s]] /\ left[s] \in 0 .. MaxClaims
  BY DEF WInv, TypeOK, ReadRevision
<1>2. Sees(s).rev \in Nat /\ "dated" \in Stage /\ Aimed(prop[s]) /\ view[s] \in Views
  BY SeesWhole, StatusTypes DEF Whole, Database, Stage, WInv
<1>3. /\ stage' = [stage EXCEPT ![s] = "dated"] /\ exp' = [exp EXCEPT ![s] = Sees(s).rev]
      /\ UNCHANGED <<db, work, lock>>
  BY DEF ReadRevision
<1> QED
  BY <1>1, <1>2, <1>3, QuietWInv

LEMMA PassGatesWInv ==
  ASSUME WInv, NEW s \in Session, PassGates(s)
  PROVE  WInv'
<1>1. /\ prop' = [prop EXCEPT ![s] = prop[s]] /\ left' = [left EXCEPT ![s] = left[s]]
      /\ view' = [view EXCEPT ![s] = view[s]] /\ exp' = [exp EXCEPT ![s] = exp[s]]
      /\ stage' = [stage EXCEPT ![s] = "gated"]
      /\ left[s] \in 0 .. MaxClaims /\ exp[s] \in Nat /\ "gated" \in Stage
  BY DEF WInv, TypeOK, PassGates, Stage
<1>2. Aimed(prop[s]) /\ view[s] \in Views
  BY StatusTypes DEF WInv
<1>3. Fit(prop[s], StatusSeen(s))
  <2> DEFINE p == prop[s]
             status == StatusSeen(s)[p.target]
  <2> SUFFICES ASSUME p.transition \notin {"CREATE", "CONTRADICT", "FORGET"}
               PROVE  status = "active" \/ (p.transition = "UPDATE" /\ status = "superseded")
    BY DEF Fit
  <2>1. p.target \in Belief /\ p.target # NoBelief
    BY <1>2, AimedTyped, BeliefIsSome
  <2>2. status \in Status
    BY <2>1, StatusTypes
  <2>3. Refusal(s) = ""
    BY DEF PassGates
  <2>4. status # "absent" /\ status # "rejected" /\ (status = "superseded" => p.revival)
    BY <2>1, <2>3 DEF Refusal
  <2> QED
    BY <1>2, <2>2, <2>4 DEF Status, Aimed
<1>4. UNCHANGED <<db, work, lock>>
  BY DEF PassGates
<1> QED
  BY <1>1, <1>2, <1>3, <1>4, QuietWInv

LEMMA NotPublishedWInv ==
  ASSUME WInv, NEW s \in Session, Refuse(s) \/ PublishStale(s) \/ PublishFails(s)
  PROVE  WInv'
<1>1. CASE Refuse(s) \/ PublishStale(s)
  <2>1. view' = [view EXCEPT ![s] = view[s]] /\ view[s] \in Views
    BY <1>1, StatusTypes DEF Refuse, PublishStale, WInv, TypeOK
  <2> QED
    BY <1>1, <2>1, SettledWInv DEF Refuse, PublishStale
<1>2. CASE PublishFails(s)
  <2> DEFINE w == [b \in Belief |-> IF b \in Attempt(s).wrote THEN "unread" ELSE view[s][b]]
  <2>1. w \in Views
    BY StatusTypes DEF Views
  <2>2. view' = [view EXCEPT ![s] = w] /\ Settle(s) /\ UNCHANGED <<work, lock>>
    BY <1>2 DEF PublishFails
  <2> HIDE DEF w
  <2> QED
    BY <2>1, <2>2, SettledWInv
<1> QED
  BY <1>1, <1>2

\* What the savepoint of a publish leaves in the copy.
LEMMA PublishedWhole ==
  ASSUME IInv, WInv, NEW s \in Session, PublishCommits(s)
  PROVE  LET d == Bump(Sees(s))
             out == Attempt(s)
         IN  /\ Whole(d) /\ d.rows = Sees(s).rows /\ d.versions = Sees(s).versions
             /\ d.enabled = Sees(s).enabled
             /\ Fit(prop[s], StatusSeen(s)) /\ Handled(d, StatusSeen(s), prop[s], out)
             /\ Whole(work') /\ work'.rows = out.d.rows /\ work'.versions = out.d.versions
<1> DEFINE d == Bump(Sees(s))
           p == prop[s]
           st == StatusSeen(s)
           out == Attempt(s)
           e == out.d
           row == LogOf(s, out.created)
<1>1. /\ Whole(d) /\ d.rows = Sees(s).rows /\ d.versions = Sees(s).versions
      /\ d.enabled = Sees(s).enabled /\ d.last = Sees(s).last
  <2>1. Whole(Sees(s))
    BY SeesWhole
  <2> QED
    BY <2>1, BumpTyped DEF Whole, Numbered, VersionsShow, LogShows, Exists
<1>2. Aimed(p) /\ Fit(p, st) /\ p.transition # "CONTRADICT" /\ exp[s] \in Nat
  BY DEF PublishCommits, Locks, CasLands, WInv, Passed, IInv, Calling, Allowed, TypeOK
<1>3. p.transition \in Inserting => d.last < MaxBelief
  <2>1. BeliefBound \in 0 .. MaxBelief
    BY SizeAssumption DEF BeliefBound
  <2>2. d.last \in 0 .. MaxBelief
    BY <1>1, WholeTyped
  <2>3. p.transition \in Inserting => d.last < BeliefBound
    BY <1>1 DEF PublishCommits, Bounded
  <2> QED
    BY <2>1, <2>2, <2>3, SizeAssumption
<1>4. out = Handle(d, st, p) /\ \A b \in out.wrote : Exists(d, b)
  BY <1>1 DEF PublishCommits, Attempt, Exists
<1>5. work' = [e EXCEPT !.log = e.log \cup {row}]
  BY DEF PublishCommits
<1>6. /\ row.transition = p.transition /\ row.target = p.target /\ row.created = out.created
      /\ row = [transition |-> p.transition, target |-> p.target,
                created |-> out.created, expected |-> exp[s]]
  BY DEF LogOf
<1> HIDE DEF d, p, st, out, row
<1>7. Handled(d, st, p, out)
  BY <1>1, <1>2, <1>3, <1>4, HandleHandled
<1>8. /\ Whole(e) /\ out.created \in Belief \cup {NoBelief}
      /\ out.created # NoBelief => Exists(e, out.created)
      /\ p.transition \notin {"CREATE", "FORGET"} => Exists(e, p.target)
  BY <1>7 DEF Handled
<1>9. row \in LogRow
  BY <1>2, <1>6, <1>8, AimedTyped DEF LogRow
<1>10. e.log \cup {row} \in SUBSET LogRow
  BY <1>8, <1>9, WholeTyped
<1> HIDE DEF e
<1>11. /\ work' \in Database /\ work'.rows = e.rows /\ work'.versions = e.versions
       /\ work'.log = e.log \cup {row} /\ work'.last = e.last
  BY <1>5, <1>8, <1>10, SetLog, WholeTyped
<1>12. row.target # NoBelief /\ row.transition # "FORGET" => Exists(e, row.target)
  BY <1>2, <1>6, <1>8 DEF Aimed
<1>13. LogShows(work')
  BY <1>6, <1>8, <1>11, <1>12 DEF Whole, LogShows, Exists
<1>14. Whole(work')
  BY <1>8, <1>11, <1>13 DEF Whole, Numbered, VersionsShow, Exists
<1> QED
  BY <1>1, <1>2, <1>7, <1>11, <1>14 DEF d, p, st, out, e

LEMMA PublishCommitsWInv ==
  ASSUME IInv, WInv, NEW s \in Session, PublishCommits(s)
  PROVE  WInv'
<1> DEFINE w == [b \in Belief |-> IF b \in Attempt(s).wrote THEN "unread" ELSE view[s][b]]
<1>1. w \in Views
  BY StatusTypes DEF Views
<1>2. /\ lock' = s /\ lock \in {NoSession, s} /\ UNCHANGED <<db, left>>
      /\ stage' = [stage EXCEPT ![s] = "ready"] /\ prop' = [prop EXCEPT ![s] = NoProposal]
      /\ exp' = [exp EXCEPT ![s] = 0] /\ view' = [view EXCEPT ![s] = w]
  BY DEF PublishCommits, Settle, Locks
<1> HIDE DEF w
<1>3. Whole(db') /\ Whole(work')
  BY <1>2, PublishedWhole DEF WInv
<1>4. TypeOK'
  BY <1>1, <1>2, <1>3, NoProposalAimed DEF WInv, TypeOK, Whole, Aimed, Stage, Views
<1>5. ASSUME NEW t \in Session PROVE (Aimed(prop[t]) /\ Passed(t))'
  <2>1. CASE t = s
    <3>1. stage'[t] = "ready" /\ prop'[t] = NoProposal
      BY <1>2, <2>1 DEF WInv, TypeOK
    <3> QED
      BY <3>1, NoProposalAimed, Primed DEF Passed
  <2>2. CASE t # s
    <3>1. stage'[t] = stage[t] /\ prop'[t] = prop[t] /\ exp'[t] = exp[t] /\ view'[t] = view[t]
      BY <1>2, <2>2 DEF WInv, TypeOK
    <3>2. Sees(t)' = Sees(t)
      BY <1>2, <2>2, NamesAssumption DEF Sees
    <3>3. StatusSeen(t)' = StatusSeen(t)
      BY <3>1, <3>2, SeesSame
    <3> QED
      BY <3>1, <3>2, <3>3, Primed DEF Passed, Fit, WInv
  <2> QED
    BY <2>1, <2>2
<1> QED
  BY <1>3, <1>4, <1>5, Primed DEF WInv

\* A revision that moves on leaves no other gated proposal current.
LEMMA MovesOn ==
  ASSUME IInv, WInv, NEW t \in Session, Sees(t) = db, Sees(t)' = db',
         db'.rev \in Nat, db.rev < db'.rev,
         stage'[t] = stage[t], prop'[t] = prop[t], exp'[t] = exp[t]
  PROVE  (Aimed(prop[t]) /\ Passed(t))'
<1>1. db.rev \in Nat /\ exp[t] \in Nat
  BY DEF WInv, TypeOK, Database
<1>2. stage[t] = "gated" => exp[t] <= db.rev
  BY DEF IInv, Calling, Allowed
<1> QED
  BY <1>1, <1>2, Primed DEF Passed, WInv

LEMMA ToggleConsentWInv ==
  ASSUME IInv, WInv, NEW s \in Session, ToggleConsent(s)
  PROVE  WInv'
<1> DEFINE off == [db EXCEPT !.enabled = ~db.enabled]
<1>1. /\ lock = NoSession /\ db' = Bump(off)
      /\ UNCHANGED <<work, lock, stage, left, prop, exp, view>>
  BY DEF ToggleConsent
<1>2. /\ off \in Database /\ off.rows = db.rows /\ off.versions = db.versions /\ off.log = db.log
      /\ off.last = db.last /\ off.rev = db.rev
  BY DEF WInv, Whole, Database
<1> HIDE DEF off
<1>3. /\ db' \in Database /\ db'.rows = db.rows /\ db'.versions = db.versions
      /\ db'.log = db.log /\ db'.last = db.last /\ db'.rev = db.rev + 1
  BY <1>1, <1>2, BumpTyped
<1>4. Whole(db') /\ Whole(work')
  BY <1>1, <1>3 DEF WInv, Whole, Numbered, VersionsShow, LogShows, Exists
<1>5. TypeOK'
  BY <1>1, <1>3 DEF WInv, TypeOK
<1>6. ASSUME NEW t \in Session PROVE (Aimed(prop[t]) /\ Passed(t))'
  <2>1. Sees(t) = db /\ Sees(t)' = db'
    BY <1>1, NamesAssumption DEF Sees
  <2>2. db.rev < db'.rev /\ db'.rev \in Nat
    BY <1>3 DEF WInv, TypeOK, Database
  <2> QED
    BY <1>1, <2>1, <2>2, MovesOn
<1> QED
  BY <1>4, <1>5, <1>6, Primed DEF WInv

LEMMA EndWInv ==
  ASSUME IInv, WInv, NEW s \in Session, EndSession(s), db' = db \/ (lock = s /\ db' = work)
  PROVE  WInv'
<1>1. /\ stage' = [stage EXCEPT ![s] = "idle"] /\ left' = [left EXCEPT ![s] = 0]
      /\ prop' = [prop EXCEPT ![s] = NoProposal] /\ exp' = [exp EXCEPT ![s] = 0]
      /\ view' = [view EXCEPT ![s] = NothingRead]
      /\ lock' = (IF lock = s THEN NoSession ELSE lock)
      /\ work' = (IF lock = s THEN EmptyDatabase ELSE work)
  BY DEF EndSession
<1>2. Whole(db') /\ Whole(work')
  BY <1>1, EmptyWhole DEF WInv
<1>3. NothingRead \in Views /\ 0 \in 0 .. MaxClaims
  BY SizeAssumption DEF NothingRead, Views
<1>4. TypeOK'
  BY <1>1, <1>2, <1>3, NoProposalAimed DEF WInv, TypeOK, Whole, Aimed, Stage, Views
<1>5. ASSUME NEW t \in Session PROVE (Aimed(prop[t]) /\ Passed(t))'
  <2>1. CASE t = s
    <3>1. stage'[t] = "idle" /\ prop'[t] = NoProposal
      BY <1>1, <2>1 DEF WInv, TypeOK
    <3> QED
      BY <3>1, NoProposalAimed, Primed DEF Passed
  <2>2. CASE t # s
    <3>1. stage'[t] = stage[t] /\ prop'[t] = prop[t] /\ exp'[t] = exp[t] /\ view'[t] = view[t]
      BY <1>1, <2>2 DEF WInv, TypeOK
    <3>2. CASE Sees(t)' = Sees(t)
      <4>1. StatusSeen(t)' = StatusSeen(t)
        BY <3>1, <3>2, SeesSame
      <4> QED
        BY <3>1, <3>2, <4>1, Primed DEF Passed, Fit, WInv
    <3>3. CASE Sees(t)' # Sees(t)
      <4>1. lock = s /\ db' = work /\ Sees(t) = db /\ Sees(t)' = db'
        BY <1>1, <2>2, <3>3, NamesAssumption DEF Sees
      <4>2. db.rev < work.rev /\ work.rev \in Nat
        BY <4>1, NamesAssumption DEF IInv, Copied, Ahead, WInv, TypeOK, Database
      <4> QED
        BY <3>1, <4>1, <4>2, MovesOn
    <3> QED
      BY <3>2, <3>3
  <2> QED
    BY <2>1, <2>2
<1> QED
  BY <1>2, <1>4, <1>5, Primed DEF WInv

LEMMA InitWInv == Init => WInv
<1> SUFFICES ASSUME Init PROVE WInv
  OBVIOUS
<1>1. /\ db = EmptyDatabase /\ work = EmptyDatabase /\ lock = NoSession
      /\ left = [s \in Session |-> 0] /\ prop = [s \in Session |-> NoProposal]
      /\ exp = [s \in Session |-> 0] /\ view = [s \in Session |-> NothingRead]
      /\ stage \in [Session -> Stage] /\ \A s \in Session : stage[s] # "gated"
  BY DEF Init, Stage
<1>2. Whole(db) /\ Whole(work) /\ NothingRead \in Views /\ 0 \in 0 .. MaxClaims
  BY <1>1, EmptyWhole, SizeAssumption DEF NothingRead, Views
<1>3. TypeOK
  BY <1>1, <1>2, NoProposalAimed DEF TypeOK, Whole, Aimed, Views
<1> QED
  BY <1>1, <1>2, <1>3, NoProposalAimed DEF WInv, Passed

LEMMA NextWInv == IInv /\ WInv /\ [Next]_vars => WInv'
<1> SUFFICES ASSUME IInv, WInv, [Next]_vars PROVE WInv'
  OBVIOUS
<1>1. ASSUME NEW s \in Session, Commit(s) \/ Abort(s) PROVE WInv'
  BY <1>1, EndWInv DEF Commit, Abort
<1>2. CASE UNCHANGED vars
  <2>1. \A t : Sees(t)' = Sees(t)
    BY <1>2 DEF vars, Sees
  <2>2. \A t \in Session : StatusSeen(t)' = StatusSeen(t)
    BY <1>2, <2>1, SeesSame DEF vars
  <2>3. \A t \in Session : (Aimed(prop[t]) /\ Passed(t))'
    BY <1>2, <2>1, <2>2, Primed DEF vars, Passed, Fit, WInv
  <2>4. TypeOK' /\ Whole(db)' /\ Whole(work)'
    BY <1>2, Primed DEF vars, WInv, TypeOK
  <2> QED
    BY <2>3, <2>4 DEF WInv
<1>3. ASSUME NEW s \in Session, NEW b \in Belief,
             \/ \E verdict \in {"VERIFY", "REJECT"} : Judge(s, b, verdict)
             \/ \E p \in Pred, o \in Obj : Correct(s, b, p, o)
             \/ Forget(s, b)
      PROVE  WInv'
  <2>1. PICK p \in Pred : TRUE
    BY NamesAssumption
  <2>2. PICK o \in Obj : TRUE
    BY NamesAssumption
  <2> QED
    BY <1>3, <2>1, <2>2, CallWInv
<1> QED
  BY <1>1, <1>2, <1>3, ResolveWInv, ReadRevisionWInv, PassGatesWInv, NotPublishedWInv,
     PublishCommitsWInv, ToggleConsentWInv DEF Next

LEMMA Wholeness == Spec => [](IInv /\ WInv)
  BY InitIInv, NextIInv, InitWInv, NextWInv, PTL DEF Spec

\* Every reachable state of the Publisher and its callers is of its types.
THEOREM TypesHold == Spec => []TypeOK
<1>1. WInv => TypeOK
  BY DEF WInv
<1> QED
  BY <1>1, Wholeness, PTL

\* forget_belief: the ledger and the publish log name no belief that is gone,
\* whatever other sessions had in flight about it.
THEOREM NothingIsLeft == Spec => []ForgottenLeavesNothing
<1>1. WInv => ForgottenLeavesNothing
  BY DEF WInv, Whole, VersionsShow, LogShows, ForgottenLeavesNothing
<1> QED
  BY <1>1, Wholeness, PTL

-----------------------------------------------------------------------------
(* One session alone: what it has loaded is what the database holds.        *)

Pending(s) == stage[s] \in {"decided", "dated", "gated"}
Statuses(d) == [b \in Belief |-> d.rows[b].status]

RejectedClosed(d) == \A b \in Opened(d) : d.rows[b].status # "rejected"

\* A session at rest has loaded nothing and holds no lock.
Resting(s) == stage[s] \in {"idle", "away"} => view[s] = NothingRead /\ lock # s

\* What w shows as loaded is there, with the status it shows.
FreshIn(d, w) ==
  \A b \in Belief : w[b] = "unread" \/ (w[b] = d.rows[b].status /\ w[b] # "absent")

\* Only the row just forgotten stays loaded, and nothing follows it in its turn.
Fresh(s) == FreshIn(Sees(s), view[s]) \/ (stage[s] = "ready" /\ left[s] = 0)
LastClaim(s) == Pending(s) /\ prop[s].transition = "FORGET" => left[s] = 0

Calls(s) == Resting(s) /\ Fresh(s) /\ LastClaim(s)
Calm == RejectedClosed(db) /\ RejectedClosed(work) /\ \A s \in Session : Calls(s)

OthersAway(s) == stage[s] # "away" /\ \A t \in Session \ {s} : stage[t] = "away"

LEMMA AloneCalls ==
  ASSUME Alone, NEW s \in Session, stage[s] # "away"
  PROVE  OthersAway(s)
  BY DEF Alone, OthersAway

\* A session that never calls never will, and one that calls always may.
LEMMA AwayStays ==
  ASSUME WInv, [Next]_vars
  PROVE  \A t \in Session : stage'[t] = "away" <=> stage[t] = "away"
<1>1. CASE UNCHANGED vars
  BY <1>1 DEF vars
<1>2. ASSUME NEW s \in Session, stage[s] # "away", NEW x, x # "away",
             stage' = stage \/ stage' = [stage EXCEPT ![s] = x]
      PROVE  \A t \in Session : stage'[t] = "away" <=> stage[t] = "away"
  BY <1>2 DEF WInv, TypeOK
<1>3. ASSUME NEW s \in Session, NEW c \in Claim, Resolve(s, c)
      PROVE  stage[s] # "away" /\ stage' = [stage EXCEPT ![s] = "decided"]
  BY <1>3 DEF Resolve, Decided
<1>4. ASSUME NEW s \in Session, NEW b, NEW p, NEW o, NEW verdict,
             Judge(s, b, verdict) \/ Correct(s, b, p, o) \/ Forget(s, b)
      PROVE  stage[s] # "away" /\ stage' = [stage EXCEPT ![s] = "decided"]
  BY <1>4 DEF Judge, Correct, Forget, Decided
<1>5. ASSUME NEW s \in Session, ToggleConsent(s)
      PROVE  stage[s] # "away" /\ stage' = stage
  BY <1>5 DEF ToggleConsent
<1>6. ASSUME NEW s \in Session,
             ReadRevision(s) \/ PassGates(s) \/ Refuse(s) \/ PublishCommits(s)
             \/ PublishStale(s) \/ PublishFails(s) \/ Commit(s) \/ Abort(s)
      PROVE  stage[s] # "away" /\ \E x \in {"dated", "gated", "ready", "idle"} :
                                    stage' = [stage EXCEPT ![s] = x]
  BY <1>6 DEF ReadRevision, PassGates, Refuse, PublishCommits, PublishStale, PublishFails,
              Commit, Abort, Locks, Settle, EndSession
<1> QED
  BY <1>1, <1>2, <1>3, <1>4, <1>5, <1>6 DEF Next

LEMMA AloneStays ==
  ASSUME WInv, [Next]_vars
  PROVE  Alone' <=> Alone
  BY AwayStays DEF Alone

\* What the sessions that never call leave alone, whatever the others do.
LEMMA AwayCalls ==
  ASSUME WInv, Calm, NEW s \in Session, OthersAway(s), NEW x, NEW w,
         stage' = stage \/ stage' = [stage EXCEPT ![s] = x],
         view' = view \/ view' = [view EXCEPT ![s] = w],
         lock' \in {lock, s, NoSession}, NEW t \in Session, t # s
  PROVE  stage'[t] = "away" /\ Calls(t)'
<1>1. stage[t] = "away" /\ view[t] = NothingRead /\ lock # t
  BY DEF OthersAway, Calm, Calls, Resting
<1>2. stage'[t] = "away" /\ view'[t] = NothingRead /\ lock' # t
  BY <1>1, NamesAssumption DEF WInv, TypeOK
<1>3. FreshIn(Sees(t)', view'[t])
  BY <1>2 DEF FreshIn, NothingRead
<1>4. FreshIn(Sees(t), view[t])'
  BY <1>3 DEF FreshIn
<1> QED
  BY <1>2, <1>4 DEF Calls, Resting, Fresh, LastClaim, Pending

\* While its view is fresh, a session's objects show what it reads.
LEMMA FreshShows ==
  ASSUME NEW s, FreshIn(Sees(s), view[s])
  PROVE  StatusSeen(s) = Statuses(Sees(s))
  BY DEF FreshIn, StatusSeen, Statuses

\* A step of the calling session that changes no database.
LEMMA QuietCalm ==
  ASSUME WInv, Calm, NEW s \in Session, OthersAway(s), UNCHANGED <<db, work, lock>>,
         NEW x, x \notin {"idle", "away"}, stage' = [stage EXCEPT ![s] = x],
         NEW w, view' = [view EXCEPT ![s] = w],
         FreshIn(Sees(s), w) \/ (x = "ready" /\ left'[s] = 0),
         Pending(s)' /\ prop'[s].transition = "FORGET" => left'[s] = 0
  PROVE  Calm'
<1>1. RejectedClosed(db)' /\ RejectedClosed(work)'
  BY DEF Calm, RejectedClosed, Opened
<1>2. ASSUME NEW t \in Session, t # s PROVE Calls(t)'
  BY <1>2, AwayCalls
<1>3. stage'[s] = x /\ view'[s] = w /\ Sees(s)' = Sees(s)
  BY DEF WInv, TypeOK, Sees
<1>4. Fresh(s)'
  BY <1>3 DEF Fresh, FreshIn
<1>5. Calls(s)'
  BY <1>3, <1>4 DEF Calls, Resting, LastClaim
<1> QED
  BY <1>1, <1>2, <1>5 DEF Calm

\* Loading rows that exist keeps the view fresh.
LEMMA LoadFresh ==
  ASSUME WInv, NEW s \in Session, FreshIn(Sees(s), view[s]),
         NEW S, S \subseteq {b \in Belief : Exists(Sees(s), b)}
  PROVE  \E w : Loading(s, S) = [view EXCEPT ![s] = w] /\ FreshIn(Sees(s), w)
<1> DEFINE w == [b \in Belief |-> IF b \in S THEN StatusSeen(s)[b] ELSE view[s][b]]
<1>1. FreshIn(Sees(s), w)
  BY FreshShows DEF FreshIn, Statuses, Exists
<1>2. Loading(s, S) = [view EXCEPT ![s] = w]
  BY DEF Loading
<1> QED
  BY <1>1, <1>2

LEMMA StartsFresh ==
  ASSUME Calm, NEW s \in Session, stage[s] = "idle"
  PROVE  FreshIn(Sees(s), view[s]) /\ Sees(s) = db
  BY DEF Calm, Calls, Resting, FreshIn, NothingRead, Sees

\* No claim asks that a belief be forgotten.
LEMMA DecisionsClaim ==
  ASSUME NEW d, Whole(d), NEW st, NEW rows, rows \subseteq Belief, NEW c \in Claim,
         NEW q \in Decide(d, st, rows, c)
  PROVE  q.transition \in {"CREATE", "CONTRADICT", "SUPPORT", "UPDATE"}
<1>1. CASE c.form \in {"states", "denies"}
  <2> DEFINE P(t, b) == Proposing(t, b, c.pred, c.obj)
  <2>1. q \in {P("CONTRADICT", NoBelief), P("CREATE", NoBelief)}
        \/ \E b \in rows : q \in {P("SUPPORT", b), P("UPDATE", b)}
    BY <1>1, StatedDecision
  <2>2. \A t, b : P(t, b).transition = t
    BY DEF Proposing
  <2> HIDE DEF P
  <2> QED
    BY <2>1, <2>2
<1>2. CASE c.form = "returns"
  <2>1. PICK b \in rows : q = Returning(d, st, rows, b, c.obj)
    BY <1>2, ReturnDecision
  <2> QED
    BY <2>1 DEF Returning, Proposing
<1>3. CASE c.form = "withdraws"
  <2>1. PICK b \in rows, S \in SUBSET rows :
          q = [Proposing("UPDATE", b, Retraction, c.obj) EXCEPT !.close = S]
    BY <1>3, WithdrawalDecision
  <2> QED
    BY <2>1 DEF Proposing
<1> QED
  BY <1>1, <1>2, <1>3, ClaimTyped DEF Form

LEMMA ResolveCalm ==
  ASSUME WInv, Calm, NEW s \in Session, OthersAway(s), NEW c \in Claim, Resolve(s, c)
  PROVE  Calm' /\ FreshIn(Sees(s), view[s])
<1> DEFINE rows == Candidates(Sees(s), c)
           room == IF stage[s] = "idle" THEN MaxClaims ELSE left[s]
<1>1. FreshIn(Sees(s), view[s])
  <2>1. CASE stage[s] = "idle"
    BY <2>1, StartsFresh
  <2>2. CASE stage[s] # "idle"
    BY <2>2 DEF Resolve, Calm, Calls, Fresh
  <2> QED
    BY <2>1, <2>2
<1>2. rows \subseteq {b \in Belief : Exists(Sees(s), b)}
  BY SeesWhole, CandidatesExist
<1>3. PICK w : Loading(s, rows) = [view EXCEPT ![s] = w] /\ FreshIn(Sees(s), w)
  BY <1>1, <1>2, LoadFresh
<1>4. PICK p \in Decide(Sees(s), StatusSeen(s), rows, c) : Decided(s, p, room - 1)
  BY DEF Resolve
<1>5. /\ UNCHANGED <<db, work, lock>> /\ stage' = [stage EXCEPT ![s] = "decided"]
      /\ view' = [view EXCEPT ![s] = w] /\ prop' = [prop EXCEPT ![s] = p]
  BY <1>3, <1>4 DEF Resolve, Decided
<1>6. p.transition # "FORGET"
  <2>1. rows \subseteq Belief
    BY <1>2
  <2> QED
    BY <1>4, <2>1, SeesWhole, DecisionsClaim
<1>7. prop'[s] = p
  BY <1>5 DEF WInv, TypeOK
<1> HIDE DEF rows, room
<1>8. Calm'
  BY <1>3, <1>5, <1>6, <1>7, QuietCalm
<1> QED
  BY <1>1, <1>8

LEMMA CallCalm ==
  ASSUME WInv, Calm, NEW s \in Session, OthersAway(s),
         NEW b \in Belief, NEW p, NEW o, NEW verdict \in {"VERIFY", "REJECT"},
         Judge(s, b, verdict) \/ Correct(s, b, p, o) \/ Forget(s, b)
  PROVE  Calm'
<1>1. stage[s] = "idle" /\ Exists(db, b)
  BY DEF Judge, Correct, Forget, Exists
<1>2. FreshIn(Sees(s), view[s]) /\ Sees(s) = db
  BY <1>1, StartsFresh
<1>3. PICK w : view' = [view EXCEPT ![s] = w] /\ FreshIn(Sees(s), w)
  <2>1. view = [view EXCEPT ![s] = view[s]]
    BY DEF WInv, TypeOK
  <2>2. PICK w : Loading(s, {b}) = [view EXCEPT ![s] = w] /\ FreshIn(Sees(s), w)
    BY <1>1, <1>2, LoadFresh
  <2>3. view' \in {view, Loading(s, {b})}
    BY DEF Judge, Correct, Forget
  <2> QED
    BY <1>2, <2>1, <2>2, <2>3
<1>4. PICK q : Decided(s, q, 0) /\ UNCHANGED <<db, work, lock>>
  BY DEF Judge, Correct, Forget
<1>5. stage' = [stage EXCEPT ![s] = "decided"] /\ left'[s] = 0
  BY <1>4 DEF Decided, WInv, TypeOK
<1> QED
  BY <1>3, <1>4, <1>5, QuietCalm

LEMMA ProceedCalm ==
  ASSUME WInv, Calm, NEW s \in Session, OthersAway(s), ReadRevision(s) \/ PassGates(s)
  PROVE  Calm'
<1>1. PICK x \in {"dated", "gated"} : stage' = [stage EXCEPT ![s] = x]
  BY DEF ReadRevision, PassGates
<1>2. UNCHANGED <<db, work, lock, left, prop, view>> /\ Pending(s)
  BY DEF ReadRevision, PassGates, Pending
<1>3. view' = [view EXCEPT ![s] = view[s]] /\ x \notin {"idle", "away"}
  BY <1>2 DEF WInv, TypeOK
<1>4. FreshIn(Sees(s), view[s]) /\ (prop[s].transition = "FORGET" => left[s] = 0)
  BY <1>2 DEF Calm, Calls, Fresh, LastClaim, Pending
<1> QED
  BY <1>1, <1>2, <1>3, <1>4, QuietCalm

LEMMA NotPublishedCalm ==
  ASSUME WInv, Calm, NEW s \in Session, OthersAway(s),
         Refuse(s) \/ PublishStale(s) \/ PublishFails(s)
  PROVE  Calm'
<1>1. Settle(s) /\ UNCHANGED <<work, lock>> /\ Pending(s)
  BY DEF Refuse, PublishStale, PublishFails, Locks, Pending
<1>2. FreshIn(Sees(s), view[s])
  BY <1>1 DEF Calm, Calls, Fresh, Pending
<1>3. PICK w : view' = [view EXCEPT ![s] = w] /\ FreshIn(Sees(s), w)
  <2>1. CASE Refuse(s) \/ PublishStale(s)
    <3>1. view' = [view EXCEPT ![s] = view[s]]
      BY <2>1 DEF WInv, TypeOK, Refuse, PublishStale
    <3> QED
      BY <1>2, <3>1
  <2>2. CASE PublishFails(s)
    <3> DEFINE w == [b \in Belief |-> IF b \in Attempt(s).wrote THEN "unread" ELSE view[s][b]]
    <3>1. view' = [view EXCEPT ![s] = w]
      BY <2>2 DEF PublishFails
    <3>2. FreshIn(Sees(s), w)
      BY <1>2 DEF FreshIn
    <3> QED
      BY <3>1, <3>2
  <2> QED
    BY <2>1, <2>2
<1>4. /\ stage' = [stage EXCEPT ![s] = "ready"] /\ UNCHANGED <<db, work, lock>>
      /\ stage'[s] = "ready"
  BY <1>1 DEF Settle, WInv, TypeOK
<1>5. ~Pending(s)'
  BY <1>4 DEF Pending
<1> QED
  BY <1>3, <1>4, <1>5, QuietCalm

LEMMA ToggleConsentCalm ==
  ASSUME WInv, Calm, NEW s \in Session, OthersAway(s), ToggleConsent(s)
  PROVE  Calm' /\ db'.rows = db.rows
<1>1. /\ stage[s] = "idle" /\ db' = Bump([db EXCEPT !.enabled = ~db.enabled])
      /\ UNCHANGED <<work, lock, stage, left, prop, exp, view>>
  BY DEF ToggleConsent
<1>2. db'.rows = db.rows /\ db'.versions = db.versions
  <2>1. [db EXCEPT !.enabled = ~db.enabled] \in Database
    BY DEF WInv, Whole, Database
  <2> QED
    BY <1>1, <2>1, BumpTyped DEF WInv, Whole, Database
<1>3. RejectedClosed(db)' /\ RejectedClosed(work)'
  BY <1>1, <1>2 DEF Calm, RejectedClosed, Opened
<1>4. ASSUME NEW t \in Session, t # s PROVE Calls(t)'
  BY <1>1, <1>4, AwayCalls
<1>5. FreshIn(Sees(s)', view'[s])
  BY <1>1, StartsFresh DEF Calm, Calls, Resting, FreshIn, NothingRead
<1>6. Calls(s)'
  BY <1>1, <1>5 DEF Calm, Calls, Resting, Fresh, FreshIn, LastClaim, Pending
<1> QED
  BY <1>2, <1>3, <1>4, <1>6 DEF Calm

\* What a handler leaves open shows no rejected row, if what it was told was so.
LEMMA HandledClosed ==
  ASSUME NEW d, RejectedClosed(d), NEW p, Aimed(p), NEW out, Handled(d, Statuses(d), p, out)
  PROVE  RejectedClosed(out.d)
<1> DEFINE e == out.d
<1> SUFFICES ASSUME NEW b \in Opened(e) PROVE e.rows[b].status # "rejected"
  BY DEF RejectedClosed
<1>1. b \in Belief
  BY DEF Opened
<1>2. CASE KeepsRows(d, Statuses(d), e)
  BY <1>1, <1>2 DEF KeepsRows, RejectedClosed, Statuses
<1>3. CASE Grows(d, Statuses(d), p, e)
  BY <1>1, <1>3 DEF Grows, GrowsBy, RejectedClosed
<1>4. CASE Loses(d, p, e)
  BY <1>1, <1>4 DEF Loses, RejectedClosed
<1>5. CASE Denies(d, p, e)
  BY <1>1, <1>5 DEF Denies, RejectedClosed
<1> QED
  BY <1>2, <1>3, <1>4, <1>5 DEF Handled

LEMMA PublishCommitsCalm ==
  ASSUME IInv, WInv, Calm, NEW s \in Session, OthersAway(s), PublishCommits(s)
  PROVE  Calm'
<1> DEFINE d == Bump(Sees(s))
           p == prop[s]
           out == Attempt(s)
           w == [b \in Belief |-> IF b \in out.wrote THEN "unread" ELSE view[s][b]]
<1>1. /\ lock' = s /\ UNCHANGED <<db, left>> /\ stage' = [stage EXCEPT ![s] = "ready"]
      /\ view' = [view EXCEPT ![s] = w] /\ Pending(s)
  BY DEF PublishCommits, Settle, Locks, Pending
<1>2. /\ stage'[s] = "ready" /\ view'[s] = w /\ Sees(s)' = work' /\ left'[s] = left[s]
  BY <1>1 DEF WInv, TypeOK, Sees
<1>3. /\ d.rows = Sees(s).rows /\ d.versions = Sees(s).versions
      /\ Handled(d, StatusSeen(s), p, out) /\ work'.rows = out.d.rows
      /\ work'.versions = out.d.versions /\ Aimed(p)
  BY PublishedWhole DEF WInv
<1>4. FreshIn(d, view[s]) /\ (p.transition = "FORGET" => left[s] = 0)
  BY <1>1, <1>3 DEF Calm, Calls, Fresh, FreshIn, LastClaim, Pending
<1>5. StatusSeen(s) = Statuses(d)
  <2>1. FreshIn(Sees(s), view[s])
    BY <1>3, <1>4 DEF FreshIn
  <2> QED
    BY <1>3, <2>1, FreshShows DEF Statuses
<1>6. RejectedClosed(d)
  BY <1>3 DEF Calm, RejectedClosed, Opened, Sees
<1> HIDE DEF d, p, out
<1>7. RejectedClosed(out.d)
  BY <1>3, <1>5, <1>6, HandledClosed
<1>8. RejectedClosed(db)' /\ RejectedClosed(work)'
  BY <1>1, <1>3, <1>7 DEF Calm, RejectedClosed, Opened
<1>9. ASSUME NEW t \in Session, t # s PROVE Calls(t)'
  BY <1>1, <1>9, AwayCalls
<1>10. FreshIn(Sees(s)', view'[s]) \/ left[s] = 0
  <2>1. SUFFICES ASSUME p.transition # "FORGET" PROVE FreshIn(work', w)
    BY <1>2, <1>4
  <2>2. \A b \in Belief : b \in out.wrote \/ out.d.rows[b].status = d.rows[b].status
                            \/ ~Exists(d, b)
    BY <1>3, <2>1 DEF Handled, Announced
  <2> QED
    BY <1>3, <1>4, <2>2 DEF FreshIn, Exists
<1>11. Calls(s)'
  BY <1>2, <1>10 DEF Calls, Resting, Fresh, FreshIn, LastClaim, Pending
<1> QED
  BY <1>8, <1>9, <1>11 DEF Calm

LEMMA EndCalm ==
  ASSUME WInv, Calm, NEW s \in Session, OthersAway(s), EndSession(s),
         db' = db \/ (lock = s /\ db' = work)
  PROVE  Calm'
<1>1. /\ stage' = [stage EXCEPT ![s] = "idle"] /\ view' = [view EXCEPT ![s] = NothingRead]
      /\ lock' = (IF lock = s THEN NoSession ELSE lock)
      /\ work' = (IF lock = s THEN EmptyDatabase ELSE work)
  BY DEF EndSession
<1>2. RejectedClosed(EmptyDatabase)
  BY DEF RejectedClosed, Opened, EmptyDatabase
<1>3. RejectedClosed(db') /\ RejectedClosed(work')
  BY <1>1, <1>2 DEF Calm
<1>4. ASSUME NEW t \in Session, t # s PROVE Calls(t)'
  BY <1>1, <1>4, AwayCalls
<1>5. stage'[s] = "idle" /\ view'[s] = NothingRead /\ lock' # s
  BY <1>1, NamesAssumption DEF WInv, TypeOK
<1>6. FreshIn(Sees(s)', view'[s])
  BY <1>5 DEF FreshIn, NothingRead
<1>7. Calls(s)'
  BY <1>5, <1>6 DEF Calls, Resting, Fresh, FreshIn, LastClaim, Pending
<1> QED
  BY <1>3, <1>4, <1>7 DEF Calm, RejectedClosed, Opened

LEMMA InitCalm == Init => Calm
<1> SUFFICES ASSUME Init PROVE Calm
  OBVIOUS
<1>1. /\ db = EmptyDatabase /\ work = EmptyDatabase /\ lock = NoSession
      /\ view = [s \in Session |-> NothingRead]
      /\ \A s \in Session : stage[s] \in {"idle", "away"}
  BY DEF Init
<1>2. RejectedClosed(EmptyDatabase)
  BY DEF RejectedClosed, Opened, EmptyDatabase
<1>3. ASSUME NEW s \in Session PROVE Calls(s)
  <2>1. FreshIn(Sees(s), view[s])
    BY <1>1 DEF FreshIn, NothingRead
  <2> QED
    BY <1>1, <2>1, NamesAssumption DEF Calls, Resting, Fresh, LastClaim, Pending
<1> QED
  BY <1>1, <1>2, <1>3 DEF Calm

\* A step is of a session that calls; alone, it is that one session.
LEMMA NextCalm == IInv /\ WInv /\ (Alone => Calm) /\ [Next]_vars => (Alone => Calm)'
<1> SUFFICES ASSUME IInv, WInv, Alone, Calm, [Next]_vars PROVE Calm'
  BY AloneStays
<1>1. CASE UNCHANGED vars
  <2>1. \A t : Sees(t)' = Sees(t)
    BY <1>1 DEF vars, Sees
  <2> QED
    BY <1>1, <2>1 DEF vars, Calm, Calls, RejectedClosed, Opened, Resting, Fresh, FreshIn, LastClaim,
                      Pending
<1>2. ASSUME NEW s \in Session, NEW c \in Claim, Resolve(s, c) PROVE Calm'
  <2>1. stage[s] # "away"
    BY <1>2 DEF Resolve
  <2> QED
    BY <1>2, <2>1, AloneCalls, ResolveCalm
<1>3. ASSUME NEW s \in Session, NEW b \in Belief,
             \/ \E verdict \in {"VERIFY", "REJECT"} : Judge(s, b, verdict)
             \/ \E p \in Pred, o \in Obj : Correct(s, b, p, o)
             \/ Forget(s, b)
      PROVE  Calm'
  <2>1. stage[s] # "away"
    BY <1>3 DEF Judge, Correct, Forget
  <2> QED
    BY <1>3, <2>1, AloneCalls, CallCalm
<1>4. ASSUME NEW s \in Session, ToggleConsent(s) PROVE Calm'
  <2>1. stage[s] # "away"
    BY <1>4 DEF ToggleConsent
  <2> QED
    BY <1>4, <2>1, AloneCalls, ToggleConsentCalm
<1>5. ASSUME NEW s \in Session, ReadRevision(s) \/ PassGates(s) PROVE Calm'
  <2>1. stage[s] # "away"
    BY <1>5 DEF ReadRevision, PassGates
  <2> QED
    BY <1>5, <2>1, AloneCalls, ProceedCalm
<1>6. ASSUME NEW s \in Session, Refuse(s) \/ PublishStale(s) \/ PublishFails(s) PROVE Calm'
  <2>1. stage[s] # "away"
    BY <1>6 DEF Refuse, PublishStale, PublishFails, Locks
  <2> QED
    BY <1>6, <2>1, AloneCalls, NotPublishedCalm
<1>7. ASSUME NEW s \in Session, PublishCommits(s) PROVE Calm'
  <2>1. stage[s] # "away"
    BY <1>7 DEF PublishCommits, Locks
  <2> QED
    BY <1>7, <2>1, AloneCalls, PublishCommitsCalm
<1>8. ASSUME NEW s \in Session, Commit(s) \/ Abort(s) PROVE Calm'
  <2>1. stage[s] # "away" /\ EndSession(s) /\ (db' = db \/ (lock = s /\ db' = work))
    BY <1>8 DEF Commit, Abort
  <2> QED
    BY <2>1, AloneCalls, EndCalm
<1> QED
  BY <1>1, <1>2, <1>3, <1>4, <1>5, <1>6, <1>7, <1>8 DEF Next

LEMMA Calmness == Spec => [](IInv /\ WInv /\ (Alone => Calm))
  BY InitIInv, NextIInv, InitWInv, NextWInv, InitCalm, NextCalm, PTL DEF Spec

\* reject_belief and the resurrection guard of record_claim: while no two turns
\* overlap, a rejected belief has no open version, and no statement opens one.
THEOREM RejectedIsClosed == Spec => []RejectedIsClosedAlone
<1>1. WInv /\ (Alone => Calm) => RejectedIsClosedAlone
  <2>1. ASSUME WInv, Alone, Calm, NEW v \in db.versions, v.open
        PROVE  db.rows[v.belief].status # "rejected"
    BY <2>1, WholeTyped DEF WInv, Calm, RejectedClosed, Opened
  <2> QED
    BY <2>1 DEF RejectedIsClosedAlone
<1> QED
  BY <1>1, Calmness, PTL

-----------------------------------------------------------------------------
(* One session alone: a SINGLE predicate has one current value.             *)

Single(d) ==
  \A b, c \in Belief :
    /\ d.rows[b].status = "active" /\ d.rows[c].status = "active"
    /\ d.rows[b].pred = d.rows[c].pred /\ d.rows[b].pred \in SingleValued
    => b = c

\* A new value of a SINGLE predicate closes what is current of it; a correction of
\* what is no longer current will change nothing.
AptFor(p, d) ==
  p.transition \in Inserting /\ p.pred \in SingleValued /\ d.enabled =>
    \A b \in Belief :
      d.rows[b].status = "active" /\ d.rows[b].pred = p.pred =>
        \/ b \in Replaces(p, Statuses(d))
        \/ p.transition = "CORRECT" /\ d.rows[p.target].status # "active"
Apt(s) == Pending(s) => AptFor(prop[s], Sees(s))
One == Single(db) /\ Single(work) /\ \A s \in Session : Apt(s)

\* What is current of a predicate is among the rows fetched for a claim about it.
LEMMA CurrentFetched ==
  ASSUME NEW d, d.enabled, NEW c, c.form # "withdraws", NEW b \in Belief,
         d.rows[b].status = "active",
         \/ d.rows[b].pred = c.pred
         \/ \E x \in Belief : /\ Exists(d, x) /\ d.rows[x].obj = c.obj
                              /\ d.rows[x].pred = d.rows[b].pred
  PROVE  b \in Candidates(d, c)
  BY DEF Candidates

LEMMA StatedApt ==
  ASSUME NEW d, Whole(d), Single(d), NEW c \in Claim, c.form \in {"states", "denies"},
         NEW q \in Decide(d, Statuses(d), Candidates(d, c), c)
  PROVE  AptFor(q, d)
<1> DEFINE rows == Candidates(d, c)
           st == Statuses(d)
<1>1. rows \subseteq Belief /\ \A b \in Belief : st[b] = d.rows[b].status
  BY CandidatesExist DEF Statuses
<1> HIDE DEF rows, st
<1> SUFFICES ASSUME q.transition \in Inserting, q.pred \in SingleValued, d.enabled,
                    NEW b \in Belief, d.rows[b].status = "active", d.rows[b].pred = q.pred
             PROVE  b \in Replaces(q, st)
  BY DEF AptFor, st
<1> DEFINE P(t, a) == Proposing(t, a, c.pred, c.obj)
<1>2. \/ q = P("CONTRADICT", NoBelief)
      \/ /\ q = P("CREATE", NoBelief)
         /\ c.pred \in SingleValued => \A a \in rows : ~(st[a] = "active" /\ d.rows[a].pred = c.pred)
      \/ \E a \in rows : /\ st[a] = "active" /\ d.rows[a].pred = c.pred
                         /\ q \in {P("SUPPORT", a), P("UPDATE", a)}
  BY <1>1, StatedDecision DEF rows, st
<1>3. \A t, a : P(t, a).transition = t /\ P(t, a).target = a /\ P(t, a).pred = c.pred
  BY DEF Proposing
<1> HIDE DEF P
<1>4. q.pred = c.pred
  BY <1>2, <1>3
<1>5. b \in rows
  BY <1>4, CurrentFetched DEF rows
<1>6. PICK a \in rows : st[a] = "active" /\ d.rows[a].pred = c.pred /\ q = P("UPDATE", a)
  BY <1>1, <1>2, <1>3, <1>4, <1>5 DEF Inserting
<1>7. a = b
  BY <1>1, <1>4, <1>6 DEF Single
<1> QED
  BY <1>3, <1>6, <1>7 DEF Replaces

LEMMA ReturnApt ==
  ASSUME NEW d, Whole(d), NEW c \in Claim, c.form = "returns",
         NEW q \in Decide(d, Statuses(d), Candidates(d, c), c)
  PROVE  AptFor(q, d)
<1> DEFINE rows == Candidates(d, c)
           st == Statuses(d)
<1>1. rows \subseteq {a \in Belief : Exists(d, a)} /\ \A b \in Belief : st[b] = d.rows[b].status
  BY CandidatesExist DEF Statuses
<1>2. PICK a \in rows : d.rows[a].obj = c.obj /\ q = Returning(d, st, rows, a, c.obj)
  BY <1>1, ReturnDecision
<1>3. /\ q.transition = "UPDATE" /\ q.target = a /\ q.pred = d.rows[a].pred
      /\ q.close = Others(d, st, rows, a)
  BY <1>2 DEF Returning, Proposing
<1> SUFFICES ASSUME d.enabled, NEW b \in Belief, d.rows[b].status = "active",
                    d.rows[b].pred = q.pred
             PROVE  b \in Replaces(q, st)
  BY DEF AptFor
<1>4. b \in rows
  BY <1>1, <1>2, <1>3, CurrentFetched
<1> QED
  BY <1>1, <1>3, <1>4 DEF Replaces, Others

LEMMA ResolveApt ==
  ASSUME NEW d, Whole(d), Single(d), NEW c \in Claim,
         NEW q \in Decide(d, Statuses(d), Candidates(d, c), c)
  PROVE  AptFor(q, d)
<1>1. CASE c.form = "withdraws"
  <2> DEFINE rows == Candidates(d, c)
  <2>1. rows \subseteq Belief
    BY CandidatesExist
  <2>2. PICK b \in rows, S \in SUBSET rows :
          q = [Proposing("UPDATE", b, Retraction, c.obj) EXCEPT !.close = S]
    BY <1>1, <2>1, WithdrawalDecision
  <2>3. q.pred = Retraction
    BY <2>2 DEF Proposing
  <2> QED
    BY <2>3, NamesAssumption DEF AptFor
<1> QED
  BY <1>1, StatedApt, ReturnApt, ClaimTyped DEF Form

\* The session decides upon q, or goes on with what it decided, or has settled it.
LEMMA QuietOne ==
  ASSUME WInv, Calm, One, NEW s \in Session, OthersAway(s), UNCHANGED <<db, work, lock>>,
         NEW x, stage' = [stage EXCEPT ![s] = x],
         Pending(s)' => AptFor(prop'[s], Sees(s))
  PROVE  One'
<1>1. ASSUME NEW t \in Session PROVE Apt(t)'
  <2>1. CASE t = s
    <3>1. Sees(s)' = Sees(s)
      BY DEF Sees
    <3> QED
      BY <2>1, <3>1 DEF Apt, AptFor, Replaces, Statuses
  <2>2. CASE t # s
    BY <2>2 DEF OthersAway, WInv, TypeOK, Apt, Pending
  <2> QED
    BY <2>1, <2>2
<1> QED
  BY <1>1 DEF One, Single

LEMMA ResolveOne ==
  ASSUME WInv, Calm, One, NEW s \in Session, OthersAway(s), NEW c \in Claim, Resolve(s, c)
  PROVE  One'
<1> DEFINE d == Sees(s)
           room == IF stage[s] = "idle" THEN MaxClaims ELSE left[s]
<1>1. StatusSeen(s) = Statuses(d)
  BY ResolveCalm, FreshShows
<1>2. PICK q \in Decide(d, StatusSeen(s), Candidates(d, c), c) : Decided(s, q, room - 1)
  BY DEF Resolve
<1>3. Whole(d) /\ Single(d)
  BY SeesWhole DEF One, Sees
<1>4. /\ UNCHANGED <<db, work, lock>> /\ stage' = [stage EXCEPT ![s] = "decided"]
      /\ prop'[s] = q
  BY <1>2 DEF Resolve, Decided, WInv, TypeOK
<1>5. AptFor(q, d)
  BY <1>1, <1>2, <1>3, ResolveApt
<1> HIDE DEF d
<1> QED
  BY <1>4, <1>5, QuietOne DEF d

LEMMA CallOne ==
  ASSUME WInv, Calm, One, ~CrossPredicate, NEW s \in Session, OthersAway(s),
         NEW b \in Belief, NEW p, NEW o, NEW verdict \in {"VERIFY", "REJECT"},
         Judge(s, b, verdict) \/ Correct(s, b, p, o) \/ Forget(s, b)
  PROVE  One'
<1>0. PICK t \in {"VERIFY", "REJECT", "CORRECT", "FORGET"} :
         \E u : /\ Decided(s, Proposing(t, b, db.rows[b].pred, u), 0)
                /\ UNCHANGED <<db, work, lock>>
  BY DEF Judge, Correct, Forget
<1>1. PICK u : /\ Decided(s, Proposing(t, b, db.rows[b].pred, u), 0)
               /\ UNCHANGED <<db, work, lock>>
  BY <1>0
<1>2. stage[s] = "idle"
  BY DEF Judge, Correct, Forget
<1> DEFINE q == Proposing(t, b, db.rows[b].pred, u)
<1>3. stage' = [stage EXCEPT ![s] = "decided"] /\ prop'[s] = q
  BY <1>1 DEF Decided, WInv, TypeOK
<1>4. q.transition = t /\ q.target = b /\ q.pred = db.rows[b].pred
  BY DEF Proposing
<1> HIDE DEF q
<1>5. AptFor(q, db)
  BY <1>4 DEF One, Single, AptFor, Inserting, Replaces
<1> QED
  BY <1>1, <1>2, <1>3, <1>5, StartsFresh, QuietOne

LEMMA OtherOne ==
  ASSUME WInv, Calm, One, NEW s \in Session, OthersAway(s),
         ReadRevision(s) \/ PassGates(s) \/ Refuse(s) \/ PublishStale(s) \/ PublishFails(s)
  PROVE  One'
<1>1. CASE ReadRevision(s) \/ PassGates(s)
  <2>1. PICK x \in {"dated", "gated"} : stage' = [stage EXCEPT ![s] = x]
    BY <1>1 DEF ReadRevision, PassGates
  <2>2. UNCHANGED <<db, work, lock, prop>> /\ Pending(s)
    BY <1>1 DEF ReadRevision, PassGates, Pending
  <2> QED
    BY <2>1, <2>2, QuietOne DEF One, Apt
<1>2. CASE Refuse(s) \/ PublishStale(s) \/ PublishFails(s)
  <2>1. stage' = [stage EXCEPT ![s] = "ready"] /\ UNCHANGED <<db, work, lock>>
    BY <1>2 DEF Refuse, PublishStale, PublishFails, Settle
  <2>2. ~Pending(s)'
    BY <2>1 DEF WInv, TypeOK, Pending
  <2> QED
    BY <2>1, <2>2, QuietOne
<1> QED
  BY <1>1, <1>2

LEMMA SameRowsSingle ==
  ASSUME NEW d, Single(d), NEW e, e.rows = d.rows
  PROVE  Single(e)
  BY DEF Single

\* A handler that was told what is there leaves one current value where there was one.
LEMMA HandledSingle ==
  ASSUME NEW d, Single(d), NEW p, Aimed(p), d.enabled \/ p.transition = "FORGET",
         AptFor(p, d), NEW out, Handled(d, Statuses(d), p, out)
  PROVE  Single(out.d)
<1> DEFINE e == out.d
           st == Statuses(d)
<1>1. CASE KeepsRows(d, st, e)
  BY <1>1, SameRowsSingle DEF KeepsRows
<1>2. CASE Loses(d, p, e)
  <2>1. \A b \in Belief : e.rows[b].status = "active" => e.rows[b] = d.rows[b]
    BY <1>2 DEF Loses
  <2> QED
    BY <2>1 DEF Single
<1>3. CASE Denies(d, p, e)
  <2>1. \A b \in Belief : e.rows[b].status = "active" => e.rows[b] = d.rows[b]
    BY <1>3 DEF Denies
  <2> QED
    BY <2>1 DEF Single
<1>4. CASE Grows(d, st, p, e)
  <2>1. PICK k \in Belief : GrowsBy(d, st, p, e, k)
    BY <1>4 DEF Grows
  <2>2. /\ p.transition \in Inserting /\ d.enabled
        /\ p.transition = "CORRECT" => d.rows[p.target].status = "active"
    <3>1. p.transition \in Inserting /\ (p.transition = "CORRECT" => st[p.target] = "active")
      BY <1>4 DEF Grows
    <3>2. p.transition = "CORRECT" => p.target \in Belief
      BY AimedTyped
    <3> QED
      BY <3>1, <3>2 DEF Inserting, Statuses
  <2>3. \A b \in Belief \ {k} : e.rows[b].status = "active" =>
          b \notin Replaces(p, st) /\ e.rows[b] = d.rows[b]
    BY <2>1 DEF GrowsBy
  <2>4. e.rows[k].pred = p.pred
    BY <2>1 DEF GrowsBy
  <2>5. \A b \in Belief \ {k} : e.rows[b].status = "active" /\ e.rows[b].pred \in SingleValued =>
          e.rows[b].pred # p.pred
    BY <2>2, <2>3 DEF AptFor
  <2> HIDE DEF e
  <2>6. ASSUME NEW b \in Belief, NEW c \in Belief,
               e.rows[b].status = "active", e.rows[c].status = "active",
               e.rows[b].pred = e.rows[c].pred, e.rows[b].pred \in SingleValued
        PROVE  b = c
    <3>1. CASE b = k \/ c = k
      BY <2>4, <2>5, <2>6, <3>1
    <3>2. CASE b # k /\ c # k
      BY <2>3, <2>6, <3>2 DEF Single
    <3> QED
      BY <3>1, <3>2
  <2> QED
    BY <2>6 DEF Single, e
<1> QED
  BY <1>1, <1>2, <1>3, <1>4 DEF Handled

LEMMA PublishCommitsOne ==
  ASSUME IInv, WInv, Calm, One, NEW s \in Session, OthersAway(s), PublishCommits(s)
  PROVE  One'
<1> DEFINE d == Bump(Sees(s))
           p == prop[s]
           out == Attempt(s)
<1>1. /\ stage' = [stage EXCEPT ![s] = "ready"] /\ UNCHANGED db /\ stage[s] = "gated"
      /\ exp[s] = Sees(s).rev
  BY DEF PublishCommits, Settle, Locks, CasLands
<1>2. /\ d.rows = Sees(s).rows /\ d.enabled = Sees(s).enabled
      /\ Handled(d, StatusSeen(s), p, out) /\ work'.rows = out.d.rows /\ Aimed(p)
  BY PublishedWhole DEF WInv
<1>3. StatusSeen(s) = Statuses(d)
  <2>1. FreshIn(Sees(s), view[s])
    BY <1>1 DEF Calm, Calls, Fresh
  <2> QED
    BY <1>2, <2>1, FreshShows DEF Statuses
<1>4. Single(Sees(s)) /\ AptFor(p, Sees(s))
  BY <1>1 DEF One, Sees, Apt, Pending
<1>5. d.enabled \/ p.transition = "FORGET"
  BY <1>1, <1>2 DEF IInv, Calling, Allowed
<1> HIDE DEF d, p, out
<1>6. Single(d) /\ AptFor(p, d)
  BY <1>2, <1>4, SameRowsSingle DEF AptFor, Statuses
<1>7. Single(work')
  BY <1>2, <1>3, <1>5, <1>6, HandledSingle, SameRowsSingle
<1>8. \A t \in Session : ~Pending(t)'
  BY <1>1 DEF OthersAway, WInv, TypeOK, Pending
<1> QED
  BY <1>1, <1>7, <1>8 DEF One, Single, Apt

LEMMA RestOne ==
  ASSUME WInv, Calm, One, NEW s \in Session, OthersAway(s),
         ToggleConsent(s) \/ (EndSession(s) /\ (db' = db \/ (lock = s /\ db' = work)))
  PROVE  One'
<1>1. Single(EmptyDatabase)
  BY DEF Single, EmptyDatabase, NoRow
<1>2. Single(db') /\ Single(work')
  <2>1. CASE ToggleConsent(s)
    BY <2>1, ToggleConsentCalm, SameRowsSingle DEF One, ToggleConsent
  <2>2. CASE EndSession(s) /\ (db' = db \/ (lock = s /\ db' = work))
    <3>1. work' \in {work, EmptyDatabase}
      BY <2>2 DEF EndSession
    <3> QED
      BY <1>1, <2>2, <3>1 DEF One
  <2> QED
    BY <2>1, <2>2
<1>3. \A t \in Session : ~Pending(t)'
  <2>1. stage' = [stage EXCEPT ![s] = "idle"]
    BY DEF ToggleConsent, EndSession, WInv, TypeOK
  <2> QED
    BY <2>1 DEF OthersAway, WInv, TypeOK, Pending
<1> QED
  BY <1>2, <1>3 DEF One, Single, Apt

LEMMA InitOne == Init => One
<1>1. Single(EmptyDatabase)
  BY DEF Single, EmptyDatabase, NoRow
<1> QED
  BY <1>1 DEF Init, One, Apt, Pending

LEMMA NextOne ==
  ASSUME ~CrossPredicate
  PROVE  IInv /\ WInv /\ (Alone => Calm) /\ (Alone => One) /\ [Next]_vars => (Alone => One)'
<1> SUFFICES ASSUME IInv, WInv, Alone, Calm, One, [Next]_vars PROVE One'
  BY AloneStays
<1>1. CASE UNCHANGED vars
  <2>1. \A t : Sees(t)' = Sees(t)
    BY <1>1 DEF vars, Sees
  <2> QED
    BY <1>1, <2>1 DEF vars, One, Single, Apt, AptFor, Replaces, Statuses, Pending
<1>2. ASSUME NEW s \in Session, NEW c \in Claim, Resolve(s, c) PROVE One'
  <2>1. stage[s] # "away"
    BY <1>2 DEF Resolve
  <2> QED
    BY <1>2, <2>1, AloneCalls, ResolveOne
<1>3. ASSUME NEW s \in Session, NEW b \in Belief,
             \/ \E verdict \in {"VERIFY", "REJECT"} : Judge(s, b, verdict)
             \/ \E p \in Pred, o \in Obj : Correct(s, b, p, o)
             \/ Forget(s, b)
      PROVE  One'
  <2>1. stage[s] # "away"
    BY <1>3 DEF Judge, Correct, Forget
  <2> QED
    BY <1>3, <2>1, AloneCalls, CallOne
<1>4. ASSUME NEW s \in Session,
             ReadRevision(s) \/ PassGates(s) \/ Refuse(s) \/ PublishStale(s) \/ PublishFails(s)
      PROVE  One'
  <2>1. stage[s] # "away"
    BY <1>4 DEF ReadRevision, PassGates, Refuse, PublishStale, PublishFails, Locks
  <2> QED
    BY <1>4, <2>1, AloneCalls, OtherOne
<1>5. ASSUME NEW s \in Session, PublishCommits(s) PROVE One'
  <2>1. stage[s] # "away"
    BY <1>5 DEF PublishCommits, Locks
  <2> QED
    BY <1>5, <2>1, AloneCalls, PublishCommitsOne
<1>6. ASSUME NEW s \in Session, ToggleConsent(s) \/ Commit(s) \/ Abort(s) PROVE One'
  <2>1. stage[s] # "away"
    BY <1>6 DEF ToggleConsent, Commit, Abort
  <2>2. ToggleConsent(s) \/ (EndSession(s) /\ (db' = db \/ (lock = s /\ db' = work)))
    BY <1>6 DEF Commit, Abort
  <2> QED
    BY <2>1, <2>2, AloneCalls, RestOne
<1> QED
  BY <1>1, <1>2, <1>3, <1>4, <1>5, <1>6 DEF Next

\* A SINGLE predicate has one current value while no two turns overlap, if no
\* correction moves a value to another predicate: what a handover, a return and a
\* correction close is all that was current of it.
THEOREM OneValueAlone ==
  ASSUME ~CrossPredicate
  PROVE  Spec => []SingleCurrentValueAlone
<1>1. Init => One
  BY InitOne
<1>2. IInv /\ WInv /\ (Alone => Calm) /\ (Alone => One) /\ [Next]_vars => (Alone => One)'
  BY NextOne
<1>3. (Alone => One) => SingleCurrentValueAlone
  BY DEF One, Single, SingleCurrentValueAlone, SingleCurrentValue
<1> QED
  BY <1>1, <1>2, <1>3, Calmness, PTL DEF Spec
=============================================================================
