---------------------------- MODULE TombstoneSync -----------------------------
(***************************************************************************)
(* Tombstone synchronization (core/tombstones.py, MemoryEngine             *)
(* .export_tombstones and .apply_tombstones): deletions travel between     *)
(* devices as entries of their deletion logs.                              *)
(*                                                                         *)
(* A receiver keeps, for each sender, the cursor it has consumed and the   *)
(* chain hash there, and records the identity of every tombstone it has    *)
(* applied, all in its main database, which a restored backup rewinds.     *)
(* The deletion log is not part of that database.                          *)
(*                                                                         *)
(* One user's data is modelled.  A hash is a number never used before:     *)
(* every log entry has its own.  An entry also carries the items its       *)
(* deletion removed (the fingerprints a replay would match).  The local    *)
(* deletion is one step here; its own crashes are those of DeletionReplay. *)
(***************************************************************************)
EXTENDS Naturals, Sequences, FiniteSets, SequencesExt

CONSTANTS
  Device,     \* the databases, by db_id
  Item,       \* beliefs and sessions, by their cross-device key
  Shared,     \* the items every device holds to begin with
  Legacy,     \* items of Shared whose belief has no global_id
  Limit,      \* tombstones in a batch
  MaxForgets, \* bound: deletions called for by users
  MaxEntries, \* bound: log entries ever written, those of applied tombstones included
  Faults,     \* what may go wrong in a behaviour: one of these
  MaxFaults   \* bound: how often it does

FaultKinds == {"none", "rollback", "restore", "abort", "prune", "duplicate"}

ASSUME ItemAssumption == Legacy \subseteq Shared /\ Shared \subseteq Item /\ "user" \notin Item
ASSUME DeviceAssumption == "own" \notin Device
ASSUME SyncBounds == Limit \in Nat \ {0} /\ {MaxForgets, MaxEntries, MaxFaults} \subseteq Nat
ASSUME FaultAssumption == Faults \subseteq FaultKinds

VARIABLES
  content,  \* the items in each main database
  born,     \* items that have been observed
  log,      \* each device's deletion log, pruned entries included
  pruned,   \* the sequence number of its checkpoint
  applied,  \* mm_tombstones_applied: identities of applied tombstones
  peer,     \* mm_sync_peers: cursor and chain hash per sender
  backup,   \* a backup of the main database and of the log, if one was taken
  inbox,    \* the batch a device is about to apply
  hashes,   \* log entries written so far
  forgets,  \* deletions called for so far
  fault, faults

syncVars == <<content, born, log, pruned, applied, peer, backup, inbox, hashes, forgets, fault,
          faults>>

Genesis == 0
User == "user"
NoBatch == [sender |-> "none"]
NoBackup == [content |-> {"none"}]

(* ------------------------------ the log ------------------------------ *)
Travels(e) == e.key \notin Legacy

\* an entry made by applying a tombstone keeps the tombstone's identity
Identity(d, s, e) == IF e.origin = "own" THEN <<d, s, e.hash>> ELSE <<e.origin, e.oseq, e.ohash>>

\* mutant: the origin is not written to the local log
AppendNoOrigin(l, h, key, items, id) ==
  Append(l, [key |-> key, items |-> items, hash |-> h,
             origin |-> "", oseq |-> id[2], ohash |-> id[3]])

Append1(l, h, key, items, id) ==
  Append(l, [key |-> key, items |-> items, hash |-> h,
             origin |-> id[1], oseq |-> id[2], ohash |-> id[3]])

Own == <<"own", 0, 0>>

ChainHashAt(d, s) ==
  IF s = 0 \/ s < pruned[d] \/ s > Len(log[d]) THEN Genesis ELSE log[d][s].hash

\* mutant: the sequence number alone is looked up
HasSequence(l, p, id) == id[2] \in p .. Len(l) \ {0}

\* the file's index: the checkpoint keeps the chain hash of the last entry it replaced
HasTombstone(l, p, id) ==
  \E s \in p .. Len(l) \ {0} :
    s = id[2] /\ (l[s].hash = id[3] \/ (s > p /\ l[s].ohash = id[3]))

(* ------------------------------ export ------------------------------ *)
ServedFrom(d, since) == IF since > Len(log[d]) THEN 0 ELSE since

Readable(d, from) == {s \in DOMAIN log[d] : s > from /\ s > pruned[d]}

Travelling(d, from) == {s \in Readable(d, from) : Travels(log[d][s])}

\* reading stops at the entry that fills the batch
ServedTo(d, from) ==
  LET full == {s \in Travelling(d, from) :
                 Cardinality({r \in Travelling(d, from) : r <= s}) = Limit}
      read == Readable(d, from)
  IN CASE full # {} -> CHOOSE s \in full : TRUE
       [] full = {} /\ read # {} -> Len(log[d])
       [] OTHER -> IF pruned[d] > from THEN pruned[d] ELSE from

Tombstone(d, s) ==
  [id |-> Identity(d, s, log[d][s]), key |-> log[d][s].key]

Batch(d, since) ==
  LET from == ServedFrom(d, since)
      to == ServedTo(d, from)
      seqs == {s \in Travelling(d, from) : s <= to}
  IN [sender |-> d, from |-> from, to |-> to,
      fromChain |-> ChainHashAt(d, from), toChain |-> ChainHashAt(d, to),
      entries |-> [s \in seqs |-> Tombstone(d, s)]]

(* ------------------------------- apply ------------------------------- *)
\* validate_batch refuses a batch in which an identity appears twice
Acceptable(b) ==
  \A i, j \in DOMAIN b.entries :
    i # j => <<b.entries[i].id[1], b.entries[i].id[3]>> # <<b.entries[j].id[1], b.entries[j].id[3]>>

\* mutant: only the cursor is compared
CursorMoved(d, b) == b.from # peer[d][b.sender].cursor

Rescans(d, b) ==
  b.from # peer[d][b.sender].cursor \/ b.fromChain # peer[d][b.sender].chain

\* mutant: what was applied before is applied again
NeverKnown(st, d, id) == id[1] = d /\ HasTombstone(st.log, pruned[d], id)

\* mutant: an own tombstone that comes back is always taken for lost
OnlyApplied(st, d, id) == id \in st.applied

\* mutant: any tombstone of this device's is taken for an echo
OwnIsEcho(st, d, id) == id \in st.applied \/ id[1] = d

\* mutant: a sequence number the sender reuses is taken for the old deletion
BySequence(st, d, id) ==
  \/ \E k \in st.applied : k[1] = id[1] /\ k[2] = id[2]
  \/ id[1] = d /\ HasTombstone(st.log, pruned[d], id)

\* applied before, or this device's own deletion and still in its log
Known(st, d, id) ==
  \/ id \in st.applied
  \/ id[1] = d /\ HasTombstone(st.log, pruned[d], id)

\* mutant: the user scope deletes nothing
NothingOf(st, key) == IF key = User THEN {} ELSE {key} \cap st.content

Doomed(st, key) == IF key = User THEN st.content ELSE {key} \cap st.content

\* the user scope writes an entry even when it deletes nothing
ApplyOne(d, st, t) ==
  LET doomed == Doomed(st, t.key)
  IN IF Known(st, d, t.id) THEN st
     ELSE [content |-> st.content \ doomed,
           log |-> IF t.key = User \/ doomed # {}
                   THEN Append1(st.log, st.hashes + 1, t.key, doomed, t.id)
                   ELSE st.log,
           applied |-> st.applied \cup {t.id},
           hashes |-> IF t.key = User \/ doomed # {} THEN st.hashes + 1 ELSE st.hashes]

\* one tombstone after the other, in the order of the sender's log
Applied(d, b) ==
  LET start == [content |-> content[d], log |-> log[d], applied |-> applied[d], hashes |-> hashes]
      upTo[s \in 0 .. b.to] ==
        IF s = 0 THEN start
        ELSE IF s \in DOMAIN b.entries THEN ApplyOne(d, upTo[s - 1], b.entries[s])
        ELSE upTo[s - 1]
  IN upTo[b.to]

\* mutant: a rescan advances like any other batch
AdvanceAlways(d, b) == [cursor |-> b.to, chain |-> b.toChain]

\* mutant: a batch without tombstones does not advance the channel
AdvanceIfFull(d, b) ==
  IF Rescans(d, b) THEN [cursor |-> 0, chain |-> Genesis]
  ELSE IF b.entries = <<>> THEN peer[d][b.sender]
  ELSE [cursor |-> b.to, chain |-> b.toChain]

\* a rescan re-anchors the channel, so that the sender's whole log is fetched again
Advance(d, b) ==
  IF Rescans(d, b) THEN [cursor |-> 0, chain |-> Genesis]
  ELSE [cursor |-> b.to, chain |-> b.toChain]

(* ------------------------------ actions ------------------------------ *)
Spend == faults < MaxFaults /\ faults' = faults + 1 /\ fault' = fault
Unharmed == UNCHANGED <<fault, faults>>

SyncInit ==
  /\ content = [d \in Device |-> Shared]
  /\ born = Shared
  /\ log = [d \in Device |-> <<>>]
  /\ pruned = [d \in Device |-> 0]
  /\ applied = [d \in Device |-> {}]
  /\ peer = [d \in Device |-> [p \in Device \ {d} |-> [cursor |-> 0, chain |-> Genesis]]]
  /\ backup = [d \in Device |-> NoBackup]
  /\ inbox = [d \in Device |-> NoBatch]
  /\ hashes = 0 /\ forgets = 0
  /\ fault \in Faults /\ faults = 0

Observe(d, i) ==
  /\ i \notin born
  /\ born' = born \cup {i}
  /\ content' = [content EXCEPT ![d] = @ \cup {i}]
  /\ UNCHANGED <<log, pruned, applied, peer, backup, inbox, hashes, forgets>> /\ Unharmed

\* a deletion called for here writes its own entry
Delete(d, key, doomed) ==
  /\ forgets < MaxForgets /\ hashes < MaxEntries
  /\ forgets' = forgets + 1 /\ hashes' = hashes + 1
  /\ log' = [log EXCEPT ![d] = Append1(@, hashes + 1, key, doomed, Own)]
  /\ content' = [content EXCEPT ![d] = @ \ doomed]
  /\ UNCHANGED <<born, pruned, applied, peer, backup, inbox>> /\ Unharmed

\* forget_belief, forget_session: nothing is logged when nothing is found
Forget(d, i) == i \in content[d] /\ Delete(d, i, {i})

DeleteMemories(d) == Delete(d, User, content[d])

\* one round of the pull: the stored cursor is read and the sender exports from it;
\* a cursor before the checkpoint is refused (TombstoneCursorPruned)
Fetch(d, p) ==
  /\ d # p
  /\ peer[d][p].cursor >= pruned[p]
  /\ inbox[d] = NoBatch
  /\ inbox' = [inbox EXCEPT ![d] = Batch(p, peer[d][p].cursor)]
  /\ UNCHANGED <<content, born, log, pruned, applied, peer, backup, hashes, forgets>> /\ Unharmed

\* apply_tombstones, in one transaction
Deliver(d) ==
  LET b == inbox[d]
      after == Applied(d, b)
  IN /\ b # NoBatch
     /\ Acceptable(b)
     /\ after.hashes <= MaxEntries
     /\ content' = [content EXCEPT ![d] = after.content]
     /\ log' = [log EXCEPT ![d] = after.log]
     /\ applied' = [applied EXCEPT ![d] = after.applied]
     /\ hashes' = after.hashes
     /\ peer' = [peer EXCEPT ![d][b.sender] = Advance(d, b)]
     /\ \/ inbox' = [inbox EXCEPT ![d] = NoBatch] /\ Unharmed
        \/ fault = "duplicate" /\ Spend /\ UNCHANGED inbox
     /\ UNCHANGED <<born, pruned, backup, forgets>>

\* the batch is refused: nothing is written
Drop(d) ==
  /\ inbox[d] # NoBatch
  /\ ~ Acceptable(inbox[d])
  /\ inbox' = [inbox EXCEPT ![d] = NoBatch]
  /\ UNCHANGED <<content, born, log, pruned, applied, peer, backup, hashes, forgets>> /\ Unharmed

\* the transaction fails after the log was written: the log keeps the entries
AbortDeliver(d) ==
  LET after == Applied(d, inbox[d])
  IN /\ fault = "abort" /\ Spend
     /\ inbox[d] # NoBatch
     /\ Acceptable(inbox[d])
     /\ after.log # log[d]
     /\ after.hashes <= MaxEntries
     /\ log' = [log EXCEPT ![d] = after.log]
     /\ hashes' = after.hashes
     /\ inbox' = [inbox EXCEPT ![d] = NoBatch]
     /\ UNCHANGED <<content, born, pruned, applied, peer, backup, forgets>>

\* bound: one device has a backup at a time, and a restore uses it up
Backup(d) ==
  /\ fault \in {"rollback", "restore"}
  /\ \A e \in Device : backup[e] = NoBackup
  /\ faults < MaxFaults
  /\ backup' = [backup EXCEPT ![d] =
       [content |-> content[d], applied |-> applied[d], peer |-> peer[d], log |-> log[d]]]
  /\ UNCHANGED <<content, born, log, pruned, applied, peer, inbox, hashes, forgets>> /\ Unharmed

\* the main database goes back, and the log is replayed onto it
RestoreDatabase(d) ==
  /\ fault = "restore" /\ Spend
  /\ backup[d] # NoBackup
  /\ content' = [content EXCEPT ![d] =
       backup[d].content \ UNION {e.items : e \in ToSet(log[d])}]
  /\ applied' = [applied EXCEPT ![d] = backup[d].applied]
  /\ peer' = [peer EXCEPT ![d] = backup[d].peer]
  /\ inbox' = [inbox EXCEPT ![d] = NoBatch]
  /\ backup' = [backup EXCEPT ![d] = NoBackup]
  /\ UNCHANGED <<born, log, pruned, hashes, forgets>>

\* the whole machine goes back, its log included
RestoreMachine(d) ==
  /\ fault = "rollback" /\ Spend
  /\ backup[d] # NoBackup
  /\ content' = [content EXCEPT ![d] = backup[d].content]
  /\ applied' = [applied EXCEPT ![d] = backup[d].applied]
  /\ peer' = [peer EXCEPT ![d] = backup[d].peer]
  /\ log' = [log EXCEPT ![d] = backup[d].log]
  /\ inbox' = [inbox EXCEPT ![d] = NoBatch]
  /\ backup' = [backup EXCEPT ![d] = NoBackup]
  /\ UNCHANGED <<born, pruned, hashes, forgets>>

\* the compaction pass: what is older than the retention goes
Prune(d, s) ==
  /\ fault = "prune" /\ Spend
  /\ s \in DOMAIN log[d] /\ s > pruned[d]
  /\ pruned' = [pruned EXCEPT ![d] = s]
  /\ UNCHANGED <<content, born, log, applied, peer, backup, inbox, hashes, forgets>>

SyncNext ==
  \E d \in Device :
    \/ \E i \in Item : Observe(d, i)
    \/ \E i \in Item : Forget(d, i)
    \/ DeleteMemories(d)
    \/ \E p \in Device : Fetch(d, p)
    \/ Deliver(d)
    \/ Drop(d)
    \/ AbortDeliver(d)
    \/ Backup(d)
    \/ RestoreDatabase(d)
    \/ RestoreMachine(d)
    \/ \E s \in 1 .. MaxEntries : Prune(d, s)

SyncSpec == SyncInit /\ [][SyncNext]_syncVars

\* every device goes on pulling from every other
Pulling ==
  \A d \in Device : WF_syncVars(Deliver(d)) /\ \A p \in Device \ {d} : SF_syncVars(Fetch(d, p))

SyncLiveSpec == SyncSpec /\ Pulling

(* ----------------------------- properties ----------------------------- *)
EntryOK(e) ==
  /\ e.key \in Item \cup {User} /\ e.items \subseteq Item
  /\ e.hash \in 1 .. MaxEntries
  /\ e.origin \in Device \cup {"own"} /\ {e.oseq, e.ohash} \subseteq 0 .. MaxEntries

\* The state keeps its shape; a log never skips a sequence number and a cursor is
\* one of the sender's positions, past or present.
SyncTypeOK ==
  /\ \A d \in Device :
       /\ content[d] \subseteq born
       /\ pruned[d] \in 0 .. Len(log[d])
       /\ \A s \in DOMAIN log[d] : EntryOK(log[d][s])
       /\ \A p \in Device \ {d} : {peer[d][p].cursor, peer[d][p].chain} \subseteq 0 .. MaxEntries
       /\ inbox[d] # NoBatch => inbox[d].sender \in Device \ {d}
  /\ born \subseteq Item /\ hashes \in 0 .. MaxEntries /\ forgets \in 0 .. MaxForgets
  /\ fault \in Faults /\ faults \in 0 .. MaxFaults

\* is d's channel from p at a point of p's present log
InStep(d, p) ==
  /\ peer[d][p].cursor <= Len(log[p])
  /\ peer[d][p].chain = ChainHashAt(p, peer[d][p].cursor)
  /\ peer[d][p].cursor >= pruned[p]

\* What a device has consumed of a sender's log is gone from it, whatever was
\* restored at either end: no item deleted by a travelling entry at or before the
\* cursor is in its database while the chain hash agrees (api.py:1440-1452).
ConsumedIsGone ==
  \A d \in Device : \A p \in Device \ {d} :
    InStep(d, p) =>
      \A s \in 1 .. peer[d][p].cursor :
        Travels(log[p][s]) => log[p][s].items \cap content[d] = {}

\* An applied record is never ahead of the deletion it stands for: both are written by
\* one transaction and rewound by one restore (api.py:1581-1610, models.py:524-528).
AppliedIsGone ==
  \A d, p \in Device :
    \A s \in DOMAIN log[p] :
      Travels(log[p][s]) /\ Identity(p, s, log[p][s]) \in applied[d]
        => log[p][s].items \cap content[d] = {}

\* Tombstones a device has applied, or made itself and still holds in its log, change
\* nothing when they arrive again, by a rescan, a relay or a second delivery
\* (api.py:1455-1458, 1568-1580).
AgainIsNothing ==
  [][\A d \in Device :
       Deliver(d) /\ log'[d] # log[d] => \E i \in DOMAIN inbox[d].entries :
              LET id == inbox[d].entries[i].id
              IN /\ id \notin applied[d]
                 /\ ~ \E s \in DOMAIN log[d] :
                        s >= pruned[d] /\ log[d][s].origin = "own" /\ <<d, s, log[d][s].hash>> = id]_syncVars

\* Every device that goes on pulling ends at the tail of every other's log and stays
\* there, whatever was delivered twice or rolled back whole: no rescan goes on for
\* ever and no echo comes back (api.py:1694-1716, docstring of TombstoneBatch).
CatchesUp ==
  (fault \in {"none", "rollback", "duplicate"}) =>
    <>[](\A d \in Device : \A p \in Device \ {d} :
           InStep(d, p) /\ peer[d][p].cursor = Len(log[p]))

\* Nothing wedges, zero refusals: what a device exports, a peer accepts
\* (tests/test_sync_mesh.py:796-798).
ZeroRefusals == \A d \in Device : inbox[d] # NoBatch => Acceptable(inbox[d])

\* An own tombstone that a peer sends back is applied again only when the log lost it in
\* a restore (api.py:1406-1409).
EchoesAreSkipped ==
  \A d \in Device, p \in Device :
    \A s \in DOMAIN log[p] : fault \notin {"restore", "rollback"} => ~ (p = d /\ log[p][s].origin = d)
==============================================================================
