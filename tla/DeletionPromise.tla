--------------------------- MODULE DeletionPromise ---------------------------
(***************************************************************************)
(* DeletionReplay as an implementation of ForgettingPromise: the deletion   *)
(* log, the watermark and the replay amount to one atomic act of forgetting. *)
(***************************************************************************)
EXTENDS DeletionReplay

\* Some process serves: only then can a row be shown to anyone.
SomeoneServes == \E n \in Node : pc[n] = "serving"
Shown == IF SomeoneServes THEN rows ELSE {}

\* The rows named by the entries of the acknowledged deletions.
Acknowledged == UNION {log[s].fps : s \in done}

Promise == INSTANCE ForgettingPromise WITH
             Item <- Row, serving <- SomeoneServes, shown <- Shown, gone <- Acknowledged

\* "Deleted memory cannot come back" (core/deletion.py), step by step: a commit
\* takes exactly the rows it acknowledges, a restored database is served only
\* without them, and a replay under a serving engine adds nothing.
KeepsPromise == Promise!Spec
=============================================================================
