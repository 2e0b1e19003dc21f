-------------------------- MODULE ForgettingPromise --------------------------
(***************************************************************************)
(* What mirror_memory promises to the person whose memory it keeps, and no  *)
(* word about logs, watermarks, backups or locks: items are remembered      *)
(* while the system serves, a deletion that is acknowledged takes its items  *)
(* away in that very step, and no later step shows one of them again,        *)
(* however often the system stops and serves again, from whatever copy.     *)
(***************************************************************************)
CONSTANT Item

VARIABLES
  serving,  \* does any process serve
  shown,    \* the items that can be shown; none while nothing serves
  gone      \* the items of the deletions acknowledged so far

vars == <<serving, shown, gone>>

Init == serving = FALSE /\ shown = {} /\ gone = {}

\* A new item; one that is gone is never learned again under its old identity.
Remember(i) ==
  /\ serving /\ i \notin shown \cup gone
  /\ shown' = shown \cup {i}
  /\ UNCHANGED <<serving, gone>>

\* An acknowledged deletion.
Forget(S) ==
  /\ serving
  /\ shown' = shown \ S /\ gone' = gone \cup S
  /\ UNCHANGED serving

\* A deletion that takes effect although its caller was told that it failed.
Drop(S) ==
  /\ serving
  /\ shown' = shown \ S
  /\ UNCHANGED <<serving, gone>>

Stop ==
  /\ serving /\ serving' = FALSE
  /\ shown' = {}
  /\ UNCHANGED gone

\* The system serves again, from any copy that has none of what is gone.
Resume(S) ==
  /\ ~serving /\ serving' = TRUE
  /\ S \cap gone = {} /\ shown' = S
  /\ UNCHANGED gone

Next ==
  \/ \E i \in Item : Remember(i)
  \/ \E S \in SUBSET Item : Forget(S) \/ Drop(S) \/ Resume(S)
  \/ Stop

Spec == Init /\ [][Next]_vars
=============================================================================
