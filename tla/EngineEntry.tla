----------------------------- MODULE EngineEntry ------------------------------
(***************************************************************************)
(* The way into an engine (api.py): the one-time initialization that       *)
(* several threads may ask for at once, the catch-up against the sync peer *)
(* that is part of it, and the gate every entry passes before it touches   *)
(* memory.                                                                 *)
(*                                                                         *)
(* A thread makes one call after another, each a read or a write.  pc      *)
(* names the statement it is about to execute; the sync state, the failed  *)
(* flag and the grace clock are shared and read without a lock.  A         *)
(* catch-up holds the sync lock from its first statement to its verdict.   *)
(* The pulls of one catch-up are a single step (their detail is            *)
(* TombstoneSync); time is the age of the last complete catch-up, in ticks.*)
(***************************************************************************)
EXTENDS Naturals, FiniteSets

CONSTANTS
  Thread,     \* threads that call entry points
  Grace,      \* sync.offline_grace_days, in ticks
  Transports, \* is a transport injected: a subset of BOOLEAN
  MaxOutages, \* bound: times the link goes down
  MaxErrors   \* bound: initializations and catch-ups that raise

ASSUME GraceAssumption == Grace \in Nat \ {0}
ASSUME ThreadAssumption == "nobody" \notin Thread
ASSUME BoundAssumption == MaxOutages \in Nat /\ MaxErrors \in Nat /\ Transports \subseteq BOOLEAN

Nobody == "nobody"
Stale == Grace + 1   \* the grace is out, or there never was a catch-up

VARIABLES
  transport,    \* was a transport injected
  initialized, initializing, done,  \* the flags and the event of _ensure_db
  verdict,      \* history: did the startup catch-up reach one
  state,        \* _sync_state
  failed,       \* _sync_attempt_failed
  lock,         \* who holds _sync_lock
  age,          \* ticks since the last complete catch-up
  link, outages,\* does the peer answer
  errors,
  wedged,       \* history: a catch-up raised and left the state catching_up
  call          \* each thread's call

init == <<initialized, initializing, done, verdict>>
sync == <<state, failed, lock, age, wedged>>
world == <<transport, link, outages, errors>>
vars == <<transport, initialized, initializing, done, verdict, state, failed, lock, age,
          link, outages, errors, wedged, call>>

Idle == [pc |-> "idle", read |-> FALSE, back |-> "", fresh |-> FALSE, crossed |-> FALSE]

Gate == {"g1", "g2", "g3", "g4", "g5", "g6"}

At(t, pc) == call[t].pc = pc
Goto(t, pc) == call' = [call EXCEPT ![t].pc = pc]
Return(t) == call' = [call EXCEPT ![t] = Idle]

InGrace == age <= Grace

Init ==
  /\ transport \in Transports
  /\ initialized = FALSE /\ initializing = FALSE /\ done = FALSE /\ verdict = FALSE
  /\ state = "normal" /\ failed = FALSE /\ lock = Nobody
  /\ age \in {0, Stale}
  /\ link \in BOOLEAN /\ outages = 0 /\ errors = 0 /\ wedged = FALSE
  /\ call = [t \in Thread |-> Idle]

(* --------------------------- the environment --------------------------- *)
Tick ==
  /\ age < Stale
  /\ age' = age + 1
  /\ UNCHANGED <<init, world, state, failed, lock, wedged, call>>

LinkFails ==
  /\ link /\ outages < MaxOutages
  /\ link' = FALSE /\ outages' = outages + 1
  /\ UNCHANGED <<init, sync, transport, errors, call>>

LinkHeals ==
  /\ ~ link
  /\ link' = TRUE
  /\ UNCHANGED <<init, sync, transport, outages, errors, call>>

Call(t, read) ==
  /\ At(t, "idle")
  /\ call' = [call EXCEPT ![t].pc = "ensure", ![t].read = read]
  /\ UNCHANGED <<init, sync, world>>

(* ------------------------------ _ensure_db ------------------------------ *)
Ready(t) ==
  /\ At(t, "ensure")
  /\ initialized
  /\ Goto(t, "g1")
  /\ UNCHANGED <<init, sync, world>>

\* mutant: the test and the claim are not one critical section
MayClaimAnyway == TRUE

MayClaim == ~ initializing

\* under the lock: a fresh round
Claim(t) ==
  /\ At(t, "ensure")
  /\ ~ initialized /\ MayClaim
  /\ initializing' = TRUE /\ done' = FALSE
  /\ Goto(t, "schema")
  /\ UNCHANGED <<initialized, verdict, sync, world>>

Join(t) ==
  /\ At(t, "ensure")
  /\ ~ initialized /\ initializing
  /\ Goto(t, "wait")
  /\ UNCHANGED <<init, sync, world>>

Wake(t) ==
  /\ At(t, "wait")
  /\ done
  /\ Goto(t, "ensure")
  /\ UNCHANGED <<init, sync, world>>

\* mutant: the flag is published before the catch-up
PublishedEarly(b) == TRUE

PublishedAt(b) == b

\* the schema, watermark, replay and posture checks; with sync on, the startup catch-up
Schema(t) ==
  /\ At(t, "schema")
  /\ IF transport
     THEN call' = [call EXCEPT ![t].pc = "lock", ![t].back = "publish"]
     ELSE Goto(t, "publish")
  /\ initialized' = PublishedAt(FALSE)
  /\ UNCHANGED <<initializing, done, verdict, sync, world>>

SchemaFails(t) ==
  /\ At(t, "schema")
  /\ errors < MaxErrors /\ errors' = errors + 1
  /\ call' = [call EXCEPT ![t].pc = "release", ![t].back = "raise"]
  /\ UNCHANGED <<init, sync, transport, link, outages>>

Publish(t) ==
  /\ At(t, "publish")
  /\ initialized' = PublishedAt(TRUE)
  /\ verdict' = TRUE
  /\ call' = [call EXCEPT ![t].pc = "release", ![t].back = "g1"]
  /\ UNCHANGED <<initializing, done, sync, world>>

\* the finally clause: the flag without the lock, then the event
Release(t) ==
  /\ At(t, "release")
  /\ initializing' = FALSE
  /\ Goto(t, "signal")
  /\ UNCHANGED <<initialized, done, verdict, sync, world>>

\* mutant: a failed round does not set the event
SignalsOnSuccess(t) == call[t].back = "g1"

Signals(t) == TRUE

Signal(t) ==
  /\ At(t, "signal")
  /\ done' = (done \/ Signals(t))
  /\ IF call[t].back = "g1" THEN call' = [call EXCEPT ![t].pc = "g1", ![t].back = ""] ELSE Return(t)
  /\ UNCHANGED <<initialized, initializing, verdict, sync, world>>

(* ------------------------------ _catch_up ------------------------------ *)
\* every other call in the gate sees the state of this one from here on
Lock(t) ==
  /\ At(t, "lock")
  /\ lock = Nobody
  /\ lock' = t /\ state' = "catching_up"
  /\ call' = [u \in Thread |->
       IF u = t THEN [call[u] EXCEPT !.pc = "pull"]
       ELSE IF call[u].pc \in Gate THEN [call[u] EXCEPT !.crossed = TRUE] ELSE call[u]]
  /\ UNCHANGED <<init, failed, age, wedged, world>>

\* mutant: the lock is not released on the way out
LockKept(t) == t

LockAfter(t) == Nobody

\* the peer's tail is reached: the instant is stamped, then the state set
Complete(t) ==
  /\ At(t, "pull")
  /\ link
  /\ age' = 0 /\ state' = "normal" /\ failed' = FALSE /\ lock' = LockAfter(t)
  /\ call' = [call EXCEPT ![t].pc = call[t].back, ![t].back = "", ![t].fresh = TRUE]
  /\ UNCHANGED <<init, wedged, world>>

\* mutant: the handler leaves the state as it is
VerdictNone(s) == s

\* the state after a connection error, from the age of the last complete catch-up
GraceState(s) == IF InGrace THEN "offline_grace" ELSE "expired"

Disconnected(t) ==
  /\ At(t, "pull")
  /\ ~ link
  /\ state' = GraceState(state) /\ failed' = TRUE /\ lock' = LockAfter(t)
  /\ call' = [call EXCEPT ![t].pc = call[t].back, ![t].back = "",
                            ![t].fresh = InGrace]
  /\ UNCHANGED <<init, age, wedged, world>>

\* a rejected batch, a pruned cursor, a busy database: raised, the state left as it is
Raise(t) ==
  /\ At(t, "pull")
  /\ errors < MaxErrors /\ errors' = errors + 1
  /\ lock' = LockAfter(t) /\ wedged' = TRUE
  /\ IF call[t].back = "publish"
     THEN call' = [call EXCEPT ![t].pc = "release", ![t].back = "raise"]
     ELSE Return(t)
  /\ UNCHANGED <<init, state, failed, age, transport, link, outages>>

(* ------------------------------ _sync_gate ------------------------------ *)
\* without a transport the stored instant decides, and only for reads
WithoutTransport(t) ==
  /\ At(t, "g1")
  /\ ~ transport
  /\ IF call[t].read /\ ~ InGrace
     THEN Return(t)
     ELSE call' = [call EXCEPT ![t].pc = "serve", ![t].fresh = InGrace]
  /\ UNCHANGED <<init, sync, world>>

RefuseCatchingUp(t) ==
  /\ At(t, "g1")
  /\ transport /\ state = "catching_up"
  /\ Return(t)
  /\ UNCHANGED <<init, sync, world>>

NotCatchingUp(t) ==
  /\ At(t, "g1")
  /\ transport /\ state # "catching_up"
  /\ Goto(t, "g2")
  /\ UNCHANGED <<init, sync, world>>

TestNormal(t) ==
  /\ At(t, "g2")
  /\ Goto(t, IF state = "normal" THEN "g3" ELSE "g5")
  /\ UNCHANGED <<init, sync, world>>

\* mutant: the clock does not run while the state is normal
ClockStopped == TRUE

ClockAllows == InGrace

\* the clock runs in the normal state too: one attempt on the spot
TestGrace(t) ==
  /\ At(t, "g3")
  /\ call' = IF ClockAllows
             THEN [call EXCEPT ![t].pc = "g5", ![t].fresh = InGrace]
             ELSE [call EXCEPT ![t].pc = "lock", ![t].back = "g4"]
  /\ UNCHANGED <<init, sync, world>>

AfterAttempt(t) ==
  /\ At(t, "g4")
  /\ IF state = "normal" THEN Goto(t, "g5")
     ELSE IF call[t].read THEN Return(t) ELSE Goto(t, "serve")
  /\ UNCHANGED <<init, sync, world>>

\* mutant: only an expired channel is tried again
RetriesExpired == state = "expired" /\ failed

Retries == state \in {"expired", "offline_grace"} /\ failed

\* one attempt per entry: coming back online needs no restart
Reattempt(t) ==
  /\ At(t, "g5")
  /\ call' = IF Retries
             THEN [call EXCEPT ![t].pc = "lock", ![t].back = "g6"]
             ELSE [call EXCEPT ![t].pc = "g6"]
  /\ UNCHANGED <<init, sync, world>>

\* mutant: the last test is forgotten
LastTestNone(t) == FALSE

LastTest(t) == state = "expired" /\ call[t].read

Verdict(t) ==
  /\ At(t, "g6")
  /\ IF LastTest(t) THEN Return(t)
     ELSE call' = [call EXCEPT ![t].pc = "serve", ![t].fresh = @ \/ InGrace]
  /\ UNCHANGED <<init, sync, world>>

\* the entry does its work and returns
Serve(t) ==
  /\ At(t, "serve")
  /\ Return(t)
  /\ UNCHANGED <<init, sync, world>>

(* ---------------------------- specification ---------------------------- *)
Step(t) ==
  \/ Ready(t) \/ Claim(t) \/ Join(t) \/ Wake(t)
  \/ Schema(t) \/ SchemaFails(t) \/ Publish(t) \/ Release(t) \/ Signal(t)
  \/ Lock(t) \/ Complete(t) \/ Disconnected(t) \/ Raise(t)
  \/ WithoutTransport(t) \/ RefuseCatchingUp(t) \/ NotCatchingUp(t) \/ TestNormal(t)
  \/ TestGrace(t) \/ AfterAttempt(t) \/ Reattempt(t) \/ Verdict(t) \/ Serve(t)

Next ==
  \/ Tick \/ LinkFails \/ LinkHeals
  \/ \E t \in Thread : Step(t) \/ \E read \in BOOLEAN : Call(t, read)

Spec == Init /\ [][Next]_vars

\* threads run, the lock is fair and the transport's timeouts bound every pull
Fairness == \A t \in Thread : WF_vars(Step(t)) /\ SF_vars(Lock(t))

LiveSpec == Spec /\ Fairness

(* ----------------------------- properties ----------------------------- *)
Pcs == {"idle", "ensure", "wait", "schema", "lock", "pull", "publish", "release", "signal",
        "serve"} \cup Gate

\* The state keeps its shape, and the sync lock is held exactly during a pull.
TypeOK ==
  /\ {transport, initialized, initializing, done, verdict, failed, link, wedged} \subseteq BOOLEAN
  /\ state \in {"normal", "catching_up", "offline_grace", "expired"}
  /\ age \in 0 .. Stale /\ outages \in 0 .. MaxOutages /\ errors \in 0 .. MaxErrors
  /\ \A t \in Thread : call[t].pc \in Pcs /\ (lock = t <=> At(t, "pull"))

\* No entry gets as far as the gate before the first round whose startup catch-up
\* reached a verdict, whichever thread ran it (api.py:257-262, 308-313).
NoServiceBeforeVerdict ==
  \A t \in Thread :
    (call[t].pc \in Gate \cup {"serve"} \/ call[t].back \in {"g4", "g6"}) => verdict

\* One thread at a time runs the initialization, although the flag that says so is
\* cleared without the lock (api.py:279-305).
OneInitializer ==
  \A t, u \in Thread :
    LET Inside(v) == call[v].pc \in {"schema", "publish"} \/ call[v].back = "publish"
    IN Inside(t) /\ Inside(u) => t = u

\* A read is served on a grace that has run out only if another thread's catch-up
\* began while it was in the gate (api.py:1870-1916).
StaleOnlyWhenCrossed ==
  \A t \in Thread :
    At(t, "serve") /\ call[t].read => call[t].fresh \/ call[t].crossed

\* The state says catching_up only while a catch-up runs or after one that raised, so
\* entries are not refused for a catch-up nobody makes (api.py:1736-1743).
CatchingUpIsTrue == state = "catching_up" => lock # Nobody \/ wedged

\* Every call is answered: a thread that joined another's initialization is woken by
\* each verdict, a failed one included (api.py:262-272).
EveryCallReturns == \A t \in Thread : ~ At(t, "idle") ~> At(t, "idle")

\* A link that works again restores service without a restart: with callers that keep
\* calling, the channel returns to normal (api.py:1871-1881).
HealsWithoutRestart ==
  (<>[](transport /\ link /\ ~ wedged) /\ []<>(\E t \in Thread : At(t, "g1")))
    => []<>(state = "normal" /\ InGrace)

\* Reads are refused when the offline grace has expired (api.py:1871-1874).
ReadsAreFresh ==
  \A t \in Thread : At(t, "serve") /\ call[t].read => call[t].fresh
==============================================================================
