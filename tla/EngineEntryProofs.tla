-------------------------- MODULE EngineEntryProofs --------------------------
(***************************************************************************)
(* Theorems about EngineEntry, for every set of threads, grace and number   *)
(* of outages and errors.  Inv is the inductive invariant: it says of each  *)
(* thread what its place in the code and the shared flags have to do with   *)
(* each other, and of any two threads that only one initializes.            *)
(*                                                                         *)
(* The second half of the module is about TombstoneSync: what the catch-up  *)
(* of that entry pulls.                                                     *)
(***************************************************************************)
EXTENDS EngineEntry, TombstoneSync, WellFoundedInduction, TLAPS

Places == [pc : Pcs, read : BOOLEAN, back : {"", "publish", "g1", "g4", "g6", "raise"},
           fresh : BOOLEAN, crossed : BOOLEAN]

\* The types, with the shape of the calls.
Types ==
  /\ transport \in BOOLEAN /\ initialized \in BOOLEAN /\ initializing \in BOOLEAN
  /\ done \in BOOLEAN /\ verdict \in BOOLEAN /\ failed \in BOOLEAN
  /\ link \in BOOLEAN /\ wedged \in BOOLEAN
  /\ state \in {"normal", "catching_up", "offline_grace", "expired"}
  /\ lock \in Thread \cup {Nobody}
  /\ age \in 0 .. Stale /\ outages \in 0 .. MaxOutages /\ errors \in 0 .. MaxErrors
  /\ call \in [Thread -> Places]

\* A thread knows where it goes back to exactly while it catches up or ends a round.
BackFits(c) ==
  /\ c.back \in {"publish", "g4", "g6"} <=> c.pc \in {"lock", "pull"}
  /\ c.back \in {"g1", "raise"} <=> c.pc \in {"release", "signal"}

\* The thread holds the claim on the initialization.
Claims(c) == c.pc \in {"schema", "publish", "release"} \/ c.back = "publish"

\* The thread is past the initialization.
Past(c) == c.pc \in Gate \cup {"serve"} \/ c.back \in {"g1", "g4", "g6"}

\* What a thread that saw neither a fresh state nor another's catch-up has met.
Met(c) ==
  ~c.fresh /\ ~c.crossed =>
    /\ c.pc = "g2" => state # "catching_up"
    /\ c.pc \in {"g4", "g6"} => state = "expired"
    /\ c.pc = "g5" => state \in {"offline_grace", "expired"}
    /\ c.pc = "serve" => ~c.read

Local(t) ==
  /\ BackFits(call[t])
  /\ lock = t <=> At(t, "pull")
  /\ Claims(call[t]) => initializing
  /\ Past(call[t]) => verdict
  /\ Met(call[t])
  /\ lock # Nobody /\ call[t].pc \in Gate \ {"g1"} => call[t].crossed

Flags ==
  /\ initialized => verdict
  /\ state \in {"offline_grace", "expired"} => failed
  /\ lock # Nobody => state = "catching_up"
  /\ state = "catching_up" => lock # Nobody \/ wedged

OneClaim == \A t, u \in Thread : Claims(call[t]) /\ Claims(call[u]) => t = u

Inv == Types /\ Flags /\ (\A t \in Thread : Local(t)) /\ OneClaim

-----------------------------------------------------------------------------
\* Nobody calls and nobody holds anything at the start.
LEMMA InitInv == Init => Inv
<1> SUFFICES ASSUME Init PROVE Inv
  OBVIOUS
<1>1. Types
  <2>1. age \in 0 .. Stale /\ {outages, errors} \subseteq Nat /\ outages = 0 /\ errors = 0
    BY GraceAssumption DEF Init, Stale
  <2>2. call \in [Thread -> Places]
    BY DEF Init, Idle, Places, Pcs
  <2>3. outages \in 0 .. MaxOutages /\ errors \in 0 .. MaxErrors
    BY <2>1, BoundAssumption
  <2>4. /\ transport \in BOOLEAN /\ initialized \in BOOLEAN /\ initializing \in BOOLEAN
        /\ done \in BOOLEAN /\ verdict \in BOOLEAN /\ failed \in BOOLEAN
        /\ link \in BOOLEAN /\ wedged \in BOOLEAN
    BY BoundAssumption, Zenon DEF Init
  <2>5. state = "normal" /\ lock = Nobody
    BY DEF Init
  <2> QED
    BY <2>1, <2>2, <2>3, <2>4, <2>5 DEF Types
<1>2. Flags /\ OneClaim
  BY ThreadAssumption DEF Init, Flags, OneClaim, Claims, Idle
<1>3. \A t \in Thread : Local(t)
  BY ThreadAssumption DEF Init, Local, BackFits, Claims, Past, Met, Idle, At, Gate, Nobody
<1> QED
  BY <1>1, <1>2, <1>3 DEF Inv

\* The shared state an action leaves alone and the calls it changes: enough when
\* a step moves one thread only.
Quiet == UNCHANGED <<init, sync, world>>

\* Thread t moves to c, a place that suits the shared state, and claims nothing new.
LEMMA MoveInv ==
  ASSUME Inv, NEW t \in Thread, NEW c \in Places, call' = [call EXCEPT ![t] = c],
         Quiet, lock # t, c.pc # "pull",
         BackFits(c), Claims(c) => Claims(call[t]), Past(c) => verdict, Met(c),
         lock # Nobody /\ c.pc \in Gate \ {"g1"} => c.crossed
  PROVE  Inv'
<1>1. Types' /\ Flags'
  BY DEF Inv, Types, Flags, Quiet, init, sync, world
<1>2. call'[t] = c /\ \A u \in Thread : u # t => call'[u] = call[u]
  BY DEF Inv, Types
<1>3. Local(t)'
  BY <1>2 DEF Inv, Local, BackFits, Claims, Past, Met, At, Quiet, init, sync, world
<1>4. \A u \in Thread : u # t => Local(u)'
  BY <1>2 DEF Inv, Local, BackFits, Claims, Past, Met, At, Quiet, init, sync, world
<1>5. OneClaim'
  BY <1>2 DEF Inv, OneClaim, Claims
<1> QED
  BY <1>1, <1>3, <1>4, <1>5 DEF Inv

LEMMA EnvironmentInv ==
  ASSUME Inv, Tick \/ LinkFails \/ LinkHeals
  PROVE  Inv'
<1>1. /\ UNCHANGED <<transport, initialized, initializing, done, verdict, state, failed,
                     lock, errors, wedged, call>>
      /\ age' \in 0 .. Stale /\ link' \in BOOLEAN /\ outages' \in 0 .. MaxOutages
  <2>1. CASE Tick
    BY <2>1, GraceAssumption DEF Inv, Types, Stale, Tick, init, world
  <2>2. CASE LinkFails
    <3>1. outages' \in 0 .. MaxOutages
      BY <2>2, BoundAssumption DEF Inv, Types, LinkFails
    <3>2. link' \in BOOLEAN
      BY <2>2 DEF LinkFails
    <3> QED
      BY <2>2, <3>1, <3>2 DEF Inv, Types, LinkFails, init, sync
  <2>3. CASE LinkHeals
    BY <2>3 DEF Inv, Types, LinkHeals, init, sync
  <2> QED
    BY <2>1, <2>2, <2>3
<1>2. Types' /\ Flags'
  BY <1>1 DEF Inv, Types, Flags
<1>3. (\A t \in Thread : Local(t)') /\ OneClaim'
  BY <1>1 DEF Inv, Local, BackFits, Claims, Past, Met, OneClaim, At
<1> QED
  BY <1>2, <1>3 DEF Inv

\* The steps that only move their thread.
LEMMA PassageInv ==
  ASSUME Inv, NEW t \in Thread,
         \/ \E read \in BOOLEAN : Call(t, read)
         \/ Ready(t) \/ Join(t) \/ Wake(t)
         \/ WithoutTransport(t) \/ RefuseCatchingUp(t) \/ NotCatchingUp(t) \/ TestNormal(t)
         \/ TestGrace(t) \/ AfterAttempt(t) \/ Reattempt(t) \/ Verdict(t) \/ Serve(t)
  PROVE  Inv'
<1>0. /\ call[t] \in Places /\ Local(t) /\ Flags /\ call \in [Thread -> Places]
      /\ lock # t /\ InGrace \in BOOLEAN
  BY DEF InGrace, Inv, Types, Local, At, Call, Ready, Join, Wake, WithoutTransport,
     RefuseCatchingUp,
     NotCatchingUp, TestNormal, TestGrace, AfterAttempt, Reattempt, Verdict, Serve
<1> DEFINE Good(c) == /\ c \in Places /\ call' = [call EXCEPT ![t] = c]
                      /\ c.pc # "pull" /\ BackFits(c) /\ (Claims(c) => Claims(call[t]))
                      /\ (Past(c) => verdict) /\ Met(c)
                      /\ (lock # Nobody /\ c.pc \in Gate \ {"g1"} => c.crossed)
<1>1. Quiet
  BY DEF Quiet, Call, Ready, Join, Wake, WithoutTransport, RefuseCatchingUp,
     NotCatchingUp, TestNormal, TestGrace, AfterAttempt, Reattempt, Verdict, Serve
<1>2. Idle \in Places /\ (call' = [call EXCEPT ![t] = Idle] => Good(Idle))
  BY DEF Idle, Places, Pcs, Gate, BackFits, Claims, Past, Met
<1>3. ASSUME NEW read \in BOOLEAN, Call(t, read) PROVE \E c : Good(c)
  <2> DEFINE c == [call[t] EXCEPT !.pc = "ensure", !.read = read]
  <2>1. Good(c)
    BY <1>0, <1>3 DEF Call, At, Places, Pcs, Gate, Local, BackFits, Claims, Past, Met
  <2> QED
    BY <2>1
<1>4. CASE Ready(t)
  <2> DEFINE c == [call[t] EXCEPT !.pc = "g1"]
  <2>1. Good(c)
    BY <1>0, <1>4 DEF Ready, Goto, At, Places, Pcs, Gate, Local, Flags, BackFits, Claims,
       Past, Met
  <2> QED
    BY <1>0, <1>1, <2>1, MoveInv
<1>5. CASE Join(t) \/ Wake(t)
  <2> DEFINE c == [call[t] EXCEPT !.pc = IF Join(t) THEN "wait" ELSE "ensure"]
  <2>1. Good(c)
    BY <1>0, <1>5 DEF Join, Wake, Goto, At, Places, Pcs, Gate, Local, BackFits, Claims, Past,
       Met
  <2> QED
    BY <1>0, <1>1, <2>1, MoveInv
<1>6. CASE WithoutTransport(t)
  <2> DEFINE c == [call[t] EXCEPT !.pc = "serve", !.fresh = InGrace]
  <2>1. CASE call[t].read /\ ~InGrace
    BY <1>0, <1>1, <1>2, <1>6, <2>1, MoveInv DEF WithoutTransport, Return
  <2>2. CASE ~(call[t].read /\ ~InGrace)
    <3>1. /\ call' = [call EXCEPT ![t] = c] /\ call[t].pc = "g1"
          /\ c.pc = "serve" /\ c.read = call[t].read /\ c.back = call[t].back
          /\ c.fresh = InGrace /\ c \in Places
      BY <1>0, <1>6, <2>2 DEF WithoutTransport, At, Places, Pcs
    <3>2. Good(c)
      BY <1>0, <2>2, <3>1 DEF Local, BackFits, Claims, Past, Met, Gate
    <3> QED
      BY <1>0, <1>1, <3>2, MoveInv
  <2> QED
    BY <2>1, <2>2
<1>7. CASE RefuseCatchingUp(t) \/ Serve(t)
  BY <1>0, <1>1, <1>2, <1>7, MoveInv DEF RefuseCatchingUp, Serve, Return
<1>8. CASE NotCatchingUp(t)
  <2> DEFINE c == [call[t] EXCEPT !.pc = "g2"]
  <2>1. Good(c)
    BY <1>0, <1>8 DEF NotCatchingUp, Goto, At, Places, Pcs, Gate, Local, Flags, BackFits,
       Claims, Past, Met
  <2> QED
    BY <1>0, <1>1, <2>1, MoveInv
<1>9. CASE TestNormal(t)
  <2> DEFINE c == [call[t] EXCEPT !.pc = IF state = "normal" THEN "g3" ELSE "g5"]
  <2>1. state \in {"normal", "catching_up", "offline_grace", "expired"}
    BY DEF Inv, Types
  <2>2. Good(c)
    BY <1>0, <1>9, <2>1 DEF TestNormal, Goto, At, Places, Pcs, Gate, Local, BackFits,
       Claims, Past, Met
  <2> QED
    BY <1>0, <1>1, <2>2, MoveInv
<1>10. CASE TestGrace(t)
  <2> DEFINE c == IF ClockAllows THEN [call[t] EXCEPT !.pc = "g5", !.fresh = InGrace]
                  ELSE [call[t] EXCEPT !.pc = "lock", !.back = "g4"]
  <2>1. Good(c)
    BY <1>0, <1>10 DEF TestGrace, At, Places, Pcs, Gate, Local, BackFits, Claims, Past, Met,
       ClockAllows, InGrace
  <2> QED
    BY <1>0, <1>1, <2>1, MoveInv
<1>11. CASE AfterAttempt(t)
  <2> DEFINE c == [call[t] EXCEPT !.pc = IF state = "normal" THEN "g5" ELSE "serve"]
  <2>1. Good(Idle) \/ Good(c)
    BY <1>0, <1>2, <1>11 DEF AfterAttempt, Goto, Return, At, Places, Pcs, Gate, Local, BackFits,
       Claims, Past, Met
  <2> QED
    BY <1>0, <1>1, <2>1, MoveInv
<1>12. CASE Reattempt(t)
  <2> DEFINE c == IF Retries THEN [call[t] EXCEPT !.pc = "lock", !.back = "g6"]
                  ELSE [call[t] EXCEPT !.pc = "g6"]
  <2>1. Good(c)
    BY <1>0, <1>12 DEF Reattempt, Retries, At, Places, Pcs, Gate, Local, Flags, BackFits,
       Claims, Past, Met
  <2> QED
    BY <1>0, <1>1, <2>1, MoveInv
<1>13. CASE Verdict(t)
  <2> DEFINE c == [call[t] EXCEPT !.pc = "serve", !.fresh = @ \/ InGrace]
  <2>1. Good(Idle) \/ Good(c)
    BY <1>0, <1>2, <1>13 DEF Verdict, LastTest, Return, At, Places, Pcs, Gate, Local, BackFits,
       Claims, Past, Met, InGrace
  <2> QED
    BY <1>0, <1>1, <2>1, MoveInv
<1> QED
  BY <1>0, <1>1, <1>3, <1>4, <1>5, <1>6, <1>7, <1>8, <1>9, <1>10, <1>11, <1>12, <1>13, MoveInv

\* Thread t is the only one that moves, to c; what the others need of the shared
\* state is asked for one by one.
LEMMA StepInv ==
  ASSUME Inv, Types', Flags', NEW t \in Thread, NEW c \in Places,
         call' = [call EXCEPT ![t] = c], Local(t)',
         Claims(c) => \A u \in Thread \ {t} : ~Claims(call[u]),
         initializing' = initializing
           \/ (initializing' = FALSE /\ \A u \in Thread \ {t} : ~Claims(call[u]))
           \/ initializing' = TRUE,
         verdict => verdict',
         \A u \in Thread \ {t} : (lock = u) <=> (lock' = u),
         state' = state \/ \A u \in Thread \ {t} : call[u].pc \in Gate \ {"g1"} => call[u].crossed,
         lock' # Nobody => lock # Nobody
  PROVE  Inv'
<1>1. call'[t] = c /\ \A u \in Thread : u # t => call'[u] = call[u]
  BY DEF Inv, Types
<1>2. \A u \in Thread : u # t => Local(u)'
  <2> SUFFICES ASSUME NEW u \in Thread, u # t PROVE Local(u)'
    OBVIOUS
  <2>1. Local(u) /\ call'[u] = call[u]
    BY <1>1 DEF Inv
  <2>2. (lock' = u) <=> At(u, "pull")'
    BY <2>1 DEF Local, At
  <2>3. Met(call[u])'
    BY <2>1 DEF Local, Met, Gate, Past
  <2>4. BackFits(call[u])' /\ (Claims(call[u])' => initializing') /\ (Past(call[u])' => verdict')
    BY <2>1 DEF Local, BackFits, Claims, Past
  <2>5. lock' # Nobody /\ call'[u].pc \in Gate \ {"g1"} => call'[u].crossed
    BY <2>1 DEF Local
  <2> QED
    BY <2>2, <2>3, <2>4, <2>5 DEF Local
<1>3. OneClaim'
  BY <1>1 DEF Inv, OneClaim, Claims
<1> QED
  BY <1>1, <1>2, <1>3 DEF Inv

\* A thread that claims excludes the others.
LEMMA ClaimExcludes ==
  ASSUME Inv, NEW t \in Thread, Claims(call[t])
  PROVE  /\ \A u \in Thread \ {t} : ~Claims(call[u])
         /\ initializing
BY DEF Inv, OneClaim, Local

LEMMA ClaimInv ==
  ASSUME Inv, NEW t \in Thread, Claim(t)
  PROVE  Inv'
<1> DEFINE c == [call[t] EXCEPT !.pc = "schema"]
<1>1. /\ call[t] \in Places /\ Local(t) /\ Types /\ Flags /\ call[t].pc = "ensure"
      /\ lock # t
  BY DEF Inv, Types, Local, At, Claim
<1>2. /\ c \in Places /\ call' = [call EXCEPT ![t] = c] /\ call'[t] = c
      /\ c.pc = "schema" /\ c.back = call[t].back
      /\ c.fresh = call[t].fresh /\ c.crossed = call[t].crossed
  BY <1>1 DEF Claim, Goto, Places, Pcs, Types
<1>3. /\ initializing' = TRUE /\ done' = FALSE
      /\ UNCHANGED <<initialized, verdict, state, failed, lock, age, wedged, transport,
                     link, outages, errors>>
  BY DEF Claim, sync, world
<1>4. Types' /\ Flags'
  BY <1>1, <1>2, <1>3 DEF Types, Flags
<1>5. \A u \in Thread \ {t} : ~Claims(call[u])
  BY DEF Claim, MayClaim, Inv, Local
<1> HIDE DEF c
<1>6. Local(t)'
  BY <1>1, <1>2, <1>3 DEF Local, BackFits, Claims, Past, Met, At, Gate
<1> QED
  BY <1>2, <1>3, <1>4, <1>5, <1>6, StepInv

\* The steps of the round's owner.
LEMMA RoundInv ==
  ASSUME Inv, NEW t \in Thread,
         Schema(t) \/ SchemaFails(t) \/ Publish(t) \/ Release(t) \/ Signal(t)
  PROVE  Inv'
<1> DEFINE ex == \A u \in Thread \ {t} : ~Claims(call[u])
<1>1. /\ call[t] \in Places /\ Local(t) /\ Types /\ Flags /\ lock # t
      /\ (Claims(call[t]) => ex /\ initializing)
  BY ClaimExcludes DEF Inv, Types, Local, At, Schema, SchemaFails, Publish, Release, Signal
<1>2. CASE Schema(t)
  <2> DEFINE c == IF transport THEN [call[t] EXCEPT !.pc = "lock", !.back = "publish"]
                  ELSE [call[t] EXCEPT !.pc = "publish"]
  <2>1. /\ c \in Places /\ call' = [call EXCEPT ![t] = c] /\ call'[t] = c
        /\ c.pc \in {"lock", "publish"} /\ (c.pc = "lock" => c.back = "publish")
        /\ (c.pc = "publish" => c.back = call[t].back) /\ call[t].pc = "schema"
    BY <1>1, <1>2 DEF Schema, Goto, At, Places, Pcs, Types
  <2>2. /\ initialized' = FALSE
        /\ UNCHANGED <<initializing, done, verdict, state, failed, lock, age, wedged,
                       transport, link, outages, errors>>
    BY <1>2 DEF Schema, PublishedAt, sync, world
  <2> HIDE DEF c
  <2>3. Types' /\ Flags'
    BY <1>1, <2>1, <2>2 DEF Types, Flags
  <2>4. ex /\ initializing
    BY <1>1, <2>1 DEF Claims
  <2>5. Local(t)'
    BY <1>1, <2>1, <2>2, <2>4 DEF Local, BackFits, Claims, Past, Met, At, Gate
  <2> QED
    BY <2>1, <2>2, <2>3, <2>4, <2>5, StepInv
<1>3. CASE SchemaFails(t)
  <2> DEFINE c == [call[t] EXCEPT !.pc = "release", !.back = "raise"]
  <2>1. /\ c \in Places /\ call' = [call EXCEPT ![t] = c] /\ call'[t] = c
        /\ c.pc = "release" /\ c.back = "raise" /\ call[t].pc = "schema"
    BY <1>1, <1>3 DEF SchemaFails, At, Places, Pcs, Types
  <2>2. /\ errors' \in 0 .. MaxErrors
        /\ UNCHANGED <<initialized, initializing, done, verdict, state, failed, lock, age, wedged,
                       transport, link, outages>>
    BY <1>1, <1>3, BoundAssumption DEF SchemaFails, Types, init, sync
  <2> HIDE DEF c
  <2>3. Types' /\ Flags'
    BY <1>1, <2>1, <2>2 DEF Types, Flags
  <2>4. ex /\ initializing
    BY <1>1, <2>1 DEF Claims
  <2>5. Local(t)'
    BY <1>1, <2>1, <2>2, <2>4 DEF Local, BackFits, Claims, Past, Met, At, Gate
  <2> QED
    BY <2>1, <2>2, <2>3, <2>4, <2>5, StepInv
<1>4. CASE Publish(t)
  <2> DEFINE c == [call[t] EXCEPT !.pc = "release", !.back = "g1"]
  <2>1. /\ c \in Places /\ call' = [call EXCEPT ![t] = c] /\ call'[t] = c
        /\ c.pc = "release" /\ c.back = "g1" /\ call[t].pc = "publish"
    BY <1>1, <1>4 DEF Publish, At, Places, Pcs, Types
  <2>2. /\ initialized' = TRUE /\ verdict' = TRUE
        /\ UNCHANGED <<initializing, done, state, failed, lock, age, wedged,
                       transport, link, outages, errors>>
    BY <1>4 DEF Publish, PublishedAt, sync, world
  <2> HIDE DEF c
  <2>3. Types' /\ Flags'
    BY <1>1, <2>1, <2>2 DEF Types, Flags
  <2>4. ex /\ initializing
    BY <1>1, <2>1 DEF Claims
  <2>5. Local(t)'
    BY <1>1, <2>1, <2>2, <2>4 DEF Local, BackFits, Claims, Past, Met, At, Gate
  <2> QED
    BY <2>1, <2>2, <2>3, <2>4, <2>5, StepInv
<1>5. CASE Release(t)
  <2> DEFINE c == [call[t] EXCEPT !.pc = "signal"]
  <2>1. /\ c \in Places /\ call' = [call EXCEPT ![t] = c] /\ call'[t] = c
        /\ c.pc = "signal" /\ c.back = call[t].back /\ call[t].pc = "release"
    BY <1>1, <1>5 DEF Release, Goto, At, Places, Pcs, Types
  <2>2. /\ initializing' = FALSE
        /\ UNCHANGED <<initialized, done, verdict, state, failed, lock, age, wedged,
                       transport, link, outages, errors>>
    BY <1>5 DEF Release, sync, world
  <2> HIDE DEF c
  <2>3. Types' /\ Flags'
    BY <1>1, <2>1, <2>2 DEF Types, Flags
  <2>4. ex /\ ~Claims(c)
    BY <1>1, <2>1 DEF Claims, Local, BackFits
  <2>5. Local(t)'
    BY <1>1, <2>1, <2>2, <2>4 DEF Local, BackFits, Claims, Past, Met, At, Gate
  <2> QED
    BY <2>1, <2>2, <2>3, <2>4, <2>5, StepInv
<1>6. CASE Signal(t)
  <2> DEFINE c == IF call[t].back = "g1" THEN [call[t] EXCEPT !.pc = "g1", !.back = ""]
                  ELSE Idle
  <2>1. /\ c \in Places /\ call' = [call EXCEPT ![t] = c] /\ call'[t] = c
        /\ c.pc \in {"g1", "idle"} /\ c.back = "" /\ call[t].pc = "signal"
        /\ (c.pc = "g1" => call[t].back = "g1")
    BY <1>1, <1>6 DEF Signal, Return, Idle, At, Places, Pcs, Gate, Types
  <2>2. /\ done' \in BOOLEAN
        /\ UNCHANGED <<initialized, initializing, verdict, state, failed, lock, age, wedged,
                       transport, link, outages, errors>>
    BY <1>6 DEF Signal, Signals, sync, world
  <2> HIDE DEF c
  <2>3. Types' /\ Flags'
    BY <1>1, <2>1, <2>2 DEF Types, Flags
  <2>4. ~Claims(c)
    BY <2>1 DEF Claims
  <2>5. Local(t)'
    BY <1>1, <2>1, <2>2, <2>4 DEF Local, BackFits, Claims, Past, Met, At, Gate
  <2> QED
    BY <2>1, <2>2, <2>3, <2>4, <2>5, StepInv
<1> QED
  BY <1>2, <1>3, <1>4, <1>5, <1>6

\* The catch-up begins: whoever is in the gate has been crossed by it.
LEMMA LockInv ==
  ASSUME Inv, NEW t \in Thread, Lock(t)
  PROVE  Inv'
<1> DEFINE moved(u) ==
      IF u = t THEN [call[u] EXCEPT !.pc = "pull"]
      ELSE IF call[u].pc \in Gate THEN [call[u] EXCEPT !.crossed = TRUE] ELSE call[u]
<1>1. /\ Types /\ Flags /\ OneClaim /\ (\A u \in Thread : Local(u) /\ call[u] \in Places)
      /\ call[t].pc = "lock" /\ lock = Nobody /\ lock' = t /\ state' = "catching_up"
      /\ t # Nobody
  BY ThreadAssumption DEF Inv, Types, Lock, At, Nobody
<1>2. \A u \in Thread : call'[u] = moved(u)
  BY DEF Lock
<1>3. UNCHANGED <<transport, initialized, initializing, done, verdict, failed, age, wedged,
                  link, outages, errors>>
  BY DEF Lock, init, world
<1>4. \A u \in Thread :
        /\ moved(u) \in Places /\ moved(u).back = call[u].back /\ moved(u).fresh = call[u].fresh
        /\ moved(u).read = call[u].read
        /\ moved(u).pc = IF u = t THEN "pull" ELSE call[u].pc
        /\ u # t /\ call[u].pc \in Gate => moved(u).crossed
        /\ u # t /\ call[u].pc \notin Gate => moved(u).crossed = call[u].crossed
  BY <1>1 DEF Places, Pcs
<1>5. call' \in [Thread -> Places]
  BY <1>2, <1>4 DEF Lock
<1>6. Types' /\ Flags'
  BY <1>1, <1>3, <1>5 DEF Types, Flags
<1> HIDE DEF moved
<1>7. ASSUME NEW u \in Thread PROVE Local(u)'
  <2>1. Local(u)
    BY <1>1
  <2>2. BackFits(call[u])' /\ (Claims(call[u])' => initializing') /\ (Past(call[u])' => verdict')
    BY <1>1, <1>2, <1>3, <1>4, <2>1 DEF Local, BackFits, Claims, Past, Gate
  <2>3. lock' = u <=> At(u, "pull")'
    <3>1. u # Nobody /\ lock = Nobody /\ lock' = t
      BY ThreadAssumption DEF Lock, Nobody
    <3>2. call[u].pc # "pull"
      BY <2>1, <3>1 DEF Local, At
    <3>3. call'[u].pc = IF u = t THEN "pull" ELSE call[u].pc
      BY <1>2, <1>4
    <3> QED
      BY <3>1, <3>2, <3>3 DEF At
  <2>4. Met(call[u])'
    BY <1>1, <1>2, <1>4, <2>1 DEF Local, Met, Gate
  <2>5. call'[u].pc \in Gate \ {"g1"} => call'[u].crossed
    BY <1>2, <1>4 DEF Gate
  <2> QED
    BY <2>2, <2>3, <2>4, <2>5 DEF Local
<1>8. OneClaim'
  BY <1>1, <1>2, <1>4 DEF OneClaim, Claims
<1> QED
  BY <1>6, <1>7, <1>8 DEF Inv

\* While a catch-up runs the others in the gate are crossed, so its verdict
\* concerns its own thread only.
LEMMA VerdictInv ==
  ASSUME Inv, NEW t \in Thread, Complete(t) \/ Disconnected(t) \/ Raise(t)
  PROVE  Inv'
<1>1. /\ call[t] \in Places /\ Local(t) /\ Types /\ Flags /\ call[t].pc = "pull"
      /\ lock = t /\ t # Nobody /\ state = "catching_up" /\ InGrace \in BOOLEAN
      /\ \A u \in Thread \ {t} : call[u].pc \in Gate \ {"g1"} => call[u].crossed
  <2>1. call[t] \in Places /\ Local(t) /\ Types /\ Flags
    BY DEF Inv, Types
  <2>2. call[t].pc = "pull"
    BY DEF At, Complete, Disconnected, Raise
  <2>3. lock = t
    BY <2>1, <2>2 DEF Local, At
  <2>4. t # Nobody
    BY ThreadAssumption DEF Nobody
  <2>5. state = "catching_up"
    BY <2>1, <2>3, <2>4 DEF Flags
  <2>6. InGrace \in BOOLEAN
    BY DEF InGrace
  <2>7. \A u \in Thread \ {t} : call[u].pc \in Gate \ {"g1"} => call[u].crossed
    BY <2>3, <2>4 DEF Inv, Local
  <2> QED
    BY <2>1, <2>2, <2>3, <2>4, <2>5, <2>6, <2>7
<1>2. lock' = Nobody
  BY DEF Complete, Disconnected, Raise, LockAfter
<1>3. \A u \in Thread \ {t} : (lock = u) <=> (lock' = u)
  BY <1>1, <1>2, ThreadAssumption DEF Nobody
<1>4. call[t].back \in {"publish", "g4", "g6"}
  BY <1>1 DEF Local, BackFits
<1>5. CASE Complete(t)
  <2> DEFINE c == [call[t] EXCEPT !.pc = call[t].back, !.back = "", !.fresh = TRUE]
  <2>1. /\ c \in Places /\ call' = [call EXCEPT ![t] = c] /\ call'[t] = c
        /\ c.pc = call[t].back /\ c.back = "" /\ c.fresh = TRUE
    BY <1>1, <1>4, <1>5 DEF Complete, Places, Pcs, Gate, Types
  <2>2. /\ age' = 0 /\ state' = "normal" /\ failed' = FALSE
        /\ UNCHANGED <<transport, initialized, initializing, done, verdict, wedged, link,
                       outages, errors>>
    BY <1>5 DEF Complete, init, world
  <2> HIDE DEF c
  <2>3. Types' /\ Flags'
    <3>1. age' \in 0 .. Stale
      BY <2>2, GraceAssumption DEF Stale
    <3>2. failed' \in BOOLEAN /\ state' \in {"normal", "catching_up", "offline_grace", "expired"}
          /\ call' \in [Thread -> Places]
      BY <1>1, <2>1, <2>2 DEF Types
    <3>3. Flags'
      BY <1>1, <1>2, <2>2 DEF Flags
    <3> QED
      BY <1>1, <1>2, <2>2, <3>1, <3>2, <3>3 DEF Types
  <2>4. /\ Claims(c) => Claims(call[t])
        /\ Claims(c) => \A u \in Thread \ {t} : ~Claims(call[u])
    BY <1>4, <2>1, ClaimExcludes DEF Claims
  <2>5. Local(t)'
    BY <1>1, <1>2, <1>4, <2>1, <2>2, <2>4 DEF Local, BackFits, Claims, Past, Met, At, Gate
  <2> QED
    BY <1>1, <1>2, <1>3, <2>1, <2>2, <2>3, <2>4, <2>5, StepInv
<1>6. CASE Disconnected(t)
  <2> DEFINE c == [call[t] EXCEPT !.pc = call[t].back, !.back = "", !.fresh = InGrace]
  <2>1. /\ c \in Places /\ call' = [call EXCEPT ![t] = c] /\ call'[t] = c
        /\ c.pc = call[t].back /\ c.back = "" /\ c.fresh = InGrace
    BY <1>1, <1>4, <1>6 DEF Disconnected, Places, Pcs, Gate, Types
  <2>2. /\ state' = (IF InGrace THEN "offline_grace" ELSE "expired") /\ failed' = TRUE
        /\ UNCHANGED <<transport, initialized, initializing, done, verdict, age, wedged, link,
                       outages, errors>>
    BY <1>6 DEF Disconnected, GraceState, init, world
  <2> HIDE DEF c
  <2>3. Types' /\ Flags'
    BY <1>1, <1>2, <2>1, <2>2 DEF Types, Flags
  <2>4. /\ Claims(c) => Claims(call[t])
        /\ Claims(c) => \A u \in Thread \ {t} : ~Claims(call[u])
    BY <1>4, <2>1, ClaimExcludes DEF Claims
  <2>5. Local(t)'
    BY <1>1, <1>2, <1>4, <2>1, <2>2, <2>4 DEF Local, BackFits, Claims, Past, Met, At, Gate
  <2> QED
    BY <1>1, <1>2, <1>3, <2>1, <2>2, <2>3, <2>4, <2>5, StepInv
<1>7. CASE Raise(t)
  <2> DEFINE c == IF call[t].back = "publish" THEN [call[t] EXCEPT !.pc = "release", !.back = "raise"]
                  ELSE Idle
  <2>1. /\ c \in Places /\ call' = [call EXCEPT ![t] = c] /\ call'[t] = c
        /\ \/ c.pc = "release" /\ c.back = "raise" /\ call[t].back = "publish"
           \/ c.pc = "idle" /\ c.back = ""
    BY <1>1, <1>7 DEF Raise, Return, Idle, Places, Pcs, Types
  <2>2. /\ wedged' = TRUE /\ errors' \in 0 .. MaxErrors
        /\ UNCHANGED <<transport, initialized, initializing, done, verdict, state, failed, age,
                       link, outages>>
    BY <1>1, <1>7, BoundAssumption DEF Raise, Types, init
  <2> HIDE DEF c
  <2>3. Types' /\ Flags'
    BY <1>1, <1>2, <2>1, <2>2 DEF Types, Flags
  <2>4. /\ Claims(c) => Claims(call[t])
        /\ Claims(c) => \A u \in Thread \ {t} : ~Claims(call[u])
    BY <2>1, ClaimExcludes DEF Claims
  <2>5. Local(t)'
    BY <1>1, <1>2, <1>4, <2>1, <2>2, <2>4 DEF Local, BackFits, Claims, Past, Met, At, Gate
  <2> QED
    BY <1>1, <1>2, <1>3, <2>1, <2>2, <2>3, <2>4, <2>5, StepInv
<1> QED
  BY <1>5, <1>6, <1>7

-----------------------------------------------------------------------------
\* Inv is inductive.
LEMMA NextInv == ASSUME Inv, [Next]_vars PROVE Inv'
<1>1. CASE UNCHANGED vars
  BY <1>1 DEF vars, Inv, Types, Flags, Local, OneClaim, BackFits, Claims, Past, Met, At
<1>2. ASSUME NEW t \in Thread, Step(t) PROVE Inv'
  BY <1>2, PassageInv, ClaimInv, RoundInv, LockInv, VerdictInv DEF Step
<1>3. ASSUME NEW t \in Thread, NEW read \in BOOLEAN, Call(t, read) PROVE Inv'
  BY <1>3, PassageInv
<1>4. CASE Next
  BY <1>2, <1>3, <1>4, EnvironmentInv DEF Next
<1> QED
  BY <1>1, <1>4

\* What each thread knows at its place in _ensure_db and _sync_gate stays true,
\* whatever the others do to the flags it read.
THEOREM Invariance == Spec => []Inv
<1>1. Inv /\ [Next]_vars => Inv'
  BY NextInv
<1> QED
  BY InitInv, <1>1, PTL DEF Spec

\* The shape of the state, and the sync lock held exactly during a pull.
THEOREM TypesHold == Spec => []TypeOK
<1>1. Inv => TypeOK
  BY DEF Inv, Types, TypeOK, Local, At, Places
<1> QED
  BY Invariance, <1>1, PTL

\* No entry passes the gate, or even catches up in it, before the first round
\* whose startup catch-up reached a verdict (_ensure_db).
THEOREM ServiceAfterVerdict == Spec => []NoServiceBeforeVerdict
<1>1. Inv => NoServiceBeforeVerdict
  BY DEF Inv, Local, Past, NoServiceBeforeVerdict
<1> QED
  BY Invariance, <1>1, PTL

\* However many threads ask for it, one runs the initialization (_ensure_db).
THEOREM InitializesOnce == Spec => []OneInitializer
<1>1. Inv => OneInitializer
  BY DEF Inv, OneClaim, Claims, OneInitializer
<1> QED
  BY Invariance, <1>1, PTL

\* A read served on a grace that has run out was overtaken by a catch-up (_sync_gate).
THEOREM StaleReadsWereCrossed == Spec => []StaleOnlyWhenCrossed
<1>1. Inv => StaleOnlyWhenCrossed
  BY DEF Inv, Types, Places, Local, Met, At, StaleOnlyWhenCrossed
<1> QED
  BY Invariance, <1>1, PTL

\* The state never says that a catch-up runs when none does, but after one that
\* raised (_catch_up).
THEOREM CatchingUpHolds == Spec => []CatchingUpIsTrue
<1>1. Inv => CatchingUpIsTrue
  BY DEF Inv, Flags, CatchingUpIsTrue
<1> QED
  BY Invariance, <1>1, PTL

------------------------------------------------------------------------------
(***************************************************************************)
(* Tombstone synchronization: the theorems about TombstoneSync, for every   *)
(* set of devices and items and every bound.                                *)
(*                                                                         *)
(* SyncInv speaks of every copy of a device's memory that may come back,    *)
(* the present one and the backup, and of every tombstone about (Carriers), *)
(* in a log of a copy or in a batch: hashes tell tombstones apart, what a   *)
(* copy records as applied or deleted itself is gone from it, and a channel *)
(* that fits a copy of the sender's log has consumed all before its cursor. *)
(* Absorbed says what the fold of a batch has done at each position.        *)
(***************************************************************************)

\* The types: entries, identities, tombstones, channels and a device's memory.
Entry == [key : Item \cup {User}, items : SUBSET Item, hash : Nat,
          origin : Device \cup {"own"}, oseq : Nat, ohash : Nat]
Id == Device \X Nat \X Nat
Tomb == [id : Id, key : Item \cup {User}]
Channel == [cursor : Nat, chain : Nat]
Memory(d) == [content : SUBSET Item, applied : SUBSET Id,
              peer : [Device \ {d} -> Channel], log : Seq(Entry)]

\* The present memory of a device.
Present(d) == [content |-> content[d], applied |-> applied[d], peer |-> peer[d], log |-> log[d]]

\* The copies of a device's memory that may come back: the present one and its backup.
Copies(d) == {Present(d)} \cup (IF backup[d] = NoBackup THEN {} ELSE {backup[d]})

\* The types, with the bounds; only a prune moves a checkpoint.
SyncShape ==
  /\ born \subseteq Item /\ Shared \subseteq born
  /\ \A d \in Device : Present(d) \in Memory(d)
  /\ \A d \in Device : backup[d] = NoBackup \/ backup[d] \in Memory(d)
  /\ DOMAIN content = Device /\ DOMAIN applied = Device /\ DOMAIN peer = Device
  /\ DOMAIN log = Device /\ DOMAIN pruned = Device /\ DOMAIN backup = Device
  /\ DOMAIN inbox = Device
  /\ \A d \in Device : pruned[d] \in 0 .. Len(log[d]) /\ (pruned[d] # 0 => fault = "prune")
  /\ hashes \in 0 .. MaxEntries /\ forgets \in 0 .. MaxForgets
  /\ fault \in Faults /\ faults \in 0 .. MaxFaults

\* The tombstone an entry travels as.
Told(d, s, e) == [id |-> Identity(d, s, e), key |-> e.key]

\* The tombstones about: every entry of every copy, as it would travel, and every batch's.
Carriers ==
  {t \in Tomb :
     \/ \E d \in Device : \E c \in Copies(d) : \E s \in DOMAIN c.log : t = Told(d, s, c.log[s])
     \/ \E d \in Device : inbox[d] # NoBatch /\ \E s \in DOMAIN inbox[d].entries :
                            t = inbox[d].entries[s]}

\* Nothing a deletion is about is left: of the user's, the items every device shares
\* (an item observed on one device only is no other device's).
Gone(items, key) == IF key = User THEN items \cap Shared = {} ELSE key \notin items

\* The entry was written by applying a tombstone.
Relayed(e) == e.origin # "own"

\* Hashes grow along a log, and an entry is older than what it relays is new.
LogStands(L) ==
  /\ \A s \in DOMAIN L : s <= L[s].hash /\ L[s].hash <= hashes
  /\ \A s, r \in DOMAIN L : s < r => L[s].hash < L[r].hash
  /\ \A s \in DOMAIN L :
       /\ L[s].items \subseteq born
       /\ L[s].key # User => L[s].key \in born /\ L[s].items \subseteq {L[s].key}
       /\ L[s].origin = "own" <=> L[s].ohash = 0
       /\ L[s].ohash < L[s].hash /\ L[s].oseq <= MaxEntries

\* A hash belongs to one tombstone.
Agree == \A t, u \in Carriers : t.id[3] = u.id[3] => t = u

\* Every tombstone about has been written.
Minted ==
  \A t \in Carriers : /\ t.id[2] <= MaxEntries /\ 1 <= t.id[3] /\ t.id[3] <= hashes
                      /\ t.key \in born \cup {User}

\* No tombstone is told from the hash of a relaying entry: it keeps its origin's.
NotRelays ==
  \A d \in Device : \A c \in Copies(d) : \A s \in DOMAIN c.log :
    Relayed(c.log[s]) => \A t \in Carriers : t.id[3] # c.log[s].hash

\* Two copies of a log that share an entry share all before it.
SamePast ==
  \A d \in Device : \A b, c \in Copies(d) : \A s \in DOMAIN b.log \cap DOMAIN c.log :
    b.log[s].hash = c.log[s].hash => \A r \in 1 .. s : b.log[r] = c.log[r]

\* What a device holds or has deleted; two devices have only Shared in common.
Trace(c) == c.content \cup UNION {c.log[s].items : s \in DOMAIN c.log}
Apart ==
  \A d, e \in Device : d # e =>
    \A b \in Copies(d), c \in Copies(e) : Trace(b) \cap Trace(c) \subseteq Shared

\* Of every copy, present or in a backup: what it records as applied, and what it
\* deleted itself, is gone from it; without a lost log no own tombstone was taken back.
CopyStands(d, c) ==
  /\ c.content \subseteq born
  /\ LogStands(c.log)
  /\ \A id \in c.applied : id[3] <= hashes
  /\ \A t \in Carriers : t.id \in c.applied => Gone(c.content, t.key)
  /\ \A s \in DOMAIN c.log :
       /\ Identity(d, s, c.log[s]) \in c.applied => c.log[s].items \cap c.content = {}
       /\ ~ Relayed(c.log[s]) => Gone(c.content, c.log[s].key)
       /\ Relayed(c.log[s]) /\ fault \notin {"abort", "restore"}
            => Identity(d, s, c.log[s]) \in c.applied
       /\ fault \notin {"rollback", "prune"} => c.log[s].origin # d

\* A position of a log, by its number and its hash.
Fits(n, h, L) == n <= Len(L) /\ (n = 0 \/ L[n].hash = h)

\* What a channel has consumed of a log it fits is gone.
ChannelStands(d, c) ==
  \A p \in Device \ {d} :
    /\ c.peer[p].cursor <= MaxEntries /\ c.peer[p].chain <= hashes
    /\ \A b \in Copies(p) : Fits(c.peer[p].cursor, c.peer[p].chain, b.log) =>
         \A s \in 1 .. c.peer[p].cursor :
           Travels(b.log[s]) => b.log[s].items \cap c.content = {}

\* Every copy stands, with its channels.
CopiesStand == \A d \in Device : \A c \in Copies(d) : CopyStands(d, c) /\ ChannelStands(d, c)

\* What does not depend on who is about to apply what.
Core == Agree /\ Minted /\ NotRelays /\ SamePast /\ Apart /\ CopiesStand

\* Without a rollback an own deletion is in the log for good.
OwnStands ==
  fault # "rollback" =>
    \A t \in Carriers : /\ t.id[2] \in DOMAIN log[t.id[1]]
                        /\ log[t.id[1]][t.id[2]].hash = t.id[3]

\* What a restored database holds is still traced: its deletion can be replayed.
BackupStands ==
  \A d \in Device : backup[d] # NoBackup =>
    /\ fault \in {"rollback", "restore"}
    /\ fault = "restore" => backup[d].content \subseteq Trace(Present(d))

\* A batch has all that travels between its ends, of any log of the sender that
\* it fits; unless it was cut short by a checkpoint and will not be counted.
BatchFits(d, b) ==
  /\ b.sender \in Device \ {d} /\ b.from \in 0 .. b.to /\ b.to \in 0 .. MaxEntries
  /\ b.fromChain \in 0 .. hashes /\ b.toChain \in 0 .. hashes
  /\ DOMAIN b.entries \subseteq 1 .. b.to
  /\ \A s \in DOMAIN b.entries : b.entries[s] \in Tomb
  /\ \/ fault = "prune" /\ b.from # peer[d][b.sender].cursor
     \/ \A c \in Copies(b.sender) : Fits(b.to, b.toChain, c.log) =>
          /\ Fits(b.from, b.fromChain, c.log)
          /\ \A s \in (b.from + 1) .. b.to : Travels(c.log[s]) =>
               s \in DOMAIN b.entries /\ b.entries[s] = Told(b.sender, s, c.log[s])

\* Every batch about to be applied fits the channel it was fetched for.
BatchStands == \A d \in Device : \A b \in {inbox[d]} \ {NoBatch} : BatchFits(d, b)

\* The inductive invariant.
SyncInv == SyncShape /\ Core /\ OwnStands /\ BackupStands /\ BatchStands

------------------------------------------------------------------------------
(* The types.                                                               *)

\* The types of a memory's parts.
LEMMA MemoryFacts ==
  ASSUME NEW d \in Device, NEW c \in Memory(d)
  PROVE  /\ c.log \in Seq(Entry) /\ Len(c.log) \in Nat /\ DOMAIN c.log = 1 .. Len(c.log)
         /\ c.content \in SUBSET Item /\ c.applied \in SUBSET Id
         /\ c.peer \in [Device \ {d} -> Channel]
         /\ \A p \in Device \ {d} : c.peer[p].cursor \in Nat /\ c.peer[p].chain \in Nat
         /\ \A s \in DOMAIN c.log :
              /\ c.log[s] \in Entry /\ c.log[s].hash \in Nat
              /\ s \in Nat /\ 1 <= s /\ s <= Len(c.log)
<1>1. /\ c.log \in Seq(Entry)
      /\ c.content \in SUBSET Item /\ c.applied \in SUBSET Id
      /\ c.peer \in [Device \ {d} -> Channel]
  BY DEF Memory
<1>2. Len(c.log) \in Nat /\ DOMAIN c.log = 1 .. Len(c.log)
  BY <1>1
<1>3. \A s \in DOMAIN c.log : /\ c.log[s] \in Entry
                              /\ s \in Nat /\ 1 <= s /\ s <= Len(c.log)
  BY <1>1, <1>2
<1>4. \A s \in DOMAIN c.log : c.log[s].hash \in Nat
  BY <1>3 DEF Entry
<1>5. \A p \in Device \ {d} : c.peer[p] \in Channel
  BY <1>1
<1>6. \A p \in Device \ {d} : c.peer[p].cursor \in Nat /\ c.peer[p].chain \in Nat
  BY <1>5 DEF Channel
<1> QED
  BY <1>1, <1>2, <1>3, <1>4, <1>6

\* The number of hashes written is bounded.
LEMMA Counters ==
  ASSUME SyncShape
  PROVE  hashes \in Nat /\ hashes <= MaxEntries /\ MaxEntries \in Nat
BY SyncBounds DEF SyncShape

\* The present memory is a copy, and its parts are the variables.
LEMMA CopyFacts ==
  ASSUME SyncShape, NEW d \in Device
  PROVE  /\ Present(d) \in Copies(d) /\ Copies(d) \subseteq Memory(d)
         /\ Present(d).content = content[d] /\ Present(d).applied = applied[d]
         /\ Present(d).peer = peer[d] /\ Present(d).log = log[d]
         /\ content[d] \in SUBSET Item /\ applied[d] \in SUBSET Id
         /\ peer[d] \in [Device \ {d} -> Channel] /\ log[d] \in Seq(Entry)
         /\ hashes \in Nat
<1>1. Present(d) \in Memory(d) /\ hashes \in 0 .. MaxEntries /\ MaxEntries \in Nat
  BY SyncBounds DEF SyncShape
<1>2. /\ Present(d).content = content[d] /\ Present(d).applied = applied[d]
      /\ Present(d).peer = peer[d] /\ Present(d).log = log[d]
  BY DEF Present
<1>3. Present(d) \in Copies(d)
  BY DEF Copies
<1>4. Copies(d) \subseteq Memory(d)
  BY DEF Copies, SyncShape
<1> QED
  BY <1>1, <1>2, <1>3, <1>4 DEF Memory

\* The types of the log.
LEMMA LogIs ==
  ASSUME SyncShape, NEW d \in Device
  PROVE  /\ log[d] \in Seq(Entry) /\ Len(log[d]) \in Nat /\ DOMAIN log[d] = 1 .. Len(log[d])
         /\ \A s \in DOMAIN log[d] : log[d][s] \in Entry /\ log[d][s].hash \in Nat
                                     /\ s \in Nat /\ 1 <= s /\ s <= Len(log[d])
         /\ content[d] \subseteq Item /\ applied[d] \subseteq Id
         /\ hashes \in Nat
<1>1. Present(d) \in Memory(d) /\ Present(d).log = log[d]
      /\ Present(d).content = content[d] /\ Present(d).applied = applied[d]
  BY DEF SyncShape, Present
<1> QED
  BY <1>1, MemoryFacts, Counters

\* The types of a copy's log.
LEMMA LogFacts ==
  ASSUME SyncShape, NEW d \in Device, NEW c \in Copies(d)
  PROVE  /\ c.log \in Seq(Entry) /\ Len(c.log) \in Nat /\ DOMAIN c.log = 1 .. Len(c.log)
         /\ c.content \in SUBSET Item /\ c.applied \in SUBSET Id
         /\ c.peer \in [Device \ {d} -> Channel]
         /\ \A s \in DOMAIN c.log :
              /\ c.log[s] \in Entry
              /\ s \in Nat /\ 1 <= s /\ s <= Len(c.log)
              /\ Told(d, s, c.log[s]) \in Tomb
              /\ Told(d, s, c.log[s]).id = Identity(d, s, c.log[s])
              /\ Told(d, s, c.log[s]).key = c.log[s].key
<1>1. c \in Memory(d)
  BY CopyFacts
<1>2. /\ c.log \in Seq(Entry)
      /\ c.content \in SUBSET Item /\ c.applied \in SUBSET Id
      /\ c.peer \in [Device \ {d} -> Channel]
  BY <1>1 DEF Memory
<1>3. Len(c.log) \in Nat /\ DOMAIN c.log = 1 .. Len(c.log)
  BY <1>2
<1>4. ASSUME NEW s \in DOMAIN c.log
      PROVE  /\ c.log[s] \in Entry
             /\ s \in Nat /\ 1 <= s /\ s <= Len(c.log)
             /\ Told(d, s, c.log[s]) \in Tomb
  <2>1. c.log[s] \in Entry /\ s \in Nat /\ 1 <= s /\ s <= Len(c.log)
    BY <1>2, <1>3
  <2>2. Identity(d, s, c.log[s]) \in Id
    <3>1. CASE c.log[s].origin = "own"
      BY <2>1, <3>1 DEF Identity, Id, Entry
    <3>2. CASE c.log[s].origin # "own"
      BY <2>1, <3>2 DEF Identity, Id, Entry
    <3> QED
      BY <3>1, <3>2
  <2> QED
    BY <2>1, <2>2 DEF Told, Tomb, Entry
<1> QED
  BY <1>2, <1>3, <1>4 DEF Told

\* What is in a copy's log or in a batch is about.
LEMMA CarrierFacts ==
  ASSUME SyncShape
  PROVE  /\ \A d \in Device : \A c \in Copies(d) : \A s \in DOMAIN c.log :
              Told(d, s, c.log[s]) \in Carriers
         /\ \A t \in Carriers : /\ t.id \in Id /\ t.id[1] \in Device
                                /\ t.id[2] \in Nat /\ t.id[3] \in Nat
                                /\ t.key \in Item \cup {User}
         /\ \A d \in Device : \A s : inbox[d] # NoBatch /\ s \in DOMAIN inbox[d].entries
              /\ inbox[d].entries[s] \in Tomb => inbox[d].entries[s] \in Carriers
<1>1. ASSUME NEW d \in Device, NEW c \in Copies(d), NEW s \in DOMAIN c.log
      PROVE  Told(d, s, c.log[s]) \in Carriers
  BY LogFacts DEF Carriers
<1>2. \A t \in Carriers : t.id \in Id /\ t.key \in Item \cup {User}
  BY DEF Carriers, Tomb
<1>3. \A id \in Id : id[1] \in Device /\ id[2] \in Nat /\ id[3] \in Nat
  BY DEF Id
<1>4. ASSUME NEW d \in Device, NEW s, inbox[d] # NoBatch, s \in DOMAIN inbox[d].entries,
             inbox[d].entries[s] \in Tomb
      PROVE  inbox[d].entries[s] \in Carriers
  BY <1>4 DEF Carriers
<1> QED
  BY <1>1, <1>2, <1>3, <1>4

------------------------------------------------------------------------------
(* What a step leaves standing.                                             *)

\* A log with more entries, their hashes above h.
Prolongs(K, L, h) ==
  /\ Len(L) <= Len(K) /\ \A s \in 1 .. Len(L) : K[s] = L[s]
  /\ \A s \in DOMAIN K : s > Len(L) => K[s].hash > h

\* A copy's log is no longer than the hashes written, and all it traces was observed.
LEMMA CopyIs ==
  ASSUME SyncShape, CopiesStand, NEW d \in Device, NEW c \in Copies(d)
  PROVE  /\ CopyStands(d, c) /\ ChannelStands(d, c)
         /\ Trace(c) \subseteq born
         /\ \A s \in DOMAIN c.log : c.log[s].hash <= hashes /\ c.log[s].hash \in Nat
         /\ Len(c.log) <= hashes
<1>1. CopyStands(d, c) /\ ChannelStands(d, c)
  BY DEF CopiesStand
<1>1a. LogStands(c.log) /\ c.content \subseteq born
  BY <1>1 DEF CopyStands
<1>1b. c \in Memory(d)
  BY CopyFacts
<1>2. \A s \in DOMAIN c.log : c.log[s].hash <= hashes /\ c.log[s].hash \in Nat
  BY <1>1a, <1>1b, MemoryFacts DEF LogStands
<1>3. Trace(c) \subseteq born
  BY <1>1a DEF Trace, LogStands
<1>4. Len(c.log) <= hashes
  <2>1. CASE Len(c.log) = 0
    BY <2>1, Counters
  <2>2. CASE Len(c.log) # 0
    <3>1. Len(c.log) \in DOMAIN c.log
      BY <2>2, LogFacts
    <3>2. Len(c.log) <= c.log[Len(c.log)].hash
      BY <1>1a, <3>1 DEF LogStands
    <3> QED
      BY <1>1b, <1>2, <3>1, <3>2, MemoryFacts, Counters
  <2> QED
    BY <2>1, <2>2
<1> QED
  BY <1>1, <1>2, <1>3, <1>4

\* A position with an old hash fits a prolonged log only where it fitted the log.
LEMMA FitsBack ==
  ASSUME NEW K \in Seq(Entry), NEW L \in Seq(Entry), NEW g \in Nat, Prolongs(K, L, g),
         NEW n \in Nat, NEW h \in Nat, h <= g, Fits(n, h, K)
  PROVE  Fits(n, h, L) /\ \A s \in 1 .. n : s \in DOMAIN L /\ K[s] = L[s]
<1>1. Len(L) \in Nat /\ Len(K) \in Nat /\ DOMAIN L = 1 .. Len(L) /\ DOMAIN K = 1 .. Len(K)
  OBVIOUS
<1>2. n <= Len(L)
  <2>1. SUFFICES ASSUME n > Len(L) PROVE FALSE
    BY <1>1
  <2>2. n \in DOMAIN K /\ n # 0
    BY <1>1, <2>1 DEF Fits
  <2>3. K[n].hash > g /\ K[n].hash = h
    BY <2>1, <2>2 DEF Fits, Prolongs
  <2> QED
    BY <2>3
<1> QED
  BY <1>1, <1>2 DEF Fits, Prolongs

\* Nothing new was written.
LEMMA CoreNarrows ==
  ASSUME Core, hashes' = hashes, born' = born, fault' = fault, Carriers' \subseteq Carriers,
         \A e \in Device : Copies(e)' \subseteq Copies(e)
  PROVE  Core'
<1>1. Agree' /\ Minted'
  BY DEF Core, Agree, Minted
<1>2. NotRelays'
  BY DEF Core, NotRelays
<1>3. SamePast'
  BY DEF Core, SamePast
<1>4. Apart'
  BY DEF Core, Apart, Trace
<1>5. CopiesStand'
  <2> SUFFICES ASSUME NEW e \in Device, NEW c \in Copies(e)'
               PROVE  CopyStands(e, c)' /\ ChannelStands(e, c)'
    BY DEF CopiesStand
  <2>1. CopyStands(e, c) /\ ChannelStands(e, c)
    BY DEF Core, CopiesStand
  <2>2. CopyStands(e, c)'
    BY <2>1 DEF CopyStands, LogStands
  <2>3. ChannelStands(e, c)'
    BY <2>1 DEF ChannelStands
  <2> QED
    BY <2>2, <2>3
<1> QED
  BY <1>1, <1>2, <1>3, <1>4, <1>5 DEF Core

\* A device d has a new present copy.
Renews(d) ==
  /\ hashes <= hashes' /\ born \subseteq born' /\ fault' = fault
  /\ \A e \in Device : e # d => Copies(e)' \subseteq Copies(e)
  /\ Copies(d)' \subseteq Copies(d) \cup {Present(d)'}
  /\ Prolongs(Present(d)'.log, Present(d).log, hashes)
  /\ \A t \in Carriers' : \/ t \in Carriers
                          \/ /\ t.id[3] > hashes /\ t.id[3] <= hashes' /\ t.id[2] <= MaxEntries
                             /\ t.key \in born' \cup {User}
  /\ \A t, u \in Carriers' : t \notin Carriers /\ u \notin Carriers => t = u
  /\ \A s \in DOMAIN Present(d)'.log : s > Len(Present(d).log) /\ Relayed(Present(d)'.log[s]) =>
       \A t \in Carriers' : t.id[3] # Present(d)'.log[s].hash
  /\ Trace(Present(d)') \subseteq Trace(Present(d)) \cup (born' \ born)
  /\ (CopyStands(d, Present(d)) /\ ChannelStands(d, Present(d)))'

\* What a write at d leaves of a copy that was there before.
LEMMA OldCopyStands ==
  ASSUME SyncShape, SyncShape', Core, NEW d \in Device, Renews(d),
         NEW e \in Device, NEW c \in Copies(e)
  PROVE  (CopyStands(e, c) /\ ChannelStands(e, c))'
<1>0. CopyStands(e, c) /\ ChannelStands(e, c)
  BY DEF Core, CopiesStand
<1>1. hashes \in Nat /\ hashes' \in Nat /\ hashes <= hashes' /\ born \subseteq born' /\ fault' = fault
  <2>1. hashes \in Nat /\ hashes' \in Nat
    BY SyncBounds DEF SyncShape
  <2> QED
    BY <2>1 DEF Renews
<1>1a. c \in Memory(e)
  BY CopyFacts
<1>1b. \A t \in Carriers' : t \in Carriers \/ t.id[3] > hashes
  BY DEF Renews
<1>2. CopyStands(e, c)'
  <2>0. /\ LogStands(c.log) /\ c.content \subseteq born
        /\ \A id \in c.applied : id[3] <= hashes
        /\ \A t \in Carriers : t.id \in c.applied => Gone(c.content, t.key)
    BY <1>0 DEF CopyStands
  <2>1. LogStands(c.log)'
    <3>1. \A s \in DOMAIN c.log : c.log[s].hash \in Nat
      BY <1>1a, MemoryFacts
    <3>2. \A s \in DOMAIN c.log : s <= c.log[s].hash /\ c.log[s].hash <= hashes
      BY <2>0 DEF LogStands
    <3>3. \A s \in DOMAIN c.log : c.log[s].hash <= hashes'
      BY <1>1, <3>1, <3>2
    <3>4. ASSUME NEW s \in DOMAIN c.log
          PROVE  /\ c.log[s].items \subseteq born'
                 /\ c.log[s].key # User => c.log[s].key \in born' /\ c.log[s].items \subseteq {c.log[s].key}
                 /\ c.log[s].origin = "own" <=> c.log[s].ohash = 0
                 /\ c.log[s].ohash < c.log[s].hash /\ c.log[s].oseq <= MaxEntries
      BY <2>0, <1>1 DEF LogStands
    <3>5. \A s, r \in DOMAIN c.log : s < r => c.log[s].hash < c.log[r].hash
      BY <2>0 DEF LogStands
    <3> QED
      BY <3>2, <3>3, <3>4, <3>5 DEF LogStands
  <2>2. \A id \in c.applied : id[3] \in Nat /\ id[3] <= hashes /\ id[3] <= hashes'
    <3>0. c.applied \subseteq Id
      BY <1>1a, MemoryFacts
    <3>1. \A id \in c.applied : id[3] \in Nat
      BY <3>0 DEF Id
    <3> QED
      BY <2>0, <1>1, <3>1
  <2>3. ASSUME NEW t \in Carriers', t.id \in c.applied PROVE Gone(c.content, t.key)'
    <3>1. t.id[3] <= hashes /\ t.id[3] \in Nat
      BY <2>2, <2>3
    <3>2. t \in Carriers
      BY <1>1, <3>1, <1>1b
    <3> QED
      BY <2>0, <2>3, <3>2 DEF Gone
  <2> QED
    BY <1>0, <1>1, <2>1, <2>2, <2>3 DEF CopyStands, Gone
<1>3. ChannelStands(e, c)'
  <2> SUFFICES ASSUME NEW p \in Device \ {e}
               PROVE  /\ c.peer[p].cursor <= MaxEntries /\ c.peer[p].chain <= hashes'
                      /\ \A b \in Copies(p)' : Fits(c.peer[p].cursor, c.peer[p].chain, b.log) =>
                           \A s \in 1 .. c.peer[p].cursor :
                             Travels(b.log[s]) => b.log[s].items \cap c.content = {}
    BY DEF ChannelStands
  <2>1. c.peer[p].cursor \in Nat /\ c.peer[p].chain \in Nat
    BY <1>1a, MemoryFacts
  <2>2. c.peer[p].cursor <= MaxEntries /\ c.peer[p].chain <= hashes
    BY <1>0 DEF ChannelStands
  <2>3. ASSUME NEW b \in Copies(p), Fits(c.peer[p].cursor, c.peer[p].chain, b.log),
               NEW s \in 1 .. c.peer[p].cursor, Travels(b.log[s])
        PROVE  b.log[s].items \cap c.content = {}
    BY <1>0, <2>3 DEF ChannelStands
  <2>4. ASSUME p = d, Fits(c.peer[p].cursor, c.peer[p].chain, Present(d)'.log),
               NEW s \in 1 .. c.peer[p].cursor, Travels(Present(d)'.log[s])
        PROVE  Present(d)'.log[s].items \cap c.content = {}
    <3>1. Present(d)'.log \in Seq(Entry) /\ Present(d).log \in Seq(Entry)
      BY MemoryFacts DEF SyncShape
    <3>2. /\ Fits(c.peer[p].cursor, c.peer[p].chain, Present(d).log)
          /\ Present(d)'.log[s] = Present(d).log[s]
      BY <1>1, <2>1, <2>2, <2>4, <3>1, FitsBack DEF Renews
    <3>3. Present(d) \in Copies(p)
      BY <2>4, CopyFacts
    <3> QED
      BY <2>3, <2>4, <3>2, <3>3
  <2>5. \A b \in Copies(p)' : b \in Copies(p) \/ (p = d /\ b = Present(d)')
    BY DEF Renews
  <2> QED
    BY <1>1, <2>1, <2>2, <2>3, <2>4, <2>5
<1> QED
  BY <1>2, <1>3

\* A write at d, with a new present copy that stands, leaves the core standing.
LEMMA CoreRenews ==
  ASSUME SyncShape, SyncShape', Core, NEW d \in Device, Renews(d)
  PROVE  Core'
<1> DEFINE new == Present(d)'
           old == Present(d)
<1>0. /\ hashes \in Nat /\ hashes' \in Nat /\ hashes <= hashes' /\ born \subseteq born' /\ fault' = fault
      /\ \A e \in Device : e # d => Copies(e)' \subseteq Copies(e)
      /\ Copies(d)' \subseteq Copies(d) \cup {new}
      /\ Prolongs(new.log, old.log, hashes)
      /\ \A t \in Carriers' : \/ t \in Carriers
                              \/ /\ t.id[3] > hashes /\ t.id[3] <= hashes' /\ t.id[2] <= MaxEntries
                                 /\ t.key \in born' \cup {User}
      /\ \A t, u \in Carriers' : t \notin Carriers /\ u \notin Carriers => t = u
      /\ \A s \in DOMAIN new.log : s > Len(old.log) /\ Relayed(new.log[s]) =>
           \A t \in Carriers' : t.id[3] # new.log[s].hash
      /\ Trace(new) \subseteq Trace(old) \cup (born' \ born)
  <2>1. hashes \in Nat /\ hashes' \in Nat
    BY SyncBounds DEF SyncShape
  <2> QED
    BY <2>1 DEF Renews
<1>1. /\ old \in Copies(d) /\ old \in Memory(d) /\ new \in Memory(d)
      /\ old.log \in Seq(Entry) /\ new.log \in Seq(Entry)
      /\ Len(old.log) \in Nat /\ DOMAIN old.log = 1 .. Len(old.log)
      /\ DOMAIN new.log = 1 .. Len(new.log) /\ Len(new.log) \in Nat
  <2>1. old \in Memory(d) /\ new \in Memory(d)
    BY DEF SyncShape
  <2>2. old \in Copies(d)
    BY DEF Copies
  <2> HIDE DEF old, new
  <2> QED
    BY <2>1, <2>2, MemoryFacts
<1>2. /\ \A s \in DOMAIN old.log : s \in DOMAIN new.log /\ new.log[s] = old.log[s]
      /\ \A s \in DOMAIN new.log : s \notin DOMAIN old.log => s > Len(old.log) /\ new.log[s].hash > hashes
      /\ \A s \in DOMAIN new.log : new.log[s].hash \in Nat
  <2> HIDE DEF old, new
  <2>1. \A s \in DOMAIN new.log : new.log[s].hash \in Nat
    BY <1>1, MemoryFacts
  <2> QED
    BY <1>0, <1>1, <2>1 DEF Prolongs
<1>3. \A e \in Device : \A c \in Copies(e) : \A s \in DOMAIN c.log :
        c.log[s].hash <= hashes /\ c.log[s].hash \in Nat
  BY CopyIs DEF Core
<1>4. \A t \in Carriers : t.id[3] \in Nat /\ t.id[3] <= hashes
  BY CarrierFacts DEF Core, Minted
<1>4a. \A t \in Carriers' : t.id[3] \in Nat
  BY DEF Carriers, Tomb, Id
<1> HIDE DEF new, old
<1>5. Agree'
  <2> SUFFICES ASSUME NEW t \in Carriers', NEW u \in Carriers', t.id[3] = u.id[3] PROVE t = u
    BY DEF Agree
  <2>1. CASE t \in Carriers /\ u \in Carriers
    BY <2>1 DEF Core, Agree
  <2>2. CASE t \notin Carriers /\ u \notin Carriers
    BY <1>0, <2>2
  <2>3. CASE t \in Carriers /\ u \notin Carriers
    BY <1>0, <1>4, <1>4a, <2>3
  <2>4. CASE t \notin Carriers /\ u \in Carriers
    BY <1>0, <1>4, <1>4a, <2>4
  <2> QED
    BY <2>1, <2>2, <2>3, <2>4
<1>6. Minted'
  <2> SUFFICES ASSUME NEW t \in Carriers'
               PROVE  /\ t.id[2] <= MaxEntries /\ 1 <= t.id[3] /\ t.id[3] <= hashes'
                      /\ t.key \in born' \cup {User}
    BY DEF Minted
  <2>1. CASE t \in Carriers
    BY <1>0, <1>4, <2>1 DEF Core, Minted
  <2>2. CASE t \notin Carriers
    BY <1>0, <1>4a, <2>2
  <2> QED
    BY <2>1, <2>2
<1>7. NotRelays'
  <2> SUFFICES ASSUME NEW e \in Device, NEW c \in Copies(e)', NEW s \in DOMAIN c.log,
                      Relayed(c.log[s]), NEW t \in Carriers'
               PROVE  t.id[3] # c.log[s].hash
    BY DEF NotRelays
  <2>1. ASSUME NEW b \in Copies(e), s \in DOMAIN b.log, b.log[s] = c.log[s]
        PROVE  t.id[3] # c.log[s].hash
    <3>1. CASE t \in Carriers
      BY <2>1, <3>1 DEF Core, NotRelays
    <3>2. CASE t \notin Carriers
      BY <1>0, <1>3, <1>4a, <2>1, <3>2
    <3> QED
      BY <3>1, <3>2
  <2>2. CASE c \in Copies(e)
    BY <2>1, <2>2
  <2>3. CASE e = d /\ c = new
    <3>1. CASE s \in DOMAIN old.log
      BY <1>1, <1>2, <2>1, <2>3, <3>1
    <3>2. CASE s \notin DOMAIN old.log
      BY <1>0, <1>2, <2>3, <3>2
    <3> QED
      BY <3>1, <3>2
  <2> QED
    BY <1>0, <2>2, <2>3
<1>8. SamePast'
  <2> SUFFICES ASSUME NEW e \in Device, NEW b \in Copies(e)', NEW c \in Copies(e)',
                      NEW s \in DOMAIN b.log \cap DOMAIN c.log, b.log[s].hash = c.log[s].hash,
                      NEW r \in 1 .. s
               PROVE  b.log[r] = c.log[r]
    BY DEF SamePast
  <2>1. ASSUME NEW x \in Copies(e), NEW y \in Copies(e), s \in DOMAIN x.log, s \in DOMAIN y.log,
               x.log[s].hash = y.log[s].hash
        PROVE  x.log[r] = y.log[r]
    BY <2>1 DEF Core, SamePast
  <2>2. ASSUME NEW x \in Copies(d), e = d, s \in DOMAIN x.log, s \in DOMAIN new.log,
               x.log[s].hash = new.log[s].hash
        PROVE  x.log[r] = new.log[r]
    <3>1. s \in DOMAIN old.log
      BY <1>0, <1>2, <1>3, <2>2
    <3>2. r \in DOMAIN old.log
      BY <1>1, <3>1
    <3> QED
      BY <1>1, <1>2, <2>1, <2>2, <3>1, <3>2
  <2>3. CASE b \in Copies(e) /\ c \in Copies(e)
    BY <2>1, <2>3
  <2>4. CASE e = d /\ b \in Copies(d) /\ c = new
    BY <2>2, <2>4
  <2>5. CASE e = d /\ b = new /\ c \in Copies(d)
    BY <2>2, <2>5
  <2>6. CASE b = new /\ c = new
    BY <2>6
  <2> QED
    BY <1>0, <2>3, <2>4, <2>5, <2>6
<1>9. Apart'
  <2> SUFFICES ASSUME NEW e \in Device, NEW f \in Device, e # f,
                      NEW b \in Copies(e)', NEW c \in Copies(f)'
               PROVE  Trace(b) \cap Trace(c) \subseteq Shared
    BY DEF Apart, Trace
  <2>1. \A x \in Copies(e), y \in Copies(f) : Trace(x) \cap Trace(y) \subseteq Shared
    BY DEF Core, Apart
  <2>2. (\A x \in Copies(e) : Trace(x) \subseteq born) /\ (\A y \in Copies(f) : Trace(y) \subseteq born)
    BY CopyIs DEF Core
  <2>3. CASE b \in Copies(e) /\ c \in Copies(f)
    BY <2>1, <2>3
  <2>4. CASE e = d /\ b = new /\ c \in Copies(f)
    BY <1>0, <1>1, <2>1, <2>2, <2>4
  <2>5. CASE f = d /\ c = new /\ b \in Copies(e)
    BY <1>0, <1>1, <2>1, <2>2, <2>5
  <2> QED
    BY <1>0, <2>3, <2>4, <2>5
<1>10. CopiesStand'
  <2> SUFFICES ASSUME NEW e \in Device, NEW c \in Copies(e)'
               PROVE  (CopyStands(e, c) /\ ChannelStands(e, c))'
    BY DEF CopiesStand
  <2>1. CASE c \in Copies(e)
    BY <2>1, OldCopyStands
  <2>2. CASE e = d /\ c = new
    BY <2>2 DEF Renews, new
  <2> QED
    BY <1>0, <2>1, <2>2
<1> QED
  BY <1>5, <1>6, <1>7, <1>8, <1>9, <1>10 DEF Core

------------------------------------------------------------------------------
(* The fold of a batch.                                                     *)

\* A set of numbers has a least one.
LEMMA LeastIndex ==
  ASSUME NEW S, S \subseteq Nat, S # {}
  PROVE  \E m \in S : \A k \in S : m <= k
<1> DEFINE R == OpToRel(<, Nat)
<1>1. IsWellFoundedOn(R, Nat)
  BY NatLessThanWellFounded
<1>2. \A x, y \in Nat : x < y => <<x, y>> \in R
  BY DEF OpToRel
<1> HIDE DEF R
<1>3. PICK m \in S : \A y \in S : ~(<<y, m>> \in R)
  BY <1>1, WFMin
<1>4. \A k \in S : ~(k < m)
  BY <1>2, <1>3
<1> QED
  BY <1>3, <1>4

\* The fold of a batch: where it starts, and what one position does.
Start(d) == [content |-> content[d], log |-> log[d], applied |-> applied[d], hashes |-> hashes]

\* What one position of a batch does.
Move(d, b, s, x) == IF s \in DOMAIN b.entries THEN ApplyOne(d, x, b.entries[s]) ELSE x

\* f is the fold of the first n positions.
Unrolls(d, b, n, f) ==
  f = [s \in 0 .. n |-> IF s = 0 THEN Start(d) ELSE Move(d, b, s, f[s - 1])]

\* The recursion of Applied defines a function: by the least position where it would not.
LEMMA FoldExists ==
  ASSUME NEW d, NEW b, NEW n \in Nat
  PROVE  \E f : Unrolls(d, b, n, f)
<1> DEFINE S == {k \in Nat : ~ \E f : Unrolls(d, b, k, f)}
<1>1. SUFFICES ASSUME S # {} PROVE FALSE
  OBVIOUS
<1>2. PICK m \in S : \A k \in S : m <= k
  BY <1>1, LeastIndex
<1>3. CASE m = 0
  <2>1. Unrolls(d, b, 0, [s \in 0 .. 0 |-> Start(d)])
    BY DEF Unrolls
  <2> QED
    BY <1>2, <1>3, <2>1
<1>4. CASE m # 0
  <2>1. m - 1 \in Nat /\ m \in Nat /\ m - 1 \notin S
    BY <1>2, <1>4
  <2>2. PICK g : Unrolls(d, b, m - 1, g)
    BY <2>1
  <2> DEFINE h == [s \in 0 .. m |-> IF s = m THEN Move(d, b, m, g[m - 1]) ELSE g[s]]
  <2>3. \A s \in 0 .. (m - 1) : g[s] = IF s = 0 THEN Start(d) ELSE Move(d, b, s, g[s - 1])
    BY <2>2 DEF Unrolls
  <2>4. ASSUME NEW s \in 0 .. m
        PROVE  h[s] = IF s = 0 THEN Start(d) ELSE Move(d, b, s, h[s - 1])
    <3>1. CASE s = 0
      BY <1>4, <2>1, <2>3, <3>1
    <3>2. CASE s # 0 /\ s # m
      <4>1. s \in 0 .. (m - 1) /\ s - 1 \in 0 .. m /\ s - 1 # m
        BY <2>1, <3>2
      <4> QED
        BY <2>3, <3>2, <4>1
    <3>3. CASE s = m
      <4>1. s - 1 \in 0 .. m /\ s - 1 # m
        BY <1>4, <2>1, <3>3
      <4> QED
        BY <1>4, <3>3, <4>1
    <3> QED
      BY <3>1, <3>2, <3>3
  <2> HIDE DEF h
  <2>5. h = [s \in 0 .. m |-> h[s]]
    BY DEF h
  <2>6. h = [s \in 0 .. m |-> IF s = 0 THEN Start(d) ELSE Move(d, b, s, h[s - 1])]
    BY <2>4, <2>5
  <2>7. Unrolls(d, b, m, h)
    BY <2>6 DEF Unrolls
  <2> QED
    BY <1>2, <2>7
<1> QED
  BY <1>3, <1>4

\* Applied is its value at the end of the batch.
LEMMA AppliedFolds ==
  ASSUME NEW d, NEW b, b.to \in Nat
  PROVE  \E f : Unrolls(d, b, b.to, f) /\ Applied(d, b) = f[b.to]
<1> DEFINE F == CHOOSE f : Unrolls(d, b, b.to, f)
<1>1. Unrolls(d, b, b.to, F)
  BY FoldExists
<1>2. Applied(d, b) = F[b.to]
  BY DEF Applied, Unrolls, Start, Move
<1> QED
  BY <1>1, <1>2

------------------------------------------------------------------------------
(* What the fold does.                                                      *)

\* What is known of a batch a device is about to apply.
Fed(d, b) ==
  /\ DOMAIN b.entries \subseteq Nat
  /\ \A j \in DOMAIN b.entries : b.entries[j] \in Tomb /\ b.entries[j].id[3] <= hashes
  /\ \A i, j \in DOMAIN b.entries : b.entries[i].id[3] = b.entries[j].id[3] => b.entries[i] = b.entries[j]
  /\ \A j \in DOMAIN b.entries : Known(Start(d), d, b.entries[j].id) => Gone(content[d], b.entries[j].key)

\* An entry that applying a tombstone wrote.
From(d, b, k, st, e) ==
  /\ e.items \subseteq content[d] /\ e.items \cap st.content = {}
  /\ \E j \in DOMAIN b.entries :
       LET t == b.entries[j]
       IN /\ j <= k /\ e.key = t.key /\ e.origin = t.id[1] /\ e.oseq = t.id[2] /\ e.ohash = t.id[3]
          /\ t.key # User => e.items \subseteq {t.key}
          /\ t.id \in st.applied /\ ~ Known(Start(d), d, t.id)

\* Nothing a deletion is about is left at all.
Emptied(items, key) == IF key = User THEN items = {} ELSE key \notin items

\* What the first k positions have made of the memory.
Absorbed(d, b, k, st) ==
  /\ st.content \subseteq content[d]
  /\ applied[d] \subseteq st.applied /\ st.applied \subseteq Id
  /\ st.log \in Seq(Entry) /\ Len(log[d]) <= Len(st.log)
  /\ \A s \in DOMAIN log[d] : st.log[s] = log[d][s]
  /\ st.hashes = hashes + (Len(st.log) - Len(log[d]))
  /\ \A s \in DOMAIN st.log : s > Len(log[d]) =>
       st.log[s].hash = hashes + (s - Len(log[d])) /\ From(d, b, k, st, st.log[s])
  /\ \A i \in content[d] : i \in st.content \/ \E s \in DOMAIN st.log : s > Len(log[d]) /\ i \in st.log[s].items
  /\ \A id \in st.applied : id \in applied[d] \/
       \E j \in DOMAIN b.entries : j <= k /\ id = b.entries[j].id /\ Emptied(st.content, b.entries[j].key)
  /\ \A j \in DOMAIN b.entries : j <= k => Gone(st.content, b.entries[j].key)

\* Before the first position.
LEMMA AbsorbStart ==
  ASSUME SyncShape, NEW d \in Device, NEW b, Fed(d, b), 0 \notin DOMAIN b.entries
  PROVE  Absorbed(d, b, 0, Start(d))
<1>1. /\ Start(d).content = content[d] /\ Start(d).log = log[d] /\ Start(d).applied = applied[d]
      /\ Start(d).hashes = hashes
  BY DEF Start
<1>2. /\ log[d] \in Seq(Entry) /\ Len(log[d]) \in Nat /\ DOMAIN log[d] = 1 .. Len(log[d])
      /\ applied[d] \subseteq Id /\ hashes \in Nat
  BY LogIs
<1>3. \A j \in DOMAIN b.entries : ~ (j <= 0)
  BY DEF Fed
<1>4. \A s \in DOMAIN log[d] : ~ (s > Len(log[d]))
  BY <1>2
<1> DEFINE st == Start(d)
<1> HIDE DEF st
<1>5. /\ st.content = content[d] /\ st.log = log[d] /\ st.applied = applied[d]
      /\ st.hashes = hashes
  BY <1>1 DEF st
<1>6. Absorbed(d, b, 0, st)
  <2>1. /\ st.content \subseteq content[d]
        /\ applied[d] \subseteq st.applied /\ st.applied \subseteq Id
        /\ st.log \in Seq(Entry) /\ Len(log[d]) <= Len(st.log)
        /\ \A s \in DOMAIN log[d] : st.log[s] = log[d][s]
        /\ st.hashes = hashes + (Len(st.log) - Len(log[d]))
    BY <1>2, <1>5
  <2>2. \A s \in DOMAIN st.log : ~ (s > Len(log[d]))
    BY <1>4, <1>5
  <2> QED
    BY <1>3, <1>5, <2>1, <2>2 DEF Absorbed
<1> QED
  BY <1>6 DEF st

\* Nothing was applied: the position k adds nothing.
LEMMA AbsorbIdle ==
  ASSUME NEW d \in Device, NEW b, Fed(d, b), NEW k \in Nat, k # 0, NEW st, Absorbed(d, b, k - 1, st),
         k \in DOMAIN b.entries => Gone(st.content, b.entries[k].key)
  PROVE  Absorbed(d, b, k, st)
<1>1. \A j \in DOMAIN b.entries : j \in Nat /\ (j <= k - 1 => j <= k) /\ (j <= k => j <= k - 1 \/ j = k)
  BY DEF Fed
<1>2. \A e : From(d, b, k - 1, st, e) => From(d, b, k, st, e)
  BY <1>1 DEF From
<1>3. \A j \in DOMAIN b.entries : j <= k => Gone(st.content, b.entries[j].key)
  BY <1>1 DEF Absorbed
<1>4. \A id \in st.applied : id \in applied[d] \/
        \E j \in DOMAIN b.entries : j <= k /\ id = b.entries[j].id /\ Emptied(st.content, b.entries[j].key)
  BY <1>1 DEF Absorbed
<1> QED
  BY <1>2, <1>3, <1>4 DEF Absorbed

\* A known tombstone has nothing left to delete.
LEMMA KnownIsGone ==
  ASSUME SyncShape, NEW d \in Device, NEW b, Fed(d, b), NEW k \in Nat, NEW st, Absorbed(d, b, k, st),
         NEW j \in DOMAIN b.entries, Known(st, d, b.entries[j].id)
  PROVE  Gone(st.content, b.entries[j].key)
<1> DEFINE t == b.entries[j]
<1>1. /\ log[d] \in Seq(Entry) /\ Len(log[d]) \in Nat /\ DOMAIN log[d] = 1 .. Len(log[d])
      /\ hashes \in Nat
  BY LogIs
<1>2. /\ st.log \in Seq(Entry) /\ Len(st.log) \in Nat /\ DOMAIN st.log = 1 .. Len(st.log)
      /\ Len(log[d]) <= Len(st.log)
      /\ \A s \in DOMAIN log[d] : st.log[s] = log[d][s]
      /\ \A s \in DOMAIN st.log : s > Len(log[d]) =>
           st.log[s].hash = hashes + (s - Len(log[d])) /\ From(d, b, k, st, st.log[s])
  BY DEF Absorbed
<1>3. /\ st.content \subseteq content[d]
      /\ \A id \in st.applied : id \in applied[d] \/
           \E i \in DOMAIN b.entries : i <= k /\ id = b.entries[i].id /\ Emptied(st.content, b.entries[i].key)
      /\ \A i \in DOMAIN b.entries : i <= k => Gone(st.content, b.entries[i].key)
  BY DEF Absorbed
<1>4. Known(Start(d), d, t.id) => Gone(st.content, t.key)
  BY <1>3 DEF Fed, Gone
<1>5. /\ t.id \in Id /\ t.id[3] \in Nat /\ t.id[3] <= hashes
      /\ \A i \in DOMAIN b.entries : b.entries[i].id[3] = t.id[3] => b.entries[i] = t
  BY DEF Fed, Tomb, Id
<1>6. CASE t.id \in applied[d]
  BY <1>4, <1>6 DEF Known, Start
<1>7. CASE t.id \in st.applied /\ t.id \notin applied[d]
  <2>1. PICK i \in DOMAIN b.entries : i <= k /\ t.id = b.entries[i].id
    BY <1>3, <1>7
  <2> QED
    BY <1>3, <1>5, <2>1
<1>8. CASE t.id \notin st.applied
  <2>1. t.id[1] = d /\ HasTombstone(st.log, pruned[d], t.id)
    BY <1>8 DEF Known
  <2>2. PICK s \in pruned[d] .. Len(st.log) \ {0} :
          s = t.id[2] /\ (st.log[s].hash = t.id[3] \/ (s > pruned[d] /\ st.log[s].ohash = t.id[3]))
    BY <2>1 DEF HasTombstone
  <2>3. pruned[d] \in Nat /\ s \in DOMAIN st.log /\ s \in Nat
    BY <1>2, <2>2 DEF SyncShape
  <2>4. CASE s <= Len(log[d])
    <3>1. s \in DOMAIN log[d] /\ s \in pruned[d] .. Len(log[d]) \ {0}
      BY <1>1, <2>2, <2>3, <2>4
    <3>2. HasTombstone(log[d], pruned[d], t.id)
      BY <1>2, <2>2, <3>1 DEF HasTombstone
    <3> QED
      BY <1>4, <2>1, <3>2 DEF Known, Start
  <2>5. CASE s > Len(log[d])
    <3>1. st.log[s].hash > hashes /\ From(d, b, k, st, st.log[s])
      BY <1>1, <1>2, <2>3, <2>5
    <3>2. st.log[s].hash # t.id[3] /\ st.log[s].ohash = t.id[3]
      BY <1>1, <1>5, <2>2, <3>1
    <3>3. PICK i \in DOMAIN b.entries : i <= k /\ st.log[s].ohash = b.entries[i].id[3]
      BY <3>1 DEF From
    <3> QED
      BY <1>3, <1>5, <3>2, <3>3
  <2> QED
    BY <1>1, <2>3, <2>4, <2>5
<1> QED
  BY <1>6, <1>7, <1>8

\* The hash of a new entry.
LEMMA Shift ==
  ASSUME NEW h \in Nat, NEW l \in Nat, NEW m \in Nat, NEW n \in Nat, NEW x, NEW g,
         x = h + (m - l), g = x + (n - m)
  PROVE  g = h + (n - l)
OBVIOUS

\* An unknown tombstone is applied.
LEMMA AbsorbNew ==
  ASSUME SyncShape, NEW d \in Device, NEW b, Fed(d, b), NEW k \in DOMAIN b.entries, k # 0,
         NEW st, Absorbed(d, b, k - 1, st), ~ Known(st, d, b.entries[k].id)
  PROVE  Absorbed(d, b, k, ApplyOne(d, st, b.entries[k]))
<1> DEFINE t == b.entries[k]
           doomed == Doomed(st, t.key)
           written == t.key = User \/ doomed # {}
           e == [key |-> t.key, items |-> doomed, hash |-> st.hashes + 1,
                 origin |-> t.id[1], oseq |-> t.id[2], ohash |-> t.id[3]]
           next == ApplyOne(d, st, t)
<1>1. /\ next.content = st.content \ doomed /\ next.applied = st.applied \cup {t.id}
      /\ next.log = IF written THEN Append(st.log, e) ELSE st.log
      /\ next.hashes = IF written THEN st.hashes + 1 ELSE st.hashes
  BY DEF ApplyOne, Append1
<1>2. /\ doomed \subseteq st.content
      /\ t.key = User => doomed = st.content
      /\ t.key # User => doomed = {t.key} \cap st.content
  BY DEF Doomed
<1>3. /\ e.key = t.key /\ e.items = doomed /\ e.hash = st.hashes + 1
      /\ e.origin = t.id[1] /\ e.oseq = t.id[2] /\ e.ohash = t.id[3]
  OBVIOUS
<1>4. k \in Nat /\ t \in Tomb /\ t.id \in Id /\ t.key \in Item \cup {User}
      /\ t.id[1] \in Device /\ t.id[2] \in Nat /\ t.id[3] \in Nat
  BY DEF Fed, Tomb, Id
<1>5. /\ log[d] \in Seq(Entry) /\ Len(log[d]) \in Nat /\ DOMAIN log[d] = 1 .. Len(log[d])
      /\ hashes \in Nat /\ content[d] \subseteq Item
  BY LogIs
<1>6. /\ st.content \subseteq content[d]
      /\ applied[d] \subseteq st.applied /\ st.applied \subseteq Id
      /\ st.log \in Seq(Entry) /\ Len(log[d]) <= Len(st.log)
      /\ \A s \in DOMAIN log[d] : st.log[s] = log[d][s]
      /\ st.hashes = hashes + (Len(st.log) - Len(log[d]))
  BY DEF Absorbed
<1>7. /\ \A s \in DOMAIN st.log : s > Len(log[d]) =>
           st.log[s].hash = hashes + (s - Len(log[d])) /\ From(d, b, k - 1, st, st.log[s])
      /\ \A i \in content[d] : i \in st.content \/ \E s \in DOMAIN st.log : s > Len(log[d]) /\ i \in st.log[s].items
      /\ \A id \in st.applied : id \in applied[d] \/
           \E j \in DOMAIN b.entries : j <= k - 1 /\ id = b.entries[j].id /\ Emptied(st.content, b.entries[j].key)
      /\ \A j \in DOMAIN b.entries : j <= k - 1 => Gone(st.content, b.entries[j].key)
  BY DEF Absorbed
<1>8. Len(st.log) \in Nat /\ DOMAIN st.log = 1 .. Len(st.log) /\ st.hashes \in Nat
  <2>1. Len(st.log) \in Nat /\ DOMAIN st.log = 1 .. Len(st.log)
    BY <1>6
  <2>2. \A h, l, m \in Nat : l <= m => h + (m - l) \in Nat
    OBVIOUS
  <2>3. Len(log[d]) \in Nat /\ Len(log[d]) <= Len(st.log) /\ hashes \in Nat
        /\ st.hashes = hashes + (Len(st.log) - Len(log[d]))
    BY <1>5, <1>6
  <2>4. st.hashes \in Nat
    BY <2>1, <2>2, <2>3
  <2> QED
    BY <2>1, <2>4
<1>8a. ASSUME NEW n \in Nat, NEW g, g = st.hashes + (n - Len(st.log))
       PROVE  g = hashes + (n - Len(log[d]))
  <2>1. Len(log[d]) \in Nat /\ hashes \in Nat
    BY <1>5
  <2>2. st.hashes = hashes + (Len(st.log) - Len(log[d])) /\ Len(st.log) \in Nat
    BY <1>6, <1>8
  <2> QED
    <3> DEFINE h == hashes
               l == Len(log[d])
               m == Len(st.log)
               x == st.hashes
    <3>1. h \in Nat /\ l \in Nat /\ m \in Nat /\ x = h + (m - l) /\ g = x + (n - m)
      BY <1>8a, <2>1, <2>2
    <3> HIDE DEF h, l, m, x
    <3>2. g = h + (n - l)
      BY <3>1, Shift
    <3> QED
      BY <3>2 DEF h, l
<1>9. e \in Entry
  BY <1>2, <1>4, <1>5, <1>6, <1>8 DEF Entry
<1>10. \A j \in DOMAIN b.entries : j \in Nat /\ (j <= k - 1 => j <= k) /\ (j <= k => j <= k - 1 \/ j = k)
  BY <1>4 DEF Fed
<1>11. ~ Known(Start(d), d, t.id)
  <2>1. t.id \notin st.applied /\ ~ (t.id[1] = d /\ HasTombstone(st.log, pruned[d], t.id))
    BY DEF Known
  <2>2. HasTombstone(log[d], pruned[d], t.id) => HasTombstone(st.log, pruned[d], t.id)
    <3> SUFFICES ASSUME NEW s \in pruned[d] .. Len(log[d]) \ {0},
                        s = t.id[2], log[d][s].hash = t.id[3] \/ (s > pruned[d] /\ log[d][s].ohash = t.id[3])
                 PROVE  HasTombstone(st.log, pruned[d], t.id)
      BY DEF HasTombstone
    <3>1. pruned[d] \in Nat
      BY <1>5 DEF SyncShape
    <3>2. s \in DOMAIN log[d] /\ s \in pruned[d] .. Len(st.log) \ {0}
      BY <1>5, <1>6, <1>8, <3>1
    <3> QED
      BY <1>6, <3>2 DEF HasTombstone
  <2> QED
    BY <1>6, <2>1, <2>2 DEF Known, Start
<1> HIDE DEF t, doomed, written, e, next
<1>12. /\ next.content \subseteq st.content /\ Emptied(next.content, t.key)
       /\ Gone(next.content, t.key)
  BY <1>1, <1>2 DEF Emptied, Gone
<1>13. ASSUME NEW x, From(d, b, k - 1, st, x) PROVE From(d, b, k, next, x)
  <2>1. x.items \subseteq content[d] /\ x.items \cap next.content = {}
    BY <1>12, <1>13 DEF From
  <2>2. PICK j \in DOMAIN b.entries :
          /\ j <= k - 1 /\ x.key = b.entries[j].key /\ x.origin = b.entries[j].id[1]
          /\ x.oseq = b.entries[j].id[2] /\ x.ohash = b.entries[j].id[3]
          /\ b.entries[j].key # User => x.items \subseteq {b.entries[j].key}
          /\ b.entries[j].id \in st.applied /\ ~ Known(Start(d), d, b.entries[j].id)
    BY <1>13 DEF From
  <2>3. j <= k /\ b.entries[j].id \in next.applied
    BY <1>1, <1>10, <2>2
  <2> QED
    BY <2>1, <2>2, <2>3 DEF From
<1>14. From(d, b, k, next, e)
  <2>1. e.items \subseteq content[d] /\ e.items \cap next.content = {}
    BY <1>1, <1>2, <1>3, <1>6
  <2>2. /\ k <= k /\ e.key = t.key /\ e.origin = t.id[1] /\ e.oseq = t.id[2] /\ e.ohash = t.id[3]
        /\ t.key # User => e.items \subseteq {t.key}
        /\ t.id \in next.applied /\ ~ Known(Start(d), d, t.id)
    BY <1>1, <1>2, <1>3, <1>4, <1>11
  <2> QED
    BY <2>1, <2>2 DEF From, t
<1>15. /\ next.log \in Seq(Entry)
       /\ IF written THEN /\ Len(next.log) = Len(st.log) + 1 /\ next.log[Len(st.log) + 1] = e
                          /\ \A s \in 1 .. Len(st.log) : next.log[s] = st.log[s]
                     ELSE next.log = st.log
  BY <1>1, <1>6, <1>8, <1>9
<1>16. /\ Len(next.log) \in Nat /\ DOMAIN next.log = 1 .. Len(next.log) /\ Len(st.log) <= Len(next.log)
       /\ \A s \in DOMAIN st.log : s \in DOMAIN next.log /\ next.log[s] = st.log[s]
       /\ next.hashes = st.hashes + (Len(next.log) - Len(st.log))
  <2>1. CASE written
    <3>1. /\ Len(next.log) = Len(st.log) + 1
          /\ \A s \in 1 .. Len(st.log) : next.log[s] = st.log[s]
          /\ next.hashes = st.hashes + 1
      BY <1>1, <1>15, <2>1
    <3>2. DOMAIN next.log = 1 .. Len(next.log)
      BY <1>15
    <3> QED
      BY <1>8, <3>1, <3>2
  <2>2. CASE ~ written
    <3>1. next.log = st.log /\ next.hashes = st.hashes
      BY <1>1, <1>15, <2>2
    <3> QED
      BY <1>8, <3>1
  <2> QED
    BY <2>1, <2>2
<1>17. /\ next.content \subseteq content[d]
       /\ applied[d] \subseteq next.applied /\ next.applied \subseteq Id
       /\ next.log \in Seq(Entry) /\ Len(log[d]) <= Len(next.log)
       /\ \A s \in DOMAIN log[d] : next.log[s] = log[d][s]
  <2>1. next.content \subseteq content[d] /\ applied[d] \subseteq next.applied /\ next.applied \subseteq Id
    BY <1>1, <1>4, <1>6, <1>12
  <2>2. Len(log[d]) <= Len(next.log)
    BY <1>5, <1>6, <1>8, <1>16
  <2>3. \A s \in DOMAIN log[d] : s \in DOMAIN st.log
    BY <1>5, <1>6, <1>8
  <2> QED
    BY <1>6, <1>15, <1>16, <2>1, <2>2, <2>3
<1>18. next.hashes = hashes + (Len(next.log) - Len(log[d]))
  <2>1. Len(next.log) \in Nat /\ next.hashes = st.hashes + (Len(next.log) - Len(st.log))
    BY <1>16
  <2> QED
    BY <1>8a, <2>1
<1>19. ASSUME NEW s \in DOMAIN next.log, s > Len(log[d])
       PROVE  next.log[s].hash = hashes + (s - Len(log[d])) /\ From(d, b, k, next, next.log[s])
  <2>1. CASE s \in DOMAIN st.log
    BY <1>7, <1>13, <1>16, <1>19, <2>1
  <2>2. CASE s \notin DOMAIN st.log
    <3>1. s = Len(st.log) + 1 /\ next.log[s] = e
      BY <1>8, <1>15, <1>16, <2>2
    <3>2. next.log[s].hash = st.hashes + (s - Len(st.log)) /\ s \in Nat
      <4>1. st.hashes \in Nat /\ Len(st.log) \in Nat /\ e.hash = st.hashes + 1
        BY <1>3, <1>8
      <4> QED
        BY <3>1, <4>1
    <3>3. next.log[s].hash = hashes + (s - Len(log[d]))
      BY <1>8a, <3>2
    <3> QED
      BY <1>14, <3>1, <3>3
  <2> QED
    BY <2>1, <2>2
<1>20. ASSUME NEW i \in content[d], i \notin next.content
       PROVE  \E s \in DOMAIN next.log : s > Len(log[d]) /\ i \in next.log[s].items
  <2>1. CASE i \in st.content
    <3>1. i \in doomed /\ written
      BY <1>1, <1>20, <2>1 DEF written
    <3>2. Len(st.log) + 1 \in DOMAIN next.log /\ i \in next.log[Len(st.log) + 1].items
      BY <1>3, <1>8, <1>15, <1>16, <3>1
    <3>3. Len(st.log) + 1 > Len(log[d])
      BY <1>5, <1>6, <1>8
    <3> QED
      BY <3>2, <3>3
  <2>2. CASE i \notin st.content
    BY <1>7, <1>16, <2>2
  <2> QED
    BY <2>1, <2>2
<1>21. ASSUME NEW id \in next.applied, id \notin applied[d]
       PROVE  \E j \in DOMAIN b.entries : j <= k /\ id = b.entries[j].id /\ Emptied(next.content, b.entries[j].key)
  <2>1. CASE id = t.id
    BY <1>4, <1>12, <2>1 DEF t
  <2>2. CASE id \in st.applied
    <3>1. PICK j \in DOMAIN b.entries : j <= k - 1 /\ id = b.entries[j].id /\ Emptied(st.content, b.entries[j].key)
      BY <1>7, <1>21, <2>2
    <3> QED
      BY <1>10, <1>12, <3>1 DEF Emptied
  <2> QED
    BY <1>1, <2>1, <2>2
<1>22. ASSUME NEW j \in DOMAIN b.entries, j <= k PROVE Gone(next.content, b.entries[j].key)
  <2>1. CASE j = k
    BY <1>12, <2>1 DEF t
  <2>2. CASE j <= k - 1
    BY <1>7, <1>12, <2>2 DEF Gone
  <2> QED
    BY <1>10, <1>22, <2>1, <2>2
<1>23. Absorbed(d, b, k, next)
  BY <1>17, <1>18, <1>19, <1>20, <1>21, <1>22 DEF Absorbed
<1> QED
  BY <1>23 DEF next, t

\* One more position.
LEMMA AbsorbMove ==
  ASSUME SyncShape, NEW d \in Device, NEW b, Fed(d, b), NEW k \in Nat, k # 0,
         NEW st, Absorbed(d, b, k - 1, st)
  PROVE  Absorbed(d, b, k, Move(d, b, k, st))
<1>1. CASE k \notin DOMAIN b.entries
  BY <1>1, AbsorbIdle DEF Move
<1>2. CASE k \in DOMAIN b.entries /\ Known(st, d, b.entries[k].id)
  <2>1. Move(d, b, k, st) = st
    BY <1>2 DEF Move, ApplyOne
  <2>2. k - 1 \in Nat
    OBVIOUS
  <2>3. Gone(st.content, b.entries[k].key)
    BY <1>2, <2>2, KnownIsGone
  <2> QED
    BY <2>1, <2>3, AbsorbIdle
<1>3. CASE k \in DOMAIN b.entries /\ ~ Known(st, d, b.entries[k].id)
  <2>1. Move(d, b, k, st) = ApplyOne(d, st, b.entries[k])
    BY <1>3 DEF Move
  <2> QED
    BY <1>3, <2>1, AbsorbNew
<1> QED
  BY <1>1, <1>2, <1>3

\* What applying a batch does.
LEMMA AppliedAbsorbs ==
  ASSUME SyncShape, NEW d \in Device, NEW b, Fed(d, b), 0 \notin DOMAIN b.entries, b.to \in Nat
  PROVE  Absorbed(d, b, b.to, Applied(d, b))
<1>1. PICK f : Unrolls(d, b, b.to, f) /\ Applied(d, b) = f[b.to]
  BY AppliedFolds
<1>2. \A s \in 0 .. b.to : f[s] = IF s = 0 THEN Start(d) ELSE Move(d, b, s, f[s - 1])
  BY <1>1 DEF Unrolls
<1> DEFINE S == {k \in Nat : k <= b.to /\ ~ Absorbed(d, b, k, f[k])}
<1>3. S = {}
  <2>1. SUFFICES ASSUME S # {} PROVE FALSE
    OBVIOUS
  <2>2. PICK m \in S : \A k \in S : m <= k
    BY <2>1, LeastIndex
  <2>3. CASE m = 0
    BY <1>2, <2>2, <2>3, AbsorbStart
  <2>4. CASE m # 0
    <3>1. m \in Nat /\ m - 1 \in Nat /\ m - 1 <= b.to /\ m - 1 \notin S /\ m \in 0 .. b.to
      BY <2>2, <2>4
    <3>2. Absorbed(d, b, m - 1, f[m - 1])
      BY <3>1
    <3>3. f[m] = Move(d, b, m, f[m - 1])
      BY <1>2, <2>4, <3>1
    <3>4. Absorbed(d, b, m, f[m])
      BY <2>4, <3>1, <3>2, <3>3, AbsorbMove
    <3> QED
      BY <2>2, <3>4
  <2> QED
    BY <2>3, <2>4
<1> QED
  BY <1>1, <1>3

------------------------------------------------------------------------------
(* The batch in hand.                                                       *)

\* The batch in hand is one the fold lemma speaks of.
LEMMA BatchIsFed ==
  ASSUME SyncInv, NEW d \in Device, inbox[d] # NoBatch
  PROVE  /\ Fed(d, inbox[d]) /\ BatchFits(d, inbox[d])
         /\ 0 \notin DOMAIN inbox[d].entries /\ inbox[d].to \in Nat
         /\ \A j \in DOMAIN inbox[d].entries : inbox[d].entries[j] \in Carriers
<1> DEFINE b == inbox[d]
<1>1. SyncShape /\ Core /\ OwnStands /\ BatchStands
  BY DEF SyncInv
<1>2. BatchFits(d, b)
  BY <1>1 DEF BatchStands
<1>3. /\ b.to \in 0 .. MaxEntries /\ DOMAIN b.entries \subseteq 1 .. b.to
      /\ \A s \in DOMAIN b.entries : b.entries[s] \in Tomb
  BY <1>2 DEF BatchFits
<1>4. b.to \in Nat /\ 0 \notin DOMAIN b.entries /\ DOMAIN b.entries \subseteq Nat
  BY <1>1, <1>3, Counters
<1>5. \A j \in DOMAIN b.entries : b.entries[j] \in Carriers
  BY <1>1, <1>3, CarrierFacts
<1>6. \A t \in Carriers : t.id \in Id /\ t.id[3] \in Nat /\ 1 <= t.id[3] /\ t.id[3] <= hashes
  BY <1>1, CarrierFacts DEF Core, Minted
<1>7. \A t, u \in Carriers : t.id[3] = u.id[3] => t = u
  BY <1>1 DEF Core, Agree
<1>8. Present(d) \in Copies(d) /\ Present(d).content = content[d]
      /\ Present(d).applied = applied[d] /\ Present(d).log = log[d]
  BY <1>1, CopyFacts
<1>9. CopyStands(d, Present(d))
  BY <1>1, <1>8 DEF Core, CopiesStand
<1>10. /\ LogStands(log[d])
       /\ \A t \in Carriers : t.id \in applied[d] => Gone(content[d], t.key)
       /\ \A s \in DOMAIN log[d] :
            /\ ~ Relayed(log[d][s]) => Gone(content[d], log[d][s].key)
            /\ Relayed(log[d][s]) /\ fault \notin {"abort", "restore"}
                 => Identity(d, s, log[d][s]) \in applied[d]
            /\ fault \notin {"rollback", "prune"} => log[d][s].origin # d
  BY <1>8, <1>9 DEF CopyStands
<1>11. \A s \in DOMAIN log[d] :
         /\ Told(d, s, log[d][s]) \in Carriers
         /\ Told(d, s, log[d][s]).id = Identity(d, s, log[d][s])
         /\ Told(d, s, log[d][s]).key = log[d][s].key
  BY <1>1, <1>8, CarrierFacts DEF Told
<1>12. \A s \in DOMAIN log[d] : Relayed(log[d][s]) => \A t \in Carriers : t.id[3] # log[d][s].hash
  BY <1>1, <1>8 DEF Core, NotRelays
<1>13. ASSUME NEW j \in DOMAIN b.entries, Known(Start(d), d, b.entries[j].id)
       PROVE  Gone(content[d], b.entries[j].key)
  <2> DEFINE t == b.entries[j]
  <2>1. t \in Carriers
    BY <1>5
  <2> HIDE DEF t
  <2>2. CASE t.id \in applied[d]
    BY <1>10, <2>1, <2>2 DEF t
  <2>3. CASE t.id \notin applied[d]
    <3>1. t.id[1] = d /\ HasTombstone(log[d], pruned[d], t.id)
      BY <1>13, <2>3 DEF Known, Start, t
    <3>2. PICK s \in pruned[d] .. Len(log[d]) \ {0} :
            s = t.id[2] /\ (log[d][s].hash = t.id[3] \/ (s > pruned[d] /\ log[d][s].ohash = t.id[3]))
      BY <3>1 DEF HasTombstone
    <3>3. s \in DOMAIN log[d]
      BY <1>1, <3>2, LogIs DEF SyncShape
    <3> DEFINE e == log[d][s]
    <3>4. CASE e.hash = t.id[3]
      <4>1. ~ Relayed(e)
        BY <1>12, <2>1, <3>3, <3>4
      <4>2. Identity(d, s, e) = <<d, s, e.hash>>
        BY <4>1 DEF Relayed, Identity
      <4>3. Told(d, s, e).id[3] = t.id[3]
        BY <1>11, <3>3, <3>4, <4>2
      <4>4. Told(d, s, e) = t
        BY <1>7, <1>11, <2>1, <3>3, <4>3
      <4> QED
        BY <1>10, <1>11, <3>3, <4>1, <4>4 DEF t
    <3>5. CASE e.hash # t.id[3]
      <4>1. e.ohash = t.id[3]
        BY <3>2, <3>5
      <4>2. Relayed(e)
        BY <1>6, <1>10, <2>1, <3>3, <4>1 DEF Relayed, LogStands
      <4>3. Identity(d, s, e) = <<e.origin, e.oseq, e.ohash>>
        BY <4>2 DEF Relayed, Identity
      <4>4. Told(d, s, e) = t
        BY <1>7, <1>11, <2>1, <3>3, <4>1, <4>3
      <4>5. e.origin = d
        BY <1>11, <3>1, <3>3, <4>3, <4>4
      <4>6. Identity(d, s, e) \in applied[d]
        BY <1>10, <3>3, <4>2, <4>5
      <4> QED
        BY <1>11, <2>3, <3>3, <4>4, <4>6
    <3> QED
      BY <3>4, <3>5
  <2> QED
    BY <2>2, <2>3
<1>14. Fed(d, b)
  BY <1>3, <1>4, <1>5, <1>6, <1>7, <1>13 DEF Fed
<1> QED
  BY <1>2, <1>4, <1>5, <1>14

\* Nothing but the present copy of d is new.
Writes(d) ==
  /\ hashes <= hashes' /\ born \subseteq born' /\ fault' = fault
  /\ \A e \in Device : e # d => Copies(e)' \subseteq Copies(e)
  /\ Copies(d)' \subseteq Copies(d) \cup {Present(d)'}
  /\ Prolongs(Present(d)'.log, Present(d).log, hashes)
  /\ \A e \in Device : inbox'[e] \in {NoBatch, inbox[e]}

\* A write makes new tombstones only of new entries of d's log.
LEMMA CarriersRenew ==
  ASSUME SyncShape, SyncShape', NEW d \in Device, Writes(d), NEW t \in Carriers'
  PROVE  \/ t \in Carriers
         \/ \E s \in DOMAIN Present(d)'.log : s > Len(Present(d).log) /\ t = Told(d, s, Present(d)'.log[s])
<1> DEFINE new == Present(d)'
           old == Present(d)
<1>1. /\ old \in Copies(d) /\ old \in Memory(d) /\ new \in Memory(d)
  BY DEF SyncShape, Copies
<1> HIDE DEF new, old
<1>2. /\ Len(old.log) \in Nat /\ DOMAIN old.log = 1 .. Len(old.log)
      /\ Len(new.log) \in Nat /\ DOMAIN new.log = 1 .. Len(new.log)
  BY <1>1, MemoryFacts
<1>3. /\ \A e \in Device : e # d => Copies(e)' \subseteq Copies(e)
      /\ Copies(d)' \subseteq Copies(d) \cup {new}
      /\ Prolongs(new.log, old.log, hashes)
      /\ \A e \in Device : inbox'[e] \in {NoBatch, inbox[e]}
  BY DEF Writes, new, old
<1>4. t \in Tomb
  BY DEF Carriers
<1>5. ASSUME NEW e \in Device, NEW c \in Copies(e), NEW s \in DOMAIN c.log, t = Told(e, s, c.log[s])
      PROVE  t \in Carriers
  BY <1>5, CarrierFacts
<1>6. ASSUME NEW e \in Device, NEW c \in Copies(e)', NEW s \in DOMAIN c.log, t = Told(e, s, c.log[s])
      PROVE  t \in Carriers \/ \E r \in DOMAIN new.log : r > Len(old.log) /\ t = Told(d, r, new.log[r])
  <2>1. CASE c \in Copies(e)
    BY <1>5, <1>6, <2>1
  <2>2. CASE e = d /\ c = new
    <3>1. CASE s > Len(old.log)
      BY <1>6, <2>2, <3>1
    <3>2. CASE ~ (s > Len(old.log))
      <4>1. s \in DOMAIN old.log
        BY <1>2, <2>2, <3>2
      <4>2. old.log[s] = new.log[s]
        BY <1>2, <1>3, <4>1 DEF Prolongs
      <4> QED
        BY <1>1, <1>5, <1>6, <2>2, <4>1, <4>2
    <3> QED
      BY <3>1, <3>2
  <2> QED
    BY <1>3, <2>1, <2>2
<1>7. ASSUME NEW e \in Device, inbox'[e] # NoBatch, NEW s \in DOMAIN inbox'[e].entries,
             t = inbox'[e].entries[s]
      PROVE  t \in Carriers
  <2>1. inbox'[e] = inbox[e]
    BY <1>3, <1>7
  <2> QED
    BY <1>4, <1>7, <2>1 DEF Carriers
<1>8. \/ \E e \in Device : \E c \in Copies(e)' : \E s \in DOMAIN c.log : t = Told(e, s, c.log[s])
      \/ \E e \in Device : inbox'[e] # NoBatch /\ \E s \in DOMAIN inbox'[e].entries :
                             t = inbox'[e].entries[s]
  BY DEF Carriers, Told, Identity
<1> QED
  BY <1>6, <1>7, <1>8 DEF new, old

\* No batch changes in its inbox, and under prunes no channel moves beneath one.
Keeps == \A e \in Device : inbox'[e] # NoBatch =>
           inbox'[e] = inbox[e] /\ (fault = "prune" => peer'[e] = peer[e])

\* A batch that fits goes on fitting while the sender's log grows or goes back.
LEMMA BatchMoves ==
  ASSUME SyncShape, SyncShape', NEW e \in Device, NEW b, BatchFits(e, b),
         hashes <= hashes', fault' = fault, fault = "prune" => peer'[e] = peer[e],
         \A c \in Copies(b.sender)' :
           \/ c \in Copies(b.sender)
           \/ \E x \in Copies(b.sender) : c.log \in Seq(Entry) /\ Prolongs(c.log, x.log, hashes)
  PROVE  BatchFits(e, b)'
<1> DEFINE p == b.sender
<1>1. /\ p \in Device \ {e} /\ b.from \in 0 .. b.to /\ b.to \in 0 .. MaxEntries
      /\ b.fromChain \in 0 .. hashes /\ b.toChain \in 0 .. hashes
      /\ DOMAIN b.entries \subseteq 1 .. b.to
      /\ \A s \in DOMAIN b.entries : b.entries[s] \in Tomb
      /\ \/ fault = "prune" /\ b.from # peer[e][p].cursor
         \/ \A c \in Copies(p) : Fits(b.to, b.toChain, c.log) =>
              /\ Fits(b.from, b.fromChain, c.log)
              /\ \A s \in (b.from + 1) .. b.to : Travels(c.log[s]) =>
                   s \in DOMAIN b.entries /\ b.entries[s] = Told(p, s, c.log[s])
  BY DEF BatchFits
<1>2. hashes \in Nat /\ MaxEntries \in Nat /\ hashes' \in Nat
  BY Counters, SyncBounds DEF SyncShape
<1>2b. \A c \in Copies(p)' :
           \/ c \in Copies(p)
           \/ \E x \in Copies(p) : c.log \in Seq(Entry) /\ Prolongs(c.log, x.log, hashes)
  OBVIOUS
<1>3. b.fromChain \in 0 .. hashes' /\ b.toChain \in 0 .. hashes'
  BY <1>1, <1>2
<1>4. ASSUME NEW c \in Copies(p)', Fits(b.to, b.toChain, c.log),
             \A x \in Copies(p) : Fits(b.to, b.toChain, x.log) =>
               /\ Fits(b.from, b.fromChain, x.log)
               /\ \A s \in (b.from + 1) .. b.to : Travels(x.log[s]) =>
                    s \in DOMAIN b.entries /\ b.entries[s] = Told(p, s, x.log[s])
      PROVE  /\ Fits(b.from, b.fromChain, c.log)
             /\ \A s \in (b.from + 1) .. b.to : Travels(c.log[s]) =>
                  s \in DOMAIN b.entries /\ b.entries[s] = Told(p, s, c.log[s])
  <2>1. CASE c \in Copies(p)
    BY <1>4, <2>1
  <2>2. CASE c \notin Copies(p)
    <3>1. PICK x \in Copies(p) : c.log \in Seq(Entry) /\ Prolongs(c.log, x.log, hashes)
      BY <1>2b, <2>2
    <3>2. x.log \in Seq(Entry) /\ Len(x.log) \in Nat
      BY <1>1, LogFacts
    <3>3. b.to \in Nat /\ b.from \in Nat /\ b.from <= b.to /\ b.toChain \in Nat /\ b.toChain <= hashes
      BY <1>1, <1>2
    <3>4. Fits(b.to, b.toChain, x.log) /\ \A s \in 1 .. b.to : s \in DOMAIN x.log /\ c.log[s] = x.log[s]
      BY <1>2, <1>4, <3>1, <3>2, <3>3, FitsBack
    <3>5. Fits(b.from, b.fromChain, x.log)
      BY <1>4, <3>4
    <3>6. \A s \in (b.from + 1) .. b.to : s \in 1 .. b.to
      BY <3>3
    <3>7. Len(x.log) <= Len(c.log) /\ Len(c.log) \in Nat
      BY <3>1 DEF Prolongs
    <3>8. Fits(b.from, b.fromChain, c.log)
      BY <3>2, <3>3, <3>4, <3>5, <3>7 DEF Fits
    <3> QED
      BY <1>4, <3>4, <3>6, <3>8
  <2> QED
    BY <2>1, <2>2
<1>5. CASE fault = "prune" /\ b.from # peer[e][p].cursor
  BY <1>1, <1>3, <1>5 DEF BatchFits
<1>6. CASE ~ (fault = "prune" /\ b.from # peer[e][p].cursor)
  BY <1>1, <1>3, <1>4, <1>6 DEF BatchFits
<1> QED
  BY <1>5, <1>6

\* Batches when nothing is written.
LEMMA BatchNarrows ==
  ASSUME SyncShape, SyncShape', BatchStands, Keeps, hashes' = hashes, fault' = fault,
         \A e \in Device : Copies(e)' \subseteq Copies(e)
  PROVE  BatchStands'
<1> SUFFICES ASSUME NEW e \in Device, NEW b \in {inbox'[e]} \ {NoBatch} PROVE BatchFits(e, b)'
  BY DEF BatchStands
<1>1. /\ b = inbox[e] /\ (fault = "prune" => peer'[e] = peer[e]) /\ BatchFits(e, b)
  BY DEF Keeps, BatchStands
<1>2. b.sender \in Device
  BY <1>1 DEF BatchFits
<1>3. hashes <= hashes'
  BY Counters
<1> QED
  BY <1>1, <1>2, <1>3, BatchMoves

\* Batches when d writes.
LEMMA BatchRenews ==
  ASSUME SyncShape, SyncShape', BatchStands, Keeps, NEW d \in Device, Renews(d)
  PROVE  BatchStands'
<1> SUFFICES ASSUME NEW e \in Device, NEW b \in {inbox'[e]} \ {NoBatch} PROVE BatchFits(e, b)'
  BY DEF BatchStands
<1>1. /\ b = inbox[e] /\ (fault = "prune" => peer'[e] = peer[e]) /\ BatchFits(e, b)
  BY DEF Keeps, BatchStands
<1>2. b.sender \in Device
  BY <1>1 DEF BatchFits
<1>3. hashes <= hashes' /\ fault' = fault
      /\ (\A f \in Device : f # d => Copies(f)' \subseteq Copies(f))
      /\ Copies(d)' \subseteq Copies(d) \cup {Present(d)'}
      /\ Prolongs(Present(d)'.log, Present(d).log, hashes)
  BY DEF Renews
<1>4. Present(d)'.log \in Seq(Entry) /\ Present(d) \in Copies(d)
  BY MemoryFacts DEF SyncShape, Copies
<1>5. \A c \in Copies(b.sender)' :
        \/ c \in Copies(b.sender)
        \/ \E x \in Copies(b.sender) : c.log \in Seq(Entry) /\ Prolongs(c.log, x.log, hashes)
  BY <1>2, <1>3, <1>4
<1> QED
  BY <1>1, <1>3, <1>5, BatchMoves

------------------------------------------------------------------------------
(* The steps that write nothing.                                            *)

\* An untouched memory.
LEMMA SamePresent ==
  ASSUME NEW e, content'[e] = content[e], applied'[e] = applied[e], peer'[e] = peer[e], log'[e] = log[e]
  PROVE  Present(e)' = Present(e)
BY DEF Present

\* The copies after a step that makes no backup.
LEMMA FewerCopies ==
  ASSUME NEW e, backup'[e] \in {NoBackup, backup[e]}
  PROVE  Copies(e)' \subseteq Copies(e) \cup {Present(e)'}
BY DEF Copies

\* Without new copies the only new batches are of tombstones already about.
LEMMA CarriersNarrow ==
  ASSUME \A e \in Device : Copies(e)' \subseteq Copies(e),
         \A e \in Device : \/ inbox'[e] \in {NoBatch, inbox[e]}
                           \/ \A s \in DOMAIN inbox'[e].entries : inbox'[e].entries[s] \in Carriers
  PROVE  Carriers' \subseteq Carriers
<1> SUFFICES ASSUME NEW t \in Carriers' PROVE t \in Carriers
  OBVIOUS
<1>1. t \in Tomb
  BY DEF Carriers
<1>2. \/ \E e \in Device : \E c \in Copies(e)' : \E s \in DOMAIN c.log : t = Told(e, s, c.log[s])
      \/ \E e \in Device : inbox'[e] # NoBatch /\ \E s \in DOMAIN inbox'[e].entries :
                             t = inbox'[e].entries[s]
  BY DEF Carriers, Told, Identity
<1>3. ASSUME NEW e \in Device, NEW c \in Copies(e)', NEW s \in DOMAIN c.log, t = Told(e, s, c.log[s])
      PROVE  t \in Carriers
  BY <1>1, <1>3 DEF Carriers
<1>4. ASSUME NEW e \in Device, inbox'[e] # NoBatch, NEW s \in DOMAIN inbox'[e].entries,
             t = inbox'[e].entries[s]
      PROVE  t \in Carriers
  <2>1. CASE inbox'[e] = inbox[e]
    BY <1>1, <1>4, <2>1 DEF Carriers
  <2>2. CASE inbox'[e] # inbox[e]
    BY <1>4, <2>2
  <2> QED
    BY <2>1, <2>2
<1> QED
  BY <1>2, <1>3, <1>4

\* A step after which there is only what there was: the fetch, the backup, the rollback.
LEMMA NarrowSteps ==
  ASSUME SyncInv, SyncShape', hashes' = hashes, born' = born, fault' = fault,
         \A e \in Device : Copies(e)' \subseteq Copies(e),
         Carriers' \subseteq Carriers, fault # "rollback" => log' = log,
         BackupStands', BatchStands'
  PROVE  SyncInv'
<1>1. Core'
  BY CoreNarrows DEF SyncInv
<1>2. OwnStands'
  BY DEF OwnStands, SyncInv
<1> QED
  BY <1>1, <1>2 DEF SyncInv

\* Nothing of the memories and the logs moves.
LEMMA StillSteps ==
  ASSUME SyncInv, SyncShape', UNCHANGED <<content, born, log, applied, peer, backup, hashes, fault>>,
         \A e \in Device : inbox'[e] \in {NoBatch, inbox[e]}
  PROVE  SyncInv'
<1>1. \A e \in Device : Copies(e)' \subseteq Copies(e)
  BY DEF Copies, Present
<1>2. Carriers' \subseteq Carriers
  BY <1>1, CarriersNarrow
<1>3. BackupStands'
  <2>1. \A e \in Device : Present(e)' = Present(e)
    BY SamePresent
  <2> QED
    BY <2>1 DEF BackupStands, SyncInv, Trace
<1>4. BatchStands'
  BY <1>1, BatchNarrows DEF SyncInv, Keeps
<1> QED
  BY <1>1, <1>2, <1>3, <1>4, NarrowSteps

\* The compaction pass.
LEMMA PruneStands ==
  ASSUME SyncInv, NEW d \in Device, NEW s, Prune(d, s)
  PROVE  SyncInv'
<1>1. /\ fault = "prune" /\ fault' = fault /\ faults' = faults + 1 /\ faults < MaxFaults
      /\ s \in DOMAIN log[d] /\ s > pruned[d]
      /\ pruned' = [pruned EXCEPT ![d] = s]
      /\ UNCHANGED <<content, born, log, applied, peer, backup, inbox, hashes, forgets>>
  BY DEF Prune, Spend
<1>2. SyncShape'
  <2>1. SyncShape /\ MaxFaults \in Nat
    BY SyncBounds DEF SyncInv
  <2>2. faults' \in 0 .. MaxFaults
    BY <1>1, <2>1 DEF SyncShape
  <2>3. s \in 0 .. Len(log[d])
    BY <1>1, <2>1, LogIs
  <2>4. \A e \in Device : Present(e)' = Present(e)
    BY <1>1, SamePresent
  <2>5. \A e \in Device : pruned'[e] \in 0 .. Len(log'[e]) /\ (pruned'[e] # 0 => fault' = "prune")
    BY <1>1, <2>1, <2>3 DEF SyncShape
  <2> QED
    BY <1>1, <2>1, <2>2, <2>4, <2>5 DEF SyncShape
<1> QED
  BY <1>1, <1>2, StillSteps

\* A refused batch.
LEMMA DropStands ==
  ASSUME SyncInv, NEW d \in Device, Drop(d)
  PROVE  SyncInv'
<1>1. /\ inbox' = [inbox EXCEPT ![d] = NoBatch]
      /\ UNCHANGED <<content, born, log, pruned, applied, peer, backup, hashes, forgets, fault, faults>>
  BY DEF Drop, Unharmed
<1>2. SyncShape /\ DOMAIN inbox = Device
  BY DEF SyncInv, SyncShape
<1>3. SyncShape'
  <2>1. \A e \in Device : Present(e)' = Present(e)
    BY <1>1, SamePresent
  <2> QED
    BY <1>1, <1>2, <2>1 DEF SyncShape
<1> QED
  BY <1>1, <1>2, <1>3, StillSteps

\* Nothing happens.
LEMMA StutterStands ==
  ASSUME SyncInv, UNCHANGED syncVars
  PROVE  SyncInv'
<1>1. UNCHANGED <<content, born, log, pruned, applied, peer, backup, inbox, hashes, forgets, fault, faults>>
  BY DEF syncVars
<1>2. SyncShape /\ DOMAIN inbox = Device
  BY DEF SyncInv, SyncShape
<1>3. SyncShape'
  <2>1. \A e \in Device : Present(e)' = Present(e)
    BY <1>1, SamePresent
  <2> QED
    BY <1>1, <1>2, <2>1 DEF SyncShape
<1> QED
  BY <1>1, <1>2, <1>3, StillSteps

\* The backup.
LEMMA BackupStep ==
  ASSUME SyncInv, NEW d \in Device, Backup(d)
  PROVE  SyncInv'
<1>1. /\ fault \in {"rollback", "restore"} /\ backup[d] = NoBackup
      /\ backup' = [backup EXCEPT ![d] = Present(d)]
      /\ UNCHANGED <<content, born, log, pruned, applied, peer, inbox, hashes, forgets, fault, faults>>
  BY DEF Backup, Unharmed, Present
<1>2. SyncShape
  BY DEF SyncInv
<1>3. \A e \in Device : Present(e)' = Present(e)
  BY <1>1, SamePresent
<1>4. SyncShape'
  BY <1>1, <1>2, <1>3 DEF SyncShape
<1>5. \A e \in Device : Copies(e)' \subseteq Copies(e)
  <2> SUFFICES ASSUME NEW e \in Device PROVE Copies(e)' \subseteq Copies(e)
    OBVIOUS
  <2>1. backup'[e] = Present(e) \/ backup'[e] = backup[e]
    BY <1>1, <1>2 DEF SyncShape
  <2> QED
    BY <1>3, <2>1 DEF Copies
<1>6. Carriers' \subseteq Carriers
  BY <1>1, <1>5, CarriersNarrow
<1>7. BackupStands'
  <2> SUFFICES ASSUME NEW e \in Device, backup'[e] # NoBackup
               PROVE  /\ fault' \in {"rollback", "restore"}
                      /\ fault' = "restore" => backup'[e].content \subseteq Trace(Present(e)')
    BY DEF BackupStands, Trace
  <2>1. CASE e = d
    BY <1>1, <1>2, <1>3, <2>1 DEF SyncShape, Trace
  <2>2. CASE e # d
    <3>1. backup'[e] = backup[e]
      BY <1>1, <1>2, <2>2 DEF SyncShape
    <3> QED
      BY <1>1, <1>3, <3>1 DEF SyncInv, BackupStands
  <2> QED
    BY <2>1, <2>2
<1>8. BatchStands'
  BY <1>1, <1>2, <1>4, <1>5, BatchNarrows DEF SyncInv, Keeps
<1> QED
  BY <1>1, <1>4, <1>5, <1>6, <1>7, <1>8, NarrowSteps

------------------------------------------------------------------------------
(* Restores and pulls.                                                      *)

\* The whole machine goes back.
LEMMA RestoreMachineStands ==
  ASSUME SyncInv, NEW d \in Device, RestoreMachine(d)
  PROVE  SyncInv'
<1> DEFINE c == backup[d]
<1>1. /\ fault = "rollback" /\ fault' = fault /\ faults' = faults + 1 /\ faults < MaxFaults
      /\ c # NoBackup
      /\ content' = [content EXCEPT ![d] = c.content]
      /\ applied' = [applied EXCEPT ![d] = c.applied]
      /\ peer' = [peer EXCEPT ![d] = c.peer]
      /\ log' = [log EXCEPT ![d] = c.log]
      /\ inbox' = [inbox EXCEPT ![d] = NoBatch]
      /\ backup' = [backup EXCEPT ![d] = NoBackup]
      /\ UNCHANGED <<born, pruned, hashes, forgets>>
  BY DEF RestoreMachine, Spend
<1>2. SyncShape /\ MaxFaults \in Nat
  BY SyncBounds DEF SyncInv
<1>3. /\ DOMAIN content = Device /\ DOMAIN applied = Device /\ DOMAIN peer = Device /\ DOMAIN log = Device
      /\ DOMAIN backup = Device /\ DOMAIN inbox = Device /\ c \in Memory(d)
  BY <1>1, <1>2 DEF SyncShape
<1>4. Present(d)' = c
  <2>1. content'[d] = c.content /\ applied'[d] = c.applied /\ peer'[d] = c.peer /\ log'[d] = c.log
    BY <1>1, <1>3
  <2>2. c = [content |-> c.content, applied |-> c.applied, peer |-> c.peer, log |-> c.log]
    BY <1>3 DEF Memory
  <2> QED
    BY <2>1, <2>2 DEF Present
<1>5. \A e \in Device : e # d => Present(e)' = Present(e) /\ backup'[e] = backup[e]
  <2> SUFFICES ASSUME NEW e \in Device, e # d PROVE Present(e)' = Present(e) /\ backup'[e] = backup[e]
    OBVIOUS
  <2>1. content'[e] = content[e] /\ applied'[e] = applied[e] /\ peer'[e] = peer[e] /\ log'[e] = log[e]
        /\ backup'[e] = backup[e]
    BY <1>1, <1>3
  <2> QED
    BY <2>1, SamePresent
<1>6. backup'[d] = NoBackup
  BY <1>1, <1>3
<1> HIDE DEF c
<1>7. SyncShape'
  <2>1. \A e \in Device : Present(e)' \in Memory(e)
    BY <1>2, <1>3, <1>4, <1>5 DEF SyncShape
  <2>2. \A e \in Device : backup'[e] = NoBackup \/ backup'[e] \in Memory(e)
    BY <1>2, <1>5, <1>6 DEF SyncShape
  <2>3. faults' \in 0 .. MaxFaults
    BY <1>1, <1>2 DEF SyncShape
  <2>4. \A e \in Device : pruned'[e] \in 0 .. Len(log'[e]) /\ (pruned'[e] # 0 => fault' = "prune")
    <3> SUFFICES ASSUME NEW e \in Device PROVE pruned'[e] \in 0 .. Len(log'[e]) /\ pruned'[e] = 0
      OBVIOUS
    <3>1. pruned'[e] = 0
      BY <1>1, <1>2 DEF SyncShape
    <3>2. Present(e)'.log \in Seq(Entry)
      BY <2>1, MemoryFacts
    <3>3. log'[e] \in Seq(Entry)
      BY <3>2 DEF Present
    <3> QED
      BY <3>1, <3>3
  <2>5. /\ DOMAIN content' = Device /\ DOMAIN applied' = Device /\ DOMAIN peer' = Device /\ DOMAIN log' = Device
        /\ DOMAIN backup' = Device /\ DOMAIN inbox' = Device
    BY <1>1, <1>3
  <2> QED
    BY <1>1, <1>2, <2>1, <2>2, <2>3, <2>4, <2>5 DEF SyncShape
<1>8. \A e \in Device : Copies(e)' \subseteq Copies(e)
  <2> SUFFICES ASSUME NEW e \in Device PROVE Copies(e)' \subseteq Copies(e)
    OBVIOUS
  <2>1. CASE e = d
    BY <1>1, <1>4, <1>6, <2>1 DEF Copies, c
  <2>2. CASE e # d
    BY <1>5, <2>2 DEF Copies
  <2> QED
    BY <2>1, <2>2
<1>9. \A e \in Device : inbox'[e] \in {NoBatch, inbox[e]} /\ (inbox'[e] # NoBatch => e # d)
  BY <1>1, <1>3
<1>10. Carriers' \subseteq Carriers
  BY <1>8, <1>9, CarriersNarrow
<1>11. BackupStands'
  <2> SUFFICES ASSUME NEW e \in Device, backup'[e] # NoBackup
               PROVE  fault' \in {"rollback", "restore"} /\ fault' # "restore"
    BY DEF BackupStands, Trace
  <2> QED
    BY <1>1
<1>12. BatchStands'
  <2>1. Keeps
    BY <1>1, <1>9 DEF Keeps
  <2> QED
    BY <1>1, <1>2, <1>7, <1>8, <2>1, BatchNarrows DEF SyncInv
<1> QED
  BY <1>1, <1>7, <1>8, <1>10, <1>11, <1>12, NarrowSteps

\* From where to where a batch is served.
LEMMA ServedFacts ==
  ASSUME SyncShape, NEW p \in Device, NEW since \in Nat, since >= pruned[p]
  PROVE  LET from == ServedFrom(p, since)
             to == ServedTo(p, from)
         IN /\ from \in Nat /\ to \in Nat /\ from <= to /\ to <= Len(log[p])
            /\ from >= pruned[p] \/ (from = 0 /\ since > Len(log[p]))
            /\ from # since => from = 0 /\ since > Len(log[p])
<1> DEFINE from == ServedFrom(p, since)
           to == ServedTo(p, from)
           full == {s \in Travelling(p, from) :
                      Cardinality({r \in Travelling(p, from) : r <= s}) = Limit}
           read == Readable(p, from)
<1>1. /\ Len(log[p]) \in Nat /\ DOMAIN log[p] = 1 .. Len(log[p])
  BY LogIs
<1>2. pruned[p] \in Nat /\ pruned[p] <= Len(log[p])
  BY <1>1 DEF SyncShape
<1>3. /\ from \in Nat /\ from <= Len(log[p])
      /\ from >= pruned[p] \/ (from = 0 /\ since > Len(log[p]))
      /\ from # since => from = 0 /\ since > Len(log[p])
  BY <1>1, <1>2 DEF ServedFrom
<1> HIDE DEF from
<1>4. \A s \in read : s \in Nat /\ from <= s /\ s <= Len(log[p])
  BY <1>1, <1>3 DEF Readable
<1>5. full \subseteq read
  BY DEF Travelling
<1>6. to = CASE full # {} -> CHOOSE s \in full : TRUE
             [] full = {} /\ read # {} -> Len(log[p])
             [] OTHER -> IF pruned[p] > from THEN pruned[p] ELSE from
  BY DEF ServedTo
<1> HIDE DEF full, read, to
<1>7. CASE full # {}
  <2>1. to \in full
    BY <1>6, <1>7
  <2> QED
    BY <1>1, <1>3, <1>4, <1>5, <2>1 DEF from, to
<1>8. CASE full = {} /\ read # {}
  <2>1. to = Len(log[p])
    BY <1>6, <1>8
  <2> QED
    BY <1>1, <1>3, <2>1 DEF from, to
<1>9. CASE full = {} /\ read = {}
  <2>1. to = IF pruned[p] > from THEN pruned[p] ELSE from
    BY <1>6, <1>9
  <2> QED
    BY <1>1, <1>2, <1>3, <2>1 DEF from, to
<1> QED
  BY <1>7, <1>8, <1>9

\* The batch that is served fits the channel that asks for it.
LEMMA FetchedFits ==
  ASSUME SyncInv, NEW d \in Device, NEW p \in Device, d # p, peer[d][p].cursor >= pruned[p]
  PROVE  LET b == Batch(p, peer[d][p].cursor)
         IN BatchFits(d, b) /\ \A s \in DOMAIN b.entries : b.entries[s] \in Carriers
<1> DEFINE since == peer[d][p].cursor
           from == ServedFrom(p, since)
           to == ServedTo(p, from)
           seqs == {s \in Travelling(p, from) : s <= to}
           b == Batch(p, since)
<1>1. SyncShape /\ Core
  BY DEF SyncInv
<1>2. since \in Nat
  <2>1. Present(d) \in Memory(d) /\ Present(d).peer = peer[d]
    BY <1>1, CopyFacts
  <2> QED
    BY <2>1, MemoryFacts
<1>3. /\ from \in Nat /\ to \in Nat /\ from <= to /\ to <= Len(log[p])
      /\ from >= pruned[p] \/ (from = 0 /\ since > Len(log[p]))
      /\ from # since => from = 0 /\ since > Len(log[p])
  BY <1>1, <1>2, ServedFacts
<1>4. /\ Len(log[p]) \in Nat /\ DOMAIN log[p] = 1 .. Len(log[p])
      /\ \A s \in DOMAIN log[p] : log[p][s].hash \in Nat
      /\ hashes \in Nat /\ pruned[p] \in Nat /\ (pruned[p] # 0 => fault = "prune")
      /\ MaxEntries \in Nat /\ hashes <= MaxEntries
  <2>1. pruned[p] \in 0 .. Len(log[p])
    BY <1>1 DEF SyncShape
  <2> QED
    BY <1>1, <2>1, LogIs, Counters DEF SyncShape
<1>5. /\ Present(p) \in Copies(p) /\ Present(p).log = log[p]
  BY <1>1, CopyFacts
<1>6. /\ Len(log[p]) <= hashes /\ \A s \in DOMAIN log[p] : log[p][s].hash <= hashes
      /\ \A s \in DOMAIN log[p] : Told(p, s, log[p][s]) \in Carriers /\ Told(p, s, log[p][s]) \in Tomb
  <2>1. CopiesStand
    BY <1>1 DEF Core
  <2> QED
    BY <1>1, <1>5, <2>1, CopyIs, CarrierFacts, LogFacts
<1>7. /\ b.sender = p /\ b.from = from /\ b.to = to
      /\ b.fromChain = ChainHashAt(p, from) /\ b.toChain = ChainHashAt(p, to)
      /\ b.entries = [s \in seqs |-> Told(p, s, log[p][s])]
  BY DEF Batch, Tombstone, Told
<1> HIDE DEF from, to, seqs, b, since
<1>8. \A s \in seqs : s \in DOMAIN log[p] /\ s \in Nat /\ from < s /\ 1 <= s /\ s <= to
  BY <1>3, <1>4 DEF seqs, Travelling, Readable
<1>9. DOMAIN b.entries = seqs /\ \A s \in seqs : b.entries[s] = Told(p, s, log[p][s])
  BY <1>7
<1>10. \A s \in DOMAIN b.entries : b.entries[s] \in Tomb /\ b.entries[s] \in Carriers
  BY <1>6, <1>8, <1>9
<1>11. /\ b.fromChain \in 0 .. hashes /\ b.toChain \in 0 .. hashes
       /\ from = 0 => b.fromChain = 0
       /\ to # 0 /\ to >= pruned[p] => b.toChain = log[p][to].hash
       /\ from # 0 /\ from >= pruned[p] => b.fromChain = log[p][from].hash
  <2>1. \A n \in Nat : n <= Len(log[p]) =>
          /\ ChainHashAt(p, n) \in 0 .. hashes
          /\ n # 0 /\ n >= pruned[p] => ChainHashAt(p, n) = log[p][n].hash
          /\ n = 0 => ChainHashAt(p, n) = 0
    <3> SUFFICES ASSUME NEW n \in Nat, n <= Len(log[p])
                 PROVE /\ ChainHashAt(p, n) \in 0 .. hashes
                       /\ n # 0 /\ n >= pruned[p] => ChainHashAt(p, n) = log[p][n].hash
                       /\ n = 0 => ChainHashAt(p, n) = 0
      OBVIOUS
    <3>1. CASE n = 0 \/ n < pruned[p]
      BY <1>4, <3>1 DEF ChainHashAt, Genesis
    <3>2. CASE n # 0 /\ n >= pruned[p]
      <4>1. n \in DOMAIN log[p] /\ ChainHashAt(p, n) = log[p][n].hash
        BY <1>4, <3>2 DEF ChainHashAt
      <4> QED
        BY <1>4, <1>6, <3>2, <4>1
    <3> QED
      BY <1>4, <3>1, <3>2
  <2>2. from <= Len(log[p])
    BY <1>3, <1>4
  <2> QED
    BY <1>3, <1>7, <2>1, <2>2
<1>12. ASSUME ~ (fault = "prune" /\ from # since), NEW c \in Copies(p), Fits(to, b.toChain, c.log)
       PROVE  /\ Fits(from, b.fromChain, c.log)
              /\ \A s \in (from + 1) .. to : Travels(c.log[s]) =>
                   s \in DOMAIN b.entries /\ b.entries[s] = Told(p, s, c.log[s])
  <2>1. from >= pruned[p]
    BY <1>3, <1>4, <1>12
  <2>2. CASE to = 0
    <3>1. from = 0
      BY <1>3, <2>2
    <3>2. Len(c.log) \in Nat
      BY <1>1, LogFacts
    <3> QED
      BY <2>2, <3>1, <3>2 DEF Fits
  <2>3. CASE to # 0
    <3>1. to \in DOMAIN log[p] /\ b.toChain = log[p][to].hash
      BY <1>3, <1>4, <1>11, <2>1, <2>3
    <3>2. Len(c.log) \in Nat /\ DOMAIN c.log = 1 .. Len(c.log)
      BY <1>1, LogFacts
    <3>3. to <= Len(c.log) /\ to \in DOMAIN c.log /\ c.log[to].hash = log[p][to].hash
      BY <1>3, <1>12, <2>3, <3>1, <3>2 DEF Fits
    <3>4. \A r \in 1 .. to : log[p][r] = c.log[r]
      BY <1>1, <1>5, <3>1, <3>3 DEF Core, SamePast
    <3>5. Fits(from, b.fromChain, c.log)
      <4>1. from <= Len(c.log)
        BY <1>3, <3>2, <3>3
      <4>2. from # 0 => c.log[from].hash = b.fromChain
        BY <1>3, <1>11, <2>1, <3>4
      <4> QED
        BY <4>1, <4>2 DEF Fits
    <3>6. ASSUME NEW s \in (from + 1) .. to, Travels(c.log[s])
          PROVE  s \in DOMAIN b.entries /\ b.entries[s] = Told(p, s, c.log[s])
      <4>1. s \in 1 .. to /\ s \in DOMAIN log[p] /\ s > from /\ s > pruned[p] /\ s <= to
        BY <1>3, <1>4, <2>1
      <4>2. log[p][s] = c.log[s]
        BY <3>4, <4>1
      <4>3. s \in seqs
        BY <3>6, <4>1, <4>2 DEF seqs, Travelling, Readable
      <4> QED
        BY <1>9, <4>2, <4>3
    <3> QED
      BY <3>5, <3>6
  <2> QED
    BY <2>2, <2>3
<1>13. /\ b.from \in 0 .. b.to /\ b.to \in 0 .. MaxEntries /\ b.sender \in Device \ {d}
       /\ DOMAIN b.entries \subseteq 1 .. b.to
  <2>1. from \in 0 .. to /\ to \in 0 .. MaxEntries
    BY <1>3, <1>4, <1>6
  <2>2. seqs \subseteq 1 .. to
    BY <1>3, <1>8
  <2> QED
    BY <1>7, <1>9, <2>1, <2>2
<1>14. BatchFits(d, b)
  <2>1. CASE fault = "prune" /\ from # since
    BY <1>7, <1>10, <1>11, <1>13, <2>1 DEF BatchFits, since
  <2>2. CASE ~ (fault = "prune" /\ from # since)
    BY <1>7, <1>10, <1>11, <1>12, <1>13, <2>2 DEF BatchFits
  <2> QED
    BY <2>1, <2>2
<1> QED
  BY <1>10, <1>14 DEF b, since

\* The pull.
LEMMA FetchStands ==
  ASSUME SyncInv, NEW d \in Device, NEW p \in Device, Fetch(d, p)
  PROVE  SyncInv'
<1>1. /\ d # p /\ peer[d][p].cursor >= pruned[p] /\ inbox[d] = NoBatch
      /\ inbox' = [inbox EXCEPT ![d] = Batch(p, peer[d][p].cursor)]
      /\ UNCHANGED <<content, born, log, pruned, applied, peer, backup, hashes, forgets, fault, faults>>
  BY DEF Fetch, Unharmed
<1>2. SyncShape /\ DOMAIN inbox = Device
  BY DEF SyncInv, SyncShape
<1>3. \A e \in Device : Present(e)' = Present(e) /\ Copies(e)' = Copies(e)
  BY <1>1, SamePresent DEF Copies
<1>4. SyncShape'
  BY <1>1, <1>2, <1>3 DEF SyncShape
<1>5. \E b : /\ inbox'[d] = b /\ BatchFits(d, b) /\ \A s \in DOMAIN b.entries : b.entries[s] \in Carriers
  BY <1>1, <1>2, FetchedFits
<1>6. PICK b : inbox'[d] = b /\ BatchFits(d, b) /\ \A s \in DOMAIN b.entries : b.entries[s] \in Carriers
  BY <1>5
<1>7. \A e \in Device : e # d => inbox'[e] = inbox[e]
  BY <1>1, <1>2
<1>8. Carriers' \subseteq Carriers
  <2>1. \A e \in Device : \/ inbox'[e] \in {NoBatch, inbox[e]}
                          \/ \A s \in DOMAIN inbox'[e].entries : inbox'[e].entries[s] \in Carriers
    BY <1>6, <1>7
  <2> QED
    BY <1>3, <2>1, CarriersNarrow
<1>9. BackupStands'
  BY <1>1, <1>3 DEF BackupStands, SyncInv, Trace
<1>10. BatchStands'
  <2> SUFFICES ASSUME NEW e \in Device, NEW x \in {inbox'[e]} \ {NoBatch} PROVE BatchFits(e, x)'
    BY DEF BatchStands
  <2>1. BatchFits(e, x)
    <3>1. CASE e = d
      BY <1>6, <3>1
    <3>2. CASE e # d
      BY <1>7, <3>2 DEF SyncInv, BatchStands
    <3> QED
      BY <3>1, <3>2
  <2>2. x.sender \in Device
    BY <2>1 DEF BatchFits
  <2>3. hashes <= hashes'
    BY <1>1, <1>2, Counters
  <2> QED
    BY <1>1, <1>2, <1>3, <1>4, <2>1, <2>2, <2>3, BatchMoves
<1> QED
  BY <1>1, <1>3, <1>4, <1>8, <1>9, <1>10, NarrowSteps

------------------------------------------------------------------------------
(* The steps that write at one device.                                      *)

\* Own deletions stay in a log that grows.
LEMMA OwnRenews ==
  ASSUME SyncInv, SyncShape', NEW d \in Device, Renews(d),
         \A e \in Device : e # d => log'[e] = log[e],
         \A t \in Carriers' : t \notin Carriers =>
           t.id[2] \in DOMAIN log'[t.id[1]] /\ log'[t.id[1]][t.id[2]].hash = t.id[3]
  PROVE  OwnStands'
<1> SUFFICES ASSUME fault' # "rollback", NEW t \in Carriers'
             PROVE  t.id[2] \in DOMAIN log'[t.id[1]] /\ log'[t.id[1]][t.id[2]].hash = t.id[3]
  BY DEF OwnStands
<1>1. CASE t \notin Carriers
  BY <1>1
<1>2. CASE t \in Carriers
  <2>1. /\ t.id[2] \in DOMAIN log[t.id[1]] /\ log[t.id[1]][t.id[2]].hash = t.id[3] /\ t.id[1] \in Device
    BY <1>2, CarrierFacts DEF SyncInv, OwnStands, Renews
  <2>2. Prolongs(log'[d], log[d], hashes)
    BY DEF Renews, Present
  <2>3. CASE t.id[1] = d
    <3>1. Len(log[d]) \in Nat /\ DOMAIN log[d] = 1 .. Len(log[d])
      BY LogIs DEF SyncInv
    <3>2. Present(d)'.log \in Seq(Entry)
      BY MemoryFacts DEF SyncShape
    <3>3. Len(log'[d]) \in Nat /\ DOMAIN log'[d] = 1 .. Len(log'[d])
      BY <3>2 DEF Present
    <3> QED
      BY <2>1, <2>2, <2>3, <3>1, <3>3 DEF Prolongs
  <2>4. CASE t.id[1] # d
    BY <2>1, <2>4
  <2> QED
    BY <2>3, <2>4
<1> QED
  BY <1>1, <1>2

\* Backups stay traced.
LEMMA BackupRenews ==
  ASSUME SyncInv, fault' = fault,
         \A e \in Device : \/ backup'[e] = NoBackup
                           \/ /\ backup'[e] = backup[e]
                              /\ fault = "restore" => Trace(Present(e)) \subseteq Trace(Present(e)')
  PROVE  BackupStands'
<1> SUFFICES ASSUME NEW e \in Device, backup'[e] # NoBackup
             PROVE  /\ fault' \in {"rollback", "restore"}
                    /\ fault' = "restore" => backup'[e].content \subseteq Trace(Present(e)')
  BY DEF BackupStands, Trace
<1> QED
  BY DEF SyncInv, BackupStands

\* A step that writes at d.
LEMMA RenewSteps ==
  ASSUME SyncInv, SyncShape', NEW d \in Device, Renews(d), Keeps, BackupStands', OwnStands'
  PROVE  SyncInv'
<1>1. Core'
  BY CoreRenews DEF SyncInv
<1>2. BatchStands'
  BY BatchRenews DEF SyncInv
<1> QED
  BY <1>1, <1>2 DEF SyncInv

\* Only the memory of d is touched.
Apiece(d) ==
  /\ \A e \in Device : e # d => /\ content'[e] = content[e] /\ applied'[e] = applied[e]
                                /\ peer'[e] = peer[e] /\ log'[e] = log[e] /\ backup'[e] = backup[e]
  /\ backup'[d] \in {NoBackup, backup[d]}
  /\ \A e \in Device : inbox'[e] \in {NoBatch, inbox[e]}
  /\ \A e \in Device : inbox'[e] # NoBatch /\ fault = "prune" => peer'[e] = peer[e]
  /\ hashes <= hashes' /\ born \subseteq born' /\ fault' = fault

\* The copies after a step at d.
LEMMA ApieceFacts ==
  ASSUME NEW d \in Device, Apiece(d)
  PROVE  /\ \A e \in Device : e # d => Present(e)' = Present(e) /\ Copies(e)' \subseteq Copies(e)
         /\ Copies(d)' \subseteq Copies(d) \cup {Present(d)'}
         /\ Keeps
<1>1. ASSUME NEW e \in Device, e # d PROVE Present(e)' = Present(e) /\ Copies(e)' \subseteq Copies(e)
  <2>1. Present(e)' = Present(e)
    BY <1>1, SamePresent DEF Apiece
  <2> QED
    BY <1>1, <2>1 DEF Apiece, Copies
<1>2. Copies(d)' \subseteq Copies(d) \cup {Present(d)'}
  BY FewerCopies DEF Apiece
<1>3. Keeps
  BY DEF Apiece, Keeps
<1> QED
  BY <1>1, <1>2, <1>3

\* The log stays.
LEMMA CarriersStay ==
  ASSUME SyncShape, SyncShape', NEW d \in Device, Apiece(d), log'[d] = log[d]
  PROVE  Carriers' \subseteq Carriers /\ Prolongs(Present(d)'.log, Present(d).log, hashes)
<1>1. log[d] \in Seq(Entry) /\ Len(log[d]) \in Nat /\ DOMAIN log[d] = 1 .. Len(log[d])
  BY LogIs
<1>2. Present(d)'.log = log[d] /\ Present(d).log = log[d]
  BY DEF Present
<1>3. Prolongs(Present(d)'.log, Present(d).log, hashes)
  <2>1. \A s \in DOMAIN log[d] : ~ (s > Len(log[d]))
    BY <1>1
  <2> QED
    BY <1>1, <1>2, <2>1 DEF Prolongs
<1>4. Writes(d)
  BY <1>3, ApieceFacts DEF Apiece, Writes
<1>5. ASSUME NEW t \in Carriers' PROVE t \in Carriers
  <2>1. ~ \E s \in DOMAIN Present(d)'.log : s > Len(Present(d).log) /\ t = Told(d, s, Present(d)'.log[s])
    BY <1>1, <1>2
  <2> QED
    BY <1>4, <2>1, CarriersRenew
<1> QED
  BY <1>3, <1>5

\* A renewal that writes nothing.
LEMMA StayRenews ==
  ASSUME SyncInv, SyncShape', NEW d \in Device, Apiece(d), log'[d] = log[d],
         content'[d] \subseteq content[d] \cup (born' \ born),
         (CopyStands(d, Present(d)) /\ ChannelStands(d, Present(d)))',
         backup'[d] = NoBackup \/ content[d] \subseteq content'[d]
  PROVE  SyncInv'
<1>1. SyncShape
  BY DEF SyncInv
<1>2. Carriers' \subseteq Carriers /\ Prolongs(Present(d)'.log, Present(d).log, hashes)
  BY <1>1, CarriersStay
<1>3. Present(d)'.log = log[d] /\ Present(d).log = log[d]
      /\ Present(d)'.content = content'[d] /\ Present(d).content = content[d]
  BY DEF Present
<1>4. Len(log[d]) \in Nat /\ DOMAIN log[d] = 1 .. Len(log[d])
  BY <1>1, LogIs
<1>5. Trace(Present(d)') \subseteq Trace(Present(d)) \cup (born' \ born)
  BY <1>3 DEF Trace
<1>6. Renews(d)
  <2>1. \A s \in DOMAIN Present(d)'.log : ~ (s > Len(Present(d).log))
    BY <1>3, <1>4
  <2> QED
    BY <1>2, <1>5, <2>1, ApieceFacts DEF Renews, Apiece
<1>7. OwnStands'
  BY <1>2, <1>6, OwnRenews DEF Apiece
<1>8. BackupStands'
  <2>1. backup'[d] = NoBackup \/ Trace(Present(d)) \subseteq Trace(Present(d)')
    BY <1>3 DEF Trace
  <2>2. \A e \in Device : e # d => backup'[e] = backup[e] /\ Trace(Present(e)) \subseteq Trace(Present(e)')
    BY ApieceFacts DEF Apiece
  <2> QED
    BY <2>1, <2>2, BackupRenews DEF Apiece
<1> QED
  BY <1>6, <1>7, <1>8, ApieceFacts, RenewSteps

\* A new item.
LEMMA ObserveStands ==
  ASSUME SyncInv, NEW d \in Device, NEW i \in Item, Observe(d, i)
  PROVE  SyncInv'
<1>1. /\ i \notin born /\ born' = born \cup {i}
      /\ content' = [content EXCEPT ![d] = @ \cup {i}]
      /\ UNCHANGED <<log, pruned, applied, peer, backup, inbox, hashes, forgets, fault, faults>>
  BY DEF Observe, Unharmed
<1>2. SyncShape /\ Core
  BY DEF SyncInv
<1>3. DOMAIN content = Device /\ Shared \subseteq born /\ born \subseteq Item
  BY <1>2 DEF SyncShape
<1>4. /\ content'[d] = content[d] \cup {i}
      /\ \A e \in Device : e # d => content'[e] = content[e]
  BY <1>1, <1>3
<1>5. i # User
  BY ItemAssumption DEF User
<1>6. Apiece(d)
  BY <1>1, <1>2, <1>4, Counters DEF Apiece
<1>7. SyncShape'
  <2>1. \A e \in Device : Present(e)' \in Memory(e)
    <3> SUFFICES ASSUME NEW e \in Device PROVE Present(e)' \in Memory(e)
      OBVIOUS
    <3>1. Present(e) \in Memory(e)
      BY <1>2 DEF SyncShape
    <3>2. content'[e] \subseteq Item
      BY <1>2, <1>4, LogIs
    <3> QED
      BY <1>1, <3>1, <3>2 DEF Present, Memory
  <2>2. DOMAIN content' = Device /\ Shared \subseteq born' /\ born' \subseteq Item
    BY <1>1, <1>3
  <2> QED
    BY <1>1, <1>2, <2>1, <2>2 DEF SyncShape
<1>8. Carriers' \subseteq Carriers
  BY <1>1, <1>2, <1>6, <1>7, CarriersStay
<1>9. PICK c : c = Present(d)'
  OBVIOUS
<1>10. c.content = content[d] \cup {i} /\ c.applied = applied[d] /\ c.log = log[d] /\ c.peer = peer[d]
  BY <1>1, <1>4, <1>9 DEF Present
<1>11. Present(d) \in Copies(d) /\ Present(d).content = content[d] /\ Present(d).applied = applied[d]
       /\ Present(d).log = log[d] /\ Present(d).peer = peer[d]
  BY <1>2, CopyFacts
<1>12. CopyStands(d, Present(d)) /\ ChannelStands(d, Present(d))
  BY <1>2, <1>11 DEF Core, CopiesStand
<1>13. \A key \in born \cup {User} : Gone(content[d], key) => Gone(c.content, key)
  BY <1>1, <1>3, <1>5, <1>10 DEF Gone
<1>14. CopyStands(d, c)'
  <2>1. /\ content[d] \subseteq born /\ LogStands(log[d])
        /\ \A id \in applied[d] : id[3] <= hashes
        /\ \A t \in Carriers : t.id \in applied[d] => Gone(content[d], t.key)
        /\ \A s \in DOMAIN log[d] :
             /\ Identity(d, s, log[d][s]) \in applied[d] => log[d][s].items \cap content[d] = {}
             /\ ~ Relayed(log[d][s]) => Gone(content[d], log[d][s].key)
             /\ Relayed(log[d][s]) /\ fault \notin {"abort", "restore"}
                  => Identity(d, s, log[d][s]) \in applied[d]
             /\ fault \notin {"rollback", "prune"} => log[d][s].origin # d
    BY <1>11, <1>12 DEF CopyStands
  <2>2. LogStands(c.log)'
    BY <1>1, <1>10, <2>1 DEF LogStands
  <2>3. \A t \in Carriers' : t.id \in c.applied => Gone(c.content, t.key)
    BY <1>2, <1>8, <1>10, <1>13, <2>1 DEF Core, Minted
  <2>4. \A s \in DOMAIN log[d] : /\ log[d][s].items \subseteq born
                                 /\ log[d][s].key \in born \cup {User}
    BY <2>1 DEF LogStands
  <2>5. \A s \in DOMAIN log[d] :
          /\ Identity(d, s, log[d][s]) \in applied[d] => log[d][s].items \cap c.content = {}
          /\ ~ Relayed(log[d][s]) => Gone(c.content, log[d][s].key)
    BY <1>1, <1>10, <1>13, <2>1, <2>4
  <2> QED
    BY <1>1, <1>10, <2>1, <2>2, <2>3, <2>5 DEF CopyStands, Gone, Identity, Relayed
<1>15. ChannelStands(d, c)'
  <2> SUFFICES ASSUME NEW p \in Device \ {d}
               PROVE  /\ c.peer[p].cursor <= MaxEntries /\ c.peer[p].chain <= hashes'
                      /\ \A b \in Copies(p)' : Fits(c.peer[p].cursor, c.peer[p].chain, b.log) =>
                           \A s \in 1 .. c.peer[p].cursor :
                             Travels(b.log[s]) => b.log[s].items \cap c.content = {}
    BY DEF ChannelStands
  <2>1. /\ peer[d][p].cursor <= MaxEntries /\ peer[d][p].chain <= hashes
        /\ \A b \in Copies(p) : Fits(peer[d][p].cursor, peer[d][p].chain, b.log) =>
             \A s \in 1 .. peer[d][p].cursor : Travels(b.log[s]) => b.log[s].items \cap content[d] = {}
    BY <1>11, <1>12 DEF ChannelStands
  <2>2. peer[d][p].cursor \in Nat
    BY <1>2, <1>11, MemoryFacts DEF SyncShape
  <2>3. ASSUME NEW b \in Copies(p)', Fits(peer[d][p].cursor, peer[d][p].chain, b.log),
               NEW s \in 1 .. peer[d][p].cursor, Travels(b.log[s])
        PROVE  b.log[s].items \cap c.content = {}
    <3>1. b \in Copies(p)
      BY <1>6, ApieceFacts
    <3>2. s \in DOMAIN b.log
      BY <1>2, <2>2, <2>3, <3>1, LogFacts DEF Fits
    <3>3. b.log[s].items \subseteq born
      BY <1>2, <3>1, <3>2, CopyIs DEF Core, Trace
    <3> QED
      BY <1>1, <1>10, <2>1, <2>3, <3>1, <3>3
  <2> QED
    BY <1>1, <1>10, <2>1, <2>3
<1>16. content'[d] \subseteq content[d] \cup (born' \ born) /\ content[d] \subseteq content'[d]
  BY <1>1, <1>4
<1> QED
  BY <1>1, <1>6, <1>7, <1>9, <1>14, <1>15, <1>16, StayRenews

\* The main database goes back, and the log is replayed.
LEMMA RestoreDatabaseStands ==
  ASSUME SyncInv, NEW d \in Device, RestoreDatabase(d)
  PROVE  SyncInv'
<1> DEFINE k == backup[d]
           items == UNION {e.items : e \in ToSet(log[d])}
<1>1. /\ fault = "restore" /\ fault' = fault /\ faults' = faults + 1 /\ faults < MaxFaults
      /\ k # NoBackup
      /\ content' = [content EXCEPT ![d] = k.content \ items]
      /\ applied' = [applied EXCEPT ![d] = k.applied]
      /\ peer' = [peer EXCEPT ![d] = k.peer]
      /\ inbox' = [inbox EXCEPT ![d] = NoBatch]
      /\ backup' = [backup EXCEPT ![d] = NoBackup]
      /\ UNCHANGED <<born, log, pruned, hashes, forgets>>
  BY DEF RestoreDatabase, Spend
<1>2. SyncShape /\ Core /\ MaxFaults \in Nat
  BY SyncBounds DEF SyncInv
<1>3. /\ DOMAIN content = Device /\ DOMAIN applied = Device /\ DOMAIN peer = Device /\ DOMAIN log = Device
      /\ DOMAIN backup = Device /\ DOMAIN inbox = Device /\ k \in Memory(d)
      /\ k \in Copies(d)
  BY <1>1, <1>2 DEF SyncShape, Copies
<1>4. items = UNION {log[d][s].items : s \in DOMAIN log[d]}
  BY DEF ToSet
<1>5. k.content \subseteq content[d] \cup items
  BY <1>1, <1>4 DEF SyncInv, BackupStands, Trace, Present
<1> HIDE DEF k, items
<1>6. /\ content'[d] = k.content \ items /\ applied'[d] = k.applied /\ peer'[d] = k.peer
      /\ log'[d] = log[d] /\ backup'[d] = NoBackup /\ inbox'[d] = NoBatch
  BY <1>1, <1>3
<1>7. \A e \in Device : e # d =>
        /\ content'[e] = content[e] /\ applied'[e] = applied[e] /\ peer'[e] = peer[e]
        /\ log'[e] = log[e] /\ backup'[e] = backup[e] /\ inbox'[e] = inbox[e]
  BY <1>1, <1>3
<1>8. Apiece(d)
  BY <1>1, <1>2, <1>6, <1>7, Counters DEF Apiece
<1>9. SyncShape'
  <2>1. Present(d)' \in Memory(d)
    <3>1. /\ k.content \subseteq Item /\ k.applied \subseteq Id /\ k.peer \in [Device \ {d} -> Channel]
          /\ log[d] \in Seq(Entry)
      BY <1>2, <1>3, MemoryFacts, LogIs
    <3> QED
      BY <1>6, <3>1 DEF Present, Memory
  <2>2. \A e \in Device : e # d => Present(e)' = Present(e)
    BY <1>8, ApieceFacts
  <2>3. \A e \in Device : Present(e)' \in Memory(e)
    BY <1>2, <2>1, <2>2 DEF SyncShape
  <2>4. \A e \in Device : backup'[e] = NoBackup \/ backup'[e] \in Memory(e)
    BY <1>2, <1>6, <1>7 DEF SyncShape
  <2>5. faults' \in 0 .. MaxFaults
    BY <1>1, <1>2 DEF SyncShape
  <2>6. /\ DOMAIN content' = Device /\ DOMAIN applied' = Device /\ DOMAIN peer' = Device /\ DOMAIN log' = Device
        /\ DOMAIN backup' = Device /\ DOMAIN inbox' = Device
    BY <1>1, <1>3
  <2> QED
    BY <1>1, <1>2, <2>3, <2>4, <2>5, <2>6 DEF SyncShape
<1>10. Carriers' \subseteq Carriers
  BY <1>2, <1>6, <1>8, <1>9, CarriersStay
<1>11. PICK c : c = Present(d)'
  OBVIOUS
<1>12. c.content = k.content \ items /\ c.applied = k.applied /\ c.log = log[d] /\ c.peer = k.peer
  BY <1>6, <1>11 DEF Present
<1>13. Present(d) \in Copies(d) /\ Present(d).content = content[d] /\ Present(d).log = log[d]
  BY <1>2, CopyFacts
<1>14. CopyStands(d, Present(d)) /\ CopyStands(d, k) /\ ChannelStands(d, k)
  BY <1>2, <1>3, <1>13 DEF Core, CopiesStand
<1>15. c.content \subseteq content[d] /\ c.content \subseteq k.content
  BY <1>5, <1>12
<1>16. \A s \in DOMAIN log[d] : log[d][s].items \cap c.content = {}
  BY <1>4, <1>12
<1>17. CopyStands(d, c)'
  <2>1. /\ content[d] \subseteq born /\ LogStands(log[d])
        /\ \A s \in DOMAIN log[d] :
             /\ ~ Relayed(log[d][s]) => Gone(content[d], log[d][s].key)
             /\ fault \notin {"rollback", "prune"} => log[d][s].origin # d
    BY <1>13, <1>14 DEF CopyStands
  <2>2. /\ \A id \in k.applied : id[3] <= hashes
        /\ \A t \in Carriers : t.id \in k.applied => Gone(k.content, t.key)
    BY <1>14 DEF CopyStands
  <2>3. LogStands(c.log)'
    BY <1>1, <1>12, <2>1 DEF LogStands
  <2>4. \A t \in Carriers' : t.id \in c.applied => Gone(c.content, t.key)
    BY <1>10, <1>12, <1>15, <2>2 DEF Gone
  <2>5. \A s \in DOMAIN log[d] : ~ Relayed(log[d][s]) => Gone(c.content, log[d][s].key)
    BY <1>15, <2>1 DEF Gone
  <2>6. c.content \subseteq born' /\ \A id \in c.applied : id[3] <= hashes'
    BY <1>1, <1>12, <1>15, <2>1, <2>2
  <2>7. /\ \A t \in Carriers' : t.id \in c.applied => Gone(c.content, t.key)'
        /\ \A s \in DOMAIN c.log :
             /\ c.log[s].items \cap c.content = {}
             /\ ~ Relayed(c.log[s]) => Gone(c.content, c.log[s].key)
             /\ fault' \in {"abort", "restore"}
             /\ fault' \notin {"rollback", "prune"} => c.log[s].origin # d
    BY <1>1, <1>12, <1>16, <2>1, <2>4, <2>5 DEF Gone
  <2> QED
    BY <2>3, <2>6, <2>7 DEF CopyStands, Gone, Relayed
<1>18. ChannelStands(d, c)'
  <2> SUFFICES ASSUME NEW p \in Device \ {d}
               PROVE  /\ c.peer[p].cursor <= MaxEntries /\ c.peer[p].chain <= hashes'
                      /\ \A b \in Copies(p)' : Fits(c.peer[p].cursor, c.peer[p].chain, b.log) =>
                           \A s \in 1 .. c.peer[p].cursor :
                             Travels(b.log[s]) => b.log[s].items \cap c.content = {}
    BY DEF ChannelStands
  <2>1. /\ k.peer[p].cursor <= MaxEntries /\ k.peer[p].chain <= hashes
        /\ \A b \in Copies(p) : Fits(k.peer[p].cursor, k.peer[p].chain, b.log) =>
             \A s \in 1 .. k.peer[p].cursor : Travels(b.log[s]) => b.log[s].items \cap k.content = {}
    BY <1>14 DEF ChannelStands
  <2>2. ASSUME NEW b \in Copies(p)', Fits(k.peer[p].cursor, k.peer[p].chain, b.log),
               NEW s \in 1 .. k.peer[p].cursor, Travels(b.log[s])
        PROVE  b.log[s].items \cap c.content = {}
    <3>1. b \in Copies(p)
      BY <1>8, ApieceFacts
    <3> QED
      BY <1>15, <2>1, <2>2, <3>1
  <2> QED
    BY <1>1, <1>12, <2>1, <2>2
<1>19. content'[d] \subseteq content[d]
  BY <1>6, <1>12, <1>15
<1> QED
  BY <1>6, <1>8, <1>9, <1>11, <1>17, <1>18, <1>19, StayRenews

\* A deletion called for here.
LEMMA DeleteStands ==
  ASSUME SyncInv, NEW d \in Device, NEW key \in Item \cup {User}, NEW doomed, Delete(d, key, doomed),
         doomed \subseteq content[d], key # User => doomed = {key}, Gone(content[d] \ doomed, key)
  PROVE  SyncInv'
<1> DEFINE e == [key |-> key, items |-> doomed, hash |-> hashes + 1,
                 origin |-> "own", oseq |-> 0, ohash |-> 0]
           n == Len(log[d]) + 1
<1>1. /\ hashes < MaxEntries /\ forgets < MaxForgets
      /\ hashes' = hashes + 1 /\ forgets' = forgets + 1
      /\ log' = [log EXCEPT ![d] = Append(@, e)]
      /\ content' = [content EXCEPT ![d] = @ \ doomed]
      /\ UNCHANGED <<born, pruned, applied, peer, backup, inbox, fault, faults>>
  BY DEF Delete, Append1, Own, Unharmed
<1>2. SyncShape /\ Core /\ MaxForgets \in Nat /\ CopiesStand
  BY SyncBounds DEF SyncInv, Core
<1>3. DOMAIN content = Device /\ DOMAIN log = Device /\ born \subseteq Item
  BY <1>2 DEF SyncShape
<1>4. /\ log[d] \in Seq(Entry) /\ Len(log[d]) \in Nat /\ DOMAIN log[d] = 1 .. Len(log[d])
      /\ content[d] \subseteq Item /\ hashes \in Nat /\ MaxEntries \in Nat
  BY <1>2, LogIs, Counters
<1>5. /\ e.key = key /\ e.items = doomed /\ e.hash = hashes + 1
      /\ e.origin = "own" /\ e.oseq = 0 /\ e.ohash = 0
  OBVIOUS
<1>6. e \in Entry
  BY <1>4 DEF Entry
<1> HIDE DEF e
<1>7. /\ content'[d] = content[d] \ doomed /\ log'[d] = Append(log[d], e)
      /\ \A f \in Device : f # d => content'[f] = content[f] /\ log'[f] = log[f]
  BY <1>1, <1>3
<1>8. /\ log'[d] \in Seq(Entry) /\ Len(log'[d]) = n /\ DOMAIN log'[d] = 1 .. n
      /\ log'[d][n] = e /\ \A s \in 1 .. Len(log[d]) : log'[d][s] = log[d][s]
  <2>1. log'[d] \in Seq(Entry) /\ Len(log'[d]) = n /\ DOMAIN log'[d] = 1 .. Len(log'[d])
    BY <1>4, <1>6, <1>7
  <2>2. log'[d][n] = e /\ \A s \in 1 .. Len(log[d]) : log'[d][s] = log[d][s]
    BY <1>4, <1>6, <1>7
  <2> QED
    BY <2>1, <2>2
<1>9. n \in Nat /\ \A s \in 1 .. n : s \in Nat /\ 1 <= s /\ s <= n /\ (s \in DOMAIN log[d] \/ s = n)
  BY <1>4
<1>10. Apiece(d)
  BY <1>1, <1>4, <1>7 DEF Apiece
<1>11. Present(d)' \in Memory(d)
  <2>1. applied[d] \subseteq Id /\ peer[d] \in [Device \ {d} -> Channel]
    BY <1>2, CopyFacts
  <2>2. content'[d] \subseteq Item
    BY <1>4, <1>7
  <2> QED
    BY <1>1, <1>8, <2>1, <2>2 DEF Present, Memory
<1>12. SyncShape'
  <2>1. \A f \in Device : Present(f)' \in Memory(f)
    <3>1. \A f \in Device : f # d => Present(f)' = Present(f)
      BY <1>10, ApieceFacts
    <3> QED
      BY <1>2, <1>11, <3>1 DEF SyncShape
  <2>2. hashes' \in 0 .. MaxEntries /\ forgets' \in 0 .. MaxForgets
    BY <1>1, <1>2, <1>4 DEF SyncShape
  <2>3. \A f \in Device : pruned'[f] \in 0 .. Len(log'[f]) /\ (pruned'[f] # 0 => fault' = "prune")
    <3> SUFFICES ASSUME NEW f \in Device
                 PROVE pruned'[f] \in 0 .. Len(log'[f]) /\ (pruned'[f] # 0 => fault' = "prune")
      OBVIOUS
    <3>1. pruned[f] \in 0 .. Len(log[f]) /\ (pruned[f] # 0 => fault = "prune")
      BY <1>2 DEF SyncShape
    <3>2. CASE f = d
      BY <1>1, <1>4, <1>8, <3>1, <3>2
    <3>3. CASE f # d
      BY <1>1, <1>7, <3>1, <3>3
    <3> QED
      BY <3>2, <3>3
  <2>4. DOMAIN content' = Device /\ DOMAIN log' = Device
    BY <1>1, <1>3
  <2> QED
    BY <1>1, <1>2, <2>1, <2>2, <2>3, <2>4 DEF SyncShape
<1>13. PICK c : c = Present(d)'
  OBVIOUS
<1>14. c.content = content[d] \ doomed /\ c.applied = applied[d] /\ c.log = log'[d] /\ c.peer = peer[d]
  BY <1>1, <1>7, <1>13 DEF Present
<1>15. Present(d) \in Copies(d) /\ Present(d).content = content[d] /\ Present(d).applied = applied[d]
       /\ Present(d).log = log[d] /\ Present(d).peer = peer[d]
  BY <1>2, CopyFacts
<1>16. /\ CopyStands(d, Present(d)) /\ ChannelStands(d, Present(d))
       /\ \A s \in DOMAIN log[d] : log[d][s].hash <= hashes /\ log[d][s].hash \in Nat
       /\ Len(log[d]) <= hashes
  BY <1>2, <1>15, CopyIs
<1>17. Prolongs(Present(d)'.log, Present(d).log, hashes)
  <2>1. Present(d)'.log = log'[d]
    BY DEF Present
  <2>2. \A s \in DOMAIN log'[d] : s > Len(log[d]) => log'[d][s].hash > hashes
    BY <1>4, <1>5, <1>8, <1>9
  <2> QED
    BY <1>4, <1>8, <1>15, <2>1, <2>2 DEF Prolongs
<1>18. Writes(d)
  BY <1>10, <1>17, ApieceFacts DEF Apiece, Writes
<1>19. ASSUME NEW t \in Carriers', t \notin Carriers
       PROVE  t = Told(d, n, e) /\ t.id = <<d, n, hashes + 1>> /\ t.key = key
  <2>1. PICK s \in DOMAIN log'[d] : s > Len(log[d]) /\ t = Told(d, s, log'[d][s])
    BY <1>2, <1>12, <1>15, <1>18, <1>19, CarriersRenew DEF Present
  <2>2. s = n /\ log'[d][s] = e
    BY <1>4, <1>8, <2>1
  <2> QED
    BY <1>5, <2>1, <2>2 DEF Told, Identity
<1>20. content[d] \subseteq born
  BY <1>15, <1>16 DEF CopyStands
<1>21. key \in born \cup {User}
  BY <1>20
<1>22. CopyStands(d, c)'
  <2>1. /\ LogStands(log[d])
        /\ \A id \in applied[d] : id[3] <= hashes
        /\ \A t \in Carriers : t.id \in applied[d] => Gone(content[d], t.key)
        /\ \A s \in DOMAIN log[d] :
             /\ Identity(d, s, log[d][s]) \in applied[d] => log[d][s].items \cap content[d] = {}
             /\ ~ Relayed(log[d][s]) => Gone(content[d], log[d][s].key)
             /\ Relayed(log[d][s]) /\ fault \notin {"abort", "restore"}
                  => Identity(d, s, log[d][s]) \in applied[d]
             /\ fault \notin {"rollback", "prune"} => log[d][s].origin # d
    BY <1>15, <1>16 DEF CopyStands
  <2>2. \A x : Gone(content[d], x) => Gone(c.content, x)
    BY <1>14 DEF Gone
  <2>3. LogStands(c.log)'
    <3> DEFINE L == log'[d]
    <3>0. L = c.log /\ DOMAIN L = 1 .. n /\ L[n] = e /\ (\A s \in DOMAIN log[d] : L[s] = log[d][s])
      BY <1>4, <1>8, <1>14
    <3> HIDE DEF L
    <3>1. \A s \in DOMAIN L : s <= L[s].hash /\ L[s].hash <= hashes'
      <4>1. \A s \in DOMAIN log[d] : s <= log[d][s].hash
        BY <2>1 DEF LogStands
      <4>2. n <= hashes + 1
        BY <1>4, <1>16
      <4> QED
        BY <1>1, <1>4, <1>5, <1>9, <1>16, <3>0, <4>1, <4>2
    <3>2. \A s, r \in DOMAIN L : s < r => L[s].hash < L[r].hash
      <4> SUFFICES ASSUME NEW s \in DOMAIN L, NEW r \in DOMAIN L, s < r PROVE L[s].hash < L[r].hash
        OBVIOUS
      <4>1. s \in DOMAIN log[d]
        BY <1>9, <3>0
      <4>2. CASE r \in DOMAIN log[d]
        BY <2>1, <3>0, <4>1, <4>2 DEF LogStands
      <4>3. CASE r = n
        BY <1>4, <1>5, <1>16, <3>0, <4>1, <4>3
      <4> QED
        BY <1>9, <3>0, <4>2, <4>3
    <3>3. ASSUME NEW s \in DOMAIN L
          PROVE  /\ L[s].items \subseteq born
                 /\ L[s].key # User => L[s].key \in born /\ L[s].items \subseteq {L[s].key}
                 /\ L[s].origin = "own" <=> L[s].ohash = 0
                 /\ L[s].ohash < L[s].hash /\ L[s].oseq <= MaxEntries
      <4>1. CASE s \in DOMAIN log[d]
        BY <2>1, <3>0, <4>1 DEF LogStands
      <4>2. CASE s = n
        <5>1. L[s] = e
          BY <3>0, <4>2
        <5> QED
          BY <1>4, <1>5, <1>20, <1>21, <5>1
      <4> QED
        BY <1>9, <3>0, <4>1, <4>2
    <3> QED
      BY <1>1, <3>0, <3>1, <3>2, <3>3 DEF LogStands
  <2>4. ASSUME NEW t \in Carriers', t.id \in c.applied PROVE Gone(c.content, t.key)
    <3>1. CASE t \in Carriers
      BY <1>14, <2>1, <2>2, <2>4, <3>1
    <3>2. CASE t \notin Carriers
      <4>1. t.id[3] = hashes + 1
        BY <1>19, <3>2
      <4>2. t.id[3] <= hashes
        BY <1>14, <2>1, <2>4
      <4> QED
        BY <1>4, <4>1, <4>2
    <3> QED
      BY <3>1, <3>2
  <2>5. ASSUME NEW s \in 1 .. n
        PROVE  /\ Identity(d, s, c.log[s]) \in c.applied => c.log[s].items \cap c.content = {}
               /\ ~ Relayed(c.log[s]) => Gone(c.content, c.log[s].key)
               /\ Relayed(c.log[s]) /\ fault' \notin {"abort", "restore"}
                    => Identity(d, s, c.log[s]) \in c.applied
               /\ fault' \notin {"rollback", "prune"} => c.log[s].origin # d
    <3>1. CASE s \in DOMAIN log[d]
      <4>1. c.log[s] = log[d][s]
        BY <1>4, <1>8, <1>14, <3>1
      <4>2. log[d][s].items \cap content[d] = {} => log[d][s].items \cap c.content = {}
        BY <1>14
      <4> QED
        BY <1>1, <1>14, <2>1, <2>2, <3>1, <4>1, <4>2
    <3>2. CASE s = n
      <4>1. c.log[s] = e
        BY <1>8, <1>14, <3>2
      <4>2. e.items \cap c.content = {} /\ Gone(c.content, e.key) /\ ~ Relayed(e) /\ e.origin # d
        BY <1>5, <1>14, DeviceAssumption DEF Relayed
      <4> QED
        BY <4>1, <4>2
    <3> QED
      BY <1>9, <3>1, <3>2
  <2>6. c.content \subseteq born' /\ \A id \in c.applied : id[3] <= hashes'
    <3>1. \A id \in applied[d] : id[3] \in Nat
      BY <1>2, LogIs DEF Id
    <3> QED
      BY <1>1, <1>4, <1>14, <1>20, <2>1, <3>1
  <2>7. DOMAIN c.log = 1 .. n
    BY <1>8, <1>14
  <2> QED
    BY <2>3, <2>4, <2>5, <2>6, <2>7 DEF CopyStands, Gone, Relayed, Identity
<1>23. ChannelStands(d, c)'
  <2> SUFFICES ASSUME NEW p \in Device \ {d}
               PROVE  /\ c.peer[p].cursor <= MaxEntries /\ c.peer[p].chain <= hashes'
                      /\ \A b \in Copies(p)' : Fits(c.peer[p].cursor, c.peer[p].chain, b.log) =>
                           \A s \in 1 .. c.peer[p].cursor :
                             Travels(b.log[s]) => b.log[s].items \cap c.content = {}
    BY DEF ChannelStands
  <2>1. /\ peer[d][p].cursor <= MaxEntries /\ peer[d][p].chain <= hashes
        /\ \A b \in Copies(p) : Fits(peer[d][p].cursor, peer[d][p].chain, b.log) =>
             \A s \in 1 .. peer[d][p].cursor : Travels(b.log[s]) => b.log[s].items \cap content[d] = {}
    BY <1>15, <1>16 DEF ChannelStands
  <2>2. peer[d][p].chain \in Nat
    BY <1>2, <1>15, MemoryFacts DEF SyncShape
  <2>3. ASSUME NEW b \in Copies(p)', Fits(peer[d][p].cursor, peer[d][p].chain, b.log),
               NEW s \in 1 .. peer[d][p].cursor, Travels(b.log[s])
        PROVE  b.log[s].items \cap c.content = {}
    <3>1. b \in Copies(p)
      BY <1>10, ApieceFacts
    <3> QED
      BY <1>14, <2>1, <2>3, <3>1
  <2> QED
    BY <1>1, <1>4, <1>14, <2>1, <2>2, <2>3
<1>24. Trace(Present(d)') \subseteq Trace(Present(d)) /\ Trace(Present(d)) \subseteq Trace(Present(d)')
  <2>1. Trace(c) \subseteq Trace(Present(d))
    <3> SUFFICES ASSUME NEW i, i \in Trace(c) PROVE i \in Trace(Present(d))
      OBVIOUS
    <3>1. CASE i \in c.content
      BY <1>14, <1>15, <3>1 DEF Trace
    <3>2. CASE \E s \in DOMAIN c.log : i \in c.log[s].items
      <4>1. PICK s \in 1 .. n : i \in c.log[s].items
        BY <1>8, <1>14, <3>2
      <4>2. CASE s \in DOMAIN log[d]
        BY <1>4, <1>8, <1>14, <1>15, <4>1, <4>2 DEF Trace
      <4>3. CASE s = n
        BY <1>5, <1>8, <1>14, <1>15, <4>1, <4>3 DEF Trace
      <4> QED
        BY <1>9, <4>2, <4>3
    <3> QED
      BY <3>1, <3>2 DEF Trace
  <2>2. Trace(Present(d)) \subseteq Trace(c)
    <3> SUFFICES ASSUME NEW i, i \in Trace(Present(d)) PROVE i \in Trace(c)
      OBVIOUS
    <3>1. CASE i \in content[d]
      <4>1. n \in DOMAIN c.log /\ c.log[n].items = doomed
        BY <1>4, <1>5, <1>8, <1>14
      <4> QED
        BY <1>14, <3>1, <4>1 DEF Trace
    <3>2. CASE \E s \in DOMAIN log[d] : i \in log[d][s].items
      <4>1. PICK s \in DOMAIN log[d] : i \in log[d][s].items
        BY <3>2
      <4>2. s \in DOMAIN c.log /\ c.log[s] = log[d][s]
        BY <1>4, <1>8, <1>14, <4>1
      <4> QED
        BY <4>1, <4>2 DEF Trace
    <3> QED
      BY <1>15, <3>1, <3>2 DEF Trace
  <2> QED
    BY <1>13, <2>1, <2>2
<1>25. Renews(d)
  <2>1. ASSUME NEW t \in Carriers', t \notin Carriers
        PROVE  /\ t.id[3] > hashes /\ t.id[3] <= hashes' /\ t.id[2] <= MaxEntries
               /\ t.key \in born' \cup {User}
    <3>1. t.id[3] = hashes + 1 /\ t.id[2] = n /\ t.key = key
      BY <1>19, <2>1
    <3> QED
      BY <1>1, <1>4, <1>16, <1>21, <3>1
  <2>2. \A t, u \in Carriers' : t \notin Carriers /\ u \notin Carriers => t = u
    BY <1>19
  <2>3. \A s \in DOMAIN Present(d)'.log : ~ (s > Len(Present(d).log) /\ Relayed(Present(d)'.log[s]))
    <3> SUFFICES ASSUME NEW s \in 1 .. n, s > Len(log[d]) PROVE ~ Relayed(log'[d][s])
      BY <1>8, <1>15 DEF Present
    <3>1. s = n
      BY <1>4
    <3> QED
      BY <1>5, <1>8, <3>1 DEF Relayed
  <2>4. (CopyStands(d, Present(d)) /\ ChannelStands(d, Present(d)))'
    BY <1>13, <1>22, <1>23
  <2> QED
    BY <1>10, <1>17, <1>24, <2>1, <2>2, <2>3, <2>4, ApieceFacts DEF Renews, Apiece
<1>26. OwnStands'
  <2>1. ASSUME NEW t \in Carriers', t \notin Carriers
        PROVE  t.id[2] \in DOMAIN log'[t.id[1]] /\ log'[t.id[1]][t.id[2]].hash = t.id[3]
    <3>1. t.id[1] = d /\ t.id[2] = n /\ t.id[3] = hashes + 1
      BY <1>19, <2>1
    <3> QED
      BY <1>4, <1>5, <1>8, <3>1
  <2> QED
    BY <1>7, <1>12, <1>25, <2>1, OwnRenews
<1>27. BackupStands'
  <2>1. \A f \in Device : Trace(Present(f)) \subseteq Trace(Present(f)')
    BY <1>10, <1>24, ApieceFacts
  <2> QED
    BY <1>1, <2>1, BackupRenews
<1> QED
  BY <1>10, <1>12, <1>25, <1>26, <1>27, ApieceFacts, RenewSteps

\* The deletion of one item.
LEMMA ForgetStands ==
  ASSUME SyncInv, NEW d \in Device, NEW i \in Item, Forget(d, i)
  PROVE  SyncInv'
<1>1. i \in content[d] /\ Delete(d, i, {i}) /\ i # User
  BY ItemAssumption DEF Forget, User
<1>2. Gone(content[d] \ {i}, i)
  BY <1>1 DEF Gone
<1> QED
  BY <1>1, <1>2, DeleteStands

\* The deletion of everything.
LEMMA DeleteMemoriesStands ==
  ASSUME SyncInv, NEW d \in Device, DeleteMemories(d)
  PROVE  SyncInv'
<1>1. Delete(d, User, content[d])
  BY DEF DeleteMemories
<1>2. Gone(content[d] \ content[d], User)
  BY DEF Gone
<1> QED
  BY <1>1, <1>2, DeleteStands

------------------------------------------------------------------------------
(* Applying a batch.                                                        *)

\* An entry that relays the tombstone t.
Relays(d, st, s, t) ==
  LET e == st.log[s]
  IN /\ Told(d, s, e) = t /\ Identity(d, s, e) = t.id /\ Relayed(e)
     /\ e.hash = hashes + (s - Len(log[d]))
     /\ e.key = t.key /\ e.origin = t.id[1] /\ e.oseq = t.id[2] /\ e.ohash = t.id[3]
     /\ t.key # User => e.items \subseteq {t.key}
     /\ e.items \subseteq content[d] /\ e.items \cap st.content = {}
     /\ t.id \in st.applied /\ t.id \notin applied[d]
     /\ fault \notin {"rollback", "prune"} => t.id[1] # d

\* Every new entry relays a tombstone of the batch that was not known.
LEMMA NewRelays ==
  ASSUME SyncInv, NEW d \in Device, NEW b, b = inbox[d], b # NoBatch, NEW st, Absorbed(d, b, b.to, st),
         NEW s \in DOMAIN st.log, s > Len(log[d])
  PROVE  \E t \in Carriers : Relays(d, st, s, t)
<1> DEFINE e == st.log[s]
<1>1. e.hash = hashes + (s - Len(log[d])) /\ From(d, b, b.to, st, e)
  BY DEF Absorbed
<1>2. \A j \in DOMAIN b.entries : b.entries[j] \in Carriers
  BY BatchIsFed
<1>3. /\ e.items \subseteq content[d] /\ e.items \cap st.content = {}
      /\ \E j \in DOMAIN b.entries :
           LET t == b.entries[j]
           IN /\ e.key = t.key /\ e.origin = t.id[1] /\ e.oseq = t.id[2] /\ e.ohash = t.id[3]
              /\ t.key # User => e.items \subseteq {t.key}
              /\ t.id \in st.applied /\ ~ Known(Start(d), d, t.id)
  BY <1>1 DEF From
<1>4. PICK t \in Carriers :
           /\ e.key = t.key /\ e.origin = t.id[1] /\ e.oseq = t.id[2] /\ e.ohash = t.id[3]
           /\ t.key # User => e.items \subseteq {t.key}
           /\ t.id \in st.applied /\ ~ Known(Start(d), d, t.id)
  BY <1>2, <1>3
<1>5. t \in Tomb /\ t.id \in Id
  BY DEF Carriers, Tomb
<1>6. t.id[1] \in Device /\ t.id = <<t.id[1], t.id[2], t.id[3]>> /\ t = [id |-> t.id, key |-> t.key]
  BY <1>5 DEF Tomb, Id
<1>7. Relayed(e)
  BY <1>4, <1>6, DeviceAssumption DEF Relayed
<1>8. Identity(d, s, e) = t.id
  BY <1>4, <1>6, <1>7 DEF Identity, Relayed
<1>9. Told(d, s, e) = t
  BY <1>4, <1>6, <1>8 DEF Told
<1>10. t.id \notin applied[d] /\ ~ (t.id[1] = d /\ HasTombstone(log[d], pruned[d], t.id))
  BY <1>4 DEF Known, Start
<1>11. ASSUME fault \notin {"rollback", "prune"}, t.id[1] = d PROVE FALSE
  <2>1. t.id[2] \in DOMAIN log[d] /\ log[d][t.id[2]].hash = t.id[3]
    BY <1>11 DEF SyncInv, OwnStands
  <2>2. pruned[d] = 0
    BY <1>11 DEF SyncInv, SyncShape
  <2>3. t.id[2] \in pruned[d] .. Len(log[d]) \ {0}
    BY <2>1, <2>2, LogIs DEF SyncInv
  <2>4. HasTombstone(log[d], pruned[d], t.id)
    BY <2>1, <2>3 DEF HasTombstone
  <2> QED
    BY <1>10, <1>11, <2>4
<1> HIDE DEF e
<1>12. Relays(d, st, s, t)
  BY <1>1, <1>3, <1>4, <1>7, <1>8, <1>9, <1>10, <1>11 DEF Relays, e
<1> QED
  BY <1>12

\* The hashes of the new entries.
LEMMA Offsets ==
  ASSUME NEW h \in Nat, NEW l \in Nat, NEW m \in Nat, l <= m
  PROVE  /\ h + (m - l) \in Nat /\ h <= h + (m - l)
         /\ \A s \in Nat : l < s /\ s <= m =>
              /\ h + (s - l) \in Nat /\ h < h + (s - l) /\ h + (s - l) <= h + (m - l)
              /\ l <= h => s <= h + (s - l)
         /\ \A s, r \in Nat : s < r => h + (s - l) < h + (r - l)
OBVIOUS

\* What the log of d is after a batch.
LEMMA LogAbsorbs ==
  ASSUME SyncInv, NEW d \in Device, NEW b, b = inbox[d], b # NoBatch, NEW st, Absorbed(d, b, b.to, st),
         hashes' = st.hashes, born' = born
  PROVE  /\ st.log \in Seq(Entry) /\ Len(st.log) \in Nat /\ DOMAIN st.log = 1 .. Len(st.log)
         /\ hashes' \in Nat /\ hashes <= hashes'
         /\ Prolongs(st.log, log[d], hashes)
         /\ LogStands(st.log)'
<1>1. SyncShape /\ Core /\ CopiesStand
  BY DEF SyncInv, Core
<1>2. /\ log[d] \in Seq(Entry) /\ Len(log[d]) \in Nat /\ DOMAIN log[d] = 1 .. Len(log[d])
      /\ content[d] \subseteq Item /\ hashes \in Nat /\ MaxEntries \in Nat
  BY <1>1, LogIs, Counters
<1>3. /\ st.log \in Seq(Entry) /\ Len(log[d]) <= Len(st.log)
      /\ \A s \in DOMAIN log[d] : st.log[s] = log[d][s]
      /\ hashes' = hashes + (Len(st.log) - Len(log[d]))
      /\ st.content \subseteq content[d]
  BY DEF Absorbed
<1>4. Len(st.log) \in Nat /\ DOMAIN st.log = 1 .. Len(st.log)
  BY <1>3
<1>4a. \A s \in DOMAIN st.log : st.log[s].hash \in Nat
  <2>1. \A s \in DOMAIN st.log : st.log[s] \in Entry
    BY <1>3, <1>4
  <2> QED
    BY <2>1 DEF Entry
<1>4b. /\ Len(log[d]) \in Nat /\ hashes \in Nat /\ Len(st.log) \in Nat /\ Len(log[d]) <= Len(st.log)
       /\ hashes' = hashes + (Len(st.log) - Len(log[d]))
  BY <1>2, <1>3, <1>4
<1>5. hashes' \in Nat /\ hashes <= hashes'
  BY <1>4b, Offsets
<1>6. Present(d) \in Copies(d) /\ Present(d).log = log[d] /\ Present(d).content = content[d]
  BY <1>1, CopyFacts
<1>7. /\ CopyStands(d, Present(d)) /\ Len(log[d]) <= hashes
      /\ \A s \in DOMAIN log[d] : log[d][s].hash <= hashes /\ log[d][s].hash \in Nat
  BY <1>1, <1>6, CopyIs
<1>8. LogStands(log[d]) /\ content[d] \subseteq born
  BY <1>6, <1>7 DEF CopyStands
<1>9. ASSUME NEW s \in DOMAIN st.log, s > Len(log[d])
      PROVE  /\ st.log[s].hash = hashes + (s - Len(log[d]))
             /\ \E t \in Carriers : Relays(d, st, s, t)
  BY <1>9, NewRelays DEF Absorbed
<1>10. \A s \in DOMAIN st.log : s \in DOMAIN log[d] \/ s > Len(log[d])
  BY <1>2, <1>4
<1>11. ASSUME NEW s \in DOMAIN st.log, s > Len(log[d])
       PROVE st.log[s].hash > hashes /\ st.log[s].hash <= hashes' /\ s <= st.log[s].hash
  <2>1. s \in Nat /\ s <= Len(st.log)
    BY <1>4
  <2>2. st.log[s].hash = hashes + (s - Len(log[d]))
    BY <1>9, <1>11
  <2>3. Len(log[d]) < s /\ Len(log[d]) <= hashes
    BY <1>4b, <1>7, <1>11, <2>1
  <2>4. /\ hashes < hashes + (s - Len(log[d])) /\ s <= hashes + (s - Len(log[d]))
        /\ hashes + (s - Len(log[d])) <= hashes + (Len(st.log) - Len(log[d]))
        /\ hashes + (s - Len(log[d])) \in Nat
    BY <1>4b, <2>1, <2>3, Offsets
  <2>5. hashes + (s - Len(log[d])) > hashes
    BY <1>4b, <2>4
  <2> QED
    BY <1>4b, <2>2, <2>4, <2>5
<1>12. Prolongs(st.log, log[d], hashes)
  BY <1>2, <1>3, <1>11 DEF Prolongs
<1>13. LogStands(st.log)'
  <2>1. \A s \in DOMAIN st.log : s <= st.log[s].hash /\ st.log[s].hash <= hashes'
    <3>1. \A s \in DOMAIN log[d] : s <= log[d][s].hash
      BY <1>8 DEF LogStands
    <3>2. \A s \in DOMAIN log[d] : log[d][s].hash <= hashes'
      BY <1>2, <1>5, <1>7
    <3> QED
      BY <1>3, <1>10, <1>11, <3>1, <3>2
  <2>2. \A s, r \in DOMAIN st.log : s < r => st.log[s].hash < st.log[r].hash
    <3> SUFFICES ASSUME NEW s \in DOMAIN st.log, NEW r \in DOMAIN st.log, s < r
                 PROVE  st.log[s].hash < st.log[r].hash
      OBVIOUS
    <3>0. s \in Nat /\ r \in Nat
      BY <1>4
    <3>1. CASE r \in DOMAIN log[d]
      <4>1. s \in DOMAIN log[d]
        BY <1>2, <1>4, <3>1
      <4> QED
        BY <1>3, <1>8, <3>1, <4>1 DEF LogStands
    <3>2. CASE s \in DOMAIN log[d] /\ r > Len(log[d])
      <4>1. st.log[s].hash <= hashes /\ st.log[s].hash \in Nat /\ st.log[r].hash > hashes
        BY <1>3, <1>4a, <1>7, <1>11, <3>2
      <4>2. st.log[r].hash \in Nat
        BY <1>4a
      <4> QED
        BY <1>2, <4>1, <4>2
    <3>3. CASE s > Len(log[d]) /\ r > Len(log[d])
      <4>1. st.log[s].hash = hashes + (s - Len(log[d])) /\ st.log[r].hash = hashes + (r - Len(log[d]))
        BY <1>9, <3>3
      <4> QED
        BY <1>4b, <3>0, <4>1, Offsets
    <3> QED
      BY <1>2, <1>10, <3>0, <3>1, <3>2, <3>3
  <2>3. ASSUME NEW s \in DOMAIN st.log
        PROVE  /\ st.log[s].items \subseteq born
               /\ st.log[s].key # User => st.log[s].key \in born /\ st.log[s].items \subseteq {st.log[s].key}
               /\ st.log[s].origin = "own" <=> st.log[s].ohash = 0
               /\ st.log[s].ohash < st.log[s].hash /\ st.log[s].oseq <= MaxEntries
    <3>1. CASE s \in DOMAIN log[d]
      BY <1>3, <1>8, <3>1 DEF LogStands
    <3>2. CASE s > Len(log[d])
      <4>1. PICK t \in Carriers : Relays(d, st, s, t)
        BY <1>9, <3>2
      <4>2. /\ t.id[2] <= MaxEntries /\ 1 <= t.id[3] /\ t.id[3] <= hashes /\ t.key \in born \cup {User}
            /\ t.id[3] \in Nat
        BY <1>1, CarrierFacts DEF Core, Minted
      <4>3. st.log[s].hash > hashes /\ st.log[s].hash \in Nat
        BY <1>4a, <1>11, <3>2
      <4>4. /\ st.log[s].key = t.key /\ st.log[s].oseq = t.id[2] /\ st.log[s].ohash = t.id[3]
            /\ t.key # User => st.log[s].items \subseteq {t.key}
            /\ st.log[s].items \subseteq born /\ st.log[s].origin # "own"
        BY <1>8, <4>1 DEF Relays, Relayed
      <4>5. st.log[s].ohash # 0 /\ st.log[s].ohash < st.log[s].hash
        BY <1>2, <4>2, <4>3, <4>4
      <4> QED
        BY <4>2, <4>4, <4>5
    <3> QED
      BY <1>10, <3>1, <3>2
  <2>4. born' = born
    OBVIOUS
  <2> QED
    BY <2>1, <2>2, <2>3, <2>4 DEF LogStands
<1> QED
  BY <1>3, <1>4, <1>5, <1>12, <1>13

\* Relays travel as what they relay: no new tombstone is about.
LEMMA AbsorbCarriers ==
  ASSUME SyncInv, SyncShape', NEW d \in Device, NEW b, b = inbox[d], b # NoBatch,
         NEW st, Absorbed(d, b, b.to, st), Apiece(d), log'[d] = st.log, hashes' = st.hashes, born' = born
  PROVE  Carriers' \subseteq Carriers
<1> SUFFICES ASSUME NEW t \in Carriers' PROVE t \in Carriers
  OBVIOUS
<1>1. Present(d)'.log = st.log /\ Present(d).log = log[d]
  BY DEF Present
<1>2. Prolongs(Present(d)'.log, Present(d).log, hashes)
  BY <1>1, LogAbsorbs
<1>3. Writes(d)
  BY <1>2, ApieceFacts DEF Apiece, Writes
<1>4. CASE \E s \in DOMAIN st.log : s > Len(log[d]) /\ t = Told(d, s, st.log[s])
  BY <1>4, NewRelays DEF Relays
<1> QED
  BY <1>1, <1>3, <1>4, CarriersRenew DEF SyncInv

\* A step that applies a batch, wholly or only to the log.
LEMMA AbsorbRenews ==
  ASSUME SyncInv, SyncShape', NEW d \in Device, NEW b, b = inbox[d], b # NoBatch,
         NEW st, Absorbed(d, b, b.to, st), Apiece(d), log'[d] = st.log, hashes' = st.hashes, born' = born,
         content'[d] \subseteq content[d],
         (CopyStands(d, Present(d)) /\ ChannelStands(d, Present(d)))',
         fault = "restore" /\ backup'[d] # NoBackup => content'[d] = st.content
  PROVE  SyncInv'
<1>1. SyncShape /\ Core
  BY DEF SyncInv
<1>2. Carriers' \subseteq Carriers
  BY AbsorbCarriers
<1>3. /\ Present(d)'.log = st.log /\ Present(d).log = log[d]
      /\ Present(d)'.content = content'[d] /\ Present(d).content = content[d]
  BY DEF Present
<1>4. /\ st.log \in Seq(Entry) /\ Len(st.log) \in Nat /\ DOMAIN st.log = 1 .. Len(st.log)
      /\ Prolongs(st.log, log[d], hashes) /\ hashes \in Nat
      /\ Len(log[d]) \in Nat /\ DOMAIN log[d] = 1 .. Len(log[d])
  BY <1>1, LogAbsorbs, LogIs
<1>5. /\ \A s \in DOMAIN log[d] : s \in DOMAIN st.log /\ st.log[s] = log[d][s]
      /\ \A s \in DOMAIN st.log : s \in DOMAIN log[d] \/ s > Len(log[d])
      /\ \A s \in DOMAIN st.log : s > Len(log[d]) => st.log[s].hash > hashes
  BY <1>4 DEF Prolongs
<1>6. Trace(Present(d)') \subseteq Trace(Present(d))
  <2> SUFFICES ASSUME NEW i, i \in Trace(Present(d)') PROVE i \in Trace(Present(d))
    OBVIOUS
  <2>1. CASE i \in content'[d]
    BY <1>3, <2>1 DEF Trace
  <2>2. CASE \E s \in DOMAIN st.log : i \in st.log[s].items
    <3>1. PICK s \in DOMAIN st.log : i \in st.log[s].items
      BY <2>2
    <3>2. CASE s \in DOMAIN log[d]
      BY <1>3, <1>5, <3>1, <3>2 DEF Trace
    <3>3. CASE s > Len(log[d])
      <4>1. st.log[s].items \subseteq content[d]
        BY <3>3, NewRelays DEF Relays
      <4> QED
        BY <1>3, <3>1, <4>1 DEF Trace
    <3> QED
      BY <1>5, <3>2, <3>3
  <2> QED
    BY <1>3, <2>1, <2>2 DEF Trace
<1>7. ASSUME content'[d] = st.content PROVE Trace(Present(d)) \subseteq Trace(Present(d)')
  <2> SUFFICES ASSUME NEW i, i \in Trace(Present(d)) PROVE i \in Trace(Present(d)')
    OBVIOUS
  <2>1. CASE i \in content[d]
    <3>1. i \in st.content \/ \E s \in DOMAIN st.log : i \in st.log[s].items
      BY <2>1 DEF Absorbed
    <3> QED
      BY <1>3, <1>7, <3>1 DEF Trace
  <2>2. CASE \E s \in DOMAIN log[d] : i \in log[d][s].items
    <3>1. \E s \in DOMAIN st.log : i \in st.log[s].items
      BY <1>5, <2>2
    <3> QED
      BY <1>3, <3>1 DEF Trace
  <2> QED
    BY <1>3, <2>1, <2>2 DEF Trace
<1>8. Renews(d)
  <2>1. ASSUME NEW s \in DOMAIN st.log, s > Len(log[d]), NEW t \in Carriers'
        PROVE  t.id[3] # st.log[s].hash
    <3>1. t.id[3] <= hashes /\ t.id[3] \in Nat
      BY <1>1, <1>2, CarrierFacts DEF Core, Minted
    <3>2. st.log[s].hash > hashes
      BY <1>5, <2>1
    <3> QED
      BY <1>4, <3>1, <3>2
  <2> QED
    BY <1>2, <1>3, <1>4, <1>6, <2>1, ApieceFacts DEF Renews, Apiece
<1>9. OwnStands'
  BY <1>2, <1>8, OwnRenews DEF Apiece
<1>10. BackupStands'
  <2>1. \A e \in Device : e # d => backup'[e] = backup[e] /\ Trace(Present(e)) \subseteq Trace(Present(e)')
    BY ApieceFacts DEF Apiece
  <2>2. \/ backup'[d] = NoBackup
        \/ backup'[d] = backup[d] /\ (fault = "restore" => Trace(Present(d)) \subseteq Trace(Present(d)'))
    BY <1>7 DEF Apiece
  <2> QED
    BY <2>1, <2>2, BackupRenews DEF Apiece
<1> QED
  BY <1>8, <1>9, <1>10, ApieceFacts, RenewSteps

\* The new copy of d stands: applied as a whole, or only in the log.
LEMMA AbsorbedCopy ==
  ASSUME SyncInv, SyncShape', NEW d \in Device, NEW b, b = inbox[d], b # NoBatch,
         NEW st, Absorbed(d, b, b.to, st), Apiece(d), log'[d] = st.log, hashes' = st.hashes, born' = born,
         NEW c, c.log = st.log,
         \/ c.content = st.content /\ c.applied = st.applied
         \/ c.content = content[d] /\ c.applied = applied[d] /\ fault = "abort"
  PROVE  CopyStands(d, c)'
<1>1. SyncShape /\ Core /\ fault' = fault
  BY DEF SyncInv, Apiece
<1>2. Carriers' \subseteq Carriers
  BY AbsorbCarriers
<1>3. /\ st.log \in Seq(Entry) /\ Len(st.log) \in Nat /\ DOMAIN st.log = 1 .. Len(st.log)
      /\ Prolongs(st.log, log[d], hashes) /\ hashes \in Nat /\ hashes' \in Nat /\ hashes <= hashes'
      /\ Len(log[d]) \in Nat /\ DOMAIN log[d] = 1 .. Len(log[d])
      /\ LogStands(c.log)'
  BY <1>1, LogAbsorbs, LogIs
<1>4. /\ \A s \in DOMAIN log[d] : s \in DOMAIN st.log /\ st.log[s] = log[d][s]
      /\ \A s \in DOMAIN st.log : s \in DOMAIN log[d] \/ s > Len(log[d])
  BY <1>3 DEF Prolongs
<1>5. Present(d) \in Copies(d) /\ Present(d).content = content[d] /\ Present(d).applied = applied[d]
      /\ Present(d).log = log[d]
  BY <1>1, CopyFacts
<1>6. CopyStands(d, Present(d))
  BY <1>1, <1>5 DEF Core, CopiesStand
<1>7. /\ content[d] \subseteq born
      /\ \A id \in applied[d] : id[3] <= hashes
      /\ \A t \in Carriers : t.id \in applied[d] => Gone(content[d], t.key)
      /\ \A s \in DOMAIN log[d] :
           /\ Identity(d, s, log[d][s]) \in applied[d] => log[d][s].items \cap content[d] = {}
           /\ ~ Relayed(log[d][s]) => Gone(content[d], log[d][s].key)
           /\ Relayed(log[d][s]) /\ fault \notin {"abort", "restore"}
                => Identity(d, s, log[d][s]) \in applied[d]
           /\ fault \notin {"rollback", "prune"} => log[d][s].origin # d
           /\ log[d][s].key # User => log[d][s].items \subseteq {log[d][s].key}
  BY <1>5, <1>6 DEF CopyStands, LogStands
<1>8. /\ st.content \subseteq content[d] /\ applied[d] \subseteq st.applied /\ st.applied \subseteq Id
      /\ \A id \in st.applied : id \in applied[d] \/
           \E j \in DOMAIN b.entries : id = b.entries[j].id /\ Emptied(st.content, b.entries[j].key)
  BY DEF Absorbed
<1>9. \A j \in DOMAIN b.entries : b.entries[j] \in Carriers
  BY BatchIsFed
<1>10. c.content \subseteq content[d] /\ applied[d] \subseteq c.applied /\ c.applied \subseteq st.applied
  BY <1>8
<1>11. ASSUME NEW t \in Carriers, t.id \in c.applied, t.id \notin applied[d]
       PROVE  Emptied(c.content, t.key)
  <2>1. t.id \in st.applied /\ c.content = st.content
    BY <1>10, <1>11
  <2>2. PICK j \in DOMAIN b.entries : t.id = b.entries[j].id /\ Emptied(st.content, b.entries[j].key)
    BY <1>8, <1>11, <2>1
  <2>3. b.entries[j] = t
    BY <1>1, <1>9, <2>2 DEF Core, Agree
  <2> QED
    BY <2>1, <2>2, <2>3
<1>12. \A id \in c.applied : id[3] <= hashes'
  <2> SUFFICES ASSUME NEW id \in c.applied PROVE id[3] <= hashes'
    OBVIOUS
  <2>1. id[3] \in Nat
    BY <1>8, <1>10 DEF Id
  <2>2. id[3] <= hashes
    <3>1. CASE id \in applied[d]
      BY <1>7, <3>1
    <3>2. CASE id \notin applied[d]
      <4>1. PICK j \in DOMAIN b.entries : id = b.entries[j].id
        BY <1>8, <1>10, <3>2
      <4> QED
        BY <1>1, <1>9, <4>1 DEF Core, Minted
    <3> QED
      BY <3>1, <3>2
  <2> QED
    BY <1>3, <2>1, <2>2
<1>13. ASSUME NEW t \in Carriers', t.id \in c.applied PROVE Gone(c.content, t.key)
  <2>1. t \in Carriers
    BY <1>2
  <2>2. CASE t.id \in applied[d]
    BY <1>7, <1>10, <2>1, <2>2 DEF Gone
  <2>3. CASE t.id \notin applied[d]
    BY <1>11, <1>13, <2>1, <2>3 DEF Emptied, Gone
  <2> QED
    BY <2>2, <2>3
<1>14. ASSUME NEW s \in DOMAIN st.log
       PROVE  /\ Identity(d, s, st.log[s]) \in c.applied => st.log[s].items \cap c.content = {}
              /\ ~ Relayed(st.log[s]) => Gone(c.content, st.log[s].key)
              /\ Relayed(st.log[s]) /\ fault \notin {"abort", "restore"}
                   => Identity(d, s, st.log[s]) \in c.applied
              /\ fault \notin {"rollback", "prune"} => st.log[s].origin # d
  <2>1. CASE s \in DOMAIN log[d]
    <3> DEFINE e == log[d][s]
    <3>1. st.log[s] = e
      BY <1>4, <2>1
    <3>2. Told(d, s, e) \in Carriers /\ Told(d, s, e).id = Identity(d, s, e) /\ Told(d, s, e).key = e.key
      BY <1>1, <1>5, <2>1, CarrierFacts DEF Told
    <3>3. ASSUME Identity(d, s, e) \in c.applied PROVE e.items \cap c.content = {}
      <4>1. CASE Identity(d, s, e) \in applied[d]
        BY <1>7, <1>10, <2>1, <4>1
      <4>2. CASE Identity(d, s, e) \notin applied[d]
        <5>1. Emptied(c.content, e.key)
          BY <1>11, <3>2, <3>3, <4>2
        <5> QED
          BY <1>7, <2>1, <5>1 DEF Emptied
      <4> QED
        BY <4>1, <4>2
    <3>4. ~ Relayed(e) => Gone(c.content, e.key)
      BY <1>7, <1>10, <2>1 DEF Gone
    <3>5. /\ Relayed(e) /\ fault \notin {"abort", "restore"} => Identity(d, s, e) \in c.applied
          /\ fault \notin {"rollback", "prune"} => e.origin # d
      BY <1>7, <1>10, <2>1
    <3> QED
      BY <3>1, <3>3, <3>4, <3>5
  <2>2. CASE s > Len(log[d])
    <3>1. PICK t \in Carriers : Relays(d, st, s, t)
      BY <2>2, NewRelays
    <3>2. /\ Identity(d, s, st.log[s]) = t.id /\ Relayed(st.log[s])
          /\ st.log[s].items \cap st.content = {} /\ t.id \in st.applied /\ t.id \notin applied[d]
          /\ st.log[s].origin = t.id[1]
          /\ fault \notin {"rollback", "prune"} => t.id[1] # d
      BY <3>1 DEF Relays
    <3> QED
      BY <3>2
  <2> QED
    BY <1>4, <2>1, <2>2
<1>15. c.content \subseteq born'
  BY <1>7, <1>10
<1>16. /\ \A t \in Carriers' : t.id \in c.applied => Gone(c.content, t.key)'
       /\ \A s \in DOMAIN c.log :
            /\ (Identity(d, s, c.log[s]) \in c.applied => c.log[s].items \cap c.content = {})'
            /\ (~ Relayed(c.log[s]) => Gone(c.content, c.log[s].key))'
            /\ (Relayed(c.log[s]) /\ fault \notin {"abort", "restore"}
                 => Identity(d, s, c.log[s]) \in c.applied)'
            /\ (fault \notin {"rollback", "prune"} => c.log[s].origin # d)'
  BY <1>1, <1>13, <1>14 DEF Gone, Relayed, Identity
<1> QED
  BY <1>3, <1>12, <1>15, <1>16 DEF CopyStands

\* What the batch in hand does.
LEMMA AppliedFacts ==
  ASSUME SyncInv, NEW d \in Device, NEW b, b = inbox[d], b # NoBatch
  PROVE  Absorbed(d, b, b.to, Applied(d, b))
BY BatchIsFed, AppliedAbsorbs DEF SyncInv

\* The channel after a delivery.
LEMMA DeliveredChannel ==
  ASSUME SyncInv, SyncShape', NEW d \in Device, NEW b, b = inbox[d], b # NoBatch,
         NEW st, Absorbed(d, b, b.to, st), Apiece(d), born' = born,
         NEW c, c.content = st.content, c.peer = [peer[d] EXCEPT ![b.sender] = Advance(d, b)]
  PROVE  ChannelStands(d, c)'
<1>1. SyncShape /\ Core /\ hashes <= hashes' /\ hashes \in Nat /\ hashes' \in Nat
  BY SyncBounds, Counters DEF SyncInv, Apiece, SyncShape
<1>2. /\ b.sender \in Device \ {d} /\ b.from \in 0 .. b.to /\ b.to \in 0 .. MaxEntries
      /\ b.toChain \in 0 .. hashes
      /\ \/ fault = "prune" /\ b.from # peer[d][b.sender].cursor
         \/ \A x \in Copies(b.sender) : Fits(b.to, b.toChain, x.log) =>
              /\ Fits(b.from, b.fromChain, x.log)
              /\ \A s \in (b.from + 1) .. b.to : Travels(x.log[s]) =>
                   s \in DOMAIN b.entries /\ b.entries[s] = Told(b.sender, s, x.log[s])
  BY BatchIsFed DEF BatchFits
<1>3. /\ Present(d) \in Copies(d) /\ Present(d).content = content[d] /\ Present(d).peer = peer[d]
      /\ peer[d] \in [Device \ {d} -> Channel]
  BY <1>1, CopyFacts
<1>4. ChannelStands(d, Present(d)) /\ CopyStands(d, Present(d))
  BY <1>1, <1>3 DEF Core, CopiesStand
<1>5. st.content \subseteq content[d] /\ \A j \in DOMAIN b.entries : j <= b.to => Gone(st.content, b.entries[j].key)
  BY DEF Absorbed
<1>6. ASSUME NEW p \in Device \ {d}
      PROVE  /\ peer[d][p].cursor <= MaxEntries /\ peer[d][p].chain <= hashes
             /\ peer[d][p].chain \in Nat /\ peer[d][p].chain <= hashes'
             /\ \A x \in Copies(p) : Fits(peer[d][p].cursor, peer[d][p].chain, x.log) =>
                  \A s \in 1 .. peer[d][p].cursor : Travels(x.log[s]) => x.log[s].items \cap st.content = {}
  <2>1. peer[d][p].chain \in Nat
    BY <1>3 DEF Channel
  <2>2. /\ peer[d][p].cursor <= MaxEntries /\ peer[d][p].chain <= hashes
        /\ \A x \in Copies(p) : Fits(peer[d][p].cursor, peer[d][p].chain, x.log) =>
             \A s \in 1 .. peer[d][p].cursor : Travels(x.log[s]) => x.log[s].items \cap content[d] = {}
    BY <1>3, <1>4 DEF ChannelStands
  <2> QED
    BY <1>1, <1>5, <2>1, <2>2
<1>7. ASSUME ~ Rescans(d, b), NEW x \in Copies(b.sender), Fits(b.to, b.toChain, x.log),
             NEW s \in 1 .. b.to, Travels(x.log[s])
      PROVE  x.log[s].items \cap st.content = {}
  <2> DEFINE p == b.sender
  <2>1. b.from = peer[d][p].cursor /\ b.fromChain = peer[d][p].chain
    BY <1>7 DEF Rescans
  <2>2. /\ Fits(b.from, b.fromChain, x.log)
        /\ s \in (b.from + 1) .. b.to => s \in DOMAIN b.entries /\ b.entries[s] = Told(p, s, x.log[s])
    BY <1>2, <1>7, <2>1
  <2>3. CASE s <= b.from
    <3>1. s \in 1 .. peer[d][p].cursor
      BY <1>1, <1>2, <2>1, <2>3
    <3> QED
      BY <1>2, <1>6, <1>7, <2>1, <2>2, <3>1
  <2>4. CASE ~ (s <= b.from)
    <3>1. s \in (b.from + 1) .. b.to /\ s <= b.to
      BY <1>2, <1>7, <2>4
    <3>2. s \in DOMAIN b.entries /\ b.entries[s].key = x.log[s].key
      BY <2>2, <3>1 DEF Told
    <3>3. Gone(st.content, x.log[s].key)
      BY <1>5, <3>1, <3>2
    <3>4. s \in DOMAIN x.log
      <4>1. b.to # 0 /\ b.to <= Len(x.log)
        BY <1>2, <1>7, <3>1 DEF Fits
      <4> QED
        BY <1>1, <1>2, <1>7, <4>1, LogFacts
    <3>5. CASE x.log[s].key = User
      <4>1. x.log[s].items \subseteq Trace(x) /\ st.content \subseteq Trace(Present(d))
        BY <1>3, <1>5, <3>4 DEF Trace
      <4>2. Trace(x) \cap Trace(Present(d)) \subseteq Shared
        BY <1>1, <1>2, <1>3 DEF Core, Apart
      <4>3. st.content \cap Shared = {}
        BY <3>3, <3>5 DEF Gone
      <4> QED
        BY <4>1, <4>2, <4>3
    <3>6. CASE x.log[s].key # User
      <4>1. CopyStands(p, x)
        BY <1>1, <1>2 DEF Core, CopiesStand
      <4>2. x.log[s].items \subseteq {x.log[s].key}
        BY <3>4, <3>6, <4>1 DEF CopyStands, LogStands
      <4> QED
        BY <3>3, <3>6, <4>2 DEF Gone
    <3> QED
      BY <3>5, <3>6
  <2> QED
    BY <2>3, <2>4
<1>8. SUFFICES ASSUME NEW p \in Device \ {d}
               PROVE  /\ c.peer[p].cursor <= MaxEntries /\ c.peer[p].chain <= hashes'
                      /\ \A x \in Copies(p)' : Fits(c.peer[p].cursor, c.peer[p].chain, x.log) =>
                           \A s \in 1 .. c.peer[p].cursor :
                             Travels(x.log[s]) => x.log[s].items \cap c.content = {}
  BY DEF ChannelStands
<1>9. \A x \in Copies(p)' : x \in Copies(p)
  BY ApieceFacts
<1>10. CASE p # b.sender
  <2>1. c.peer[p] = peer[d][p]
    BY <1>3, <1>10
  <2> QED
    BY <1>6, <1>9, <2>1
<1>11. CASE p = b.sender /\ Rescans(d, b)
  <2>1. c.peer[p] = Advance(d, b)
    BY <1>3, <1>11
  <2>2. c.peer[p].cursor = 0 /\ c.peer[p].chain = 0
    BY <1>11, <2>1 DEF Advance, Genesis
  <2>3. MaxEntries \in Nat
    BY SyncBounds
  <2> QED
    BY <1>1, <2>2, <2>3
<1>12. CASE p = b.sender /\ ~ Rescans(d, b)
  <2>1. c.peer[p] = Advance(d, b)
    BY <1>3, <1>12
  <2>2. c.peer[p].cursor = b.to /\ c.peer[p].chain = b.toChain
    BY <1>12, <2>1 DEF Advance
  <2>3. b.to <= MaxEntries /\ b.toChain <= hashes'
    BY <1>1, <1>2, SyncBounds
  <2> QED
    BY <1>7, <1>9, <1>12, <2>2, <2>3
<1> QED
  BY <1>10, <1>11, <1>12

\* The shape of d's memory and its log.
LEMMA AbsorbShape ==
  ASSUME SyncInv, NEW d \in Device, Present(d)' \in Memory(d), Len(log[d]) <= Len(log'[d]),
         \A e \in Device : e # d => Present(e)' = Present(e) /\ log'[e] = log[e],
         DOMAIN content' = Device, DOMAIN applied' = Device, DOMAIN peer' = Device, DOMAIN log' = Device,
         DOMAIN inbox' = Device, hashes' \in 0 .. MaxEntries, faults' \in 0 .. MaxFaults,
         UNCHANGED <<born, pruned, backup, forgets, fault>>
  PROVE  SyncShape'
<1>1. SyncShape
  BY DEF SyncInv
<1>2. \A e \in Device : Present(e)' \in Memory(e)
  BY <1>1 DEF SyncShape
<1>3. \A e \in Device : pruned'[e] \in 0 .. Len(log'[e]) /\ (pruned'[e] # 0 => fault' = "prune")
  <2> SUFFICES ASSUME NEW e \in Device
               PROVE pruned'[e] \in 0 .. Len(log'[e]) /\ (pruned'[e] # 0 => fault' = "prune")
    OBVIOUS
  <2>1. pruned[e] \in 0 .. Len(log[e]) /\ (pruned[e] # 0 => fault = "prune") /\ Len(log[e]) \in Nat
    BY <1>1, LogIs DEF SyncShape
  <2>2. Present(d)'.log \in Seq(Entry)
    BY MemoryFacts
  <2>3. Len(log'[d]) \in Nat
    BY <2>2 DEF Present
  <2>4. CASE e = d
    BY <2>1, <2>3, <2>4
  <2>5. CASE e # d
    BY <2>1, <2>5
  <2> QED
    BY <2>4, <2>5
<1> QED
  BY <1>1, <1>2, <1>3 DEF SyncShape

------------------------------------------------------------------------------
(* The deliveries, and the invariant.                                       *)

\* The channel's new position.
LEMMA AdvanceIs ==
  ASSUME SyncInv, NEW d \in Device, inbox[d] # NoBatch
  PROVE  Advance(d, inbox[d]) \in Channel
<1>1. BatchFits(d, inbox[d])
  BY BatchIsFed
<1>2. hashes \in Nat /\ MaxEntries \in Nat
  BY Counters DEF SyncInv
<1>3. inbox[d].to \in Nat /\ inbox[d].toChain \in Nat
  BY <1>1, <1>2 DEF BatchFits
<1> QED
  BY <1>3 DEF Advance, Channel, Genesis

\* apply_tombstones, committed.
LEMMA DeliverStands ==
  ASSUME SyncInv, NEW d \in Device, Deliver(d)
  PROVE  SyncInv'
<1>1. PICK b : b = inbox[d]
  OBVIOUS
<1>2. PICK st : st = Applied(d, b)
  OBVIOUS
<1>3. /\ b # NoBatch
      /\ st.hashes <= MaxEntries
      /\ content' = [content EXCEPT ![d] = st.content]
      /\ log' = [log EXCEPT ![d] = st.log]
      /\ applied' = [applied EXCEPT ![d] = st.applied]
      /\ hashes' = st.hashes
      /\ peer' = [peer EXCEPT ![d][b.sender] = Advance(d, b)]
      /\ UNCHANGED <<born, pruned, backup, forgets, fault>>
      /\ \/ inbox' = [inbox EXCEPT ![d] = NoBatch] /\ faults' = faults
         \/ fault = "duplicate" /\ faults < MaxFaults /\ faults' = faults + 1 /\ inbox' = inbox
  BY <1>1, <1>2 DEF Deliver, Spend, Unharmed
<1>4. SyncShape /\ Core
  BY DEF SyncInv
<1>5. /\ DOMAIN content = Device /\ DOMAIN applied = Device /\ DOMAIN peer = Device
      /\ DOMAIN log = Device /\ DOMAIN inbox = Device /\ faults \in 0 .. MaxFaults /\ MaxFaults \in Nat
  BY <1>4, SyncBounds DEF SyncShape
<1>6. Absorbed(d, b, b.to, st)
  BY <1>1, <1>2, <1>3, AppliedFacts
<1>7. /\ st.log \in Seq(Entry) /\ Len(st.log) \in Nat
      /\ hashes' \in Nat /\ hashes <= hashes'
  BY <1>1, <1>3, <1>6, LogAbsorbs
<1>8. /\ st.content \subseteq content[d] /\ st.applied \subseteq Id /\ Len(log[d]) <= Len(st.log)
  BY <1>6 DEF Absorbed
<1>9. /\ content'[d] = st.content /\ applied'[d] = st.applied /\ log'[d] = st.log
      /\ peer'[d] = [peer[d] EXCEPT ![b.sender] = Advance(d, b)]
      /\ \A e \in Device : e # d => /\ content'[e] = content[e] /\ applied'[e] = applied[e]
                                    /\ peer'[e] = peer[e] /\ log'[e] = log[e]
  BY <1>3, <1>5
<1>10. /\ \A e \in Device : inbox'[e] \in {NoBatch, inbox[e]}
       /\ fault = "prune" => inbox'[d] = NoBatch
       /\ DOMAIN inbox' = Device
  BY <1>3, <1>5
<1>11. Apiece(d)
  <2>1. \A e \in Device : backup'[e] = backup[e]
    BY <1>3
  <2>2. \A e \in Device : inbox'[e] # NoBatch /\ fault = "prune" => peer'[e] = peer[e]
    BY <1>9, <1>10
  <2>3. hashes <= hashes' /\ born \subseteq born' /\ fault' = fault
    BY <1>3, <1>7
  <2> QED
    BY <1>9, <1>10, <2>1, <2>2, <2>3 DEF Apiece
<1>12. Present(d)' \in Memory(d)
  <2>1. peer[d] \in [Device \ {d} -> Channel] /\ content[d] \subseteq Item
    BY <1>4, CopyFacts
  <2>2. peer'[d] \in [Device \ {d} -> Channel]
    <3>1. Advance(d, b) \in Channel
      BY <1>1, <1>3, AdvanceIs
    <3> QED
      BY <1>9, <2>1, <3>1
  <2>3. Present(d)' = [content |-> st.content, applied |-> st.applied, peer |-> peer'[d], log |-> st.log]
    BY <1>9 DEF Present
  <2> QED
    BY <1>7, <1>8, <2>1, <2>2, <2>3 DEF Memory
<1>13. SyncShape'
  <2>1. \A e \in Device : e # d => Present(e)' = Present(e) /\ log'[e] = log[e]
    BY <1>9, <1>11, ApieceFacts
  <2>2. Len(log[d]) <= Len(log'[d])
    BY <1>8, <1>9
  <2>3. DOMAIN content' = Device /\ DOMAIN applied' = Device /\ DOMAIN peer' = Device /\ DOMAIN log' = Device
    BY <1>3, <1>5
  <2>4. hashes' \in 0 .. MaxEntries /\ faults' \in 0 .. MaxFaults
    BY <1>3, <1>5, <1>7, SyncBounds
  <2> QED
    BY <1>3, <1>10, <1>12, <2>1, <2>2, <2>3, <2>4, AbsorbShape
<1>14. PICK c : c = Present(d)'
  OBVIOUS
<1>15. /\ c.content = st.content /\ c.applied = st.applied /\ c.log = st.log
       /\ c.peer = [peer[d] EXCEPT ![b.sender] = Advance(d, b)]
  BY <1>9, <1>14 DEF Present
<1>16. CopyStands(d, c)'
  BY <1>1, <1>3, <1>6, <1>9, <1>11, <1>13, <1>15, AbsorbedCopy
<1>17. ChannelStands(d, c)'
  BY <1>1, <1>3, <1>6, <1>11, <1>13, <1>15, DeliveredChannel
<1>18. (CopyStands(d, Present(d)) /\ ChannelStands(d, Present(d)))'
  BY <1>14, <1>16, <1>17
<1> QED
  BY <1>1, <1>3, <1>6, <1>8, <1>9, <1>11, <1>13, <1>18, AbsorbRenews

\* apply_tombstones, rolled back after the log was written.
LEMMA AbortDeliverStands ==
  ASSUME SyncInv, NEW d \in Device, AbortDeliver(d)
  PROVE  SyncInv'
<1>1. PICK b : b = inbox[d]
  OBVIOUS
<1>2. PICK st : st = Applied(d, b)
  OBVIOUS
<1>3. /\ b # NoBatch /\ fault = "abort"
      /\ st.hashes <= MaxEntries
      /\ log' = [log EXCEPT ![d] = st.log]
      /\ hashes' = st.hashes
      /\ inbox' = [inbox EXCEPT ![d] = NoBatch]
      /\ faults < MaxFaults /\ faults' = faults + 1
      /\ UNCHANGED <<content, applied, peer, born, pruned, backup, forgets, fault>>
  BY <1>1, <1>2 DEF AbortDeliver, Spend
<1>4. SyncShape /\ Core
  BY DEF SyncInv
<1>5. /\ DOMAIN content = Device /\ DOMAIN applied = Device /\ DOMAIN peer = Device
      /\ DOMAIN log = Device /\ DOMAIN inbox = Device /\ faults \in 0 .. MaxFaults /\ MaxFaults \in Nat
  BY <1>4, SyncBounds DEF SyncShape
<1>6. Absorbed(d, b, b.to, st)
  BY <1>1, <1>2, <1>3, AppliedFacts
<1>7. /\ st.log \in Seq(Entry) /\ Len(st.log) \in Nat
      /\ hashes' \in Nat /\ hashes <= hashes' /\ hashes \in Nat
  BY <1>1, <1>3, <1>4, <1>6, LogAbsorbs, Counters
<1>8. Len(log[d]) <= Len(st.log)
  BY <1>6 DEF Absorbed
<1>9. log'[d] = st.log /\ \A e \in Device : e # d => log'[e] = log[e]
  BY <1>3, <1>5
<1>10. /\ \A e \in Device : inbox'[e] \in {NoBatch, inbox[e]}
       /\ DOMAIN inbox' = Device
  BY <1>3, <1>5
<1>11. Apiece(d)
  BY <1>3, <1>7, <1>9, <1>10 DEF Apiece
<1>12. Present(d)' \in Memory(d)
  <2>1. peer[d] \in [Device \ {d} -> Channel] /\ content[d] \subseteq Item /\ applied[d] \subseteq Id
    BY <1>4, CopyFacts
  <2>2. Present(d)' = [content |-> content[d], applied |-> applied[d], peer |-> peer[d], log |-> st.log]
    BY <1>3, <1>9 DEF Present
  <2> QED
    BY <1>7, <2>1, <2>2 DEF Memory
<1>13. SyncShape'
  <2>1. \A e \in Device : e # d => Present(e)' = Present(e) /\ log'[e] = log[e]
    BY <1>9, <1>11, ApieceFacts
  <2>2. Len(log[d]) <= Len(log'[d])
    BY <1>8, <1>9
  <2>3. DOMAIN content' = Device /\ DOMAIN applied' = Device /\ DOMAIN peer' = Device /\ DOMAIN log' = Device
    BY <1>3, <1>5
  <2>4. hashes' \in 0 .. MaxEntries /\ faults' \in 0 .. MaxFaults
    BY <1>3, <1>5, <1>7, SyncBounds
  <2> QED
    BY <1>3, <1>10, <1>12, <2>1, <2>2, <2>3, <2>4, AbsorbShape
<1>14. PICK c : c = Present(d)'
  OBVIOUS
<1>15. c.content = content[d] /\ c.applied = applied[d] /\ c.log = st.log /\ c.peer = peer[d]
  BY <1>3, <1>9, <1>14 DEF Present
<1>16. CopyStands(d, c)'
  BY <1>1, <1>3, <1>6, <1>9, <1>11, <1>13, <1>15, AbsorbedCopy
<1>17. ChannelStands(d, c)'
  <2> SUFFICES ASSUME NEW p \in Device \ {d}
               PROVE  /\ c.peer[p].cursor <= MaxEntries /\ c.peer[p].chain <= hashes'
                      /\ \A x \in Copies(p)' : Fits(c.peer[p].cursor, c.peer[p].chain, x.log) =>
                           \A s \in 1 .. c.peer[p].cursor :
                             Travels(x.log[s]) => x.log[s].items \cap c.content = {}
    BY DEF ChannelStands
  <2>1. /\ peer[d][p].cursor <= MaxEntries /\ peer[d][p].chain <= hashes
        /\ \A x \in Copies(p) : Fits(peer[d][p].cursor, peer[d][p].chain, x.log) =>
             \A s \in 1 .. peer[d][p].cursor : Travels(x.log[s]) => x.log[s].items \cap content[d] = {}
    <3>1. /\ Present(d) \in Copies(d) /\ Present(d).content = content[d] /\ Present(d).peer = peer[d]
      BY <1>4, CopyFacts
    <3>2. ChannelStands(d, Present(d))
      BY <1>4, <3>1 DEF Core, CopiesStand
    <3> QED
      BY <3>1, <3>2 DEF ChannelStands
  <2>2. peer[d][p].chain \in Nat
    BY <1>4, CopyFacts, MemoryFacts
  <2>3. \A x \in Copies(p)' : x \in Copies(p)
    BY <1>11, ApieceFacts
  <2> QED
    BY <1>7, <1>15, <2>1, <2>2, <2>3
<1>18. (CopyStands(d, Present(d)) /\ ChannelStands(d, Present(d)))'
  BY <1>14, <1>16, <1>17
<1>19. content'[d] \subseteq content[d]
  BY <1>3
<1>20. ~ (fault = "restore" /\ backup'[d] # NoBackup)
  BY <1>3
<1> QED
  BY <1>1, <1>3, <1>6, <1>9, <1>11, <1>13, <1>18, <1>19, <1>20, AbsorbRenews

\* Nothing is deleted at first.
LEMMA SyncInitial == SyncInit => SyncInv
<1> SUFFICES ASSUME SyncInit PROVE SyncInv
  OBVIOUS
<1>1. /\ content = [d \in Device |-> Shared] /\ born = Shared
      /\ log = [d \in Device |-> <<>>] /\ pruned = [d \in Device |-> 0]
      /\ applied = [d \in Device |-> {}]
      /\ peer = [d \in Device |-> [p \in Device \ {d} |-> [cursor |-> 0, chain |-> 0]]]
      /\ backup = [d \in Device |-> NoBackup] /\ inbox = [d \in Device |-> NoBatch]
      /\ hashes = 0 /\ forgets = 0 /\ fault \in Faults /\ faults = 0
  BY DEF SyncInit, Genesis
<1>2. Shared \subseteq Item /\ MaxForgets \in Nat /\ MaxEntries \in Nat /\ MaxFaults \in Nat
  BY ItemAssumption, SyncBounds
<1>3. \A d \in Device : /\ Present(d).content = Shared /\ Present(d).applied = {}
                        /\ Present(d).peer = [p \in Device \ {d} |-> [cursor |-> 0, chain |-> 0]]
                        /\ Present(d).log = <<>> /\ Present(d) \in Memory(d)
                        /\ Copies(d) = {Present(d)}
  <2> SUFFICES ASSUME NEW d \in Device
               PROVE  /\ Present(d).content = Shared /\ Present(d).applied = {}
                      /\ Present(d).peer = [p \in Device \ {d} |-> [cursor |-> 0, chain |-> 0]]
                      /\ Present(d).log = <<>> /\ Present(d) \in Memory(d)
                      /\ Copies(d) = {Present(d)}
    OBVIOUS
  <2>1. Present(d) = [content |-> Shared, applied |-> {},
                      peer |-> [p \in Device \ {d} |-> [cursor |-> 0, chain |-> 0]], log |-> <<>>]
    BY <1>1 DEF Present
  <2>2. [p \in Device \ {d} |-> [cursor |-> 0, chain |-> 0]] \in [Device \ {d} -> Channel]
    BY DEF Channel
  <2>3. Copies(d) = {Present(d)}
    BY <1>1 DEF Copies
  <2> QED
    BY <1>2, <2>1, <2>2, <2>3 DEF Memory
<1>4. SyncShape
  <2>1. \A d \in Device : pruned[d] \in 0 .. Len(log[d]) /\ (pruned[d] # 0 => fault = "prune")
    BY <1>1
  <2>2. \A d \in Device : backup[d] = NoBackup
    BY <1>1
  <2>3. /\ DOMAIN content = Device /\ DOMAIN applied = Device /\ DOMAIN peer = Device
        /\ DOMAIN log = Device /\ DOMAIN pruned = Device /\ DOMAIN backup = Device
        /\ DOMAIN inbox = Device
    BY <1>1
  <2>4. /\ hashes \in 0 .. MaxEntries /\ forgets \in 0 .. MaxForgets
        /\ fault \in Faults /\ faults \in 0 .. MaxFaults
    BY <1>1, <1>2
  <2>5. born \subseteq Item /\ Shared \subseteq born /\ \A d \in Device : Present(d) \in Memory(d)
    BY <1>1, <1>2, <1>3
  <2> QED
    BY <2>1, <2>2, <2>3, <2>4, <2>5 DEF SyncShape
<1>5. \A d \in Device : \A c \in Copies(d) :
        /\ c.log = <<>> /\ c.content = Shared /\ c.applied = {} /\ DOMAIN c.log = {}
        /\ c.peer = [p \in Device \ {d} |-> [cursor |-> 0, chain |-> 0]]
  BY <1>3
<1>6. Carriers = {}
  BY <1>1, <1>5 DEF Carriers
<1>7. \A d \in Device : \A c \in Copies(d) : CopyStands(d, c)
  BY <1>1, <1>5, <1>6 DEF CopyStands, LogStands
<1>8. \A d \in Device : \A c \in Copies(d) : ChannelStands(d, c)
  <2> SUFFICES ASSUME NEW d \in Device, NEW c \in Copies(d), NEW p \in Device \ {d}
               PROVE  /\ c.peer[p].cursor <= MaxEntries /\ c.peer[p].chain <= hashes
                      /\ \A s \in 1 .. c.peer[p].cursor : FALSE
    BY DEF ChannelStands
  <2>0. c.peer[p] = [cursor |-> 0, chain |-> 0]
    <3>1. c.peer = [q \in Device \ {d} |-> [cursor |-> 0, chain |-> 0]]
      BY <1>5
    <3> QED
      BY <3>1
  <2>1. c.peer[p].cursor = 0 /\ c.peer[p].chain = 0
    BY <2>0
  <2> QED
    BY <1>1, <1>2, <2>1
<1>9. NotRelays /\ SamePast
  BY <1>5 DEF NotRelays, SamePast
<1>10. Apart
  <2>1. \A d \in Device : \A c \in Copies(d) : Trace(c) = Shared
    BY <1>5 DEF Trace
  <2> QED
    BY <2>1 DEF Apart
<1>11. Agree /\ Minted
  BY <1>6 DEF Agree, Minted
<1>12. OwnStands /\ BackupStands /\ BatchStands
  BY <1>1, <1>6 DEF OwnStands, BackupStands, BatchStands
<1> QED
  BY <1>4, <1>7, <1>8, <1>9, <1>10, <1>11, <1>12 DEF SyncInv, Core, CopiesStand

\* The invariant, of every step.
LEMMA SyncAlways == SyncSpec => []SyncInv
<1>1. SyncInv /\ [SyncNext]_syncVars => SyncInv'
  <2> SUFFICES ASSUME SyncInv, [SyncNext]_syncVars PROVE SyncInv'
    OBVIOUS
  <2>1. CASE UNCHANGED syncVars
    BY <2>1, StutterStands
  <2>2. CASE SyncNext
    <3>1. PICK d \in Device :
            \/ \E i \in Item : Observe(d, i)
            \/ \E i \in Item : Forget(d, i)
            \/ DeleteMemories(d)
            \/ \E p \in Device : Fetch(d, p)
            \/ Deliver(d)
            \/ Drop(d)
            \/ AbortDeliver(d)
            \/ Backup(d)
            \/ RestoreDatabase(d)
            \/ RestoreMachine(d)
            \/ \E s \in 1 .. MaxEntries : Prune(d, s)
      BY <2>2 DEF SyncNext
    <3>2. CASE \E i \in Item : Observe(d, i)
      BY <3>2, ObserveStands
    <3>3. CASE \E i \in Item : Forget(d, i)
      BY <3>3, ForgetStands
    <3>4. CASE DeleteMemories(d)
      BY <3>4, DeleteMemoriesStands
    <3>5. CASE \E p \in Device : Fetch(d, p)
      BY <3>5, FetchStands
    <3>6. CASE Deliver(d)
      BY <3>6, DeliverStands
    <3>7. CASE Drop(d)
      BY <3>7, DropStands
    <3>8. CASE AbortDeliver(d)
      BY <3>8, AbortDeliverStands
    <3>9. CASE Backup(d)
      BY <3>9, BackupStep
    <3>10. CASE RestoreDatabase(d)
      BY <3>10, RestoreDatabaseStands
    <3>11. CASE RestoreMachine(d)
      BY <3>11, RestoreMachineStands
    <3>12. CASE \E s \in 1 .. MaxEntries : Prune(d, s)
      BY <3>12, PruneStands
    <3> QED
      BY <3>1, <3>2, <3>3, <3>4, <3>5, <3>6, <3>7, <3>8, <3>9, <3>10, <3>11, <3>12
  <2> QED
    BY <2>1, <2>2
<1> QED
  BY <1>1, SyncInitial, PTL DEF SyncSpec

------------------------------------------------------------------------------
(* The theorems.                                                            *)

\* The state keeps its shape: a log entry has a hash and an origin, a cursor and a chain
\* are of written entries, a batch comes from another device (api.py:1440-1452).
THEOREM SyncTypes == SyncSpec => []SyncTypeOK
<1>1. ASSUME SyncInv PROVE SyncTypeOK
  <2>1. SyncShape /\ Core /\ BatchStands /\ hashes \in Nat /\ hashes <= MaxEntries /\ MaxEntries \in Nat
    BY <1>1, Counters DEF SyncInv
  <2>2. ASSUME NEW d \in Device
        PROVE  /\ content[d] \subseteq born
               /\ pruned[d] \in 0 .. Len(log[d])
               /\ \A s \in DOMAIN log[d] : EntryOK(log[d][s])
               /\ \A p \in Device \ {d} : {peer[d][p].cursor, peer[d][p].chain} \subseteq 0 .. MaxEntries
               /\ inbox[d] # NoBatch => inbox[d].sender \in Device \ {d}
    <3>1. /\ Present(d) \in Copies(d) /\ Present(d) \in Memory(d) /\ Present(d).content = content[d]
          /\ Present(d).log = log[d] /\ Present(d).peer = peer[d]
      BY <2>1, CopyFacts
    <3>2. CopyStands(d, Present(d)) /\ ChannelStands(d, Present(d))
      BY <2>1, <3>1 DEF Core, CopiesStand
    <3>3. content[d] \subseteq born /\ LogStands(log[d])
      BY <3>1, <3>2 DEF CopyStands
    <3>4. ASSUME NEW s \in DOMAIN log[d] PROVE EntryOK(log[d][s])
      <4> DEFINE e == log[d][s]
      <4>1. e \in Entry /\ s \in Nat /\ 1 <= s
        BY <2>1, LogIs
      <4>2. s <= e.hash /\ e.hash <= hashes /\ e.ohash < e.hash /\ e.oseq <= MaxEntries
        BY <3>3 DEF LogStands
      <4> HIDE DEF e
      <4>3. /\ e.key \in Item \cup {User} /\ e.items \subseteq Item /\ e.hash \in Nat
            /\ e.origin \in Device \cup {"own"} /\ e.oseq \in Nat /\ e.ohash \in Nat
        BY <4>1 DEF Entry
      <4>4. e.hash \in 1 .. MaxEntries /\ e.oseq \in 0 .. MaxEntries /\ e.ohash \in 0 .. MaxEntries
        BY <2>1, <4>1, <4>2, <4>3
      <4>5. EntryOK(e)
        BY <4>3, <4>4 DEF EntryOK
      <4> QED
        BY <4>5 DEF e
    <3>5. ASSUME NEW p \in Device \ {d}
          PROVE  {peer[d][p].cursor, peer[d][p].chain} \subseteq 0 .. MaxEntries
      <4>1. peer[d][p].cursor \in Nat /\ peer[d][p].chain \in Nat
        BY <3>1, MemoryFacts
      <4>2. peer[d][p].cursor <= MaxEntries /\ peer[d][p].chain <= hashes
        BY <3>1, <3>2 DEF ChannelStands
      <4> QED
        BY <2>1, <4>1, <4>2
    <3>6. inbox[d] # NoBatch => inbox[d].sender \in Device \ {d}
      BY <1>1, BatchIsFed DEF BatchFits
    <3> QED
      BY <2>1, <3>3, <3>4, <3>5, <3>6 DEF SyncShape
  <2> QED
    BY <2>1, <2>2 DEF SyncTypeOK, SyncShape
<1> QED
  BY <1>1, SyncAlways, PTL

\* Whatever crashes, restores, prunes and second deliveries do at either end, and
\* whichever way the tombstones travel: while a channel's chain hash agrees with the
\* sender's log, all the log deletes up to the cursor is gone here (api.py:1440-1452).
THEOREM ConsumedAreGone == SyncSpec => []ConsumedIsGone
<1>1. ASSUME SyncInv PROVE ConsumedIsGone
  <2>1. SyncShape /\ Core
    BY <1>1 DEF SyncInv
  <2> SUFFICES ASSUME NEW d \in Device, NEW p \in Device \ {d}, InStep(d, p),
                      NEW s \in 1 .. peer[d][p].cursor, Travels(log[p][s])
               PROVE  log[p][s].items \cap content[d] = {}
    BY DEF ConsumedIsGone
  <2>2. /\ Present(d) \in Copies(d) /\ Present(d).content = content[d] /\ Present(d).peer = peer[d]
        /\ Present(p) \in Copies(p) /\ Present(p).log = log[p]
    BY <2>1, CopyFacts
  <2>3. ChannelStands(d, Present(d))
    BY <2>1, <2>2 DEF Core, CopiesStand
  <2>4. Fits(peer[d][p].cursor, peer[d][p].chain, log[p])
    <3>1. /\ peer[d][p].cursor <= Len(log[p])
          /\ peer[d][p].chain = ChainHashAt(p, peer[d][p].cursor)
          /\ peer[d][p].cursor >= pruned[p]
      BY DEF InStep
    <3>2. peer[d][p].cursor \in Nat /\ pruned[p] \in Nat /\ Len(log[p]) \in Nat
      <4>1. Present(d) \in Memory(d) /\ Present(d).peer = peer[d]
        BY <2>1, CopyFacts
      <4>2. peer[d][p].cursor \in Nat
        BY <4>1, MemoryFacts
      <4>3. Len(log[p]) \in Nat
        BY <2>1, LogIs
      <4>4. pruned[p] \in 0 .. Len(log[p])
        BY <2>1 DEF SyncShape
      <4> QED
        BY <4>2, <4>3, <4>4
    <3>3. ASSUME peer[d][p].cursor # 0 PROVE log[p][peer[d][p].cursor].hash = peer[d][p].chain
      <4>1. ~ (peer[d][p].cursor = 0 \/ peer[d][p].cursor < pruned[p] \/ peer[d][p].cursor > Len(log[p]))
        BY <3>1, <3>2, <3>3
      <4> QED
        BY <3>1, <4>1 DEF ChainHashAt
    <3> QED
      BY <3>1, <3>3 DEF Fits
  <2> QED
    BY <2>2, <2>3, <2>4 DEF ChannelStands
<1> QED
  BY <1>1, SyncAlways, PTL

\* A recorded tombstone identity always stands for a deletion that happened in the same
\* database, also after a restore of it or of the machine (api.py:1581-1610).
THEOREM AppliedAreGone == SyncSpec => []AppliedIsGone
<1>1. ASSUME SyncInv PROVE AppliedIsGone
  <2>1. SyncShape /\ Core
    BY <1>1 DEF SyncInv
  <2> SUFFICES ASSUME NEW d \in Device, NEW p \in Device, NEW s \in DOMAIN log[p],
                      Identity(p, s, log[p][s]) \in applied[d]
               PROVE  log[p][s].items \cap content[d] = {}
    BY DEF AppliedIsGone
  <2>2. /\ Present(d) \in Copies(d) /\ Present(d).content = content[d] /\ Present(d).applied = applied[d]
        /\ Present(d).log = log[d]
        /\ Present(p) \in Copies(p) /\ Present(p).log = log[p]
    BY <2>1, CopyFacts
  <2>3. CopyStands(d, Present(d)) /\ CopyStands(p, Present(p))
    BY <2>1, <2>2 DEF Core, CopiesStand
  <2>4. CASE p = d
    BY <2>2, <2>3, <2>4 DEF CopyStands
  <2>5. CASE p # d
    <3> DEFINE e == log[p][s]
    <3>1. /\ Told(p, s, e) \in Carriers
          /\ Told(p, s, e).id = Identity(p, s, e) /\ Told(p, s, e).key = e.key
      BY <2>1, <2>2, CarrierFacts DEF Told
    <3>2. Gone(content[d], e.key)
      BY <2>2, <2>3, <3>1 DEF CopyStands
    <3>3. CASE e.key = User
      <4>1. content[d] \cap Shared = {}
        BY <3>2, <3>3 DEF Gone
      <4>2. e.items \subseteq Trace(Present(p)) /\ content[d] \subseteq Trace(Present(d))
        BY <2>2 DEF Trace
      <4>3. Trace(Present(p)) \cap Trace(Present(d)) \subseteq Shared
        BY <2>1, <2>2, <2>5 DEF Core, Apart
      <4> QED
        BY <4>1, <4>2, <4>3
    <3>4. CASE e.key # User
      <4>1. e.key \notin content[d]
        BY <3>2, <3>4 DEF Gone
      <4>2. e.items \subseteq {e.key}
        BY <2>2, <2>3, <3>4 DEF CopyStands, LogStands
      <4> QED
        BY <4>1, <4>2
    <3> QED
      BY <3>3, <3>4
  <2> QED
    BY <2>4, <2>5
<1> QED
  BY <1>1, SyncAlways, PTL

\* A delivery that writes to the log holds a tombstone not applied and not own.
LEMMA AgainStep ==
  ASSUME SyncInv, NEW d \in Device, Deliver(d), log'[d] # log[d]
  PROVE  \E i \in DOMAIN inbox[d].entries :
           LET id == inbox[d].entries[i].id
           IN /\ id \notin applied[d]
              /\ ~ \E s \in DOMAIN log[d] :
                     s >= pruned[d] /\ log[d][s].origin = "own" /\ <<d, s, log[d][s].hash>> = id
<1> DEFINE b == inbox[d]
           st == Applied(d, b)
<1>1. b # NoBatch /\ log' = [log EXCEPT ![d] = st.log]
  BY DEF Deliver
<1>2. Absorbed(d, b, b.to, st)
  BY <1>1, AppliedFacts
<1>3. DOMAIN log = Device /\ SyncShape
  BY DEF SyncInv, SyncShape
<1>4. st.log # log[d]
  BY <1>1, <1>3
<1> HIDE DEF st, b
<1>5. /\ log[d] \in Seq(Entry) /\ Len(log[d]) \in Nat /\ DOMAIN log[d] = 1 .. Len(log[d])
  BY <1>3, LogIs
<1>6. /\ st.log \in Seq(Entry) /\ Len(log[d]) <= Len(st.log)
      /\ \A s \in DOMAIN log[d] : st.log[s] = log[d][s]
      /\ \A s \in DOMAIN st.log : s > Len(log[d]) => From(d, b, b.to, st, st.log[s])
  BY <1>2 DEF Absorbed
<1>7. Len(st.log) \in Nat /\ DOMAIN st.log = 1 .. Len(st.log)
  BY <1>6
<1>8. Len(st.log) # Len(log[d])
  <2> SUFFICES ASSUME Len(st.log) = Len(log[d]) PROVE st.log = log[d]
    BY <1>4
  <2>1. \A s \in 1 .. Len(st.log) : st.log[s] = log[d][s]
    BY <1>5, <1>6
  <2> QED
    BY <1>5, <1>6, <1>7, <2>1
<1>9. Len(st.log) \in DOMAIN st.log /\ Len(st.log) > Len(log[d])
  BY <1>5, <1>6, <1>7, <1>8
<1>10. PICK j \in DOMAIN b.entries : ~ Known(Start(d), d, b.entries[j].id)
  BY <1>6, <1>9 DEF From
<1> DEFINE id == b.entries[j].id
<1>11. id \notin applied[d] /\ ~ (id[1] = d /\ HasTombstone(log[d], pruned[d], id))
  BY <1>10 DEF Known, Start
<1>12. ASSUME NEW s \in DOMAIN log[d], s >= pruned[d], <<d, s, log[d][s].hash>> = id
       PROVE  FALSE
  <2>1. id[1] = d /\ id[2] = s /\ id[3] = log[d][s].hash
    BY <1>12
  <2>2. pruned[d] \in Nat
    BY <1>3 DEF SyncShape
  <2>3. s \in pruned[d] .. Len(log[d]) \ {0}
    BY <1>5, <1>12, <2>2
  <2>4. HasTombstone(log[d], pruned[d], id)
    BY <2>1, <2>3 DEF HasTombstone
  <2> QED
    BY <1>11, <2>1, <2>4
<1> QED
  BY <1>10, <1>11, <1>12 DEF b

\* A delivery of what was applied before, or of this device's own deletions, writes
\* nothing: no echo goes round (api.py:1455-1458, 1568-1580).
THEOREM AgainChangesNothing == SyncSpec => AgainIsNothing
<1>1. SyncInv /\ [SyncNext]_syncVars =>
        [\A d \in Device :
           Deliver(d) /\ log'[d] # log[d] => \E i \in DOMAIN inbox[d].entries :
              LET id == inbox[d].entries[i].id
              IN /\ id \notin applied[d]
                 /\ ~ \E s \in DOMAIN log[d] :
                        s >= pruned[d] /\ log[d][s].origin = "own" /\ <<d, s, log[d][s].hash>> = id]_syncVars
  BY AgainStep
<1> QED
  BY <1>1, SyncAlways, PTL DEF SyncSpec, AgainIsNothing

\* While no log loses entries, by a rollback of a machine or by compaction, no device ever
\* applies its own deletion, though its database alone is restored (api.py:1406-1409).
THEOREM EchoesStop ==
  SyncSpec => [](fault \notin {"rollback", "prune"} =>
                   \A d \in Device : \A s \in DOMAIN log[d] : log[d][s].origin # d)
<1>1. ASSUME SyncInv
      PROVE  fault \notin {"rollback", "prune"} =>
               \A d \in Device : \A s \in DOMAIN log[d] : log[d][s].origin # d
  <2> SUFFICES ASSUME NEW d \in Device, NEW s \in DOMAIN log[d], fault \notin {"rollback", "prune"}
               PROVE  log[d][s].origin # d
    OBVIOUS
  <2>1. Present(d) \in Copies(d) /\ Present(d).log = log[d]
    BY <1>1, CopyFacts DEF SyncInv
  <2>2. CopyStands(d, Present(d))
    BY <1>1, <2>1 DEF SyncInv, Core, CopiesStand
  <2> QED
    BY <2>1, <2>2 DEF CopyStands
<1> QED
  BY <1>1, SyncAlways, PTL
==============================================================================
