---------------------------- MODULE ServerProofs -----------------------------
(***************************************************************************)
(* Theorems about Server, for every set of requests and tenants and every   *)
(* limit: the cache stays within its limit, a tenant has one build at a      *)
(* time, and no request that arrives at an app is served by an engine of an  *)
(* earlier one, but for those that landed after its stop.                   *)
(*                                                                         *)
(* The properties are about engines; what keeps them is the placeholder.     *)
(* EntriesAreKnown says that every build has its placeholder in the cache    *)
(* and every placeholder its build, RequestsAreKnown and CreatorsAreAlone    *)
(* that one request is at work on it; CacheIsFresh and LivesAgree carry the   *)
(* start of the app from the cache to the requests that take an engine from   *)
(* it.  RecencyIsOrder is what the eviction loop needs to find an oldest     *)
(* engine.                                                                  *)
(***************************************************************************)
EXTENDS Server, FiniteSetTheorems, WellFoundedInduction, TLAPS

-----------------------------------------------------------------------------
(* Types.                                                                   *)

Stages == {"none", "building", "built", "landed", "ready", "raised", "failed"}

Making == [at : Stages, tenant : Tenant \cup {Default}, life : 0 .. MaxLives]

Requests ==
  [pc : {"idle", "lookup", "waiting", "creating", "landed", "releasing", "serving"},
   tenant : Tenant \cup {Default}, creation : 0 .. MaxCreations,
   evicted : SUBSET Creation, since : 0 .. MaxLives]

Typed ==
  /\ app \in [up : BOOLEAN, life : 0 .. MaxLives]
  /\ shared \in BOOLEAN /\ keyed \in BOOLEAN /\ sharedPool \in BOOLEAN
  /\ cache \in SUBSET Entry
  /\ older \in SUBSET (Creation \X Creation)
  /\ made \in [Creation -> Making]
  /\ req \in [Request -> Requests]
  /\ failures \in 0 .. MaxFailures
  /\ stranded \in SUBSET Creation
  /\ \A r \in Request : req[r].pc \in {"lookup", "creating"} => req[r].tenant \in Tenant
  /\ \A r \in Request : req[r].pc \in {"creating", "waiting", "landed"} => req[r].creation # None

LEMMA IdleTyped == Idle \in Requests /\ Unmade \in Making
  BY BoundAssumption DEF Idle, Unmade, Requests, Making, Stages, None

\* What an engine nobody refers to any more leaves behind.
LEMMA KeepFacts ==
  ASSUME Typed, NEW m \in [Creation -> Making], Keep(m)
  PROVE  /\ made' \in [Creation -> Making] /\ stranded' \in SUBSET stranded
         /\ \A c \in Creation : made'[c] \in {m[c], Unmade}
         /\ \A c \in Creation : made'[c].at # "none" => made'[c] = m[c]
         /\ \A c \in Creation : c \in Numbers(cache') => made'[c] = m[c] /\ (c \in stranded => c \in stranded')
         /\ \A c \in Creation : (\E r \in Request : c = req'[r].creation \/ c \in req'[r].evicted) =>
                                   made'[c] = m[c] /\ (c \in stranded => c \in stranded')
         /\ \A c \in stranded' : made'[c] = m[c]
<1> DEFINE used == Numbers(cache') \cup {req'[r].creation : r \in Request}
                    \cup UNION {req'[r].evicted : r \in Request}
<1>1. /\ made' = [c \in Creation |-> IF c \in used THEN m[c] ELSE Unmade]
      /\ stranded' = stranded \cap used
  BY DEF Keep
<1>2. \A c \in Creation : c \in Numbers(cache') => c \in used
  OBVIOUS
<1>3. \A c \in Creation : (\E r \in Request : c = req'[r].creation \/ c \in req'[r].evicted) => c \in used
  OBVIOUS
<1> HIDE DEF used
<1>4. Unmade \in Making /\ Unmade.at = "none"
  BY IdleTyped DEF Unmade
<1>5. stranded \in SUBSET Creation
  BY DEF Typed
<1> QED
  BY <1>1, <1>2, <1>3, <1>4, <1>5

LEMMA OrderTyped ==
  ASSUME Typed, NEW data \in SUBSET Entry, NEW c \in Creation
  PROVE  /\ Newest(data, c) \in SUBSET (Creation \X Creation)
         /\ \A order \in SUBSET (Creation \X Creation) : Among(order, data) \in SUBSET (Creation \X Creation)
<1>1. Numbers({e \in data : e.creation # c}) \subseteq Creation
  BY DEF Numbers, Entry
<1>2. older \in SUBSET (Creation \X Creation)
  BY DEF Typed
<1> QED
  BY <1>1, <1>2 DEF Newest, Among

\* A request moves on: what it then is decides its type.
LEMMA RequestMoves ==
  ASSUME Typed, NEW r \in Request, NEW q \in Requests, req' = [req EXCEPT ![r] = q],
         q.pc \in {"lookup", "creating"} => q.tenant \in Tenant,
         q.pc \in {"creating", "waiting", "landed"} => q.creation # None
  PROVE  /\ req' \in [Request -> Requests] /\ req'[r] = q
         /\ \A p \in Request \ {r} : req'[p] = req[p]
         /\ \A p \in Request : req'[p].pc \in {"lookup", "creating"} => req'[p].tenant \in Tenant
         /\ \A p \in Request :
              req'[p].pc \in {"creating", "waiting", "landed"} => req'[p].creation # None
BY DEF Typed

LEMMA TypedPreserved ==
  ASSUME Typed, [Next]_vars
  PROVE  Typed'
<1> USE DEF None
<1>0. Idle \in Requests /\ Unmade \in Making /\ Idle.pc = "idle"
  BY IdleTyped DEF Idle
<1>1. ASSUME NEW r \in Request, Arrive(r) PROVE Typed'
  <2>1. PICK t \in Tenant \cup {Default} :
          /\ req' = [req EXCEPT ![r] = [Idle EXCEPT !.tenant = t, !.since = app.life,
                                          !.pc = IF keyed THEN "lookup" ELSE "serving"]]
          /\ keyed => t \in Tenant
    BY <1>1 DEF Arrive
  <2> DEFINE q == [Idle EXCEPT !.tenant = t, !.since = app.life,
                               !.pc = IF keyed THEN "lookup" ELSE "serving"]
  <2>2. app.life \in 0 .. MaxLives
    BY DEF Typed
  <2>3. q \in Requests /\ q.tenant = t /\ q.pc = IF keyed THEN "lookup" ELSE "serving"
    BY <1>0, <2>2 DEF Requests
  <2>4. req' = [req EXCEPT ![r] = q]
    BY <2>1
  <2> HIDE DEF q
  <2>5. UNCHANGED <<app, shared, keyed, cache, older, made, sharedPool, failures, stranded>>
    BY <1>1 DEF Arrive
  <2> QED
    BY <2>1, <2>3, <2>4, <2>5, RequestMoves DEF Typed
<1>2. ASSUME NEW r \in Request, Hit(r) PROVE Typed'
  <2>1. PICK e \in EntryOf(req[r].tenant) :
          /\ older' = Newest(cache, e.creation)
          /\ req' = [req EXCEPT ![r].pc = "serving", ![r].creation = e.creation]
    BY <1>2 DEF Hit
  <2>2. e.creation \in Creation /\ older' \in SUBSET (Creation \X Creation)
    BY <2>1, OrderTyped DEF Typed, EntryOf, Entry
  <2>3. UNCHANGED <<app, shared, keyed, cache, made, sharedPool, failures, stranded>>
    BY <1>2 DEF Hit
  <2> DEFINE q == [req[r] EXCEPT !.pc = "serving", !.creation = e.creation]
  <2>4. q \in Requests /\ q.pc = "serving" /\ q.creation = e.creation
    <3>1. e.creation \in 0 .. MaxCreations /\ req[r] \in Requests
      BY <2>2, BoundAssumption DEF Typed, Creation
    <3> QED
      BY <3>1 DEF Requests
  <2>5. req' = [req EXCEPT ![r] = q]
    BY <2>1 DEF Typed
  <2> HIDE DEF q
  <2> QED
    BY <2>2, <2>3, <2>4, <2>5, RequestMoves DEF Typed, Creation
<1>3. ASSUME NEW r \in Request, Follow(r) PROVE Typed'
  <2>1. PICK e \in EntryOf(req[r].tenant) :
          req' = [req EXCEPT ![r].pc = "waiting", ![r].creation = e.creation]
    BY <1>3 DEF Follow
  <2>2. e.creation \in Creation
    BY <2>1 DEF Typed, EntryOf, Entry
  <2>3. UNCHANGED <<app, shared, keyed, cache, older, made, sharedPool, failures, stranded>>
    BY <1>3 DEF Follow
  <2> DEFINE q == [req[r] EXCEPT !.pc = "waiting", !.creation = e.creation]
  <2>4. q \in Requests /\ q.pc = "waiting" /\ q.creation = e.creation
    <3>1. e.creation \in 0 .. MaxCreations /\ req[r] \in Requests
      BY <2>2, BoundAssumption DEF Typed, Creation
    <3> QED
      BY <3>1 DEF Requests
  <2>5. req' = [req EXCEPT ![r] = q]
    BY <2>1 DEF Typed
  <2> HIDE DEF q
  <2> QED
    BY <2>2, <2>3, <2>4, <2>5, RequestMoves DEF Typed, Creation
<1>4. ASSUME NEW r \in Request, Miss(r) PROVE Typed'
  <2>1. PICK c \in Creation :
          /\ made' = [made EXCEPT ![c].at = "building", ![c].tenant = req[r].tenant]
          /\ cache' = cache \cup {[tenant |-> req[r].tenant, creation |-> c, real |-> FALSE]}
          /\ older' = Newest(cache', c)
          /\ req' = [req EXCEPT ![r].pc = "creating", ![r].creation = c]
    BY <1>4 DEF Miss
  <2>2. req[r].tenant \in Tenant
    BY <1>4 DEF Miss, At, Typed
  <2>3. cache' \in SUBSET Entry
    <3>1. [tenant |-> req[r].tenant, creation |-> c, real |-> FALSE] \in Entry
      BY <2>2 DEF Entry
    <3> QED
      BY <2>1, <3>1 DEF Typed
  <2>4. older' \in SUBSET (Creation \X Creation)
    BY <2>1, <2>3, OrderTyped
  <2>5. made' \in [Creation -> Making]
    BY ZenonT(60), <2>1, <2>2 DEF Typed, Making, Stages
  <2>6. UNCHANGED <<app, shared, keyed, sharedPool, failures, stranded>>
    BY <1>4 DEF Miss
  <2> DEFINE q == [req[r] EXCEPT !.pc = "creating", !.creation = c]
  <2>7. q \in Requests /\ q.pc = "creating" /\ q.creation = c /\ q.tenant = req[r].tenant
    <3>1. c \in 0 .. MaxCreations /\ req[r] \in Requests
      BY BoundAssumption DEF Typed, Creation
    <3> QED
      BY <3>1 DEF Requests
  <2>8. req' = [req EXCEPT ![r] = q]
    BY <2>1 DEF Typed
  <2> HIDE DEF q
  <2> QED
    BY <2>2, <2>3, <2>4, <2>5, <2>6, <2>7, <2>8, RequestMoves DEF Typed, Creation
<1>5. ASSUME NEW r \in Request, Build(r) PROVE Typed'
  <2>1. req[r].creation \in Creation
    BY <1>5, BoundAssumption DEF Build, At, Typed, Requests, Creation
  <2> QED
    BY <1>5, <2>1 DEF Build, Typed, Making, Stages
<1>6. ASSUME NEW r \in Request, BuildFails(r) PROVE Typed'
  <2>1. /\ req[r].creation \in Creation
        /\ failures' = failures + 1 /\ failures < MaxFailures
        /\ made' = [made EXCEPT ![req[r].creation].at = "raised"]
        /\ req' = [req EXCEPT ![r].pc = "landed"]
        /\ cache' \in SUBSET Entry /\ older' = Among(older, cache')
    BY <1>6, BoundAssumption DEF BuildFails, At, Typed, Requests, Creation, RemovesEntry
  <2>2. older' \in SUBSET (Creation \X Creation)
    BY <2>1, OrderTyped DEF Typed
  <2>3. UNCHANGED <<app, shared, keyed, sharedPool, stranded>> /\ req[r].pc = "creating"
    BY <1>6 DEF BuildFails, At
  <2> DEFINE q == [req[r] EXCEPT !.pc = "landed"]
  <2>4. q \in Requests /\ q.pc = "landed" /\ q.creation = req[r].creation
    BY DEF Typed, Requests
  <2>5. req' = [req EXCEPT ![r] = q]
    BY <2>1 DEF Typed
  <2>6. made' \in [Creation -> Making]
    BY <2>1 DEF Typed, Making, Stages
  <2>7. failures' \in 0 .. MaxFailures
    BY <2>1, BoundAssumption DEF Typed
  <2> HIDE DEF q
  <2> QED
    BY <2>1, <2>2, <2>3, <2>4, <2>5, <2>6, <2>7, RequestMoves DEF Typed, Creation
<1>7. ASSUME NEW r \in Request, Land(r) PROVE Typed'
  <2> DEFINE c == req[r].creation
             landed == (cache \ EntryOf(req[r].tenant))
                         \cup {[tenant |-> req[r].tenant, creation |-> c, real |-> TRUE]}
             out == Evicted(landed, Newest(landed, c))
  <2>1. c \in Creation /\ req[r].tenant \in Tenant /\ req[r].pc = "creating"
    BY <1>7, BoundAssumption DEF Land, At, Typed, Requests, Creation
  <2>2. landed \in SUBSET Entry
    <3>1. [tenant |-> req[r].tenant, creation |-> c, real |-> TRUE] \in Entry
      BY <2>1 DEF Entry
    <3> QED
      BY <3>1 DEF Typed
  <2>3. Newest(landed, c) \in SUBSET (Creation \X Creation)
    BY <2>1, <2>2, OrderTyped
  <2>4. out \in SUBSET Entry
    BY <2>2 DEF Evicted
  <2>5. Numbers(out) \in SUBSET Creation
    BY <2>4 DEF Numbers, Entry
  <2>6. /\ made' = [made EXCEPT ![c].at = "landed"]
        /\ cache' = landed \ out
        /\ older' = Among(Newest(landed, c), cache')
        /\ req' = [req EXCEPT ![r].pc = "landed", ![r].evicted = Numbers(out)]
        /\ stranded' \subseteq stranded \cup {c}
        /\ UNCHANGED <<app, shared, keyed, sharedPool, failures>>
    BY <1>7 DEF Land
  <2> HIDE DEF landed, out
  <2>7. older' \in SUBSET (Creation \X Creation)
    BY <2>1, <2>2, <2>3, <2>6, OrderTyped
  <2>8. made' \in [Creation -> Making]
    BY <2>1, <2>6 DEF Typed, Making, Stages
  <2> DEFINE q == [req[r] EXCEPT !.pc = "landed", !.evicted = Numbers(out)]
  <2>9. q \in Requests /\ q.pc = "landed" /\ q.creation = c
    BY <2>5 DEF Typed, Requests
  <2>10. req' = [req EXCEPT ![r] = q]
    BY <2>6 DEF Typed
  <2> HIDE DEF q, c
  <2>11. c # None
    BY <2>1 DEF Creation
  <2>12. /\ req' \in [Request -> Requests]
         /\ \A p \in Request : req'[p].pc \in {"lookup", "creating"} => req'[p].tenant \in Tenant
         /\ \A p \in Request :
              req'[p].pc \in {"creating", "waiting", "landed"} => req'[p].creation # None
    BY <2>9, <2>10, <2>11, RequestMoves
  <2>13. cache' \in SUBSET Entry /\ stranded' \in SUBSET Creation
    BY <2>1, <2>2, <2>6 DEF Typed
  <2> QED
    BY <2>6, <2>7, <2>8, <2>12, <2>13 DEF Typed
<1>8. ASSUME NEW r \in Request, Resolve(r) PROVE Typed'
  <2>1. req[r].creation \in Creation
    BY <1>8, BoundAssumption DEF Resolve, At, Typed, Requests, Creation
  <2>2. [made EXCEPT ![req[r].creation].at = Outcome(@)] \in [Creation -> Making]
    BY <2>1 DEF Outcome, Typed, Making, Stages
  <2>3. made' \in [Creation -> Making] /\ stranded' \in SUBSET stranded
    BY <1>8, <2>2, KeepFacts DEF Resolve
  <2> QED
    BY <1>0, <1>8, <2>3 DEF Resolve, Typed, Requests
<1>9. ASSUME NEW r \in Request, Release(r) PROVE Typed'
  <2>1. made' \in [Creation -> Making] /\ stranded' \in SUBSET stranded
    BY <1>9, KeepFacts DEF Release, Typed
  <2> QED
    <3> DEFINE q == [req[r] EXCEPT !.pc = "serving", !.evicted = {}]
    <3>1. q \in Requests /\ q.pc = "serving"
      BY DEF Typed, Requests
    <3>2. req' = [req EXCEPT ![r] = q]
      BY <1>9 DEF Release, Typed
    <3>3. UNCHANGED <<app, shared, keyed, cache, older, failures>> /\ sharedPool' = sharedPool
      BY <1>9 DEF Release, PoolAfter
    <3> HIDE DEF q
    <3> QED
      BY <2>1, <3>1, <3>2, <3>3, RequestMoves DEF Typed
<1>10. ASSUME NEW r \in Request, Wait(r) \/ Serve(r) PROVE Typed'
  <2>1. made' \in [Creation -> Making] /\ stranded' \in SUBSET stranded
    BY <1>10, KeepFacts DEF Wait, Serve, Typed
  <2> QED
    BY <1>0, <1>10, <2>1 DEF Wait, Serve, Typed, Requests
<1>11. CASE Start
  BY <1>11, BoundAssumption DEF Start, Typed
<1>12. CASE Stop
  <2>1. made' \in [Creation -> Making] /\ stranded' \in SUBSET stranded
    BY <1>12, KeepFacts DEF Stop, Typed
  <2>2. cache' \in SUBSET Entry
    BY <1>12 DEF Stop, Typed
  <2>3. older' \in SUBSET (Creation \X Creation)
    BY <1>12, <2>2 DEF Stop, Among, Typed
  <2> QED
    BY <1>12, <2>1, <2>2, <2>3 DEF Stop, Typed
<1>13. CASE UNCHANGED vars
  BY <1>13 DEF vars, Typed
<1> QED
  BY <1>1, <1>2, <1>3, <1>4, <1>5, <1>6, <1>7, <1>8, <1>9, <1>10, <1>11, <1>12, <1>13
     DEF Next, Progress

-----------------------------------------------------------------------------
(* Builds and their placeholders.                                           *)

Running(m, c) == m[c].at \in {"landed", "ready"}
Building(m, c) == m[c].at \in {"building", "built"}

\* An entry is a placeholder while its engine is built and the engine from then on.
KnownEntry(e, m) ==
  /\ m[e.creation].tenant = e.tenant
  /\ IF e.real THEN Running(m, e.creation) ELSE Building(m, e.creation)

EntriesAreKnown ==
  /\ \A d, e \in cache : d.tenant = e.tenant => d = e
  /\ \A e \in cache : KnownEntry(e, made)
  /\ \A c \in Creation : Building(made, c) =>
       [tenant |-> made[c].tenant, creation |-> c, real |-> FALSE] \in cache

\* What a request holds is an engine of its tenant, at the stage its own place
\* in get_or_create implies.
KnownRequest(q, m) ==
  /\ q.pc \in {"idle", "lookup"} => q.creation = None
  /\ q.pc = "releasing" => q.creation # None
  /\ q.creation # None => m[q.creation].at # "none" /\ m[q.creation].tenant = q.tenant
  /\ q.pc = "creating" => Building(m, q.creation)
  /\ q.pc = "landed" => m[q.creation].at \in {"landed", "raised"}
  /\ q.pc \in {"releasing", "serving"} /\ q.creation # None => Running(m, q.creation)
  /\ \A d \in q.evicted : Running(m, d)

RequestsAreKnown == \A r \in Request : KnownRequest(req[r], made)

AtWork(q) == q.pc \in {"creating", "landed"}

CreatorsAreAlone ==
  \A p, r \in Request :
    AtWork(req[p]) /\ AtWork(req[r]) /\ req[p].creation = req[r].creation => p = r

Known == EntriesAreKnown /\ RequestsAreKnown /\ CreatorsAreAlone /\ NoOrphanPlaceholder

\* A creation nobody knows of is free.
LEMMA FreeIsUnknown ==
  ASSUME Typed, Known, NEW c \in Creation, made[c].at = "none"
  PROVE  /\ c \notin Numbers(cache)
         /\ \A r \in Request : req[r].creation # c /\ c \notin req[r].evicted
<1>1. \A e \in cache : e.creation # c
  BY DEF Known, EntriesAreKnown, KnownEntry, Running, Building
<1>2. c # None
  BY DEF None, Creation
<1> QED
  BY <1>1, <1>2 DEF Known, RequestsAreKnown, KnownRequest, Running, Numbers

\* An entry is known by its creation.
LEMMA CreationsAreDistinct ==
  ASSUME Known, NEW d \in cache, NEW e \in cache, d.creation = e.creation
  PROVE  d = e
BY DEF Known, EntriesAreKnown, KnownEntry

\* Requests that do not move keep what they know while the engines they hold
\* only go forward.
Forward(c) ==
  /\ made'[c].tenant = made[c].tenant
  /\ made[c].at # "none" => made'[c].at # "none"
  /\ Building(made, c) => Building(made', c) \/ made'[c].at \in {"landed", "raised"}
  /\ Running(made, c) => Running(made', c)

LEMMA OthersStayKnown ==
  ASSUME Typed, Known, NEW r \in Request, r \in Request,
         NEW p \in Request, p # r, req'[p] = req[p],
         \A c \in Creation : (c = req[p].creation \/ c \in req[p].evicted) => Forward(c),
         \A c \in Creation : c = req[p].creation /\ AtWork(req[p]) => made'[c].at = made[c].at
  PROVE  KnownRequest(req'[p], made')
<1>1. req[p] \in Requests /\ KnownRequest(req[p], made)
  BY DEF Typed, Known, RequestsAreKnown
<1>2. req[p].creation # None => req[p].creation \in Creation
  BY <1>1, BoundAssumption DEF Requests, Creation, None
<1>3. req[p].pc \in {"creating", "waiting", "landed", "releasing"} => req[p].creation # None
  BY <1>1 DEF Typed, KnownRequest
<1>4. \A d \in req[p].evicted : d \in Creation
  BY <1>1 DEF Requests
<1> QED
  BY <1>1, <1>2, <1>3, <1>4 DEF KnownRequest, Forward, AtWork, Running, Building

LEMMA ArriveKnown ==
  ASSUME Typed, Known, NEW r \in Request, Arrive(r)
  PROVE  Known'
<1>1. UNCHANGED <<cache, made>>
  BY DEF Arrive
<1>2. req'[r].creation = None /\ req'[r].evicted = {} /\ req'[r].pc \in {"lookup", "serving"}
  BY DEF Arrive, Idle, Typed
<1>3. (\A p \in Request : p # r => req'[p] = req[p]) /\ req[r].pc = "idle"
  BY DEF Arrive, At, Typed
<1> QED
  BY <1>1, <1>2, <1>3 DEF Known, EntriesAreKnown, RequestsAreKnown, CreatorsAreAlone,
                          NoOrphanPlaceholder, KnownRequest, AtWork

LEMMA HitKnown ==
  ASSUME Typed, Known, NEW r \in Request, Hit(r)
  PROVE  Known'
<1>1. UNCHANGED <<cache, made>> /\ req[r].pc = "lookup"
  BY DEF Hit, At
<1>2. PICK e \in cache :
        /\ e.tenant = req[r].tenant /\ e.real
        /\ req' = [req EXCEPT ![r].pc = "serving", ![r].creation = e.creation]
  BY DEF Hit, EntryOf
<1>3. /\ req'[r].pc = "serving" /\ req'[r].creation = e.creation
      /\ req'[r].evicted = req[r].evicted /\ req'[r].tenant = req[r].tenant
      /\ \A p \in Request : p # r => req'[p] = req[p]
  BY <1>2 DEF Typed, Requests
<1>4. Running(made, e.creation) /\ made[e.creation].tenant = req[r].tenant
  BY <1>2 DEF Known, EntriesAreKnown, KnownEntry
<1>5. RequestsAreKnown'
  BY <1>1, <1>3, <1>4 DEF Known, RequestsAreKnown, KnownRequest, Running
<1> QED
  BY <1>1, <1>3, <1>5 DEF Known, EntriesAreKnown, CreatorsAreAlone, NoOrphanPlaceholder, AtWork

LEMMA FollowKnown ==
  ASSUME Typed, Known, NEW r \in Request, Follow(r)
  PROVE  Known'
<1>1. UNCHANGED <<cache, made>> /\ req[r].pc = "lookup"
  BY DEF Follow, At
<1>2. PICK e \in cache :
        /\ e.tenant = req[r].tenant /\ ~e.real
        /\ req' = [req EXCEPT ![r].pc = "waiting", ![r].creation = e.creation]
  BY DEF Follow, EntryOf
<1>3. /\ req'[r].pc = "waiting" /\ req'[r].creation = e.creation
      /\ req'[r].evicted = req[r].evicted /\ req'[r].tenant = req[r].tenant
      /\ \A p \in Request : p # r => req'[p] = req[p]
  BY <1>2 DEF Typed, Requests
<1>4. made[e.creation].at # "none" /\ made[e.creation].tenant = req[r].tenant
  BY <1>2 DEF Known, EntriesAreKnown, KnownEntry, Building
<1>5. RequestsAreKnown'
  BY <1>1, <1>3, <1>4 DEF Known, RequestsAreKnown, KnownRequest
<1> QED
  BY <1>1, <1>3, <1>5 DEF Known, EntriesAreKnown, CreatorsAreAlone, NoOrphanPlaceholder, AtWork

LEMMA MissKnown ==
  ASSUME Typed, Known, NEW r \in Request, Miss(r)
  PROVE  Known'
<1> DEFINE t == req[r].tenant
<1>1. PICK c \in Creation :
        /\ made[c].at = "none"
        /\ made' = [made EXCEPT ![c].at = "building", ![c].tenant = t]
        /\ cache' = cache \cup {[tenant |-> t, creation |-> c, real |-> FALSE]}
        /\ req' = [req EXCEPT ![r].pc = "creating", ![r].creation = c]
  BY DEF Miss
<1>2. \A e \in cache : e.tenant # t
  BY DEF Miss, EntryOf, Joins
<1>3. /\ made'[c].at = "building" /\ made'[c].tenant = t
      /\ \A d \in Creation : d # c => made'[d] = made[d]
  BY <1>1 DEF Typed, Making
<1>4. /\ req'[r].pc = "creating" /\ req'[r].creation = c
      /\ req'[r].evicted = req[r].evicted /\ req'[r].tenant = t
      /\ \A p \in Request : p # r => req'[p] = req[p]
  BY <1>1 DEF Typed, Requests
<1>5. /\ \A e \in cache : e.creation # c
      /\ \A p \in Request : req[p].creation # c /\ c \notin req[p].evicted
  BY <1>1, FreeIsUnknown DEF Numbers
<1>6. \A e \in cache : e.creation \in Creation
  BY DEF Typed, Entry
<1>7. EntriesAreKnown'
  <2> DEFINE new == [tenant |-> t, creation |-> c, real |-> FALSE]
  <2>1. new.tenant = t /\ new.creation = c /\ ~new.real /\ cache' = cache \cup {new}
    BY <1>1
  <2>2. KnownEntry(new, made')
    BY <1>3, <2>1 DEF KnownEntry, Building
  <2>3. \A e \in cache : KnownEntry(e, made')
    BY <1>3, <1>5, <1>6 DEF Known, EntriesAreKnown, KnownEntry, Building, Running
  <2>4. \A d \in Creation : Building(made', d) =>
          [tenant |-> made'[d].tenant, creation |-> d, real |-> FALSE] \in cache'
    BY <1>3, <2>1 DEF Known, EntriesAreKnown, Building
  <2> HIDE DEF new
  <2>5. \A d, e \in cache' : d.tenant = e.tenant => d = e
    BY <1>2, <2>1 DEF Known, EntriesAreKnown
  <2> QED
    BY <2>1, <2>2, <2>3, <2>4, <2>5 DEF EntriesAreKnown
<1>8. RequestsAreKnown'
  <2>1. \A p \in Request : p # r => KnownRequest(req'[p], made')
    BY <1>3, <1>4, <1>5, OthersStayKnown DEF Forward, Building, Running
  <2>2. KnownRequest(req'[r], made')
    <3>1. \A d \in req[r].evicted : d \in Creation /\ d # c /\ Running(made, d)
      BY <1>5 DEF Typed, Requests, Known, RequestsAreKnown, KnownRequest
    <3> QED
      BY <1>3, <1>4, <3>1 DEF KnownRequest, Building, Running
  <2> QED
    BY <2>1, <2>2 DEF RequestsAreKnown
<1>9. CreatorsAreAlone'
  BY <1>4, <1>5 DEF Known, CreatorsAreAlone
<1>10. NoOrphanPlaceholder'
  <2> SUFFICES ASSUME NEW e \in cache', ~e.real
               PROVE  \E p \in Request : req'[p].pc = "creating" /\ req'[p].creation = e.creation
    BY DEF NoOrphanPlaceholder
  <2>1. CASE e \in cache
    <3>1. PICK p \in Request : req[p].pc = "creating" /\ req[p].creation = e.creation
      BY <2>1 DEF Known, NoOrphanPlaceholder
    <3>2. p # r
      BY <3>1 DEF Miss, At
    <3> QED
      BY <1>4, <3>1, <3>2
  <2>2. CASE e \notin cache
    <3>1. e = [tenant |-> t, creation |-> c, real |-> FALSE]
      BY <1>1, <2>2
    <3> QED
      BY <1>4, <3>1
  <2> QED
    BY <2>1, <2>2
<1> QED
  BY <1>7, <1>8, <1>9, <1>10 DEF Known

LEMMA BuildKnown ==
  ASSUME Typed, Known, NEW r \in Request, Build(r)
  PROVE  Known'
<1> DEFINE c == req[r].creation
<1>1. c \in Creation /\ made[c].at = "building" /\ UNCHANGED <<cache, req>>
  BY BoundAssumption DEF Build, At, Typed, Requests, Creation, None
<1>2. /\ made'[c].at = "built" /\ made'[c].tenant = made[c].tenant
      /\ \A d \in Creation : d # c => made'[d] = made[d]
  BY <1>1 DEF Build, Typed, Making
<1> HIDE DEF c
<1>3. \A d \in Creation : /\ made'[d].tenant = made[d].tenant
                          /\ Building(made', d) <=> Building(made, d)
                          /\ Running(made', d) <=> Running(made, d)
                          /\ made'[d].at = "none" <=> made[d].at = "none"
                          /\ made[d].at \in {"landed", "raised"} => made'[d].at = made[d].at
  BY <1>1, <1>2 DEF Building, Running
<1>4. EntriesAreKnown'
  <2>1. \A e \in cache : e.creation \in Creation
    BY DEF Typed, Entry
  <2> QED
    BY <1>1, <1>3, <2>1 DEF Known, EntriesAreKnown, KnownEntry
<1>5. RequestsAreKnown'
  <2> SUFFICES ASSUME NEW p \in Request PROVE KnownRequest(req[p], made')
    BY <1>1 DEF RequestsAreKnown
  <2>1. req[p] \in Requests /\ KnownRequest(req[p], made)
    BY DEF Typed, Known, RequestsAreKnown
  <2>2. /\ req[p].creation # None => req[p].creation \in Creation
        /\ req[p].pc \in {"creating", "waiting", "landed", "releasing"} => req[p].creation # None
        /\ \A d \in req[p].evicted : d \in Creation
    <3>1. req[p].creation # None => req[p].creation \in Creation
      BY <2>1, BoundAssumption DEF Requests, Creation, None
    <3> QED
      BY <2>1, <3>1 DEF Typed, Requests, KnownRequest
  <2> QED
    BY <1>3, <2>1, <2>2 DEF KnownRequest
<1> QED
  BY <1>1, <1>4, <1>5 DEF Known, CreatorsAreAlone, NoOrphanPlaceholder

LEMMA BuildFailsKnown ==
  ASSUME Typed, Known, NEW r \in Request, BuildFails(r)
  PROVE  Known'
<1> DEFINE c == req[r].creation
<1>1. c \in Creation /\ made[c].at = "building" /\ req[r].pc = "creating"
  BY BoundAssumption DEF BuildFails, At, Typed, Requests, Creation, None
<1>2. /\ made'[c].at = "raised" /\ made'[c].tenant = made[c].tenant
      /\ \A d \in Creation : d # c => made'[d] = made[d]
  BY <1>1 DEF BuildFails, Typed, Making
<1>3. /\ req'[r].pc = "landed" /\ req'[r].creation = c /\ req'[r].tenant = req[r].tenant
      /\ req'[r].evicted = req[r].evicted
      /\ \A p \in Request : p # r => req'[p] = req[p]
  BY DEF BuildFails, Typed, Requests
<1>4. made[c].tenant = req[r].tenant
  BY <1>1 DEF Known, RequestsAreKnown, KnownRequest, None, Creation
<1>5. cache' = {e \in cache : e.creation # c}
  <2>1. \A e \in cache : e.creation = c => e \in EntryOf(req[r].tenant)
    BY <1>4 DEF Known, EntriesAreKnown, KnownEntry, EntryOf
  <2>2. cache' = cache \ {e \in EntryOf(req[r].tenant) : e.creation = c}
    BY DEF BuildFails, RemovesEntry
  <2> QED
    BY <2>1, <2>2
<1>6. \A e \in cache : e.creation \in Creation
  BY DEF Typed, Entry
<1> HIDE DEF c
<1>7. EntriesAreKnown'
  <2>1. \A e \in cache' : KnownEntry(e, made')
    BY <1>2, <1>5, <1>6 DEF Known, EntriesAreKnown, KnownEntry, Building, Running
  <2>2. ASSUME NEW d \in Creation, Building(made', d)
        PROVE  [tenant |-> made'[d].tenant, creation |-> d, real |-> FALSE] \in cache'
    <3>1. d # c /\ made'[d] = made[d] /\ Building(made, d)
      BY <1>2, <2>2 DEF Building
    <3>2. [tenant |-> made[d].tenant, creation |-> d, real |-> FALSE] \in cache
      BY <3>1 DEF Known, EntriesAreKnown
    <3> QED
      BY <1>5, <3>1, <3>2
  <2> QED
    BY <1>5, <2>1, <2>2 DEF Known, EntriesAreKnown
<1>8. RequestsAreKnown'
  <2>1. ASSUME NEW p \in Request, p # r PROVE KnownRequest(req'[p], made')
    <3>1. AtWork(req[p]) => req[p].creation # c
      BY <1>1, <2>1 DEF Known, CreatorsAreAlone, AtWork, c
    <3>2. \A d \in req[p].evicted : d # c
      BY <1>1 DEF Known, RequestsAreKnown, KnownRequest, Running
    <3>3. req[p].pc \in {"releasing", "serving"} /\ req[p].creation # None => req[p].creation # c
      BY <1>1 DEF Known, RequestsAreKnown, KnownRequest, Running
    <3>4. KnownRequest(req[p], made) /\ req[p] \in Requests
      BY DEF Typed, Known, RequestsAreKnown
    <3>5. req[p].creation # None => req[p].creation \in Creation
      BY <3>4, BoundAssumption DEF Requests, Creation, None
    <3>6. req[p].pc \in {"creating", "landed", "releasing"} => req[p].creation # None
      BY <3>4 DEF Typed, KnownRequest
    <3>7. \A d \in req[p].evicted : d \in Creation
      BY <3>4 DEF Requests
    <3> QED
      BY <1>2, <1>3, <2>1, <3>1, <3>2, <3>3, <3>4, <3>5, <3>6, <3>7
         DEF KnownRequest, AtWork, Building, Running
  <2>2. KnownRequest(req'[r], made')
    <3>1. \A d \in req[r].evicted : d \in Creation /\ d # c /\ Running(made, d)
      BY <1>1 DEF Typed, Requests, Known, RequestsAreKnown, KnownRequest, Running
    <3> QED
      BY <1>2, <1>3, <1>4, <3>1 DEF KnownRequest, Building, Running
  <2> QED
    BY <2>1, <2>2 DEF RequestsAreKnown
<1>9. CreatorsAreAlone'
  BY <1>1, <1>3 DEF Known, CreatorsAreAlone, AtWork, c
<1>10. NoOrphanPlaceholder'
  <2> SUFFICES ASSUME NEW e \in cache', ~e.real
               PROVE  \E p \in Request : req'[p].pc = "creating" /\ req'[p].creation = e.creation
    BY DEF NoOrphanPlaceholder
  <2>1. PICK p \in Request : req[p].pc = "creating" /\ req[p].creation = e.creation
    BY <1>5 DEF Known, NoOrphanPlaceholder
  <2>2. p # r
    BY <1>5, <2>1 DEF c
  <2> QED
    BY <1>3, <2>1, <2>2
<1> QED
  BY <1>7, <1>8, <1>9, <1>10 DEF Known

\* What landing does, said once: the creator's placeholder becomes its engine,
\* and only engines leave the cache.
LEMMA LandFacts ==
  ASSUME Typed, Known, NEW r \in Request, Land(r)
  PROVE  LET c == req[r].creation
             t == req[r].tenant
             new == [tenant |-> t, creation |-> c, real |-> TRUE]
             landed == {e \in cache : e.creation # c} \cup {new}
             out == Evicted(landed, Newest(landed, c)) IN
         /\ c \in Creation /\ made[c].at = "built" /\ made[c].tenant = t /\ req[r].pc = "creating"
         /\ \A e \in cache : e.creation # c => e.tenant # t
         /\ made'[c].at = "landed" /\ made'[c].tenant = t /\ made'[c].life = made[c].life
         /\ \A d \in Creation : d # c => made'[d] = made[d]
         /\ cache' = landed \ out /\ \A e \in out : e.real
         /\ older' = Among(Newest(landed, c), cache')
         /\ req'[r].pc = "landed" /\ req'[r].creation = c /\ req'[r].tenant = t
         /\ req'[r].evicted = Numbers(out) /\ req'[r].since = req[r].since
         /\ \A p \in Request : p # r => req'[p] = req[p]
         /\ stranded' = IF app.up /\ made[c].life = app.life THEN stranded ELSE stranded \cup {c}
<1> DEFINE c == req[r].creation
           t == req[r].tenant
           new == [tenant |-> t, creation |-> c, real |-> TRUE]
           landed == {e \in cache : e.creation # c} \cup {new}
<1>1. c \in Creation /\ made[c].at = "built" /\ req[r].pc = "creating"
  BY BoundAssumption DEF Land, At, Typed, Requests, Creation, None
<1>2. made[c].tenant = t
  BY <1>1 DEF Known, RequestsAreKnown, KnownRequest, None, Creation
<1>3. /\ made'[c].at = "landed" /\ made'[c].tenant = t /\ made'[c].life = made[c].life
      /\ \A d \in Creation : d # c => made'[d] = made[d]
  BY <1>1, <1>2 DEF Land, Typed, Making
<1>4. EntryOf(t) = {e \in cache : e.creation = c}
  <2> DEFINE mine == [tenant |-> t, creation |-> c, real |-> FALSE]
  <2>1. mine \in cache /\ mine.tenant = t /\ mine.creation = c
    BY <1>1, <1>2 DEF Known, EntriesAreKnown, Building
  <2> HIDE DEF mine
  <2>2. \A e \in cache : e.tenant = t => e = mine
    BY <2>1 DEF Known, EntriesAreKnown
  <2>3. \A e \in cache : e.creation = c => e.tenant = t
    BY <1>2 DEF Known, EntriesAreKnown, KnownEntry
  <2> QED
    BY <2>1, <2>2, <2>3 DEF EntryOf
<1>5. landed = (cache \ EntryOf(t)) \cup {new}
  BY <1>4
<1>6. /\ cache' = landed \ Evicted(landed, Newest(landed, c))
      /\ older' = Among(Newest(landed, c), cache')
      /\ req' = [req EXCEPT ![r].pc = "landed",
                            ![r].evicted = Numbers(Evicted(landed, Newest(landed, c)))]
      /\ stranded' = IF app.up /\ made[c].life = app.life THEN stranded ELSE stranded \cup {c}
  BY <1>5 DEF Land
<1>7. /\ req'[r].pc = "landed" /\ req'[r].creation = c /\ req'[r].tenant = t
      /\ req'[r].evicted = Numbers(Evicted(landed, Newest(landed, c)))
      /\ req'[r].since = req[r].since
      /\ \A p \in Request : p # r => req'[p] = req[p]
  BY <1>6 DEF Typed, Requests
<1>8. \A e \in cache : e.creation # c => e.tenant # t
  BY <1>4 DEF EntryOf
<1>9. \A e \in Evicted(landed, Newest(landed, c)) : e.real
  BY DEF Evicted
<1> QED
  BY <1>1, <1>2, <1>3, <1>6, <1>7, <1>8, <1>9

LEMMA LandKnown ==
  ASSUME Typed, Known, NEW r \in Request, Land(r)
  PROVE  Known'
<1> DEFINE c == req[r].creation
           t == req[r].tenant
           new == [tenant |-> t, creation |-> c, real |-> TRUE]
           landed == {e \in cache : e.creation # c} \cup {new}
           out == Evicted(landed, Newest(landed, c))
<1>1. /\ c \in Creation /\ made[c].at = "built" /\ req[r].pc = "creating"
      /\ \A e \in cache : e.creation # c => e.tenant # t
      /\ made'[c].at = "landed" /\ made'[c].tenant = t /\ made[c].tenant = t
      /\ \A d \in Creation : d # c => made'[d] = made[d]
      /\ cache' = landed \ out /\ \A e \in out : e.real
      /\ req'[r].pc = "landed" /\ req'[r].creation = c /\ req'[r].tenant = t
      /\ req'[r].evicted = Numbers(out)
      /\ \A p \in Request : p # r => req'[p] = req[p]
  BY LandFacts
<1>2. \A e \in cache : e.creation \in Creation
  BY DEF Typed, Entry
<1>3. out \subseteq landed
  BY DEF Evicted
<1>4. new.tenant = t /\ new.creation = c /\ new.real
  OBVIOUS
<1> HIDE DEF new, out
<1>5. \A e \in landed : KnownEntry(e, made') /\ e.creation \in Creation
  BY <1>1, <1>2, <1>4 DEF Known, EntriesAreKnown, KnownEntry, Building, Running
<1> HIDE DEF c, t
<1>6. EntriesAreKnown'
  <2>1. \A d, e \in landed : d.tenant = e.tenant => d = e
    BY <1>1, <1>4 DEF Known, EntriesAreKnown
  <2>2. ASSUME NEW d \in Creation, Building(made', d)
        PROVE  [tenant |-> made'[d].tenant, creation |-> d, real |-> FALSE] \in cache'
    <3> DEFINE e == [tenant |-> made[d].tenant, creation |-> d, real |-> FALSE]
    <3>1. d # c /\ made'[d] = made[d] /\ Building(made, d)
      BY <1>1, <2>2 DEF Building
    <3>2. e \in cache /\ e.creation = d /\ ~e.real
      BY <3>1 DEF Known, EntriesAreKnown
    <3> HIDE DEF e
    <3>3. e \in cache'
      BY <1>1, <3>1, <3>2
    <3> QED
      BY <3>1, <3>3 DEF e
  <2> QED
    BY <1>1, <1>5, <2>1, <2>2 DEF EntriesAreKnown
<1>7. RequestsAreKnown'
  <2>1. ASSUME NEW p \in Request, p # r PROVE KnownRequest(req'[p], made')
    <3>1. AtWork(req[p]) => req[p].creation # c
      BY <1>1, <2>1 DEF Known, CreatorsAreAlone, AtWork, c
    <3>2. \A d \in Creation : Forward(d) /\ (d # c => made'[d].at = made[d].at)
      BY <1>1 DEF Forward, Building, Running
    <3> QED
      BY <1>1, <2>1, <3>1, <3>2, OthersStayKnown
  <2>2. \A d \in Numbers(out) : Running(made', d)
    BY <1>1, <1>3, <1>5 DEF Numbers, KnownEntry
  <2> QED
    BY <1>1, <2>1, <2>2 DEF RequestsAreKnown, KnownRequest
<1>8. CreatorsAreAlone'
  BY <1>1 DEF Known, CreatorsAreAlone, AtWork, c
<1>9. NoOrphanPlaceholder'
  <2> SUFFICES ASSUME NEW e \in cache', ~e.real
               PROVE  \E p \in Request : req'[p].pc = "creating" /\ req'[p].creation = e.creation
    BY DEF NoOrphanPlaceholder
  <2>1. e \in cache /\ e.creation # c
    BY <1>1, <1>4
  <2>2. PICK p \in Request : req[p].pc = "creating" /\ req[p].creation = e.creation
    BY <2>1 DEF Known, NoOrphanPlaceholder
  <2> QED
    BY <1>1, <2>1, <2>2 DEF c
<1> QED
  BY <1>6, <1>7, <1>8, <1>9 DEF Known

\* A collection leaves every engine somebody holds where it was, or where a
\* future has just put it.
Settles(m, c) ==
  /\ m[c].tenant = made[c].tenant /\ m[c].life = made[c].life
  /\ \/ m[c].at = made[c].at
     \/ made[c].at = "landed" /\ m[c].at = "ready"
     \/ made[c].at = "raised" /\ m[c].at = "failed"

LEMMA CollectedEntries ==
  ASSUME Typed, Known, NEW m \in [Creation -> Making], Keep(m),
         \A c \in Creation : Settles(m, c),
         cache' \subseteq cache, \A e \in cache \ cache' : e.real
  PROVE  EntriesAreKnown'
<1>1. \A e \in cache' : e.creation \in Creation /\ made'[e.creation] = m[e.creation]
  <2>1. \A e \in cache' : e.creation \in Creation /\ e.creation \in Numbers(cache')
    BY DEF Typed, Entry, Numbers
  <2> QED
    BY <2>1, KeepFacts
<1>2. \A e \in cache' : KnownEntry(e, made')
  BY <1>1 DEF Known, EntriesAreKnown, KnownEntry, Building, Running, Settles
<1>3. ASSUME NEW d \in Creation, Building(made', d)
      PROVE  [tenant |-> made'[d].tenant, creation |-> d, real |-> FALSE] \in cache'
  <2> DEFINE e == [tenant |-> made[d].tenant, creation |-> d, real |-> FALSE]
  <2>1. made'[d] = m[d]
    BY <1>3, KeepFacts DEF Building
  <2>2. Building(made, d) /\ made'[d].tenant = made[d].tenant
    BY <1>3, <2>1 DEF Building, Settles
  <2>3. e \in cache /\ ~e.real
    BY <2>2 DEF Known, EntriesAreKnown
  <2> HIDE DEF e
  <2>4. e \in cache'
    BY <2>3
  <2> QED
    BY <2>2, <2>4 DEF e
<1> QED
  BY <1>2, <1>3 DEF Known, EntriesAreKnown

LEMMA CollectedRequest ==
  ASSUME Typed, Known, NEW m \in [Creation -> Making], Keep(m),
         \A c \in Creation : Settles(m, c),
         NEW p \in Request, req'[p] = req[p],
         AtWork(req[p]) => m[req[p].creation].at = made[req[p].creation].at
  PROVE  KnownRequest(req'[p], made')
<1>1. req[p] \in Requests /\ KnownRequest(req[p], made)
  BY DEF Typed, Known, RequestsAreKnown
<1>2. req[p].creation # None => req[p].creation \in Creation
  BY <1>1, BoundAssumption DEF Requests, Creation, None
<1>3. req[p].pc \in {"creating", "waiting", "landed", "releasing"} => req[p].creation # None
  BY <1>1 DEF Typed, KnownRequest
<1>4. \A d \in req[p].evicted : d \in Creation /\ made'[d] = m[d]
  <2>1. \A d \in req[p].evicted : d \in Creation
    BY <1>1 DEF Requests
  <2> QED
    BY <2>1, KeepFacts
<1>5. req[p].creation # None => made'[req[p].creation] = m[req[p].creation]
  BY <1>2, KeepFacts
<1> QED
  BY <1>1, <1>2, <1>3, <1>4, <1>5 DEF KnownRequest, AtWork, Running, Building, Settles

\* Releasing, waiting, serving and stopping settle no future.
LEMMA CollectedAll ==
  ASSUME Typed, Known, Keep(made), cache' \subseteq cache, \A e \in cache \ cache' : e.real,
         \A p \in Request : \/ req'[p] = req[p]
                            \/ /\ ~AtWork(req[p]) /\ ~AtWork(req'[p])
                               /\ KnownRequest(req'[p], made')
  PROVE  Known'
<1>1. made \in [Creation -> Making] /\ \A c \in Creation : Settles(made, c)
  BY DEF Typed, Settles
<1>2. EntriesAreKnown'
  BY <1>1, CollectedEntries
<1>3. RequestsAreKnown'
  <2>1. ASSUME NEW p \in Request, req'[p] = req[p] PROVE KnownRequest(req'[p], made')
    BY <1>1, <2>1, CollectedRequest
  <2> QED
    BY <2>1 DEF RequestsAreKnown
<1>4. CreatorsAreAlone'
  BY DEF Known, CreatorsAreAlone
<1>5. NoOrphanPlaceholder'
  BY DEF Known, NoOrphanPlaceholder, AtWork
<1> QED
  BY <1>2, <1>3, <1>4, <1>5 DEF Known

LEMMA IdleKnown == \A m : KnownRequest(Idle, m) /\ ~AtWork(Idle)
BY DEF Idle, KnownRequest, AtWork

LEMMA ResolveKnown ==
  ASSUME Typed, Known, NEW r \in Request, Resolve(r)
  PROVE  Known'
<1> DEFINE c == req[r].creation
           m == [made EXCEPT ![c].at = Outcome(@)]
<1>1. c \in Creation /\ req[r].pc = "landed" /\ cache' = cache
  BY BoundAssumption DEF Resolve, At, Typed, Requests, Creation, None
<1>2. made[c].at \in {"landed", "raised"}
  BY <1>1 DEF Known, RequestsAreKnown, KnownRequest
<1>3. /\ m \in [Creation -> Making]
      /\ m[c].at = IF made[c].at = "landed" THEN "ready" ELSE "failed"
      /\ m[c].tenant = made[c].tenant /\ m[c].life = made[c].life
      /\ \A d \in Creation : d # c => m[d] = made[d]
  BY <1>1 DEF Outcome, Typed, Making, Stages
<1>4. Keep(m)
  BY DEF Resolve
<1>5. /\ \A p \in Request : p # r => req'[p] = req[p]
      /\ req'[r] = IF made[c].at = "landed" THEN [req[r] EXCEPT !.pc = "releasing"] ELSE Idle
  BY DEF Resolve, Typed
<1> HIDE DEF c, m
<1>6. \A d \in Creation : Settles(m, d)
  BY <1>2, <1>3 DEF Settles
<1>7. EntriesAreKnown'
  BY <1>1, <1>3, <1>4, <1>6, CollectedEntries
<1>8. RequestsAreKnown'
  <2>1. ASSUME NEW p \in Request, p # r PROVE KnownRequest(req'[p], made')
    <3>1. AtWork(req[p]) => req[p].creation # c /\ req[p].creation \in Creation
      BY <1>1, <2>1, BoundAssumption
         DEF Known, CreatorsAreAlone, AtWork, c, Typed, Requests, Creation, None
    <3> QED
      BY <1>3, <1>4, <1>5, <1>6, <2>1, <3>1, CollectedRequest
  <2>2. KnownRequest(req'[r], made')
    <3>1. CASE made[c].at = "raised"
      BY <1>5, <3>1, IdleKnown
    <3>2. CASE made[c].at = "landed"
      <4>1. /\ req'[r].pc = "releasing" /\ req'[r].creation = c /\ req'[r].tenant = req[r].tenant
            /\ req'[r].evicted = req[r].evicted
        BY <1>5, <3>2 DEF Typed, Requests, c
      <4>2. made'[c] = m[c]
        BY <1>1, <1>3, <1>4, <4>1, KeepFacts
      <4>3. \A d \in req[r].evicted : d \in Creation /\ Running(made, d)
        BY DEF Typed, Requests, Known, RequestsAreKnown, KnownRequest
      <4>4. \A d \in req[r].evicted : made'[d] = m[d]
        BY <1>3, <1>4, <4>1, <4>3, KeepFacts
      <4>5. \A d \in req[r].evicted : Running(made', d)
        BY <1>6, <4>3, <4>4 DEF Running, Settles
      <4>6. made[c].tenant = req[r].tenant
        BY <1>1 DEF Known, RequestsAreKnown, KnownRequest, c, None, Creation
      <4> QED
        BY <1>1, <1>3, <3>2, <4>1, <4>2, <4>5, <4>6 DEF KnownRequest, Running, None, Creation
    <3> QED
      BY <1>2, <3>1, <3>2
  <2> QED
    BY <2>1, <2>2 DEF RequestsAreKnown
<1>9. ~AtWork(req'[r]) /\ req[r].pc # "creating"
  BY <1>1, <1>5, IdleKnown DEF AtWork, Typed, Requests
<1>10. CreatorsAreAlone'
  BY <1>5, <1>9 DEF Known, CreatorsAreAlone
<1>11. NoOrphanPlaceholder'
  BY <1>1, <1>5, <1>9 DEF Known, NoOrphanPlaceholder
<1> QED
  BY <1>7, <1>8, <1>10, <1>11 DEF Known

LEMMA LeaveKnown ==
  ASSUME Typed, Known, NEW r \in Request, Release(r) \/ Wait(r) \/ Serve(r)
  PROVE  Known'
<1>1. Keep(made) /\ cache' = cache /\ \A p \in Request : p # r => req'[p] = req[p]
  BY DEF Release, Wait, Serve, Typed
<1>2. req[r] \in Requests /\ made \in [Creation -> Making] /\ ~AtWork(req[r])
      /\ KnownRequest(req[r], made)
  BY DEF Release, Wait, Serve, At, AtWork, Typed, Known, RequestsAreKnown
<1>3. req[r].creation # None => req[r].creation \in Creation
  BY <1>2, BoundAssumption DEF Requests, Creation, None
<1>4. CASE req'[r] = Idle
  BY <1>1, <1>2, <1>4, IdleKnown, CollectedAll
<1>5. CASE /\ req'[r] \in {[req[r] EXCEPT !.pc = "serving", !.evicted = {}],
                           [req[r] EXCEPT !.pc = "serving"]}
           /\ req[r].creation # None => Running(made, req[r].creation)
  <2>1. /\ req'[r].pc = "serving" /\ req'[r].creation = req[r].creation
        /\ req'[r].tenant = req[r].tenant /\ req'[r].evicted \subseteq req[r].evicted
    BY <1>2, <1>5 DEF Requests
  <2>2. \A d \in req'[r].evicted : made'[d] = made[d]
    <3>1. \A d \in req'[r].evicted : d \in Creation
      BY <1>2, <2>1 DEF Requests
    <3> QED
      BY <1>1, <1>2, <3>1, KeepFacts
  <2>3. req[r].creation # None => made'[req[r].creation] = made[req[r].creation]
    BY <1>1, <1>2, <1>3, <2>1, KeepFacts
  <2>4. KnownRequest(req'[r], made')
    BY <1>2, <1>5, <2>1, <2>2, <2>3 DEF KnownRequest, Running
  <2> QED
    BY <1>1, <1>2, <2>1, <2>4, CollectedAll DEF AtWork
<1>6. CASE Release(r)
  <2>1. req'[r] = [req[r] EXCEPT !.pc = "serving", !.evicted = {}]
    BY <1>6 DEF Release, Typed
  <2>2. req[r].creation # None => Running(made, req[r].creation)
    BY <1>2, <1>6 DEF Release, At, KnownRequest
  <2> QED
    BY <1>5, <2>1, <2>2
<1>7. CASE Wait(r)
  <2>1. req'[r] = IF made[req[r].creation].at = "ready" THEN [req[r] EXCEPT !.pc = "serving"]
                  ELSE Idle
    BY <1>7 DEF Wait, Typed
  <2> QED
    BY <1>4, <1>5, <2>1 DEF Running
<1>8. CASE Serve(r)
  BY <1>4, <1>8 DEF Serve, Typed
<1> QED
  BY <1>6, <1>7, <1>8

LEMMA KnownPreserved ==
  ASSUME Typed, Known, [Next]_vars
  PROVE  Known'
<1>1. CASE Start \/ UNCHANGED vars
  BY <1>1 DEF Start, vars, Known, EntriesAreKnown, RequestsAreKnown, CreatorsAreAlone,
              NoOrphanPlaceholder
<1>2. CASE Stop
  <2>1. Keep(made) /\ cache' = cache \ Cleared(cache) /\ req' = req
    BY <1>2 DEF Stop
  <2> QED
    BY <2>1, CollectedAll DEF Cleared
<1> QED
  BY <1>1, <1>2, ArriveKnown, HitKnown, FollowKnown, MissKnown, BuildKnown, BuildFailsKnown,
     LandKnown, ResolveKnown, LeaveKnown DEF Next, Progress

-----------------------------------------------------------------------------
(* Which start of the app an engine belongs to.                             *)

\* While the app is down the cache holds nothing but engines that landed after
\* the stop; while it is up, nothing else is of an earlier start.
CacheIsFresh ==
  \A e \in cache : e.real /\ e.creation \notin stranded =>
    app.up /\ made[e.creation].life = app.life

LivesAgree ==
  /\ \A c \in Creation : made[c].life <= app.life
  /\ \A r \in Request : req[r].since <= app.life
  /\ \A r \in Request :
       LET c == req[r].creation
       IN c # None /\ Running(made, c) /\ c \notin stranded => req[r].since <= made[c].life

Fresh == CacheIsFresh /\ LivesAgree

LEMMA LookupFresh ==
  ASSUME Typed, Known, Fresh, NEW r \in Request, Arrive(r) \/ Hit(r) \/ Follow(r)
  PROVE  Fresh'
<1>1. UNCHANGED <<app, cache, made, stranded>>
  BY DEF Arrive, Hit, Follow
<1>2. /\ \A p \in Request : p # r => req'[p] = req[p]
      /\ app.life \in 0 .. MaxLives /\ req[r].since <= app.life
  BY DEF Arrive, Hit, Follow, Typed, Fresh, LivesAgree
<1>3. CASE Arrive(r)
  <2>1. req'[r].since = app.life /\ req'[r].creation = None
    <3>1. PICK t \in Tenant \cup {Default} :
            req' = [req EXCEPT ![r] = [Idle EXCEPT !.tenant = t, !.since = app.life,
                                         !.pc = IF keyed THEN "lookup" ELSE "serving"]]
      BY <1>3 DEF Arrive
    <3> DEFINE q == [Idle EXCEPT !.tenant = t, !.since = app.life,
                                 !.pc = IF keyed THEN "lookup" ELSE "serving"]
    <3>2. q.since = app.life /\ q.creation = None
      BY DEF Idle
    <3> QED
      BY <3>1, <3>2 DEF Typed
  <2> QED
    BY <1>1, <1>2, <2>1, BoundAssumption DEF Fresh, CacheIsFresh, LivesAgree
<1>4. CASE Hit(r) \/ Follow(r)
  <2>1. PICK e \in cache :
          /\ req'[r].creation = e.creation /\ req'[r].since = req[r].since
          /\ e.creation \in Creation
    BY <1>4 DEF Hit, Follow, EntryOf, Typed, Requests, Entry
  <2>2. Running(made, e.creation) => e.real
    BY DEF Known, EntriesAreKnown, KnownEntry, Running, Building
  <2>3. e.real /\ e.creation \notin stranded => made[e.creation].life = app.life
    BY DEF Fresh, CacheIsFresh
  <2> QED
    BY <1>1, <1>2, <2>1, <2>2, <2>3 DEF Fresh, CacheIsFresh, LivesAgree
<1> QED
  BY <1>3, <1>4

LEMMA MakeFresh ==
  ASSUME Typed, Known, Fresh, NEW r \in Request, Miss(r) \/ Build(r) \/ BuildFails(r)
  PROVE  Fresh'
<1>1. PICK c \in Creation :
        /\ ~Running(made, c) /\ ~Running(made', c)
        /\ made'[c].life \in {made[c].life, app.life}
        /\ \A d \in Creation : d # c => made'[d] = made[d]
        /\ \A e \in cache' : e.real => e \in cache
        /\ \A p \in Request : /\ req'[p].since = req[p].since
                              /\ req'[p].creation \in {req[p].creation, c}
  <2>1. CASE Miss(r)
    <3>1. PICK c \in Creation :
            /\ made[c].at = "none"
            /\ made' = [made EXCEPT ![c].at = "building", ![c].tenant = req[r].tenant]
            /\ cache' = cache \cup {[tenant |-> req[r].tenant, creation |-> c, real |-> FALSE]}
            /\ req' = [req EXCEPT ![r].pc = "creating", ![r].creation = c]
      BY <2>1 DEF Miss
    <3>2. /\ made'[c].at = "building" /\ made'[c].life = made[c].life
          /\ \A d \in Creation : d # c => made'[d] = made[d]
      BY <3>1 DEF Typed, Making
    <3>3. \A p \in Request : /\ req'[p].since = req[p].since
                             /\ req'[p].creation \in {req[p].creation, c}
      BY <3>1 DEF Typed, Requests
    <3>4. \A e \in cache' : e.real => e \in cache
      BY <3>1
    <3> QED
      BY <3>1, <3>2, <3>3, <3>4 DEF Running
  <2>2. CASE Build(r) \/ BuildFails(r)
    <3> DEFINE c == req[r].creation
    <3>1. c \in Creation /\ made[c].at = "building" /\ cache' \subseteq cache
      BY <2>2, BoundAssumption
         DEF Build, BuildFails, RemovesEntry, At, Typed, Requests, Creation, None
    <3>2. /\ made'[c].at \in {"built", "raised"} /\ made'[c].life \in {made[c].life, app.life}
          /\ \A d \in Creation : d # c => made'[d] = made[d]
      BY <2>2, <3>1 DEF Build, BuildFails, Typed, Making
    <3>3. \A p \in Request : req'[p].since = req[p].since /\ req'[p].creation = req[p].creation
      BY <2>2 DEF Build, BuildFails, Typed, Requests
    <3> QED
      BY <3>1, <3>2, <3>3 DEF Running
  <2> QED
    BY <2>1, <2>2
<1>2. UNCHANGED <<app, stranded>> /\ app.life \in 0 .. MaxLives
  BY DEF Miss, Build, BuildFails, Typed
<1>3. \A e \in cache : e.creation \in Creation /\ (e.real => e.creation # c)
  BY <1>1 DEF Typed, Entry, Known, EntriesAreKnown, KnownEntry
<1>4. \A p \in Request : req[p].creation # None => req[p].creation \in Creation
  BY BoundAssumption DEF Typed, Requests, Creation, None
<1>5. CacheIsFresh'
  BY <1>1, <1>2, <1>3 DEF Fresh, CacheIsFresh
<1>6. \A p \in Request : req'[p].creation # None /\ Running(made', req'[p].creation) =>
        /\ req'[p].creation = req[p].creation
        /\ made'[req[p].creation] = made[req[p].creation]
        /\ Running(made, req[p].creation)
  BY <1>1, <1>4 DEF Running
<1>7. LivesAgree'
  BY <1>1, <1>2, <1>6, BoundAssumption DEF Fresh, LivesAgree
<1> QED
  BY <1>5, <1>7 DEF Fresh

LEMMA LandFresh ==
  ASSUME Typed, Known, Fresh, NEW r \in Request, Land(r)
  PROVE  Fresh'
<1> DEFINE c == req[r].creation
           new == [tenant |-> req[r].tenant, creation |-> c, real |-> TRUE]
           landed == {e \in cache : e.creation # c} \cup {new}
<1>0. /\ c \in Creation /\ made'[c].life = made[c].life
      /\ \A d \in Creation : d # c => made'[d] = made[d]
      /\ cache' \subseteq landed /\ new.creation = c
      /\ req'[r].creation = c /\ req'[r].since = req[r].since
      /\ \A p \in Request : p # r => req'[p] = req[p]
      /\ stranded' = IF app.up /\ made[c].life = app.life THEN stranded ELSE stranded \cup {c}
  BY LandFacts
<1> HIDE DEF new
<1>1. /\ c \in Creation /\ made'[c].life = made[c].life
      /\ \A d \in Creation : d # c => made'[d] = made[d]
      /\ \A e \in cache' : e.creation = c \/ e \in cache
      /\ \A p \in Request : req'[p].since = req[p].since /\ req'[p].creation = req[p].creation
      /\ stranded' = IF app.up /\ made[c].life = app.life THEN stranded ELSE stranded \cup {c}
  BY <1>0
<1>2. UNCHANGED app /\ app.life \in 0 .. MaxLives
  BY DEF Land, Typed
<1>3. \A e \in cache : e.creation \in Creation
  BY DEF Typed, Entry
<1>4. \A p \in Request : req[p].creation # None => req[p].creation \in Creation
  BY BoundAssumption DEF Typed, Requests, Creation, None
<1> HIDE DEF c
<1>5. CacheIsFresh'
  BY <1>1, <1>2, <1>3 DEF Fresh, CacheIsFresh
<1>6. LivesAgree'
  BY <1>1, <1>2, <1>4, BoundAssumption DEF Fresh, LivesAgree, Running
<1> QED
  BY <1>5, <1>6 DEF Fresh

\* What is collected takes no start of the app with it.
LEMMA CollectedFresh ==
  ASSUME Typed, Known, Fresh, NEW m \in [Creation -> Making], Keep(m),
         \A c \in Creation : Settles(m, c), cache' \subseteq cache,
         app'.life = app.life, app'.up = app.up \/ \A e \in cache' : ~e.real,
         \A p \in Request : \/ req'[p].creation = None /\ req'[p].since = 0
                            \/ req'[p].creation = req[p].creation /\ req'[p].since = req[p].since
  PROVE  Fresh'
<1>1. app.life \in 0 .. MaxLives /\ app.life \in Nat
  BY BoundAssumption DEF Typed
<1>2. \A e \in cache' : /\ made'[e.creation].life = made[e.creation].life
                        /\ e.creation \notin stranded' => e.creation \notin stranded
  <2>1. \A e \in cache' : e.creation \in Creation /\ e.creation \in Numbers(cache')
    BY DEF Typed, Entry, Numbers
  <2> QED
    BY <2>1, KeepFacts DEF Settles
<1>3. CacheIsFresh'
  BY <1>2 DEF Fresh, CacheIsFresh
<1>4. \A p \in Request : req'[p].creation # None =>
        /\ req'[p].creation = req[p].creation /\ req'[p].since = req[p].since
        /\ made'[req[p].creation].life = made[req[p].creation].life
        /\ Running(made', req[p].creation) => Running(made, req[p].creation)
        /\ req[p].creation \notin stranded' => req[p].creation \notin stranded
  <2>1. \A p \in Request : req[p].creation # None => req[p].creation \in Creation
    BY BoundAssumption DEF Typed, Requests, Creation, None
  <2>2. \A p \in Request : req'[p].creation # None => req'[p].creation = req[p].creation
    OBVIOUS
  <2>3. \A p \in Request : req'[p].creation # None =>
          /\ made'[req[p].creation] = m[req[p].creation]
          /\ req[p].creation \in stranded => req[p].creation \in stranded'
    BY <2>1, <2>2, KeepFacts
  <2> QED
    BY <2>1, <2>2, <2>3 DEF Settles, Running
<1>5. \A c \in Creation : made'[c].life <= app.life
  <2>1. \A c \in Creation : made'[c].life \in {0, made[c].life}
    BY KeepFacts DEF Settles, Unmade
  <2> QED
    BY <1>1, <2>1 DEF Fresh, LivesAgree
<1>6. LivesAgree'
  BY <1>1, <1>4, <1>5 DEF Fresh, LivesAgree
<1> QED
  BY <1>3, <1>6 DEF Fresh

LEMMA FreshPreserved ==
  ASSUME Typed, Known, Fresh, [Next]_vars
  PROVE  Fresh'
<1>0. made \in [Creation -> Making] /\ \A c \in Creation : Settles(made, c)
  BY DEF Typed, Settles
<1>1. ASSUME NEW r \in Request, Resolve(r) PROVE Fresh'
  <2> DEFINE c == req[r].creation
             m == [made EXCEPT ![c].at = Outcome(@)]
  <2>1. c \in Creation /\ req[r].pc = "landed"
    BY <1>1, BoundAssumption DEF Resolve, At, Typed, Requests, Creation, None
  <2>2. made[c].at \in {"landed", "raised"}
    BY <2>1 DEF Known, RequestsAreKnown, KnownRequest
  <2>3. m \in [Creation -> Making] /\ \A d \in Creation : Settles(m, d)
    BY <2>1, <2>2 DEF Outcome, Typed, Making, Stages, Settles
  <2>4. Keep(m) /\ cache' = cache /\ app' = app
    BY <1>1 DEF Resolve
  <2>5. \A p \in Request : \/ req'[p].creation = None /\ req'[p].since = 0
                           \/ req'[p].creation = req[p].creation /\ req'[p].since = req[p].since
    BY <1>1 DEF Resolve, Typed, Requests, Idle
  <2> HIDE DEF m
  <2> QED
    BY <2>3, <2>4, <2>5, CollectedFresh
<1>2. ASSUME NEW r \in Request, Release(r) \/ Wait(r) \/ Serve(r) PROVE Fresh'
  <2>1. Keep(made) /\ cache' = cache /\ app' = app
    BY <1>2 DEF Release, Wait, Serve
  <2>2. \A p \in Request : \/ req'[p].creation = None /\ req'[p].since = 0
                           \/ req'[p].creation = req[p].creation /\ req'[p].since = req[p].since
    BY <1>2 DEF Release, Wait, Serve, Typed, Requests, Idle
  <2> QED
    BY <1>0, <2>1, <2>2, CollectedFresh
<1>3. CASE Start
  <2>1. /\ ~app.up /\ app'.life = app.life + 1 /\ app.life \in 0 .. MaxLives
        /\ UNCHANGED <<cache, made, req, stranded>>
    BY <1>3 DEF Start, Typed
  <2>2. /\ \A c \in Creation : made[c].life \in Int
        /\ \A r \in Request : req[r].since \in Int
    BY DEF Typed, Making, Requests
  <2> QED
    BY <2>1, <2>2 DEF Fresh, CacheIsFresh, LivesAgree, Running
<1>4. CASE Stop
  <2>1. /\ Keep(made) /\ cache' = cache \ Cleared(cache) /\ req' = req
        /\ app'.life = app.life
    BY <1>4 DEF Stop, Typed
  <2> QED
    BY <1>0, <2>1, CollectedFresh DEF Cleared
<1>5. CASE UNCHANGED vars
  BY <1>5 DEF vars, Fresh, CacheIsFresh, LivesAgree, Running
<1> QED
  BY <1>1, <1>2, <1>3, <1>4, <1>5, LookupFresh, MakeFresh, LandFresh DEF Next, Progress

-----------------------------------------------------------------------------
(* The limit.                                                               *)

IsOrder(o, N) ==
  /\ o \subseteq N \X N
  /\ \A c \in N : <<c, c>> \notin o
  /\ \A c, d \in N : c # d => <<c, d>> \in o \/ <<d, c>> \in o
  /\ \A b, c, d \in N : <<b, c>> \in o /\ <<c, d>> \in o => <<b, d>> \in o

\* Of any two entries one was used before the other.
RecencyIsOrder == IsOrder(older, Numbers(cache))

Engines(data) == {e \in data : e.real}

WithinLimit == Cardinality(Engines(cache)) <= Limit

LEMMA AmongIsOrder ==
  ASSUME NEW data, NEW part, part \subseteq data, NEW o, IsOrder(o, Numbers(data))
  PROVE  IsOrder(Among(o, part), Numbers(part))
<1>1. Numbers(part) \subseteq Numbers(data)
  BY DEF Numbers
<1> QED
  BY <1>1 DEF IsOrder, Among

LEMMA NewestIsOrder ==
  ASSUME NEW data, NEW c, RecencyIsOrder, c \in Numbers(data),
         Numbers(data) \subseteq Numbers(cache) \cup {c}
  PROVE  IsOrder(Newest(data, c), Numbers(data))
<1> DEFINE N == Numbers(data)
           M == Numbers({e \in data : e.creation # c})
<1>1. M = N \ {c} /\ M \subseteq Numbers(cache)
  BY DEF Numbers
<1>2. Newest(data, c) = (older \cap (M \X M)) \cup (M \X {c})
  BY DEF Newest, Among
<1>3. c \in N
  OBVIOUS
<1> HIDE DEF N, M
<1>4. IsOrder(older \cap (M \X M), M)
  BY <1>1 DEF RecencyIsOrder, IsOrder
<1> DEFINE o == older \cap (M \X M)
           p == Newest(data, c)
<1>5. /\ \A x, y \in M : <<x, y>> \in p <=> <<x, y>> \in o
      /\ \A x \in M : <<x, c>> \in p
      /\ \A x : <<c, x>> \notin p
      /\ p \subseteq N \X N
  BY <1>1, <1>2, <1>3
<1> HIDE DEF o, p
<1>6. IsOrder(o, M)
  BY <1>4 DEF o
<1>7. IsOrder(p, N)
  <2>1. \A x \in N : x = c \/ x \in M
    BY <1>1
  <2>2. \A x \in N : <<x, x>> \notin p
    BY <1>5, <1>6, <2>1 DEF IsOrder
  <2>3. \A x, y \in N : x # y => <<x, y>> \in p \/ <<y, x>> \in p
    BY <1>5, <1>6, <2>1 DEF IsOrder
  <2>4. \A x, y, z \in N : <<x, y>> \in p /\ <<y, z>> \in p => <<x, z>> \in p
    BY <1>5, <1>6, <2>1 DEF IsOrder
  <2> QED
    BY <1>5, <2>2, <2>3, <2>4 DEF IsOrder
<1> QED
  BY <1>7 DEF p, N

\* The cache is finite: a creation has one entry.
LEMMA CacheIsFinite ==
  ASSUME NEW data \in SUBSET Entry, \A d, e \in data : d.creation = e.creation => d = e
  PROVE  IsFiniteSet(data)
<1> DEFINE f == [e \in data |-> e.creation]
<1>1. f \in Injection(data, Creation)
  BY DEF Injection, IsInjective, Entry
<1>2. IsFiniteSet(Creation)
  BY BoundAssumption, FS_Interval DEF Creation
<1> HIDE DEF f
<1> QED
  BY <1>1, <1>2, FS_Injection

LEMMA LeastNumber ==
  ASSUME NEW S, S \subseteq Nat, S # {}
  PROVE  \E m \in S : \A k \in S : m <= k
<1> DEFINE R == OpToRel(<, Nat)
<1>1. \A x, y \in Nat : x < y => <<x, y>> \in R
  BY DEF OpToRel
<1>2. IsWellFoundedOn(R, Nat)
  BY NatLessThanWellFounded
<1> HIDE DEF R
<1>3. PICK m \in S : \A y \in S : ~(<<y, m>> \in R)
  BY <1>2, WFMin
<1>4. \A k \in S : k \in Nat /\ ~(k < m)
  BY <1>1, <1>3
<1> QED
  BY <1>3, <1>4

\* Some engine was used before all the others.
LEMMA OldestEngine ==
  ASSUME NEW K, IsFiniteSet(K), K # {}, NEW o, NEW N, IsOrder(o, N), Numbers(K) \subseteq N,
         \A d, e \in K : d.creation = e.creation => d = e
  PROVE  \E e \in K : \A d \in K : d # e => <<e.creation, d.creation>> \in o
<1> DEFINE Before(e) == {d \in K : <<d.creation, e.creation>> \in o}
           S == {Cardinality(Before(e)) : e \in K}
<1>0. \A e \in K : e.creation \in N
  BY DEF Numbers
<1>1. \A e \in K : IsFiniteSet(Before(e)) /\ Cardinality(Before(e)) \in Nat
  <2> SUFFICES ASSUME NEW e \in K PROVE IsFiniteSet(Before(e)) /\ Cardinality(Before(e)) \in Nat
    OBVIOUS
  <2>1. Before(e) \in SUBSET K
    OBVIOUS
  <2> HIDE DEF Before
  <2> QED
    BY <2>1, FS_Subset, FS_CardinalityType
<1>2. S \subseteq Nat /\ S # {}
  BY <1>1
<1>3. PICK m \in S : \A k \in S : m <= k
  BY <1>2, LeastNumber
<1>4. PICK e \in K : m = Cardinality(Before(e))
  BY <1>3
<1>5. \A d \in K : Cardinality(Before(e)) <= Cardinality(Before(d))
  <2> SUFFICES ASSUME NEW d \in K PROVE Cardinality(Before(e)) <= Cardinality(Before(d))
    OBVIOUS
  <2>1. Cardinality(Before(d)) \in S
    OBVIOUS
  <2> HIDE DEF Before, S
  <2> QED
    BY <1>3, <1>4, <2>1
<1>6. ASSUME NEW d \in K, d # e, <<e.creation, d.creation>> \notin o
      PROVE  FALSE
  <2>1. <<d.creation, e.creation>> \in o
    BY <1>0, <1>6 DEF IsOrder
  <2>2. Before(d) \subseteq Before(e) /\ d \in Before(e) /\ d \notin Before(d)
    BY <1>0, <2>1 DEF IsOrder
  <2> HIDE DEF Before
  <2>3. Before(d) \in SUBSET Before(e) /\ Before(d) # Before(e)
    BY <2>2
  <2>4. /\ Cardinality(Before(d)) <= Cardinality(Before(e))
        /\ Cardinality(Before(e)) # Cardinality(Before(d))
    BY <1>1, <2>3, FS_Subset
  <2>5. Cardinality(Before(e)) <= Cardinality(Before(d))
    BY <1>5
  <2>6. Cardinality(Before(d)) \in Nat /\ Cardinality(Before(e)) \in Nat
    BY <1>1
  <2> QED
    BY <2>4, <2>5, <2>6
<1> QED
  BY <1>6

\* What the eviction loop leaves is within the limit.
LEMMA EvictionFits ==
  ASSUME NEW data \in SUBSET Entry, NEW o, IsOrder(o, Numbers(data)),
         \A d, e \in data : d.creation = e.creation => d = e
  PROVE  /\ IsFiniteSet(Engines(data \ Evicted(data, o)))
         /\ Cardinality(Engines(data \ Evicted(data, o))) <= Limit
<1> DEFINE K == Engines(data \ Evicted(data, o))
<1>0. K \subseteq data
  BY DEF Engines
<1>1. IsFiniteSet(data)
  BY CacheIsFinite
<1>2. IsFiniteSet(K)
  BY <1>0, <1>1, FS_Subset
<1>3. CASE K = {}
  <2>1. Cardinality(K) = 0
    BY <1>3, FS_EmptySet
  <2> QED
    BY <1>2, <2>1, LimitAssumption
<1>4. CASE K # {}
  <2>1. Numbers(K) \subseteq Numbers(data)
    BY <1>0 DEF Numbers
  <2>2. \A e \in K : e \in data /\ e.real /\ ~(Cardinality(NewerThan(e, data, o)) >= Limit)
    BY DEF Engines, Evicted
  <2> HIDE DEF K
  <2>3. PICK e \in K : \A d \in K : d # e => <<e.creation, d.creation>> \in o
    BY <1>0, <1>2, <1>4, <2>1, OldestEngine
  <2> DEFINE newer == NewerThan(e, data, o)
  <2>4. K \ {e} \in SUBSET newer /\ newer \in SUBSET data
    BY <2>2, <2>3 DEF NewerThan
  <2>5. ~(Cardinality(newer) >= Limit)
    BY <2>2
  <2> HIDE DEF newer
  <2>6. IsFiniteSet(newer) /\ Cardinality(newer) \in Nat
    BY <1>1, <2>4, FS_Subset, FS_CardinalityType
  <2>7. Cardinality(K \ {e}) <= Cardinality(newer)
    BY <2>4, <2>6, FS_Subset
  <2>8. Cardinality(K \ {e}) = Cardinality(K) - 1 /\ Cardinality(K) \in Nat
    BY <1>2, FS_RemoveElement, FS_CardinalityType
  <2>9. Cardinality(K) <= Limit
    BY <2>5, <2>6, <2>7, <2>8, LimitAssumption
  <2> QED
    BY <1>2, <2>9 DEF K
<1> QED
  BY <1>3, <1>4

Recent == RecencyIsOrder /\ WithinLimit

\* Where no engine lands, none is added and the order is that of what remains.
LEMMA FewerEngines ==
  ASSUME Typed, Known, WithinLimit, Engines(cache') \subseteq Engines(cache)
  PROVE  WithinLimit'
<1>1. IsFiniteSet(cache)
  <2>1. \A d, e \in cache : d.creation = e.creation => d = e
    BY CreationsAreDistinct
  <2> QED
    BY <2>1, CacheIsFinite DEF Typed
<1>2. Engines(cache) \in SUBSET cache /\ Engines(cache') \in SUBSET Engines(cache)
  BY DEF Engines
<1>3. IsFiniteSet(Engines(cache))
  BY <1>1, <1>2, FS_Subset
<1>4. /\ Cardinality(Engines(cache')) <= Cardinality(Engines(cache))
      /\ Cardinality(Engines(cache)) \in Nat /\ Cardinality(Engines(cache')) \in Nat
  BY <1>2, <1>3, FS_Subset, FS_CardinalityType
<1> QED
  BY <1>4, LimitAssumption DEF WithinLimit

LEMMA RecentPreserved ==
  ASSUME Typed, Known, Recent, [Next]_vars
  PROVE  Recent'
<1>1. CASE UNCHANGED <<cache, older>>
  BY <1>1 DEF Recent, RecencyIsOrder, WithinLimit
<1>2. ASSUME NEW r \in Request, Hit(r) PROVE Recent'
  <2>1. PICK e \in cache : older' = Newest(cache, e.creation) /\ cache' = cache
    BY <1>2 DEF Hit, EntryOf
  <2>2. e.creation \in Numbers(cache)
    BY DEF Numbers
  <2> QED
    BY <2>1, <2>2, NewestIsOrder DEF Recent, RecencyIsOrder, WithinLimit
<1>3. ASSUME NEW r \in Request, Miss(r) PROVE Recent'
  <2>1. PICK c \in Creation :
          /\ cache' = cache \cup {[tenant |-> req[r].tenant, creation |-> c, real |-> FALSE]}
          /\ older' = Newest(cache', c)
    BY <1>3 DEF Miss
  <2> DEFINE new == [tenant |-> req[r].tenant, creation |-> c, real |-> FALSE]
  <2>0. new.creation = c /\ cache' = cache \cup {new}
    BY <2>1
  <2>2. c \in Numbers(cache') /\ Numbers(cache') \subseteq Numbers(cache) \cup {c}
    <3> HIDE DEF new
    <3> QED
      BY <2>0 DEF Numbers
  <2>3. Engines(cache') \subseteq Engines(cache)
    BY <2>1 DEF Engines
  <2> QED
    BY <2>1, <2>2, <2>3, NewestIsOrder, FewerEngines DEF Recent, RecencyIsOrder
<1>4. CASE Stop \/ \E r \in Request : BuildFails(r)
  <2>1. cache' \subseteq cache /\ older' = Among(older, cache')
    BY <1>4 DEF Stop, BuildFails, RemovesEntry
  <2>2. Engines(cache') \subseteq Engines(cache)
    BY <2>1 DEF Engines
  <2> QED
    BY <2>1, <2>2, AmongIsOrder, FewerEngines DEF Recent, RecencyIsOrder
<1>5. ASSUME NEW r \in Request, Land(r) PROVE Recent'
  <2> DEFINE c == req[r].creation
             new == [tenant |-> req[r].tenant, creation |-> c, real |-> TRUE]
             landed == {e \in cache : e.creation # c} \cup {new}
             order == Newest(landed, c)
             out == Evicted(landed, order)
  <2>1. cache' = landed \ out /\ older' = Among(order, cache') /\ c \in Creation
    BY <1>5, LandFacts
  <2>2. new \in Entry /\ new.creation = c
    BY <1>5, <2>1 DEF Land, At, Typed, Entry
  <2> HIDE DEF new
  <2>3. landed \in SUBSET Entry
    BY <2>2 DEF Typed
  <2>4. \A d, e \in landed : d.creation = e.creation => d = e
    BY <2>2, CreationsAreDistinct
  <2>5. c \in Numbers(landed) /\ Numbers(landed) \subseteq Numbers(cache) \cup {c}
    BY <2>2 DEF Numbers
  <2> HIDE DEF c, landed
  <2>6. IsOrder(order, Numbers(landed))
    BY <2>5, NewestIsOrder DEF Recent
  <2> HIDE DEF order
  <2>7. Cardinality(Engines(landed \ out)) <= Limit
    BY <2>3, <2>4, <2>6, EvictionFits
  <2>8. cache' \subseteq landed
    BY <2>1
  <2>9. IsOrder(older', Numbers(cache'))
    BY <2>1, <2>6, <2>8, AmongIsOrder
  <2> QED
    BY <2>1, <2>7, <2>9 DEF Recent, RecencyIsOrder, WithinLimit
<1> QED
  BY <1>1, <1>2, <1>3, <1>4, <1>5
     DEF Next, Progress, Arrive, Follow, Build, Resolve, Release, Wait, Serve, Start, vars

-----------------------------------------------------------------------------
(* Theorems.                                                                *)

Sound == Typed /\ Known /\ Fresh /\ Recent

LEMMA InitSound == Init => Sound
<1> SUFFICES ASSUME Init PROVE Sound
  OBVIOUS
<1>1. /\ app = [up |-> FALSE, life |-> 0] /\ cache = {} /\ older = {}
      /\ made = [c \in Creation |-> Unmade] /\ req = [r \in Request |-> Idle]
      /\ shared \in BOOLEAN /\ keyed \in BOOLEAN /\ sharedPool = FALSE
      /\ failures = 0 /\ stranded = {}
  BY DEF Init
<1>2. Idle \in Requests /\ Unmade \in Making
  BY IdleTyped
<1>3. /\ Idle.pc = "idle" /\ Idle.creation = None /\ Idle.since = 0
      /\ Unmade.at = "none" /\ Unmade.life = 0
  BY DEF Idle, Unmade
<1>4. Typed
  <2>1. app \in [up : BOOLEAN, life : 0 .. MaxLives] /\ failures \in 0 .. MaxFailures
    BY <1>1, BoundAssumption
  <2>2. cache \in SUBSET Entry /\ older \in SUBSET (Creation \X Creation) /\ stranded \in SUBSET Creation
    BY <1>1
  <2>3. made \in [Creation -> Making] /\ req \in [Request -> Requests]
    BY <1>1, <1>2
  <2>4. \A r \in Request : req[r].pc = "idle"
    BY <1>1, <1>3
  <2> QED
    BY <1>1, <2>1, <2>2, <2>3, <2>4 DEF Typed
<1>5. Known
  BY <1>1, <1>3, IdleKnown DEF Known, EntriesAreKnown, RequestsAreKnown, CreatorsAreAlone,
                               NoOrphanPlaceholder, Building, AtWork
<1>6. Fresh
  BY <1>1, <1>3 DEF Fresh, CacheIsFresh, LivesAgree
<1>7. Recent
  <2>1. Numbers(cache) = {} /\ Engines(cache) = {}
    BY <1>1 DEF Numbers, Engines
  <2> QED
    BY <1>1, <2>1, FS_EmptySet, LimitAssumption DEF Recent, RecencyIsOrder, WithinLimit, IsOrder
<1> QED
  BY <1>4, <1>5, <1>6, <1>7 DEF Sound

LEMMA SoundPreserved == Sound /\ [Next]_vars => Sound'
BY TypedPreserved, KnownPreserved, FreshPreserved, RecentPreserved DEF Sound

\* Every entry of the cache and every request says the truth about the engine it
\* names (_TenantEngineCache.get_or_create).
THEOREM CacheStands == Spec => []Sound
BY InitSound, SoundPreserved, PTL DEF Spec

\* Every variable keeps its type, and no interleaving of landings, evictions and
\* stops leaves more engines in the cache than the limit.
THEOREM LimitHolds == Spec => []TypeOK
<1>1. Sound => TypeOK
  BY DEF Sound, Typed, Recent, WithinLimit, Engines, TypeOK, Requests, Making, Stages
<1> QED
  BY <1>1, CacheStands, PTL

\* A tenant has one entry, and a request is handed its own tenant's engine.
THEOREM EnginesAreTheTenants == Spec => []EngineOfItsTenant
<1>1. Sound => EngineOfItsTenant
  BY DEF Sound, Known, EntriesAreKnown, RequestsAreKnown, KnownRequest, EngineOfItsTenant
<1> QED
  BY <1>1, CacheStands, PTL

\* server.py:283: "a tenant still gets exactly one engine" -- no two engines of a
\* tenant are ever being built at a time.
THEOREM OneBuild == Spec => []OneBuildPerTenant
<1>1. Sound => OneBuildPerTenant
  <2> SUFFICES ASSUME Sound, NEW c \in InFlight, NEW d \in InFlight,
                      made[c].tenant = made[d].tenant
               PROVE  c = d
    BY DEF OneBuildPerTenant
  <2> DEFINE e(x) == [tenant |-> made[x].tenant, creation |-> x, real |-> FALSE]
  <2>1. e(c) \in cache /\ e(d) \in cache
    BY DEF Sound, Known, EntriesAreKnown, InFlight, Building
  <2>2. e(c) = e(d)
    BY <2>1 DEF Sound, Known, EntriesAreKnown
  <2> QED
    BY <2>2
<1> QED
  BY <1>1, CacheStands, PTL

\* A placeholder in the cache has a creator at work on it, so that nobody waits
\* on one that was left behind.
THEOREM PlaceholdersAreOwned == Spec => []NoOrphanPlaceholder
<1>1. Sound => NoOrphanPlaceholder
  BY DEF Sound, Known
<1> QED
  BY <1>1, CacheStands, PTL

\* A request is served by an engine of the app it arrived at, or by one that
\* landed after its own app's stop.
THEOREM ServedFresh == Spec => []ServedByThisApp
<1>1. Sound => ServedByThisApp
  <2> SUFFICES ASSUME Sound, NEW r \in Request, req[r].pc = "serving", req[r].creation # None,
                      req[r].since = app.life, req[r].creation \notin stranded
               PROVE  made[req[r].creation].life = app.life
    BY DEF ServedByThisApp
  <2>1. req[r].creation \in Creation
    BY BoundAssumption DEF Sound, Typed, Requests, Creation, None
  <2>2. Running(made, req[r].creation)
    BY DEF Sound, Known, RequestsAreKnown, KnownRequest
  <2>3. req[r].since <= made[req[r].creation].life /\ made[req[r].creation].life <= app.life
    BY <2>1, <2>2 DEF Sound, Fresh, LivesAgree
  <2>4. made[req[r].creation].life \in Int /\ app.life \in Int
    BY <2>1 DEF Sound, Typed, Making
  <2> QED
    BY <2>3, <2>4
<1> QED
  BY <1>1, CacheStands, PTL

\* Eviction never disposes the pool the wrappers share (_release_engine).
THEOREM PoolStaysOpen == Spec => []SharedPoolStaysOpen
<1>1. Init => SharedPoolStaysOpen
  BY DEF Init, SharedPoolStaysOpen
<1>2. Sound /\ SharedPoolStaysOpen /\ [Next]_vars => SharedPoolStaysOpen'
  <2> SUFFICES ASSUME Typed, SharedPoolStaysOpen, [Next]_vars PROVE SharedPoolStaysOpen'
    BY DEF Sound
  <2>1. CASE Start
    BY <2>1 DEF Start, SharedPoolStaysOpen
  <2>2. CASE Stop
    <3>1. app' = [app EXCEPT !.up = FALSE]
      BY <2>2 DEF Stop
    <3> QED
      BY <3>1 DEF SharedPoolStaysOpen, Typed
  <2>3. CASE UNCHANGED <<app, shared, sharedPool>>
    BY <2>3 DEF SharedPoolStaysOpen
  <2> QED
    BY <2>1, <2>2, <2>3
       DEF Next, Progress, vars, Arrive, Hit, Follow, Miss, Build, BuildFails, Land, Resolve,
           Release, PoolAfter, Wait, Serve
<1> QED
  BY <1>1, <1>2, CacheStands, PTL DEF Spec
==============================================================================
