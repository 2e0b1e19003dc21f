------------------------------- MODULE Server --------------------------------
(***************************************************************************)
(* The HTTP host of server.py: the lifespan, the authentication middleware *)
(* and the bounded cache of per-tenant engines that is filled outside its  *)
(* lock.                                                                   *)
(*                                                                         *)
(* A request is a thread of the pool.  It resolves its key, looks its      *)
(* engine up (one critical section), builds the engine if it is the first  *)
(* to miss (no lock), lands it (the second critical section), resolves the *)
(* future the others wait on, disposes what it evicted and calls the       *)
(* engine.  The host may stop the app under requests that run on (a        *)
(* graceful-shutdown timeout) and start another in the same process: the   *)
(* cache and the key registry are globals of the module.                   *)
(*                                                                         *)
(* A creation number names both the placeholder and the engine it becomes. *)
(* Left out: the endpoints' own work, which is that of the engine's entry  *)
(* points, and keys registered while requests run.                         *)
(***************************************************************************)
EXTENDS Naturals, FiniteSets

CONSTANTS
  Request,      \* the request threads
  Tenant,       \* tenants that have a key
  Default,      \* the tenant of the lifespan engine
  Limit,        \* MM_TENANT_ENGINE_CACHE
  MaxCreations, \* bound: engines in existence at a time
  MaxFailures,  \* bound: builds that raise
  MaxLives      \* bound: times the app is started

ASSUME LimitAssumption == Limit \in Nat \ {0}
ASSUME DefaultAssumption == Default \notin Tenant
ASSUME BoundAssumption == {MaxCreations, MaxFailures, MaxLives} \subseteq Nat

None == 0
Creation == 1 .. MaxCreations

VARIABLES
  app,       \* the lifespan: is it up, and which start is it
  shared,    \* PostgreSQL: is the pool the lifespan engine's own
  keyed,     \* is the key registry non-empty
  cache,     \* _data: the entries
  older,     \* ... in order of recency: the pairs of which one was used before the other
  made,      \* what became of each creation
  req,       \* the request threads
  sharedPool,\* is the shared pool open
  failures,  \* builds that have raised
  stranded   \* history: engines that landed after their app was stopped

vars == <<app, shared, keyed, cache, older, made, req, sharedPool, failures, stranded>>

(* ---------------------------- the cache ---------------------------- *)
\* an entry is a tenant's placeholder or, once it has landed, its engine
Entry == [tenant : Tenant, creation : Creation, real : BOOLEAN]

Numbers(data) == {e.creation : e \in data}

\* mutant: the tenant is not part of the key
EntryOfAnyone(t) == cache

EntryOf(t) == {e \in cache : e.tenant = t}

\* an order, of what is still in the cache
Among(order, data) == order \cap (Numbers(data) \X Numbers(data))

\* the order once c has been put at the end
Newest(data, c) ==
  LET others == {e \in data : e.creation # c}
  IN Among(older, others) \cup (Numbers(others) \X {c})

\* the engines used after e
NewerThan(e, data, order) == {d \in data : d.real /\ <<e.creation, d.creation>> \in order}

\* mutant: one engine too many is kept
EvictedLate(data, order) ==
  {e \in data : e.real /\ Cardinality(NewerThan(e, data, order)) > Limit}

\* what the eviction loop removes: the oldest engines beyond the limit
Evicted(data, order) ==
  {e \in data : e.real /\ Cardinality(NewerThan(e, data, order)) >= Limit}

\* mutant: clear() is forgotten
ClearedNot(data) == {}

\* clear() leaves the placeholders so that their creators can still land
Cleared(data) == {e \in data : e.real}

(* ---------------------------- requests ---------------------------- *)
Idle == [pc |-> "idle", tenant |-> Default, creation |-> None, evicted |-> {}, since |-> 0]

At(r, pc) == req[r].pc = pc

Unmade == [at |-> "none", tenant |-> Default, life |-> 0]

\* an engine nothing refers to any more is collected and its number free again
Keep(m) ==
  LET used == Numbers(cache')
              \cup {req'[r].creation : r \in Request} \cup UNION {req'[r].evicted : r \in Request}
  IN /\ made' = [c \in Creation |-> IF c \in used THEN m[c] ELSE Unmade]
     /\ stranded' = stranded \cap used

\* the middleware: the tenant comes from the key; without a registry the
\* lifespan engine answers.  A request that is refused never starts.
Arrive(r) ==
  /\ app.up
  /\ At(r, "idle")
  /\ \E t \in IF keyed THEN Tenant ELSE {Default} :
       req' = [req EXCEPT ![r] = [Idle EXCEPT !.tenant = t, !.since = app.life,
                                    !.pc = IF keyed THEN "lookup" ELSE "serving"]]
  /\ UNCHANGED <<app, shared, keyed, cache, older, made, sharedPool, failures, stranded>>

\* mutant: a request that meets a placeholder builds for itself
JoinsEngine(e) == e.real

\* an entry of any kind spares the request the build
Joins(e) == TRUE

\* the first critical section of get_or_create: a hit ...
Hit(r) ==
  /\ At(r, "lookup")
  /\ \E e \in EntryOf(req[r].tenant) :
       /\ e.real
       /\ older' = Newest(cache, e.creation)
       /\ req' = [req EXCEPT ![r].pc = "serving", ![r].creation = e.creation]
  /\ UNCHANGED <<app, shared, keyed, cache, made, sharedPool, failures, stranded>>

\* ... a follower ...
Follow(r) ==
  /\ At(r, "lookup")
  /\ \E e \in EntryOf(req[r].tenant) :
       /\ ~e.real /\ Joins(e)
       /\ req' = [req EXCEPT ![r].pc = "waiting", ![r].creation = e.creation]
  /\ UNCHANGED <<app, shared, keyed, cache, older, made, sharedPool, failures, stranded>>

\* ... or the creator
Miss(r) ==
  LET t == req[r].tenant IN
  /\ At(r, "lookup")
  /\ {e \in EntryOf(t) : Joins(e)} = {}
  /\ \E c \in Creation :
       /\ made[c].at = "none"
       /\ \A d \in Creation : d < c => made[d].at # "none"
       /\ made' = [made EXCEPT ![c].at = "building", ![c].tenant = t]
       /\ cache' = cache \cup {[tenant |-> t, creation |-> c, real |-> FALSE]}
       /\ older' = Newest(cache', c)
       /\ req' = [req EXCEPT ![r].pc = "creating", ![r].creation = c]
  /\ UNCHANGED <<app, shared, keyed, sharedPool, failures, stranded>>

\* create(): a wrapper made from _app_state; its start-up, catch-up included, is
\* over when create() returns
Build(r) ==
  LET c == req[r].creation IN
  /\ At(r, "creating")
  /\ made[c].at = "building"
  /\ made' = [made EXCEPT ![c].at = "built", ![c].life = app.life]
  /\ UNCHANGED <<app, shared, keyed, cache, older, req, sharedPool, failures, stranded>>

\* mutant: a creator that fails leaves its placeholder behind
LeavesEntry(t, c) == cache

\* the entry goes if it is still the creator's
RemovesEntry(t, c) == cache \ {e \in EntryOf(t) : e.creation = c}

\* create() raises: a refused start-up, a catch-up that fails, no connection
BuildFails(r) ==
  LET c == req[r].creation IN
  /\ At(r, "creating")
  /\ made[c].at = "building"
  /\ failures < MaxFailures
  /\ failures' = failures + 1
  /\ made' = [made EXCEPT ![c].at = "raised"]
  /\ cache' = RemovesEntry(req[r].tenant, c)
  /\ older' = Among(older, cache')
  /\ req' = [req EXCEPT ![r].pc = "landed"]
  /\ UNCHANGED <<app, shared, keyed, sharedPool, stranded>>

\* the second critical section: the engine replaces what its tenant has in the
\* cache, and the oldest engines beyond the limit leave it
Land(r) ==
  LET t == req[r].tenant
      c == req[r].creation
      landed == (cache \ EntryOf(t)) \cup {[tenant |-> t, creation |-> c, real |-> TRUE]}
      order == Newest(landed, c)
      out == Evicted(landed, order)
  IN
  /\ At(r, "creating")
  /\ made[c].at = "built"
  /\ made' = [made EXCEPT ![c].at = "landed"]
  /\ cache' = landed \ out
  /\ older' = Among(order, cache')
  /\ req' = [req EXCEPT ![r].pc = "landed", ![r].evicted = Numbers(out)]
  /\ stranded' = IF app.up /\ made[c].life = app.life THEN stranded ELSE stranded \cup {c}
  /\ UNCHANGED <<app, shared, keyed, sharedPool, failures>>

\* mutant: only a result is passed on
OutcomeOfResult(at) == IF at = "landed" THEN "ready" ELSE at

\* set_result or set_exception
Outcome(at) == IF at = "landed" THEN "ready" ELSE "failed"

Resolve(r) ==
  LET c == req[r].creation IN
  /\ At(r, "landed")
  /\ req' = [req EXCEPT ![r] = IF made[c].at = "landed" THEN [@ EXCEPT !.pc = "releasing"]
                               ELSE Idle]
  /\ UNCHANGED <<app, shared, keyed, cache, older, sharedPool, failures>>
  /\ Keep([made EXCEPT ![c].at = Outcome(@)])

\* mutant: the pool is disposed whoever owns it
PoolAfterAny == FALSE

\* disposing an engine leaves the shared pool alone
PoolAfter == sharedPool

\* _release_engine for what was evicted, outside the lock
Release(r) ==
  /\ At(r, "releasing")
  /\ sharedPool' = IF req[r].evicted = {} THEN sharedPool ELSE PoolAfter
  /\ req' = [req EXCEPT ![r].pc = "serving", ![r].evicted = {}]
  /\ UNCHANGED <<app, shared, keyed, cache, older, failures>>
  /\ Keep(made)

\* future.result(): the engine, or the creator's exception
Wait(r) ==
  LET c == req[r].creation IN
  /\ At(r, "waiting")
  /\ made[c].at \in {"ready", "failed"}
  /\ req' = [req EXCEPT ![r] = IF made[c].at = "ready" THEN [@ EXCEPT !.pc = "serving"]
                               ELSE Idle]
  /\ UNCHANGED <<app, shared, keyed, cache, older, sharedPool, failures>>
  /\ Keep(made)

\* the endpoint calls the engine and answers
Serve(r) ==
  /\ At(r, "serving")
  /\ req' = [req EXCEPT ![r] = Idle]
  /\ UNCHANGED <<app, shared, keyed, cache, older, sharedPool, failures>>
  /\ Keep(made)

(* ---------------------------- the lifespan ---------------------------- *)
Start ==
  /\ ~app.up
  /\ app.life < MaxLives
  /\ app' = [up |-> TRUE, life |-> app.life + 1]
  /\ sharedPool' = shared
  /\ UNCHANGED <<shared, keyed, cache, older, made, req, failures, stranded>>

\* the engines are dropped and disposed, the lifespan engine's pool last
Stop ==
  /\ app.up
  /\ app' = [app EXCEPT !.up = FALSE]
  /\ cache' = cache \ Cleared(cache)
  /\ older' = Among(older, cache')
  /\ sharedPool' = FALSE
  /\ UNCHANGED <<shared, keyed, req, failures>>
  /\ Keep(made)

(* ---------------------------- behaviour ---------------------------- *)
Init ==
  /\ app = [up |-> FALSE, life |-> 0]
  /\ shared \in BOOLEAN
  /\ keyed \in BOOLEAN
  /\ cache = {}
  /\ older = {}
  /\ made = [c \in Creation |-> Unmade]
  /\ req = [r \in Request |-> Idle]
  /\ sharedPool = FALSE
  /\ failures = 0
  /\ stranded = {}

Progress(r) ==
  \/ Hit(r) \/ Follow(r) \/ Miss(r) \/ Build(r) \/ BuildFails(r)
  \/ Land(r) \/ Resolve(r) \/ Release(r) \/ Wait(r) \/ Serve(r)

Next ==
  \/ \E r \in Request : Arrive(r) \/ Progress(r)
  \/ Start \/ Stop

\* a thread of the pool goes on, and create() returns or raises
Fairness == \A r \in Request : WF_vars(Progress(r))

Spec == Init /\ [][Next]_vars

LiveSpec == Spec /\ Fairness

(* ---------------------------- properties ---------------------------- *)
\* Every variable keeps its type and the engines in the cache are within the
\* limit whatever lands while others are evicted or cleared.
TypeOK ==
  /\ app \in [up : BOOLEAN, life : 0 .. MaxLives]
  /\ shared \in BOOLEAN /\ keyed \in BOOLEAN /\ sharedPool \in BOOLEAN
  /\ cache \in SUBSET Entry
  /\ older \in SUBSET (Creation \X Creation)
  /\ Cardinality({e \in cache : e.real}) <= Limit
  /\ made \in [Creation -> [at : {"none", "building", "built", "landed", "ready",
                                  "raised", "failed"},
                            tenant : Tenant \cup {Default}, life : 0 .. MaxLives]]
  /\ req \in [Request -> [pc : {"idle", "lookup", "waiting", "creating", "landed",
                                "releasing", "serving"},
                          tenant : Tenant \cup {Default}, creation : 0 .. MaxCreations,
                          evicted : SUBSET Creation, since : 0 .. MaxLives]]
  /\ failures \in 0 .. MaxFailures
  /\ stranded \in SUBSET Creation

\* A tenant has one entry, and the engine a request is handed or waits for is its own tenant's
\* (_TenantEngineCache, _engine_for).
EngineOfItsTenant ==
  /\ \A d, e \in cache : d.tenant = e.tenant => d = e
  /\ \A r \in Request : req[r].creation # None =>
       made[req[r].creation].tenant = req[r].tenant

InFlight == {c \in Creation : made[c].at \in {"building", "built"}}

\* server.py:283: "a tenant still gets exactly one engine" -- no two engines of a
\* tenant are ever being built at a time, through failures, evictions and stops.
OneBuildPerTenant ==
  \A c, d \in InFlight : made[c].tenant = made[d].tenant => c = d

\* A placeholder in the cache has a creator at work on it: none is left behind
\* to make every later request of its tenant wait for ever.
NoOrphanPlaceholder ==
  \A e \in cache : ~e.real =>
    \E r \in Request : req[r].pc = "creating" /\ req[r].creation = e.creation

\* A request is served by an engine of the app it arrived at: the only engines
\* an earlier app leaves in the cache are those that landed after its stop.
ServedByThisApp ==
  \A r \in Request :
    req[r].pc = "serving" /\ req[r].creation # None /\ req[r].since = app.life
      /\ req[r].creation \notin stranded =>
        made[req[r].creation].life = app.life

\* Eviction never disposes the pool every wrapper shares: while the app is up
\* it is open (_release_engine).
SharedPoolStaysOpen == app.up /\ shared => sharedPool

\* Every request is answered or gets the exception of the build it waited for.
EveryRequestIsAnswered ==
  \A r \in Request : req[r].pc = "waiting" ~> req[r].pc # "waiting"
==============================================================================
