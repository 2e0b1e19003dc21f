------------------------------ MODULE Tenancy --------------------------------
(***************************************************************************)
(* Tenant contexts, sessions and row-level security: core/tenancy.py and   *)
(* the run-time half of core/rls.py.                                       *)
(*                                                                         *)
(* A call runs under a stack of scopes (context variables restored by      *)
(* token).  The session hooks filter ORM reads, check flushes, wrap get    *)
(* and bind a session to the tenant of its creation; on PostgreSQL every   *)
(* transaction also carries a tenant setting the policies compare rows     *)
(* with.  A tenant owns one row, so a row is named by its tenant; one more *)
(* row may belong to nobody: a new object flushed in a system scope keeps  *)
(* the columns' empty default.  Text statements stand for everything the   *)
(* ORM hook ignores.                                                       *)
(*                                                                         *)
(* The handle in use is a session or a bare connection.  Submitting work   *)
(* through TenantAwareExecutor copies the context and so changes nothing   *)
(* here; a plain pool thread is a scope of its own in which nothing is     *)
(* set.  MM_PG_RLS=0 and the filter mode "none" are measurement baselines  *)
(* the server refuses to start in and are left out, as are the write       *)
(* classes, which are checked where a column is set whatever came before.  *)
(***************************************************************************)
EXTENDS Naturals, Sequences, FiniteSets, SequencesExt

CONSTANTS
  Tenant,        \* the tenants of the database
  MaxDepth,      \* bound: scopes open at once
  MaxWork,       \* bound: rows a transaction adds and deletes
  MaxRows,       \* bound: rows there are when one is added, the new one included
  SharedDevice   \* may other tenants use a database a single-tenant engine serves

ASSUME BoundAssumption == {MaxDepth, MaxWork, MaxRows} \subseteq Nat

Unset == "unset"
System == "system"      \* a system_scope
Bare == "bare"          \* a thread that inherits no context
Blank == "blank"        \* the tenant columns' default, an empty string
MaybeTenant == Tenant \cup {Unset}
Row == Tenant \cup {Blank}

ASSUME NamesAssumption == {Unset, System, Bare, Blank} \cap Tenant = {}

VARIABLES
  dialect,  \* of the engine everything is bound to
  filter,   \* MM_TENANT_READ_FILTER: "app" or "rls"
  rows,     \* committed rows
  scopes,   \* the scopes that are open, innermost last
  single,   \* the tenant of the single-tenant engine started in this context
  handle,   \* the session or connection in use
  seen      \* what the statement just made returned

vars == <<dialect, filter, rows, scopes, single, handle, seen>>

Pg == dialect = "postgresql"

(* --------------------------- the context --------------------------- *)
\* the scopes of the current thread
Inherited ==
  LET bare == {i \in DOMAIN scopes : scopes[i] = Bare}
  IN IF bare = {} THEN 0 ELSE Max(bare)

\* those of them that are in force
InForce == Inherited + 1 .. Len(scopes)

InSystem == \E i \in InForce : scopes[i] = System

\* mutant: the innermost scope of any kind
InnermostScope == IF InForce = {} THEN Unset ELSE Last(scopes)

\* peek_tenant: the innermost tenant scope, system scopes in between or not
Ambient ==
  LET set == {i \in InForce : scopes[i] # System}
  IN IF set = {} THEN Unset ELSE scopes[Max(set)]

\* _single_tenant_mode, a flag of the context that started the engine
Single == single # Unset /\ Inherited = 0

Nothing == [kind |-> "none", rows |-> {}]

EnterScope(s) ==
  /\ Len(scopes) < MaxDepth
  /\ scopes' = Append(scopes, s)
  /\ seen' = Nothing
  /\ UNCHANGED <<dialect, filter, rows, single, handle>>

\* tenant_scope.  A single-tenant device is not shared, unless SharedDevice.
EnterTenant(t) ==
  /\ SharedDevice \/ single \in {Unset, t}
  /\ EnterScope(t)

EnterSystem == ~InSystem /\ EnterScope(System)

\* a call handed to a pool thread without submit_with_tenant
EnterThread == Inherited = 0 /\ EnterScope(Bare)

ExitScope ==
  /\ scopes # <<>>
  /\ scopes' = Front(scopes)
  /\ seen' = Nothing
  /\ UNCHANGED <<dialect, filter, rows, single, handle>>

(* --------------------------- checks --------------------------- *)
\* _check_session_tenant, for an ambient tenant
Agrees == Single \/ handle.bound = Ambient

\* an ORM statement or a get: let through, or TenantContextMissing / Mismatch
OrmMay == InSystem \/ (Ambient # Unset /\ Agrees)

\* mutant: the transaction begins without the check
MayBeginUnchecked == TRUE

\* after_begin: the check the first statement of a session's transaction meets
MayBegin ==
  handle.tx \/ ~Pg \/ Ambient = Unset \/ InSystem \/ Agrees

\* _set_tenant: a setting of the transaction
SettingNow == IF Pg THEN Ambient ELSE Unset

\* the handle with its transaction begun
Begun ==
  IF handle.tx THEN handle
  ELSE [handle EXCEPT !.tx = TRUE, !.setting = SettingNow, !.checked = ~InSystem /\ Ambient # Unset]

SkipsInjection == Single \/ (filter = "rls" /\ Pg)

\* the rows the policies admit to the role under the setting
Admitted(h) ==
  IF ~Pg \/ h.role = "maintenance" THEN Row ELSE Tenant \cap {h.setting}

\* the table as the transaction has left it
Contents(h) == (rows \cup h.added) \ h.dropped

Visible(h) == Contents(h) \cap Admitted(h)

\* mutant: the criteria are not attached
InjectedNever == Row

\* the loader criteria of an ORM statement
Injected == IF InSystem \/ SkipsInjection THEN Row ELSE Tenant \cap {Ambient}

(* ---------------------------- the handle ---------------------------- *)
NoHandle ==
  [is |-> "none", bound |-> Unset, role |-> "app", tx |-> FALSE, setting |-> Unset,
   checked |-> TRUE, objs |-> {}, stale |-> {}, new |-> {}, gone |-> {},
   added |-> {}, dropped |-> {}]

\* under a system scope PostgreSQL work runs on the maintenance engine
RoleNow == IF Pg /\ InSystem THEN "maintenance" ELSE "app"

OpenSession ==
  /\ handle.is = "none"
  /\ handle' = [NoHandle EXCEPT !.is = "session", !.bound = Ambient, !.role = RoleNow]
  /\ seen' = Nothing
  /\ UNCHANGED <<dialect, filter, rows, scopes, single>>

\* engine.connect(), or system_engine_for(engine).connect()
Connect ==
  /\ handle.is = "none"
  /\ handle' = [NoHandle EXCEPT !.is = "connection", !.role = RoleNow]
  /\ seen' = Nothing
  /\ UNCHANGED <<dialect, filter, rows, scopes, single>>

Close ==
  /\ handle.is # "none"
  /\ handle' = NoHandle
  /\ seen' = Nothing
  /\ UNCHANGED <<dialect, filter, rows, scopes, single>>

InSession == handle.is = "session"

Work == handle.new \cup handle.gone \cup handle.added \cup handle.dropped

\* an object is added, with the tenant its author gave it or with none.  The
\* authors of a device that is not shared know one tenant.
AddObject(t) ==
  /\ InSession
  /\ SharedDevice \/ Unset \in {single, t} \/ single = t
  /\ t \notin rows \cup handle.objs
  /\ Cardinality(Work) < MaxWork /\ Cardinality(rows \cup handle.objs \cup Work) < MaxRows
  /\ handle' = [handle EXCEPT !.new = @ \cup {t}]
  /\ seen' = Nothing
  /\ UNCHANGED <<dialect, filter, rows, scopes, single>>

\* an object the session holds is deleted (or changed: the checks are the same)
DeleteObject(t) ==
  /\ InSession
  /\ t \in handle.objs
  /\ Cardinality(Work) < MaxWork
  /\ handle' = [handle EXCEPT !.gone = @ \cup {t}]
  /\ seen' = Nothing
  /\ UNCHANGED <<dialect, filter, rows, scopes, single>>

\* the tenant a new object is flushed with: nothing fills it in a system scope
Filled(new) ==
  LET default == IF InSystem THEN Blank ELSE Ambient
  IN {IF t = Unset THEN default ELSE t : t \in new}

\* mutant: deleted objects are not looked at
FlushMayDelete ==
  \/ handle.new \cup handle.gone = {}
  \/ InSystem
  \/ ~InSystem /\ Ambient # Unset /\ Agrees /\ handle.new \subseteq {Unset, Ambient}

\* before_flush
FlushMay ==
  \/ handle.new \cup handle.gone = {}
  \/ InSystem
  \/ /\ ~InSystem /\ Ambient # Unset /\ Agrees
     /\ handle.new \subseteq {Unset, Ambient}
     /\ handle.gone \subseteq {Ambient}

\* the handle after its pending work has reached the database
Flushed ==
  LET h == Begun
      new == Filled(h.new)
  IN [h EXCEPT !.new = {}, !.gone = {},
               !.objs = (@ \cup new) \ h.gone,
               !.stale = @ \ h.gone,
               !.added = (@ \cup new) \ h.gone,
               !.dropped = (@ \cup (h.gone \cap rows)) \ new]

\* PostgreSQL refuses rows the policies do not admit
CanFlush ==
  /\ MayBegin /\ FlushMay
  /\ Filled(handle.new) \cup handle.gone \subseteq Admitted(Begun)
  /\ Filled(handle.new) \cap rows \subseteq handle.dropped

Flush ==
  /\ InSession
  /\ handle.new \cup handle.gone # {}
  /\ CanFlush
  /\ handle' = Flushed
  /\ seen' = Nothing
  /\ UNCHANGED <<dialect, filter, rows, scopes, single>>

Saw(kind, got) == seen' = [kind |-> kind, rows |-> got]

\* an ORM select: the hook, the autoflush, the statement
OrmRead ==
  /\ InSession
  /\ OrmMay /\ CanFlush
  /\ LET h == Flushed
         got == Visible(h) \cap Injected
     IN /\ handle' = [h EXCEPT !.objs = @ \cup got, !.stale = @ \ got]
        /\ Saw("orm", got)
  /\ UNCHANGED <<dialect, filter, rows, scopes, single>>

\* mutant: what is found is returned
FoundByAnyone(hit) == hit

\* a row of another tenant is reported as missing
FoundBy(hit) == IF InSystem THEN hit ELSE hit \cap {Ambient}

\* session.get by full key, which names a tenant, or by business key (then t is
\* the ambient one):
\* the identity map answers first, what is not returned is expunged
Get(t) ==
  /\ InSession
  /\ OrmMay /\ MayBegin
  /\ LET h == Begun
         hit == IF t \in h.objs \ h.stale THEN {t} ELSE {t} \cap Visible(h)
         mine == FoundBy(hit)
     IN /\ handle' = [h EXCEPT !.objs = (@ \ {t}) \cup mine, !.stale = @ \ {t},
                               !.gone = @ \ ({t} \ mine)]
        /\ Saw("get", mine)
  /\ UNCHANGED <<dialect, filter, rows, scopes, single>>

\* an attribute of an expired object is read again: no hook looks at it
LoadColumn(t) ==
  /\ InSession
  /\ t \in handle.stale
  /\ MayBegin
  /\ t \in Visible(Begun)
  /\ handle' = [Begun EXCEPT !.stale = @ \ {t}]
  /\ Saw("column", {t})
  /\ UNCHANGED <<dialect, filter, rows, scopes, single>>

\* a text or Core statement of a session, or any of a bare connection, which
\* takes the ambient tenant at the first statement of its transaction
TextRead ==
  /\ handle.is # "none"
  /\ InSession => MayBegin
  /\ handle' = Begun
  /\ Saw("text", Visible(Begun))
  /\ UNCHANGED <<dialect, filter, rows, scopes, single>>

Ended(h) ==
  [h EXCEPT !.tx = FALSE, !.setting = Unset, !.checked = TRUE,
            !.new = {}, !.gone = {}, !.added = {}, !.dropped = {}]

Commit ==
  /\ handle.is # "none"
  /\ handle.new \cup handle.gone # {} => CanFlush
  /\ LET h == Flushed
     IN /\ rows' = (rows \cup h.added) \ h.dropped
        /\ handle' = [Ended(h) EXCEPT !.stale = h.objs]
  /\ seen' = Nothing
  /\ UNCHANGED <<dialect, filter, scopes, single>>

Rollback ==
  /\ handle.is # "none"
  /\ LET kept == (handle.objs \ handle.added) \cup handle.dropped
     IN handle' = [Ended(handle) EXCEPT !.objs = kept, !.stale = kept]
  /\ seen' = Nothing
  /\ UNCHANGED <<dialect, filter, rows, scopes, single>>

\* a single-tenant engine starts in this context: refused when the database
\* holds a row of any other tenant.  It counts beliefs, and the row of nobody
\* is no belief: a worker's replay has stored a generation.
StartSingle(t) ==
  /\ scopes = <<>> /\ handle.is = "none"
  /\ single = Unset
  /\ rows \cap Tenant \subseteq {t}
  /\ single' = t
  /\ seen' = Nothing
  /\ UNCHANGED <<dialect, filter, rows, scopes, handle>>

(* --------------------------- behaviour --------------------------- *)
Init ==
  /\ dialect \in {"sqlite", "postgresql"}
  /\ filter \in {"app", "rls"}
  /\ rows \in SUBSET Tenant
  /\ scopes = <<>>
  /\ single = Unset
  /\ handle = NoHandle
  /\ seen = Nothing

Next ==
  \/ \E t \in Tenant : EnterTenant(t) \/ StartSingle(t)
  \/ EnterSystem \/ EnterThread \/ ExitScope
  \/ OpenSession \/ Connect \/ Close
  \/ \E t \in MaybeTenant : AddObject(t)
  \/ \E t \in Tenant : Get(t)
  \/ \E t \in Row : DeleteObject(t) \/ LoadColumn(t)
  \/ Flush \/ OrmRead \/ TextRead \/ Commit \/ Rollback

Spec == Init /\ [][Next]_vars

(* --------------------------- properties --------------------------- *)
Handles ==
  [is : {"none", "session", "connection"}, bound : MaybeTenant,
   role : {"app", "maintenance"}, tx : BOOLEAN, setting : MaybeTenant,
   checked : BOOLEAN, objs : SUBSET Row, stale : SUBSET Row,
   new : SUBSET MaybeTenant, gone : SUBSET Row,
   added : SUBSET Row, dropped : SUBSET Row]

\* Every variable keeps its type: what a flush stores belongs to a tenant or,
\* flushed in a system scope, to nobody.
TypeOK ==
  /\ dialect \in {"sqlite", "postgresql"}
  /\ filter \in {"app", "rls"}
  /\ rows \in SUBSET Row
  /\ scopes \in Seq(Tenant \cup {System, Bare})
  /\ single \in MaybeTenant
  /\ handle \in Handles
  /\ seen \in [kind : {"none", "orm", "get", "column", "text"}, rows : SUBSET Row]

\* opened outside any system scope, its transaction begun under a tenant
Plain == handle.role = "app" /\ handle.checked

\* what a context reads: its tenant's rows, and with the filter of a
\* single-tenant device off the row of nobody as well
Own == {Ambient} \cup IF Single THEN {Blank} ELSE {}

\* Whatever scopes were nested, left or lost before it, an ORM select under a
\* tenant returns exactly that tenant's rows, with the caller's own pending
\* writes: none of another tenant (tenancy.py _inject_tenant_criteria, the
\* policies) and none of its own left out because the transaction carries
\* another setting.
ReadsAreTheTenants ==
  seen.kind = "orm" /\ ~InSystem /\ Plain /\ (single = Unset \/ ~Pg) =>
    seen.rows = Contents(handle) \cap Own

\* With the application filter not even a session that a system scope opened,
\* or filled with every tenant's objects, returns a row of another tenant once
\* the scope is left (tenancy.py _tenant_aware_get expunges what it finds).
ReadsStayInTenant ==
  seen.kind \in {"orm", "get"} /\ ~InSystem /\ (Plain \/ filter = "app") =>
    Ambient # Unset /\ seen.rows \subseteq Own

\* On PostgreSQL a text statement of a session, which no hook filters, returns
\* rows of the session's tenant only, in whatever scope or thread it is made
\* (rls.py _set_tenant_for_session).
TextStaysInTenant ==
  seen.kind = "text" /\ Pg /\ InSession /\ Plain =>
    seen.rows \subseteq {handle.bound, single}

\* rls.py:175: "a transaction begun under the wrong tenant never carries the
\* wrong setting".
NeverTheWrongSetting ==
  InSession /\ handle.tx /\ handle.role = "app" /\ single = Unset =>
    handle.setting \in {Unset, handle.bound}

\* Outside a system scope no step adds or deletes a row of a tenant other than
\* the ambient one, whether the object was loaded by a system scan, authored
\* under another tenant or flushed late by a commit (before_flush).
WritesStayInTenant ==
  [][ ~InSystem =>
        LET change == (handle'.added \ handle.added) \cup (handle'.dropped \ handle.dropped)
            stored == ((rows' \ rows) \ handle.added) \cup ((rows \ rows') \ handle.dropped)
        IN change \cup stored \subseteq {Ambient} ]_vars
==============================================================================
