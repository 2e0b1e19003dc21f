---------------------------- MODULE TenancyProofs ----------------------------
(***************************************************************************)
(* Theorems about what keeps a database apart and whole: about Tenancy, for *)
(* every set of tenants and every nesting of scopes, the types and that no  *)
(* read or write crosses tenants; and, in the second half of the module,    *)
(* about SchemaMigration, which makes the database what Tenancy reads.      *)
(*                                                                         *)
(* What a statement returns is decided by scopes that may have been entered *)
(* and left long after its session was opened and its transaction begun.   *)
(* The invariant says what the handle remembers of them: the setting of a   *)
(* transaction is the tenant its session is bound to, or the device's       *)
(* (SettingStands), and a single-tenant database holds nothing else but     *)
(* the row of nobody that a system scope may have stored (ScopesAreSingle,  *)
(* RowsAreSingle), which is why its reads need no filter.                   *)
(* The theorems on reads assume ~SharedDevice: see TenancySetting.cfg and   *)
(* the README for what happens when a second engine shares the device.      *)
(***************************************************************************)
EXTENDS Tenancy, SchemaMigration, WellFoundedInduction, TLAPS

-----------------------------------------------------------------------------
(* The ambient tenant.                                                      *)

LEMMA Greatest ==
  ASSUME NEW n \in Nat, NEW S, S \subseteq 1 .. n, S # {}
  PROVE  \E m \in S : \A k \in S : m >= k
<1> DEFINE T == {i \in Nat : \A k \in S : k <= i}
           R == OpToRel(<, Nat)
<1>0. IsWellFoundedOn(R, Nat)
  BY NatLessThanWellFounded
<1>1. \A x, y \in Nat : x < y => <<x, y>> \in R
  BY DEF OpToRel
<1> HIDE DEF R
<1>2. n \in T /\ T \subseteq Nat
  OBVIOUS
<1>3. PICK m \in T : \A y \in T : ~(<<y, m>> \in R)
  BY <1>0, <1>2, WFMin
<1>4. \A y \in T : ~(y < m)
  BY <1>1, <1>2, <1>3
<1>5. m \in S
  <2>1. SUFFICES ASSUME m \notin S PROVE FALSE
    OBVIOUS
  <2>2. m \in Nat /\ \A k \in S : k \in Nat /\ 1 <= k /\ k <= m /\ k # m
    BY <2>1
  <2>3. m - 1 \in T
    <3>1. PICK k \in S : TRUE
      OBVIOUS
    <3> QED
      BY <2>2, <3>1
  <2> QED
    BY <1>4, <2>3
<1> QED
  BY <1>5

LEMMA MaxOf ==
  ASSUME NEW n \in Nat, NEW S, S \subseteq 1 .. n, S # {}
  PROVE  Max(S) \in S /\ \A k \in S : Max(S) >= k
<1>1. \E m \in S : \A k \in S : m >= k
  BY Greatest
<1> QED
  BY <1>1 DEF Max

LEMMA AmbientIsOpen ==
  ASSUME scopes \in Seq(Tenant \cup {System, Bare})
  PROVE  /\ Ambient \in MaybeTenant
         /\ Ambient # Unset => \E i \in DOMAIN scopes : scopes[i] = Ambient
<1> DEFINE bare == {i \in DOMAIN scopes : scopes[i] = Bare}
           set == {i \in InForce : scopes[i] # System}
<1>0. Len(scopes) \in Nat /\ DOMAIN scopes = 1 .. Len(scopes)
  OBVIOUS
<1>1. /\ Inherited \in 0 .. Len(scopes)
      /\ \A i \in Inherited + 1 .. Len(scopes) : scopes[i] # Bare
  <2>1. bare \subseteq 1 .. Len(scopes)
    BY <1>0
  <2>2. bare # {} => Max(bare) \in bare /\ \A k \in bare : Max(bare) >= k
    BY <1>0, <2>1, MaxOf
  <2>3. Inherited = IF bare = {} THEN 0 ELSE Max(bare)
    BY DEF Inherited
  <2>4. CASE bare = {}
    BY <1>0, <2>3, <2>4
  <2>5. CASE bare # {}
    <3> DEFINE m == Max(bare)
    <3>1. m \in 1 .. Len(scopes) /\ Inherited = m /\ \A k \in bare : m >= k
      BY <1>0, <2>2, <2>3, <2>5
    <3> HIDE DEF m
    <3>2. \A i \in m + 1 .. Len(scopes) : i \in 1 .. Len(scopes) /\ ~(m >= i)
      BY <1>0, <3>1
    <3> QED
      BY <1>0, <3>1, <3>2
  <2> QED
    BY <2>4, <2>5
<1>2. InForce \subseteq 1 .. Len(scopes) /\ \A i \in InForce : scopes[i] # Bare
  BY <1>0, <1>1 DEF InForce
<1>3. set # {} => Max(set) \in set
  BY <1>0, <1>2, MaxOf
<1>4. Ambient = IF set = {} THEN Unset ELSE scopes[Max(set)]
  BY DEF Ambient
<1>5. CASE set = {}
  BY <1>4, <1>5 DEF MaybeTenant
<1>6. CASE set # {}
  <2> DEFINE at == Max(set)
  <2>0. at \in InForce /\ scopes[at] # System /\ Ambient = scopes[at]
    BY <1>3, <1>4, <1>6
  <2> HIDE DEF at
  <2>1. at \in DOMAIN scopes /\ Ambient # Bare /\ Ambient \in Tenant \cup {System, Bare}
    BY <1>0, <1>2, <2>0
  <2> QED
    BY <2>0, <2>1 DEF MaybeTenant
<1> QED
  BY <1>5, <1>6

-----------------------------------------------------------------------------
(* The handle.                                                              *)

LEMMA AmbientTyped == TypeOK => Ambient \in MaybeTenant /\ SettingNow \in MaybeTenant
  BY AmbientIsOpen DEF TypeOK, SettingNow, MaybeTenant

LEMMA NoHandleTyped == NoHandle \in Handles
  BY DEF NoHandle, Handles, MaybeTenant

LEMMA BegunFacts ==
  ASSUME TypeOK
  PROVE  /\ Begun \in Handles /\ Begun.tx
         /\ Begun.is = handle.is /\ Begun.bound = handle.bound /\ Begun.role = handle.role
         /\ Begun.objs = handle.objs /\ Begun.stale = handle.stale
         /\ Begun.new = handle.new /\ Begun.gone = handle.gone
         /\ Begun.added = handle.added /\ Begun.dropped = handle.dropped
         /\ handle.tx => Begun.setting = handle.setting /\ Begun.checked = handle.checked
         /\ ~handle.tx => /\ Begun.setting = SettingNow
                         /\ Begun.checked = (~InSystem /\ Ambient # Unset)
<1>1. handle \in Handles /\ SettingNow \in MaybeTenant
  BY AmbientTyped DEF TypeOK
<1>2. CASE handle.tx
  BY <1>1, <1>2 DEF Begun
<1>3. CASE ~handle.tx
  <2> DEFINE c == ~InSystem /\ Ambient # Unset
  <2>1. c \in BOOLEAN
    OBVIOUS
  <2>2. Begun = [handle EXCEPT !.tx = TRUE, !.setting = SettingNow, !.checked = c]
    BY <1>3 DEF Begun
  <2> HIDE DEF c
  <2>3. /\ Begun \in Handles /\ Begun.tx
        /\ Begun.is = handle.is /\ Begun.bound = handle.bound /\ Begun.role = handle.role
        /\ Begun.objs = handle.objs /\ Begun.stale = handle.stale
        /\ Begun.new = handle.new /\ Begun.gone = handle.gone
        /\ Begun.added = handle.added /\ Begun.dropped = handle.dropped
        /\ Begun.setting = SettingNow /\ Begun.checked = c
    BY <1>1, <2>1, <2>2 DEF Handles
  <2> QED
    BY <1>3, <2>3 DEF c
<1> QED
  BY <1>2, <1>3

\* What a flush may store belongs to the ambient tenant, outside a system scope.
LEMMA FilledIsAmbient ==
  ASSUME TypeOK, handle.new \cup handle.gone # {} => CanFlush
  PROVE  /\ Filled(handle.new) \subseteq Row
         /\ handle.new = {} => Filled(handle.new) = {}
         /\ ~InSystem => Filled(handle.new) \subseteq {Ambient} \ {Unset}
         /\ ~InSystem => handle.gone \subseteq {Ambient} \ {Unset}
<1>1. Admitted(Begun) \subseteq Row
  BY DEF Admitted, Row
<1>2. handle.new = {} => Filled(handle.new) = {}
  BY DEF Filled
<1>3. CASE handle.new \cup handle.gone = {}
  BY <1>2, <1>3
<1>4. CASE handle.new \cup handle.gone # {}
  <2>1. Filled(handle.new) \subseteq Row
    BY <1>1, <1>4 DEF CanFlush
  <2>2. ASSUME ~InSystem
        PROVE  Ambient # Unset /\ handle.new \subseteq {Unset, Ambient} /\ handle.gone \subseteq {Ambient}
    BY <1>4, <2>2 DEF CanFlush, FlushMay
  <2>3. ~InSystem => Filled(handle.new) \subseteq {Ambient} \ {Unset}
    BY <2>2 DEF Filled
  <2> QED
    BY <1>2, <2>1, <2>2, <2>3
<1> QED
  BY <1>3, <1>4

LEMMA FlushedFacts ==
  ASSUME TypeOK, handle.new \cup handle.gone # {} => CanFlush
  PROVE  /\ Flushed \in Handles /\ Flushed.tx
         /\ Flushed.is = handle.is /\ Flushed.bound = handle.bound /\ Flushed.role = handle.role
         /\ Flushed.setting = Begun.setting /\ Flushed.checked = Begun.checked
         /\ Flushed.new = {} /\ Flushed.gone = {}
         /\ Flushed.added = (handle.added \cup Filled(handle.new)) \ handle.gone
         /\ Flushed.dropped = (handle.dropped \cup (handle.gone \cap rows)) \ Filled(handle.new)
<1> DEFINE new == Filled(handle.new)
           objs == (handle.objs \cup new) \ handle.gone
           stale == handle.stale \ handle.gone
           added == (handle.added \cup new) \ handle.gone
           dropped == (handle.dropped \cup (handle.gone \cap rows)) \ new
<1>1. new \subseteq Row
  BY FilledIsAmbient
<1>2. handle \in Handles /\ rows \subseteq Row
  BY DEF TypeOK
<1>3. objs \subseteq Row /\ stale \subseteq Row /\ added \subseteq Row /\ dropped \subseteq Row
  BY <1>1, <1>2 DEF Handles
<1>4. Flushed = [Begun EXCEPT !.new = {}, !.gone = {}, !.objs = objs, !.stale = stale,
                              !.added = added, !.dropped = dropped]
  BY BegunFacts DEF Flushed
<1> HIDE DEF objs, stale, added, dropped, new
<1>5. /\ Flushed \in Handles
      /\ Flushed.tx = Begun.tx /\ Flushed.is = Begun.is /\ Flushed.bound = Begun.bound
      /\ Flushed.role = Begun.role
      /\ Flushed.setting = Begun.setting /\ Flushed.checked = Begun.checked
      /\ Flushed.new = {} /\ Flushed.gone = {}
      /\ Flushed.added = added /\ Flushed.dropped = dropped
  BY <1>3, <1>4, BegunFacts DEF Handles
<1> QED
  BY <1>5, BegunFacts DEF added, dropped, new

-----------------------------------------------------------------------------
(* Types.                                                                   *)

Kinds == [kind : {"none", "orm", "get", "column", "text"}, rows : SUBSET Row]

LEMMA NothingTyped == Nothing \in Kinds
  BY DEF Nothing, Kinds

LEMMA SawTyped ==
  ASSUME NEW kind \in {"orm", "get", "column", "text"}, NEW got \in SUBSET Row, Saw(kind, got)
  PROVE  seen' \in Kinds /\ seen'.kind = kind /\ seen'.rows = got
  BY DEF Saw, Kinds

LEMMA SeenIsTyped == TypeOK <=> /\ dialect \in {"sqlite", "postgresql"} /\ filter \in {"app", "rls"}
                                /\ rows \in SUBSET Row
                                /\ scopes \in Seq(Tenant \cup {System, Bare})
                                /\ single \in MaybeTenant /\ handle \in Handles /\ seen \in Kinds
  BY DEF TypeOK, Kinds

\* A session keeps some objects and has read some of them again.
Holds(h, objs, stale) == [h EXCEPT !.objs = objs, !.stale = stale]

LEMMA HoldsFacts ==
  ASSUME NEW h \in Handles, NEW objs \in SUBSET Row, NEW stale \in SUBSET Row
  PROVE  /\ Holds(h, objs, stale) \in Handles
         /\ Holds(h, objs, stale).is = h.is /\ Holds(h, objs, stale).bound = h.bound
         /\ Holds(h, objs, stale).role = h.role /\ Holds(h, objs, stale).tx = h.tx
         /\ Holds(h, objs, stale).setting = h.setting /\ Holds(h, objs, stale).checked = h.checked
         /\ Holds(h, objs, stale).new = h.new /\ Holds(h, objs, stale).gone = h.gone
         /\ Holds(h, objs, stale).added = h.added /\ Holds(h, objs, stale).dropped = h.dropped
         /\ Contents(Holds(h, objs, stale)) = Contents(h)
<1>1. /\ Holds(h, objs, stale) \in Handles
      /\ Holds(h, objs, stale).is = h.is /\ Holds(h, objs, stale).bound = h.bound
      /\ Holds(h, objs, stale).role = h.role /\ Holds(h, objs, stale).tx = h.tx
      /\ Holds(h, objs, stale).setting = h.setting /\ Holds(h, objs, stale).checked = h.checked
      /\ Holds(h, objs, stale).new = h.new /\ Holds(h, objs, stale).gone = h.gone
      /\ Holds(h, objs, stale).added = h.added /\ Holds(h, objs, stale).dropped = h.dropped
  BY DEF Holds, Handles
<1> QED
  BY <1>1 DEF Contents

LEMMA EndedFacts ==
  ASSUME NEW h \in Handles
  PROVE  /\ Ended(h) \in Handles /\ ~Ended(h).tx /\ Ended(h).added = {} /\ Ended(h).dropped = {}
         /\ Ended(h).new = {} /\ Ended(h).gone = {} /\ Ended(h).objs = h.objs
  BY DEF Ended, Handles, MaybeTenant

\* What an ORM select does to its session.
LEMMA OrmReadFacts ==
  ASSUME TypeOK, OrmRead
  PROVE  LET got == Visible(Flushed) \cap Injected IN
         /\ handle' = Holds(Flushed, Flushed.objs \cup got, Flushed.stale \ got)
         /\ handle' \in Handles /\ handle'.new = {} /\ got \subseteq Row
         /\ seen' \in Kinds /\ seen'.kind = "orm" /\ seen'.rows = got
<1> DEFINE got == Visible(Flushed) \cap Injected
<1>1. Flushed \in Handles
  BY FlushedFacts DEF OrmRead
<1>2. got \in SUBSET Row
  BY DEF Visible, Admitted, Row
<1>3. handle' = [Flushed EXCEPT !.objs = Flushed.objs \cup got, !.stale = Flushed.stale \ got]
  BY <1>1 DEF OrmRead
<1>4. Saw("orm", got)
  BY DEF OrmRead
<1> HIDE DEF got
<1>5. Flushed.objs \cup got \in SUBSET Row /\ Flushed.stale \ got \in SUBSET Row
  BY <1>1, <1>2 DEF Handles
<1>6. handle' = Holds(Flushed, Flushed.objs \cup got, Flushed.stale \ got)
  BY <1>3 DEF Holds
<1>7. handle' \in Handles /\ handle'.new = {}
  <2>1. Flushed.new = {}
    BY FlushedFacts DEF OrmRead
  <2> QED
    BY <1>1, <1>5, <1>6, <2>1, HoldsFacts
<1>8. seen' \in Kinds /\ seen'.kind = "orm" /\ seen'.rows = got
  BY <1>2, <1>4, SawTyped
<1> QED
  BY <1>2, <1>6, <1>7, <1>8 DEF got

\* ... and a get by key, which also forgets what is not the ambient tenant's.
LEMMA GetFacts ==
  ASSUME TypeOK, NEW t \in Tenant, Get(t)
  PROVE  /\ handle' \in Handles /\ handle'.is = handle.is /\ handle'.bound = handle.bound
         /\ handle'.role = handle.role /\ handle'.tx = Begun.tx
         /\ handle'.setting = Begun.setting /\ handle'.checked = Begun.checked
         /\ handle'.added = handle.added /\ handle'.dropped = handle.dropped
         /\ handle'.new = handle.new
         /\ seen' \in Kinds /\ seen'.kind = "get"
         /\ ~InSystem => seen'.rows \subseteq {Ambient}
<1> DEFINE hit == IF t \in Begun.objs \ Begun.stale THEN {t} ELSE {t} \cap Visible(Begun)
           mine == FoundBy(hit)
           objs == (Begun.objs \ {t}) \cup mine
           stale == Begun.stale \ {t}
           gone == Begun.gone \ ({t} \ mine)
<1>1. Begun \in Handles
  BY BegunFacts
<1>2. mine \in SUBSET Row /\ (~InSystem => mine \subseteq {Ambient})
  BY DEF FoundBy, Row
<1>3. handle' = [Begun EXCEPT !.objs = objs, !.stale = stale, !.gone = gone]
  BY <1>1 DEF Get
<1>4. Saw("get", mine)
  BY DEF Get
<1> HIDE DEF mine
<1>5. objs \in SUBSET Row /\ stale \in SUBSET Row /\ gone \in SUBSET Row
  BY <1>1, <1>2 DEF Handles
<1> HIDE DEF objs, stale, gone
<1>6. /\ handle' \in Handles /\ handle'.is = Begun.is /\ handle'.bound = Begun.bound
      /\ handle'.role = Begun.role /\ handle'.tx = Begun.tx
      /\ handle'.setting = Begun.setting /\ handle'.checked = Begun.checked
      /\ handle'.added = Begun.added /\ handle'.dropped = Begun.dropped
      /\ handle'.new = Begun.new
  BY <1>1, <1>3, <1>5 DEF Handles
<1>7. seen' \in Kinds /\ seen'.kind = "get" /\ seen'.rows = mine
  BY <1>2, <1>4, SawTyped
<1> QED
  BY <1>2, <1>6, <1>7, BegunFacts

\* A column is loaded again, or text read, in a transaction begun at the latest now.
LEMMA PlainReadFacts ==
  ASSUME TypeOK, TextRead \/ \E t \in Row : LoadColumn(t)
  PROVE  /\ handle' \in Handles /\ handle'.is = handle.is /\ handle'.bound = handle.bound
         /\ handle'.role = handle.role /\ handle'.tx = Begun.tx
         /\ handle'.setting = Begun.setting /\ handle'.checked = Begun.checked
         /\ handle'.added = handle.added /\ handle'.dropped = handle.dropped
         /\ handle'.new = handle.new
         /\ seen' \in Kinds
         /\ TextRead => seen'.kind = "text" /\ seen'.rows = Visible(Begun)
         /\ ~TextRead => seen'.kind = "column"
<1>1. Begun \in Handles
  BY BegunFacts
<1>2. CASE TextRead
  <2>1. Visible(Begun) \in SUBSET Row /\ Saw("text", Visible(Begun)) /\ handle' = Begun
    BY <1>2 DEF TextRead, Visible, Admitted, Row
  <2> QED
    BY <1>1, <1>2, <2>1, SawTyped, BegunFacts
<1>3. ASSUME NEW t \in Row, LoadColumn(t), ~TextRead
      PROVE  /\ handle' \in Handles /\ handle'.is = Begun.is /\ handle'.bound = Begun.bound
             /\ handle'.role = Begun.role /\ handle'.tx = Begun.tx
             /\ handle'.setting = Begun.setting /\ handle'.checked = Begun.checked
             /\ handle'.added = Begun.added /\ handle'.dropped = Begun.dropped
             /\ handle'.new = Begun.new
             /\ seen' \in Kinds /\ seen'.kind = "column"
  <2>1. Begun.stale \ {t} \in SUBSET Row
    BY <1>1 DEF Handles
  <2>2. handle' = Holds(Begun, Begun.objs, Begun.stale \ {t})
    BY <1>1, <1>3 DEF LoadColumn, Holds, Handles
  <2>3. Saw("column", {t})
    BY <1>3 DEF LoadColumn
  <2>4. Begun.objs \in SUBSET Row
    BY <1>1 DEF Handles
  <2> QED
    BY <1>1, <2>1, <2>2, <2>3, <2>4, SawTyped, HoldsFacts
<1> QED
  BY <1>2, <1>3, BegunFacts

\* An object is added or deleted in a session.
LEMMA PendingFacts ==
  ASSUME TypeOK, (\E t \in MaybeTenant : AddObject(t)) \/ (\E t \in Row : DeleteObject(t))
  PROVE  /\ handle' \in Handles /\ handle'.is = handle.is /\ handle'.bound = handle.bound
         /\ handle'.role = handle.role /\ handle'.tx = handle.tx
         /\ handle'.setting = handle.setting /\ handle'.checked = handle.checked
         /\ handle'.added = handle.added /\ handle'.dropped = handle.dropped
         /\ handle.is = "session"
         /\ ~SharedDevice /\ single # Unset => handle'.new \subseteq handle.new \cup {single, Unset}
<1>1. handle \in Handles
  BY DEF TypeOK
<1>2. CASE \E t \in MaybeTenant : AddObject(t)
  BY <1>1, <1>2 DEF AddObject, Handles, InSession
<1>3. CASE \E t \in Row : DeleteObject(t)
  BY <1>1, <1>3 DEF DeleteObject, Handles, InSession
<1> QED
  BY <1>2, <1>3

LEMMA EndFacts ==
  ASSUME TypeOK, Commit \/ Rollback
  PROVE  /\ handle' \in Handles /\ ~handle'.tx /\ handle'.added = {} /\ handle'.dropped = {}
         /\ handle'.new = {}
         /\ seen' \in Kinds /\ seen'.kind = "none"
         /\ Rollback => UNCHANGED rows
<1>0. seen' \in Kinds /\ seen'.kind = "none"
  BY NothingTyped DEF Commit, Rollback, Nothing
<1>1. CASE Commit
  <2>1. Flushed \in Handles
    BY <1>1, FlushedFacts DEF Commit
  <2>2. Ended(Flushed) \in Handles /\ Flushed.objs \in SUBSET Row
    BY <2>1, EndedFacts DEF Handles
  <2>3. handle' = [Ended(Flushed) EXCEPT !.stale = Flushed.objs]
    BY <1>1 DEF Commit
  <2>4. handle' \in Handles /\ handle'.tx = Ended(Flushed).tx /\ handle'.added = Ended(Flushed).added
        /\ handle'.dropped = Ended(Flushed).dropped /\ handle'.new = Ended(Flushed).new
    BY <2>2, <2>3 DEF Handles
  <2>5. Rollback => UNCHANGED rows
    BY DEF Rollback
  <2> QED
    BY <1>0, <2>1, <2>4, <2>5, EndedFacts
<1>2. CASE Rollback
  <2> DEFINE kept == (handle.objs \ handle.added) \cup handle.dropped
  <2>1. handle \in Handles /\ kept \in SUBSET Row
    BY DEF TypeOK, Handles
  <2>2. handle' = Holds(Ended(handle), kept, kept)
    BY <1>2 DEF Rollback, Holds
  <2> HIDE DEF kept
  <2> QED
    BY <1>0, <1>2, <2>1, <2>2, EndedFacts, HoldsFacts DEF Rollback
<1> QED
  BY <1>1, <1>2

\* Opening and closing leave a handle that has done nothing.
LEMMA OpenFacts ==
  ASSUME TypeOK, OpenSession \/ Connect \/ Close
  PROVE  /\ handle' \in Handles /\ ~handle'.tx
         /\ handle'.added = {} /\ handle'.dropped = {} /\ handle'.new = {}
<1>1. Ambient \in MaybeTenant
  BY AmbientTyped
<1>2. /\ NoHandle \in Handles /\ ~NoHandle.tx
      /\ NoHandle.added = {} /\ NoHandle.dropped = {} /\ NoHandle.new = {}
  BY NoHandleTyped DEF NoHandle
<1>3. RoleNow \in {"app", "maintenance"}
  BY DEF RoleNow
<1>4. CASE OpenSession
  BY <1>1, <1>2, <1>3, <1>4 DEF OpenSession, Handles
<1>5. CASE Connect
  BY <1>2, <1>3, <1>5 DEF Connect, Handles
<1>6. CASE Close
  BY <1>2, <1>6 DEF Close
<1> QED
  BY <1>4, <1>5, <1>6

\* A flush leaves what FlushedFacts says.
LEMMA FlushFacts ==
  ASSUME TypeOK, Flush
  PROVE  handle' = Flushed /\ handle' \in Handles
BY FlushedFacts DEF Flush

ScopeSteps == (\E t \in Tenant : EnterTenant(t)) \/ EnterSystem \/ EnterThread \/ ExitScope

LEMMA TypesPreserved == TypeOK /\ [Next]_vars => TypeOK'
<1> SUFFICES ASSUME TypeOK, [Next]_vars PROVE TypeOK'
  OBVIOUS
<1>0. Nothing \in Kinds
  BY NothingTyped
<1>1. CASE ScopeSteps
  <2>1. /\ scopes' \in Seq(Tenant \cup {System, Bare}) /\ seen' = Nothing
        /\ UNCHANGED <<dialect, filter, rows, single, handle>>
    <3>1. ASSUME NEW s \in Tenant \cup {System, Bare}, EnterScope(s)
          PROVE  /\ scopes' \in Seq(Tenant \cup {System, Bare}) /\ seen' = Nothing
                 /\ UNCHANGED <<dialect, filter, rows, single, handle>>
      BY <3>1 DEF TypeOK, EnterScope
    <3>2. CASE ExitScope
      BY <3>2 DEF TypeOK, ExitScope, Front
    <3>3. CASE ~ExitScope
      BY <1>1, <3>1, <3>3 DEF ScopeSteps, EnterTenant, EnterSystem, EnterThread
    <3> QED
      BY <3>2, <3>3
  <2> QED
    BY <1>0, <2>1 DEF TypeOK, Kinds
<1>2. CASE \E t \in Tenant : StartSingle(t)
  BY <1>0, <1>2 DEF StartSingle, TypeOK, Kinds, MaybeTenant
<1>3. CASE OpenSession \/ Connect \/ Close
  BY <1>0, <1>3, OpenFacts DEF OpenSession, Connect, Close, TypeOK, Kinds
<1>4. CASE (\E t \in MaybeTenant : AddObject(t)) \/ (\E t \in Row : DeleteObject(t))
  BY <1>0, <1>4, PendingFacts DEF AddObject, DeleteObject, TypeOK, Kinds
<1>5. CASE \E t \in Tenant : Get(t)
  BY <1>5, GetFacts DEF Get, TypeOK, Kinds
<1>6. CASE TextRead \/ \E t \in Row : LoadColumn(t)
  BY <1>6, PlainReadFacts DEF TextRead, LoadColumn, TypeOK, Kinds
<1>7. CASE Flush
  BY <1>0, <1>7, FlushFacts DEF Flush, TypeOK, Kinds
<1>8. CASE OrmRead
  BY <1>8, OrmReadFacts DEF OrmRead, TypeOK, Kinds
<1>9. CASE Commit \/ Rollback
  <2>1. rows' \in SUBSET Row
    <3>1. CASE Commit
      <4>1. Flushed \in Handles /\ rows \in SUBSET Row
        BY <3>1, FlushedFacts DEF Commit, TypeOK
      <4> QED
        BY <3>1, <4>1 DEF Commit, Handles
    <3>2. CASE Rollback
      BY <3>2 DEF Rollback, TypeOK
    <3> QED
      BY <1>9, <3>1, <3>2
  <2> QED
    BY <1>9, <2>1, EndFacts DEF Commit, Rollback, TypeOK, Kinds
<1>10. CASE UNCHANGED vars
  BY <1>10 DEF TypeOK, vars
<1> QED
  BY <1>1, <1>2, <1>3, <1>4, <1>5, <1>6, <1>7, <1>8, <1>9, <1>10 DEF Next, ScopeSteps

\* Every variable keeps its type: what a flush stores belongs to a tenant or,
\* flushed in a system scope, to nobody (tenancy.py before_flush).
THEOREM TypesHold == Spec => []TypeOK
<1>1. Init => TypeOK
  <2>1. Init => NoHandle \in Handles /\ Nothing \in Kinds /\ <<>> \in Seq(Tenant \cup {System, Bare})
    BY NoHandleTyped, NothingTyped
  <2> QED
    BY <2>1 DEF Init, TypeOK, Kinds, MaybeTenant, Row
<1> QED
  BY <1>1, TypesPreserved, PTL DEF Spec

-----------------------------------------------------------------------------
(* Writes.                                                                  *)

LEMMA WriteStep ==
  ASSUME TypeOK, Next, ~InSystem
  PROVE  /\ handle'.added \subseteq handle.added \cup {Ambient}
         /\ handle'.dropped \subseteq handle.dropped \cup {Ambient}
         /\ rows' \subseteq rows \cup handle.added \cup {Ambient}
         /\ rows \subseteq rows' \cup handle.dropped \cup {Ambient}
<1>1. CASE ScopeSteps
  BY <1>1 DEF ScopeSteps, EnterTenant, EnterSystem, EnterThread, EnterScope, ExitScope
<1>2. CASE \E t \in Tenant : StartSingle(t)
  BY <1>2 DEF StartSingle
<1>3. CASE OpenSession \/ Connect \/ Close
  BY <1>3, OpenFacts DEF OpenSession, Connect, Close
<1>4. CASE (\E t \in MaybeTenant : AddObject(t)) \/ (\E t \in Row : DeleteObject(t))
  BY <1>4, PendingFacts DEF AddObject, DeleteObject
<1>5. CASE \E t \in Tenant : Get(t)
  BY <1>5, GetFacts DEF Get
<1>6. CASE TextRead \/ \E t \in Row : LoadColumn(t)
  BY <1>6, PlainReadFacts DEF TextRead, LoadColumn
<1>7. CASE Flush \/ OrmRead \/ Commit
  <2>1. handle.new \cup handle.gone # {} => CanFlush
    BY <1>7 DEF Flush, OrmRead, Commit
  <2>2. /\ Flushed \in Handles
        /\ Flushed.added \subseteq handle.added \cup {Ambient}
        /\ Flushed.dropped \subseteq handle.dropped \cup {Ambient}
    BY <2>1, FilledIsAmbient, FlushedFacts
  <2>3. CASE Flush
    BY <2>2, <2>3, FlushFacts DEF Flush
  <2>4. CASE OrmRead
    <3>1. handle'.added = Flushed.added /\ handle'.dropped = Flushed.dropped
      BY <2>2, <2>4 DEF OrmRead, Handles
    <3> QED
      BY <2>2, <2>4, <3>1 DEF OrmRead
  <2>5. CASE Commit
    BY <2>2, <2>5, EndFacts DEF Commit
  <2> QED
    BY <1>7, <2>3, <2>4, <2>5
<1>8. CASE Rollback
  BY <1>8, EndFacts DEF Rollback
<1> QED
  BY <1>1, <1>2, <1>3, <1>4, <1>5, <1>6, <1>7, <1>8 DEF Next, ScopeSteps

\* Outside a system scope no step adds or deletes a row of a tenant other than
\* the ambient one (tenancy.py before_flush), whatever engines share the device.
THEOREM WritesAreTheTenants == Spec => WritesStayInTenant
<1>1. TypeOK /\ [Next]_vars =>
        [~InSystem =>
          LET change == (handle'.added \ handle.added) \cup (handle'.dropped \ handle.dropped)
              stored == ((rows' \ rows) \ handle.added) \cup ((rows \ rows') \ handle.dropped)
          IN change \cup stored \subseteq {Ambient}]_vars
  BY WriteStep
<1> QED
  BY <1>1, TypesHold, PTL DEF Spec, WritesStayInTenant

-----------------------------------------------------------------------------
(* Reads.                                                                   *)

\* The scopes of a single-tenant device are its own ...
ScopesAreSingle ==
  single # Unset => \A i \in DOMAIN scopes : scopes[i] \in {single, System, Bare}

\* ... and so are its rows but the one of nobody, those a transaction has added
\* and those it is about to add among them.
RowsAreSingle ==
  single # Unset => /\ rows \cup handle.added \subseteq {single, Blank}
                    /\ handle.new \subseteq {single, Unset}

\* A session's transaction carries the tenant the session is bound to, or the
\* device's.
SettingStands ==
  handle.tx /\ InSession /\ Plain /\ Pg =>
    /\ handle.setting \in {handle.bound, single} \ {Unset}
    /\ single = Unset => handle.setting = handle.bound

ClosedIsEmpty == handle.is = "none" => handle.added = {} /\ handle.new = {}

Stands == ScopesAreSingle /\ RowsAreSingle /\ SettingStands /\ ClosedIsEmpty

LEMMA AmbientIsSingle ==
  ASSUME TypeOK, ScopesAreSingle, single # Unset, Ambient # Unset
  PROVE  Ambient = single
<1>1. Ambient \in Tenant /\ \E i \in DOMAIN scopes : scopes[i] = Ambient
  BY AmbientIsOpen DEF TypeOK, MaybeTenant
<1> QED
  BY <1>1, NamesAssumption DEF ScopesAreSingle

\* What a single-tenant device flushes is its own or nobody's.
LEMMA FilledIsSingle ==
  ASSUME TypeOK, Stands, single # Unset, handle.new \cup handle.gone # {} => CanFlush
  PROVE  Filled(handle.new) \subseteq {single, Blank}
<1>1. CASE InSystem
  <2>1. handle.new \subseteq {single, Unset}
    BY DEF Stands, RowsAreSingle
  <2> QED
    BY <1>1, <2>1 DEF Filled
<1>2. CASE ~InSystem
  BY <1>2, FilledIsAmbient, AmbientIsSingle DEF Stands
<1> QED
  BY <1>1, <1>2

\* A transaction a session begins carries the right tenant from its first statement.
LEMMA BegunStands ==
  ASSUME TypeOK, Stands, MayBegin, InSession, Begun.role = "app", Begun.checked, Pg
  PROVE  /\ Begun.setting \in {handle.bound, single} \ {Unset}
         /\ single = Unset => Begun.setting = handle.bound
<1>1. CASE handle.tx
  BY <1>1, BegunFacts DEF Stands, SettingStands, Plain
<1>2. CASE ~handle.tx
  <2>1. ~InSystem /\ Ambient # Unset /\ Begun.setting = Ambient
    BY <1>2, BegunFacts DEF SettingNow
  <2>2. Agrees
    BY <1>2, <2>1 DEF MayBegin
  <2>3. single # Unset => Ambient = single
    BY <2>1, AmbientIsSingle DEF Stands
  <2> QED
    BY <2>1, <2>2, <2>3 DEF Agrees, Single
<1> QED
  BY <1>1, <1>2

\* The steps that begin a transaction, if none has begun, and then go on in it.
Statements ==
  \/ Flush \/ OrmRead \/ TextRead
  \/ \E t \in Tenant : Get(t)
  \/ \E t \in Row : LoadColumn(t)

LEMMA StatementFacts ==
  ASSUME TypeOK, Statements
  PROVE  /\ handle' \in Handles /\ handle'.is = handle.is /\ handle'.bound = handle.bound
         /\ handle'.role = handle.role /\ handle'.tx = Begun.tx
         /\ handle'.setting = Begun.setting /\ handle'.checked = Begun.checked
         /\ \/ handle'.added = handle.added
            \/ CanFlush /\ handle'.added \subseteq handle.added \cup Filled(handle.new)
         /\ handle'.new \subseteq handle.new
         /\ InSession => MayBegin
         /\ UNCHANGED <<dialect, filter, rows, scopes, single>>
<1>1. CASE Flush \/ OrmRead
  <2>1. CanFlush
    BY <1>1 DEF Flush, OrmRead
  <2>3. /\ Flushed \in Handles /\ Flushed.is = handle.is /\ Flushed.bound = handle.bound
        /\ Flushed.role = handle.role /\ Flushed.tx = Begun.tx
        /\ Flushed.setting = Begun.setting /\ Flushed.checked = Begun.checked
        /\ Flushed.added \subseteq handle.added \cup Filled(handle.new) /\ Flushed.new = {}
    BY <2>1, FlushedFacts, BegunFacts
  <2>4. CASE Flush
    BY <2>1, <2>3, <2>4, FlushFacts DEF Flush, CanFlush
  <2>5. CASE OrmRead
    <3> DEFINE got == Visible(Flushed) \cap Injected
    <3>1. handle' = Holds(Flushed, Flushed.objs \cup got, Flushed.stale \ got)
      BY <2>5, OrmReadFacts
    <3>2. Flushed.objs \cup got \in SUBSET Row /\ Flushed.stale \ got \in SUBSET Row
      BY <2>3 DEF Handles, Visible, Admitted, Row
    <3> HIDE DEF got
    <3>3. /\ handle' \in Handles /\ handle'.is = Flushed.is /\ handle'.bound = Flushed.bound
          /\ handle'.role = Flushed.role /\ handle'.tx = Flushed.tx
          /\ handle'.setting = Flushed.setting /\ handle'.checked = Flushed.checked
          /\ handle'.added = Flushed.added /\ handle'.new = Flushed.new
      BY <2>3, <3>1, <3>2, HoldsFacts
    <3> QED
      BY <2>1, <2>3, <2>5, <3>3 DEF OrmRead, CanFlush
  <2> QED
    BY <1>1, <2>4, <2>5
<1>2. CASE \E t \in Tenant : Get(t)
  BY <1>2, GetFacts DEF Get
<1>3. CASE TextRead \/ \E t \in Row : LoadColumn(t)
  BY <1>3, PlainReadFacts DEF TextRead, LoadColumn
<1> QED
  BY <1>1, <1>2, <1>3 DEF Statements

LEMMA StandsPreserved ==
  ASSUME ~SharedDevice, TypeOK, Stands, [Next]_vars
  PROVE  Stands'
<1>1. CASE ScopeSteps
  <2>1. UNCHANGED <<dialect, filter, rows, single, handle>>
    BY <1>1 DEF ScopeSteps, EnterTenant, EnterSystem, EnterThread, EnterScope, ExitScope
  <2>2. ScopesAreSingle'
    <3> SUFFICES ASSUME single # Unset, NEW i \in DOMAIN scopes'
                 PROVE  scopes'[i] \in {single, System, Bare}
      BY <2>1 DEF ScopesAreSingle
    <3>1. ASSUME NEW s \in {single, System, Bare}, EnterScope(s)
          PROVE  scopes'[i] \in {single, System, Bare}
      BY <3>1 DEF EnterScope, TypeOK, Stands, ScopesAreSingle
    <3>2. CASE ExitScope
      BY <3>2 DEF ExitScope, Front, TypeOK, Stands, ScopesAreSingle
    <3>3. CASE ~ExitScope
      BY <1>1, <3>1, <3>3 DEF ScopeSteps, EnterTenant, EnterSystem, EnterThread
    <3> QED
      BY <3>2, <3>3
  <2> QED
    BY <2>1, <2>2
       DEF Stands, RowsAreSingle, SettingStands, ClosedIsEmpty, InSession, Plain, Pg
<1>2. CASE \E t \in Tenant : StartSingle(t)
  <2>1. scopes' = <<>> /\ ~InSession
    BY <1>2 DEF StartSingle, InSession
  <2>2. handle.added = {} /\ handle.new = {}
    BY <1>2 DEF StartSingle, Stands, ClosedIsEmpty
  <2>3. rows' \subseteq {single', Blank} /\ handle' = handle
    BY <1>2 DEF StartSingle, TypeOK, Row
  <2> QED
    BY <1>2, <2>1, <2>2, <2>3 DEF StartSingle, Stands, ScopesAreSingle, RowsAreSingle, SettingStands,
                      ClosedIsEmpty, InSession, Plain, Pg
<1>3. CASE OpenSession \/ Connect \/ Close
  <2>1. ~handle'.tx /\ handle'.added = {} /\ handle'.new = {}
    BY <1>3, OpenFacts
  <2>2. UNCHANGED <<rows, scopes, single>>
    BY <1>3 DEF OpenSession, Connect, Close
  <2> QED
    BY <2>1, <2>2 DEF Stands, ScopesAreSingle, RowsAreSingle, SettingStands, ClosedIsEmpty
<1>4. CASE (\E t \in MaybeTenant : AddObject(t)) \/ (\E t \in Row : DeleteObject(t))
  <2>1. UNCHANGED <<dialect, filter, rows, scopes, single>>
    BY <1>4 DEF AddObject, DeleteObject
  <2> QED
    BY <1>4, <2>1, PendingFacts DEF Stands, ScopesAreSingle, RowsAreSingle, SettingStands,
                                    ClosedIsEmpty, InSession, Plain, Pg
<1>5. CASE Statements
  <2>1. UNCHANGED <<dialect, filter, rows, scopes, single>>
    BY <1>5, StatementFacts
  <2>2. RowsAreSingle'
    <3>1. single # Unset => handle'.added \subseteq handle.added \cup {single, Blank}
      BY <1>5, StatementFacts, FilledIsSingle
    <3>2. handle'.new \subseteq handle.new
      BY <1>5, StatementFacts
    <3> QED
      BY <2>1, <3>1, <3>2 DEF Stands, RowsAreSingle
  <2>3. SettingStands'
    <3> SUFFICES ASSUME InSession', Plain', Pg'
                 PROVE  /\ handle'.setting \in {handle'.bound, single'} \ {Unset}
                        /\ single' = Unset => handle'.setting = handle'.bound
      BY DEF SettingStands
    <3>1. InSession /\ Pg /\ Begun.role = "app" /\ Begun.checked /\ MayBegin
      BY <1>5, <2>1, StatementFacts, BegunFacts DEF InSession, Pg, Plain
    <3> QED
      BY <1>5, <2>1, <3>1, BegunStands, StatementFacts
  <2>4. ClosedIsEmpty'
    <3>1. handle.is # "none"
      BY <1>5 DEF Statements, Flush, OrmRead, TextRead, Get, LoadColumn, InSession
    <3> QED
      BY <1>5, <3>1, StatementFacts DEF ClosedIsEmpty
  <2> QED
    BY <2>1, <2>2, <2>3, <2>4 DEF Stands, ScopesAreSingle
<1>6. CASE Commit \/ Rollback
  <2>1. ~handle'.tx /\ handle'.added = {} /\ handle'.new = {} /\ UNCHANGED <<scopes, single>>
    BY <1>6, EndFacts DEF Commit, Rollback
  <2>2. single # Unset => rows' \subseteq {single, Blank}
    <3>1. CASE Rollback
      BY <3>1, EndFacts DEF Stands, RowsAreSingle
    <3>2. CASE Commit
      <4>1. handle.new \cup handle.gone # {} => CanFlush
        BY <3>2 DEF Commit
      <4>2. single # Unset => Filled(handle.new) \subseteq {single, Blank}
        BY <4>1, FilledIsSingle
      <4>3. Flushed.added \subseteq handle.added \cup Filled(handle.new)
        BY <4>1, FlushedFacts
      <4>4. rows' \subseteq rows \cup Flushed.added
        BY <3>2 DEF Commit
      <4> QED
        BY <4>2, <4>3, <4>4 DEF Stands, RowsAreSingle
    <3> QED
      BY <1>6, <3>1, <3>2
  <2> QED
    BY <2>1, <2>2 DEF Stands, ScopesAreSingle, RowsAreSingle, SettingStands, ClosedIsEmpty
<1>7. CASE UNCHANGED vars
  BY <1>7 DEF vars, Stands, ScopesAreSingle, RowsAreSingle, SettingStands, ClosedIsEmpty,
              InSession, Plain, Pg
<1> QED
  BY <1>1, <1>2, <1>3, <1>4, <1>5, <1>6, <1>7 DEF Next, ScopeSteps, Statements

\* While no other engine uses a single-tenant device, the setting of a
\* transaction and the rows of the device are what its reads rely on.
THEOREM ContextStands ==
  ASSUME ~SharedDevice
  PROVE  Spec => [](TypeOK /\ Stands)
<1>1. Init => Stands
  BY DEF Init, Stands, ScopesAreSingle, RowsAreSingle, SettingStands, ClosedIsEmpty, NoHandle
<1>2. TypeOK /\ Stands /\ [Next]_vars => Stands'
  BY StandsPreserved
<1> QED
  BY <1>1, <1>2, TypesHold, PTL DEF Spec

\* The context a property looks at is the one the statement was made in.
LEMMA ContextStays ==
  ASSUME UNCHANGED scopes
  PROVE  /\ Ambient' = Ambient /\ InSystem' = InSystem
         /\ UNCHANGED single => Own' = Own
<1>1. UNCHANGED <<Ambient, InSystem, Inherited>>
  BY DEF Ambient, InSystem, InForce, Inherited
<1> QED
  BY <1>1 DEF Own, Single

LEMMA OrmReadStep ==
  ASSUME TypeOK, Stands, OrmRead
  PROVE  ReadsAreTheTenants' /\ ReadsStayInTenant' /\ TextStaysInTenant'
<1> DEFINE got == Visible(Flushed) \cap Injected
           mine == Contents(Flushed) \cap Own
<1>0. CanFlush /\ OrmMay /\ InSession /\ UNCHANGED <<dialect, filter, rows, scopes, single>>
  BY DEF OrmRead
<1>1. /\ Flushed \in Handles /\ Flushed.bound = handle.bound /\ Flushed.role = handle.role
      /\ Flushed.setting = Begun.setting /\ Flushed.checked = Begun.checked
      /\ Begun.role = handle.role
      /\ Flushed.added \subseteq handle.added \cup Filled(handle.new)
  BY <1>0, FlushedFacts, BegunFacts
<1>2. /\ handle'.checked = Flushed.checked /\ handle'.role = Flushed.role
      /\ Contents(handle') = Contents(Flushed) /\ seen'.kind = "orm" /\ seen'.rows = got
  <2>1. handle' = Holds(Flushed, Flushed.objs \cup got, Flushed.stale \ got)
        /\ seen'.kind = "orm" /\ seen'.rows = got
    BY OrmReadFacts
  <2>2. Flushed.objs \cup got \in SUBSET Row /\ Flushed.stale \ got \in SUBSET Row
    BY <1>1 DEF Handles, Visible, Admitted, Row
  <2> HIDE DEF got
  <2> QED
    BY <1>1, <2>1, <2>2, HoldsFacts
<1>3. Contents(Flushed) \subseteq Row /\ (single # Unset => Contents(Flushed) \subseteq {single, Blank})
  <2>1. Contents(Flushed) \subseteq rows \cup Flushed.added
    BY DEF Contents
  <2>2. rows \cup Flushed.added \subseteq Row
    BY <1>1 DEF TypeOK, Handles
  <2>3. single # Unset => rows \cup Flushed.added \subseteq {single, Blank}
    BY <1>0, <1>1, FilledIsSingle DEF Stands, RowsAreSingle
  <2> QED
    BY <2>1, <2>2, <2>3
<1>4. ASSUME ~InSystem
      PROVE  Ambient \in Tenant /\ Agrees /\ (single # Unset => Ambient = single)
  BY <1>0, <1>4, AmbientTyped, AmbientIsSingle DEF OrmMay, MaybeTenant, Stands
<1>5. ASSUME ~InSystem, Single PROVE Own = {Ambient, Blank} /\ Contents(Flushed) = mine
  BY <1>3, <1>4, <1>5 DEF Own, Single
<1>6. ASSUME ~Single PROVE Own = {Ambient}
  BY <1>6 DEF Own
<1>7. ASSUME ~InSystem, single = Unset, Pg, Begun.role = "app", Begun.checked
      PROVE  Admitted(Flushed) = {Ambient}
  <2>1. handle.bound = Ambient
    BY <1>4, <1>7 DEF Agrees, Single
  <2>2. Begun.setting = Ambient
    BY <1>0, <1>7, <2>1, BegunStands DEF CanFlush
  <2> QED
    BY <1>1, <1>4, <1>7, <2>2 DEF Admitted
<1>8. ASSUME ~InSystem, ~Single, ~(filter = "rls" /\ Pg) PROVE Injected = {Ambient}
  BY <1>4, <1>8 DEF Injected, SkipsInjection
<1>9. Injected \in {Row, Tenant \cap {Ambient}}
  BY DEF Injected
<1>10. /\ ~Pg => Admitted(Flushed) = Row
       /\ Pg /\ Begun.role = "app" => Admitted(Flushed) \subseteq Tenant
  BY <1>1 DEF Admitted
<1>11. got = Contents(Flushed) \cap Admitted(Flushed) \cap Injected
  BY DEF Visible
<1>12. Ambient' = Ambient /\ InSystem' = InSystem /\ Own' = Own /\ Pg' = Pg
  BY <1>0, ContextStays DEF Pg
<1>13. single = Unset => ~Single
  BY DEF Single
<1>14. Blank \notin Tenant
  BY NamesAssumption
<1> HIDE DEF got
<1>15. ReadsAreTheTenants'
  <2> SUFFICES ASSUME ~InSystem, Plain', single = Unset \/ ~Pg
               PROVE  got = mine
    BY <1>0, <1>2, <1>12 DEF ReadsAreTheTenants, Contents
  <2>1. Begun.role = "app" /\ Begun.checked
    BY <1>1, <1>2 DEF Plain
  <2>2. CASE Pg
    <3>1. Admitted(Flushed) = {Ambient} /\ Own = {Ambient}
      BY <1>6, <1>7, <1>13, <2>1, <2>2
    <3>2. {Ambient} \subseteq Injected
      BY <1>4, <1>9 DEF Row
    <3> QED
      BY <1>11, <3>1, <3>2
  <2>3. CASE ~Pg /\ ~Single
    BY <1>3, <1>6, <1>8, <1>10, <1>11, <2>3
  <2>4. CASE ~Pg /\ Single
    <3>1. Injected = Row
      BY <2>4 DEF Injected, SkipsInjection
    <3> QED
      BY <1>3, <1>5, <1>10, <1>11, <2>4, <3>1
  <2> QED
    BY <2>2, <2>3, <2>4
<1>16. ReadsStayInTenant'
  <2> SUFFICES ASSUME ~InSystem, Plain' \/ filter = "app"
               PROVE  Ambient # Unset /\ got \subseteq Own
    BY <1>0, <1>2, <1>12 DEF ReadsStayInTenant
  <2>1. Ambient # Unset
    BY <1>0 DEF OrmMay
  <2>2. CASE Single
    BY <1>5, <1>11, <2>1, <2>2
  <2>3. CASE ~Single /\ ~(filter = "rls" /\ Pg)
    BY <1>6, <1>8, <1>11, <2>1, <2>3
  <2>4. CASE ~Single /\ filter = "rls" /\ Pg
    <3>1. Begun.role = "app" /\ Begun.checked
      BY <1>1, <1>2, <2>4 DEF Plain
    <3>2. CASE single = Unset
      BY <1>6, <1>7, <1>11, <2>1, <2>4, <3>1, <3>2
    <3>3. CASE single # Unset
      <4>1. got \subseteq {single, Blank} /\ got \subseteq Tenant /\ Ambient = single
        BY <1>3, <1>4, <1>10, <1>11, <2>4, <3>1, <3>3
      <4> QED
        BY <1>6, <1>14, <2>1, <2>4, <4>1
    <3> QED
      BY <3>2, <3>3
  <2> QED
    BY <2>2, <2>3, <2>4
<1>17. TextStaysInTenant'
  BY <1>2 DEF TextStaysInTenant
<1> QED
  BY <1>15, <1>16, <1>17

LEMMA GetStep ==
  ASSUME TypeOK, NEW t \in Tenant, Get(t)
  PROVE  ReadsAreTheTenants' /\ ReadsStayInTenant' /\ TextStaysInTenant'
<1>1. OrmMay /\ Ambient' = Ambient /\ InSystem' = InSystem /\ Own' = Own /\ Ambient \in Own
  BY ContextStays DEF Get, Own
<1>2. seen'.kind = "get" /\ (~InSystem => seen'.rows \subseteq {Ambient})
  BY GetFacts
<1> QED
  BY <1>1, <1>2 DEF ReadsAreTheTenants, ReadsStayInTenant, TextStaysInTenant, OrmMay

LEMMA TextStep ==
  ASSUME TypeOK, Stands, TextRead
  PROVE  ReadsAreTheTenants' /\ ReadsStayInTenant' /\ TextStaysInTenant'
<1>1. seen'.kind = "text" /\ seen'.rows = Visible(Begun)
  BY PlainReadFacts
<1>2. TextStaysInTenant'
  <2> SUFFICES ASSUME Pg', InSession', Plain'
               PROVE  seen'.rows \subseteq {handle'.bound, single'}
    BY DEF TextStaysInTenant
  <2>1. /\ UNCHANGED <<dialect, single>> /\ InSession /\ Pg /\ Begun.role = "app" /\ Begun.checked
        /\ MayBegin /\ handle'.bound = handle.bound
    BY StatementFacts, BegunFacts DEF Statements, InSession, Pg, Plain
  <2>2. Begun.setting \in {handle.bound, single}
    BY <2>1, BegunStands
  <2>3. Visible(Begun) \subseteq {Begun.setting}
    BY <2>1 DEF Visible, Admitted
  <2> QED
    BY <1>1, <2>1, <2>2, <2>3
<1> QED
  BY <1>1, <1>2 DEF ReadsAreTheTenants, ReadsStayInTenant

\* Most steps return nothing to look at; a column belongs to an object the
\* session was given already.
LEMMA OtherStep ==
  ASSUME TypeOK, Next, ~OrmRead, ~TextRead, \A t \in Tenant : ~Get(t)
  PROVE  seen'.kind \in {"none", "column"}
<1>1. CASE \E t \in Row : LoadColumn(t)
  BY <1>1, PlainReadFacts
<1>2. CASE Commit \/ Rollback
  BY <1>2, EndFacts
<1>3. CASE ~(\E t \in Row : LoadColumn(t)) /\ ~Commit /\ ~Rollback
  <2>1. seen' = Nothing
    BY <1>3 DEF Next, EnterTenant, EnterSystem, EnterThread, EnterScope, ExitScope, OpenSession,
                Connect, Close, AddObject, DeleteObject, Flush, StartSingle
  <2> QED
    BY <2>1 DEF Nothing
<1> QED
  BY <1>1, <1>2, <1>3

\* What the last statement returned is the tenant's it was made under.
Isolated == ReadsAreTheTenants /\ ReadsStayInTenant /\ TextStaysInTenant

\* Selects, gets and text statements together: the application's filter and the
\* policies of the database leave no read of another tenant's rows (tenancy.py, rls.py).
THEOREM IsolationHolds ==
  ASSUME ~SharedDevice
  PROVE  Spec => []Isolated
<1>1. Init => Isolated
  BY DEF Init, Nothing, Isolated, ReadsAreTheTenants, ReadsStayInTenant, TextStaysInTenant
<1>2. TypeOK /\ Stands /\ Isolated /\ [Next]_vars => Isolated'
  <2> SUFFICES ASSUME TypeOK, Stands, Isolated, [Next]_vars PROVE Isolated'
    OBVIOUS
  <2>1. CASE OrmRead
    BY <2>1, OrmReadStep DEF Isolated
  <2>2. CASE TextRead
    BY <2>2, TextStep DEF Isolated
  <2>3. CASE \E t \in Tenant : Get(t)
    BY <2>3, GetStep DEF Isolated
  <2>4. CASE Next /\ ~OrmRead /\ ~TextRead /\ \A t \in Tenant : ~Get(t)
    BY <2>4, OtherStep DEF Isolated, ReadsAreTheTenants, ReadsStayInTenant, TextStaysInTenant
  <2>5. CASE UNCHANGED vars
    <3>1. UNCHANGED <<Ambient, InSystem, Own, Pg, Plain, InSession>> /\ Contents(handle)' = Contents(handle)
      BY <2>5, ContextStays DEF vars, Pg, Plain, InSession, Contents
    <3> QED
      BY <2>5, <3>1 DEF vars, Isolated, ReadsAreTheTenants, ReadsStayInTenant, TextStaysInTenant
  <2> QED
    BY <2>1, <2>2, <2>3, <2>4, <2>5
<1> QED
  BY <1>1, <1>2, ContextStands, PTL DEF Spec

\* An ORM select under a tenant returns exactly that tenant's rows, with the
\* caller's own pending writes (tenancy.py _inject_tenant_criteria, the policies).
THEOREM SelectsAreExact ==
  ASSUME ~SharedDevice
  PROVE  Spec => []ReadsAreTheTenants
<1>1. Isolated => ReadsAreTheTenants
  BY DEF Isolated
<1> QED
  BY <1>1, IsolationHolds, PTL

\* No select and no get returns a row of another tenant, not even in a session
\* that a system scope opened when the application filter is on (tenancy.py
\* _tenant_aware_get).
THEOREM ReadsAreConfined ==
  ASSUME ~SharedDevice
  PROVE  Spec => []ReadsStayInTenant
<1>1. Isolated => ReadsStayInTenant
  BY DEF Isolated
<1> QED
  BY <1>1, IsolationHolds, PTL

\* On PostgreSQL a text statement of a session returns rows of the session's
\* tenant only (rls.py _set_tenant_for_session).
THEOREM TextIsConfined ==
  ASSUME ~SharedDevice
  PROVE  Spec => []TextStaysInTenant
<1>1. Isolated => TextStaysInTenant
  BY DEF Isolated
<1> QED
  BY <1>1, IsolationHolds, PTL

-----------------------------------------------------------------------------
(***************************************************************************)
(* Schema migration and adoption: the theorems about SchemaMigration, for   *)
(* every set of beliefs, every release and any number of kills, failures,   *)
(* old writes, downgrades and restores.                                     *)
(*                                                                         *)
(* MigInv says what a recorded version keeps true of the catalog (Kept) and *)
(* how far a run is (JobFits): every stage of a later step leaves what an   *)
(* earlier one established, whatever fails or is killed between them.       *)
(* LivesStand and DeletionsStand say where a watermark row may come from:   *)
(* one life as long as no new lineage was forced, and a log that holds the  *)
(* deletions every copy of the database may still lack.                     *)
(***************************************************************************)

\* What SchemaMigration assumes of the constants its proofs depend on.
MigrationConstants ==
  /\ Dialects \subseteq {"sqlite", "postgresql"} /\ Releases \subseteq 0 .. Latest
  /\ MaxLives \in Nat \ {0} /\ "no genesis" \notin Belief

\* On PostgreSQL the table is there under row-level security.
Guarded(t, d) == OnPg => d.roles /\ t \in d.tables /\ t \in d.protected

\* What step n established and no later write undoes: its verify without the
\* NULLs that the previous release may write again (step 3: for the tables of its time).
Kept(n, d) ==
  /\ n = 1  => d.untenanted = {}
  /\ n = 2  => (OnPg => d.tables = {} \/ d.composite)
  /\ n = 3  => Guarded("base", d) /\ Guarded("beliefs", d)
  /\ n = 4  => d.idx["pending"] = "valid"
  /\ n = 5  => ("base" \in d.tables => d.idx["tenantUser"] = "valid" /\ "userIndex" \notin d.legacy)
  /\ n = 6  => d.col["jobPurpose"] # "absent" /\ Guarded("purpose", d)
  /\ n = 7  => d.col["evidencePurpose"] = "notnull" /\ d.col["snapshotPurpose"] = "notnull"
  /\ n = 8  => "audit" \in d.tables /\ Guarded("audit", d)
  /\ n = 9  => /\ d.col["summaryPurpose"] # "absent" /\ d.idx["tenantBelief"] = "valid"
               /\ "beliefIndex" \notin d.legacy
  /\ n = 10 => d.col["unions"] # "absent"
  /\ n = 11 => /\ "generations" \in d.tables /\ d.col["snapGeneration"] # "absent" /\ d.wmTable
               /\ Guarded("generations", d)
  /\ n = 12 => ("beliefs" \in d.tables =>
                  /\ d.col["globalId"] # "absent" /\ (OnPg => d.col["globalId"] = "notnull")
                  /\ d.idx["globalId"] = "valid")
  /\ n = 13 => "sync" \in d.tables /\ Guarded("sync", d)

\* The recorded versions have no gap, and what each of them stands for is there.
Coherent(d) ==
  /\ \A n \in d.versions : 1 .. n \subseteq d.versions
  /\ \A n \in d.versions : Kept(n, d)
  /\ "base" \in d.tables <=> "beliefs" \in d.tables
  /\ "base" \notin d.tables => d.untenanted = {} /\ d.idx["pending"] # "valid"

\* The lives the deletion log knows.
Known == {l \in Life : log[l] # NoGenesis}

\* Of every copy of the database: its row is of a minted life, and a copy
\* without one is as the archive was.
Dated(d) ==
  /\ d.wm # NoRow => d.wm.life \in 1 .. minted
  /\ d.beliefs \subseteq archive.beliefs
  /\ d.wm = NoRow => d.beliefs = archive.beliefs

\* The log of the row's life holds, above its watermark, every acknowledged deletion
\* the copy still lacks.
Accounted(d) ==
  d.wm # NoRow =>
    IF Known = {} THEN d.wm.applied = 0
    ELSE /\ d.wm.life \in Known
         /\ d.wm.applied <= Len(log[d.wm.life])
         /\ d.beliefs \cap deleted \subseteq Above(log[d.wm.life], d.wm.applied)

\* There is one life, and every copy of the database is accounted for by it.
OneLife ==
  /\ \A k, l \in Known : k = l
  /\ \A l \in Known : deleted \subseteq Above(log[l], 0)
  /\ Known = {} => deleted = {} /\ archive.wm = NoRow
  /\ Accounted(db) /\ Accounted(archive) /\ (bak # NoFile => Accounted(bak))
  /\ Known = {} /\ bak # NoFile /\ bak.wm # NoRow /\ db.wm # NoRow => bak.wm.life = db.wm.life
  /\ job.step \in Step /\ ~ OnPg /\ db.wm = NoRow => bak.wm = NoRow

\* With data in the archive and no forced lineage there is one life only.
DeletionsStand == archive.beliefs # {} /\ ~ forced => OneLife

-----------------------------------------------------------------------------
(* The steps: what verify asks, and which stages a step is made of.         *)

\* The constants are as SchemaMigration assumes them.
LEMMA ConstantsFit == MigrationConstants
  BY DialectAssumption, ReleaseAssumption, MigrationBounds, BeliefAssumption
     DEF MigrationConstants

\* The lives are positive numbers, 0 is none of them, and the steps are 1 to 13.
LEMMA LifeFacts ==
  ASSUME MigrationConstants
  PROVE  /\ Life \subseteq Nat /\ 1 \in Life /\ NoLife \notin Life
         /\ \A l \in Life : l \in 1 .. MaxLives
         /\ Latest = 13 /\ Step = 1 .. 13
<1>1. Latest = 13
  BY DEF Latest
<1>2. Step = 1 .. 13
  BY <1>1 DEF Step
<1>3. MaxLives \in Nat /\ MaxLives # 0
  BY DEF MigrationConstants
<1>4. Life = 1 .. MaxLives /\ NoLife = 0
  BY DEF Life, NoLife
<1> QED
  BY <1>1, <1>2, <1>3, <1>4

\* No database is the missing backup file.
LEMMA FileFacts ==
  /\ NoFile \notin Database
  /\ \A d \in Database : d # NoFile
<1>1. ASSUME NEW d \in Database PROVE d # NoFile
  <2>1. "tables" \in DOMAIN d
    BY DEF Database
  <2>2. "tables" \notin DOMAIN NoFile
    BY DEF NoFile
  <2> QED
    BY <2>1, <2>2
<1> QED
  BY <1>1

\* What verify asks of the catalog.
Backed(n, d) ==
  IF n = 3 THEN Posture({"base", "beliefs"}, d) ELSE Steps(n, [d EXCEPT !.unfilled = {}]).verified

\* Which step has which number.
LEMMA Chosen ==
  ASSUME NEW d
  PROVE  /\ Steps(1, d) = Step1Tenancy(d)
         /\ Steps(2, d) = Step2TenantPrimaryKeys(d)
         /\ Steps(3, d) = Step3RowLevelSecurity(d)
         /\ Steps(4, d) = Step4PendingJobsIndex(d)
         /\ Steps(5, d) = Step5TenantUserIndexes(d)
         /\ Steps(6, d) = Step6PurposeAuthorization(d)
         /\ Steps(7, d) = Step7SourcePurpose(d)
         /\ Steps(8, d) = Step8AccessAudit(d)
         /\ Steps(9, d) = Step9RecallVisibility(d)
         /\ Steps(10, d) = Step10DerivedProvenance(d)
         /\ Steps(11, d) = Step11DeletionReplay(d)
         /\ Steps(12, d) = Step12BeliefGlobalId(d)
         /\ Steps(13, d) = Step13SyncState(d)
  BY DEF Steps

\* What verify of each step asks.
LEMMA Verdicts ==
  ASSUME NEW d
  PROVE
    /\ Step1Tenancy(d).verified <=>
           (d.untenanted = {} /\ "tenant" \notin d.unfilled)
    /\ Step2TenantPrimaryKeys(d).verified <=>
           (OnPg => d.tables = {} \/ d.composite)
    /\ Step3RowLevelSecurity(d).verified <=>
           (Posture(Tables, d))
    /\ Step4PendingJobsIndex(d).verified <=>
           (d.idx["pending"] = "valid")
    /\ Step5TenantUserIndexes(d).verified <=>
           ("base" \in d.tables =>
              d.idx["tenantUser"] = "valid" /\ "userIndex" \notin d.legacy)
    /\ Step6PurposeAuthorization(d).verified <=>
           (d.col["jobPurpose"] # "absent" /\ Guarded("purpose", d))
    /\ Step7SourcePurpose(d).verified <=>
           (d.col["evidencePurpose"] = "notnull" /\ d.col["snapshotPurpose"] = "notnull")
    /\ Step8AccessAudit(d).verified <=>
           ("audit" \in d.tables /\ Guarded("audit", d))
    /\ Step9RecallVisibility(d).verified <=>
           (/\ d.col["summaryPurpose"] # "absent" /\ d.idx["tenantBelief"] = "valid"
              /\ "beliefIndex" \notin d.legacy)
    /\ Step10DerivedProvenance(d).verified <=>
           (d.col["unions"] # "absent")
    /\ Step11DeletionReplay(d).verified <=>
           (/\ "generations" \in d.tables /\ d.col["snapGeneration"] # "absent" /\ d.wmTable
              /\ Guarded("generations", d))
    /\ Step12BeliefGlobalId(d).verified <=>
           ("beliefs" \in d.tables =>
              /\ d.col["globalId"] # "absent" /\ "globalId" \notin d.unfilled
              /\ (OnPg => d.col["globalId"] = "notnull") /\ d.idx["globalId"] = "valid")
    /\ Step13SyncState(d).verified <=>
           ("sync" \in d.tables /\ Guarded("sync", d))
<1>1. Step1Tenancy(d).verified <=>
           (d.untenanted = {} /\ "tenant" \notin d.unfilled)
  BY DEF Step1Tenancy, AStep, ColumnsThere, TablesThere, Posture, Guarded
<1>2. Step2TenantPrimaryKeys(d).verified <=>
           (OnPg => d.tables = {} \/ d.composite)
  BY DEF Step2TenantPrimaryKeys, AStep, ColumnsThere, TablesThere, Posture, Guarded
<1>3. Step3RowLevelSecurity(d).verified <=>
           (Posture(Tables, d))
  BY DEF Step3RowLevelSecurity, AStep, ColumnsThere, TablesThere, Posture, Guarded
<1>4. Step4PendingJobsIndex(d).verified <=>
           (d.idx["pending"] = "valid")
  BY DEF Step4PendingJobsIndex, AStep, ColumnsThere, TablesThere, Posture, Guarded
<1>5. Step5TenantUserIndexes(d).verified <=>
           ("base" \in d.tables =>
              d.idx["tenantUser"] = "valid" /\ "userIndex" \notin d.legacy)
  BY DEF Step5TenantUserIndexes, AStep, ColumnsThere, TablesThere, Posture, Guarded
<1>6. Step6PurposeAuthorization(d).verified <=>
           (d.col["jobPurpose"] # "absent" /\ Guarded("purpose", d))
  BY DEF Step6PurposeAuthorization, AStep, ColumnsThere, TablesThere, Posture, Guarded
<1>7. Step7SourcePurpose(d).verified <=>
           (d.col["evidencePurpose"] = "notnull" /\ d.col["snapshotPurpose"] = "notnull")
  BY DEF Step7SourcePurpose, AStep, ColumnsThere, TablesThere, Posture, Guarded
<1>8. Step8AccessAudit(d).verified <=>
           ("audit" \in d.tables /\ Guarded("audit", d))
  BY DEF Step8AccessAudit, AStep, ColumnsThere, TablesThere, Posture, Guarded
<1>9. Step9RecallVisibility(d).verified <=>
           (/\ d.col["summaryPurpose"] # "absent" /\ d.idx["tenantBelief"] = "valid"
              /\ "beliefIndex" \notin d.legacy)
  BY DEF Step9RecallVisibility, AStep, ColumnsThere, TablesThere, Posture, Guarded
<1>10. Step10DerivedProvenance(d).verified <=>
           (d.col["unions"] # "absent")
  BY DEF Step10DerivedProvenance, AStep, ColumnsThere, TablesThere, Posture, Guarded
<1>11. Step11DeletionReplay(d).verified <=>
           (/\ "generations" \in d.tables /\ d.col["snapGeneration"] # "absent" /\ d.wmTable
              /\ Guarded("generations", d))
  BY DEF Step11DeletionReplay, AStep, ColumnsThere, TablesThere, Posture, Guarded
<1>12. Step12BeliefGlobalId(d).verified <=>
           ("beliefs" \in d.tables =>
              /\ d.col["globalId"] # "absent" /\ "globalId" \notin d.unfilled
              /\ (OnPg => d.col["globalId"] = "notnull") /\ d.idx["globalId"] = "valid")
  BY DEF Step12BeliefGlobalId, AStep, ColumnsThere, TablesThere, Posture, Guarded
<1>13. Step13SyncState(d).verified <=>
           ("sync" \in d.tables /\ Guarded("sync", d))
  BY DEF Step13SyncState, AStep, ColumnsThere, TablesThere, Posture, Guarded
<1> QED
  BY <1>1, <1>2, <1>3, <1>4, <1>5, <1>6, <1>7, <1>8, <1>9, <1>10, <1>11, <1>12, <1>13

\* In a database without NULLs what is kept is what verify asks; step 3 asks more.
LEMMA KeptIsVerified ==
  ASSUME NEW n \in Step, n # 3, NEW d, Kept(n, d), d.unfilled = {}
  PROVE  Steps(n, d).verified
<1>1. CASE n = 1
  BY <1>1, Chosen, Verdicts DEF Kept
<1>2. CASE n = 2
  BY <1>2, Chosen, Verdicts DEF Kept
<1>3. CASE n = 3
  BY <1>3, Chosen, Verdicts DEF Kept
<1>4. CASE n = 4
  BY <1>4, Chosen, Verdicts DEF Kept
<1>5. CASE n = 5
  BY <1>5, Chosen, Verdicts DEF Kept
<1>6. CASE n = 6
  BY <1>6, Chosen, Verdicts DEF Kept
<1>7. CASE n = 7
  BY <1>7, Chosen, Verdicts DEF Kept
<1>8. CASE n = 8
  BY <1>8, Chosen, Verdicts DEF Kept
<1>9. CASE n = 9
  BY <1>9, Chosen, Verdicts DEF Kept
<1>10. CASE n = 10
  BY <1>10, Chosen, Verdicts DEF Kept
<1>11. CASE n = 11
  BY <1>11, Chosen, Verdicts DEF Kept
<1>12. CASE n = 12
  BY <1>12, Chosen, Verdicts DEF Kept
<1>13. CASE n = 13
  BY <1>13, Chosen, Verdicts DEF Kept
<1> QED
  BY <1>1, <1>2, <1>3, <1>4, <1>5, <1>6, <1>7, <1>8, <1>9, <1>10, <1>11, <1>12, <1>13
     DEF Step, Latest

\* What is kept backs the recorded version.
LEMMA KeptIsBacked ==
  ASSUME NEW n \in Step, NEW d \in Database, Kept(n, d)
  PROVE  Backed(n, d)
<1> DEFINE e == [d EXCEPT !.unfilled = {}]
<1>0. /\ e.unfilled = {} /\ e.tables = d.tables /\ e.protected = d.protected
      /\ e.roles = d.roles /\ e.untenanted = d.untenanted /\ e.composite = d.composite
      /\ e.col = d.col /\ e.idx = d.idx /\ e.legacy = d.legacy /\ e.wmTable = d.wmTable
  BY DEF Database
<1> HIDE DEF e
<1>1. CASE n = 3
  BY <1>1 DEF Backed, Kept, Posture, Guarded
<1>2. CASE n # 3
  <2>1. Kept(n, e)
    BY <1>0 DEF Kept, Guarded
  <2> QED
    BY <1>0, <1>2, <2>1, KeptIsVerified DEF Backed, e
<1> QED
  BY <1>1, <1>2

\* What verify of a step asks is what is kept of it.
LEMMA VerifiedIsKept ==
  ASSUME NEW n \in Step, NEW d, Steps(n, d).verified
  PROVE  Kept(n, d)
<1>0. Posture(Tables, d) => Guarded("base", d) /\ Guarded("beliefs", d)
  BY DEF Posture, Guarded, Tables
<1>1. CASE n = 1
  <2>2. Steps(n, d) = Step1Tenancy(d)
    BY <1>1, Chosen
  <2>1. Step1Tenancy(d).verified
    BY <2>2
  <2>3. (d.untenanted = {} /\ "tenant" \notin d.unfilled)
    BY <2>1, Verdicts
  <2>4. Kept(1, d)
    BY <2>3 DEF Kept
  <2> QED
    BY <1>1, <2>4
<1>2. CASE n = 2
  <2>2. Steps(n, d) = Step2TenantPrimaryKeys(d)
    BY <1>2, Chosen
  <2>1. Step2TenantPrimaryKeys(d).verified
    BY <2>2
  <2>3. (OnPg => d.tables = {} \/ d.composite)
    BY <2>1, Verdicts
  <2>4. Kept(2, d)
    BY <2>3 DEF Kept
  <2> QED
    BY <1>2, <2>4
<1>3. CASE n = 3
  <2>2. Steps(n, d) = Step3RowLevelSecurity(d)
    BY <1>3, Chosen
  <2>1. Step3RowLevelSecurity(d).verified
    BY <2>2
  <2>3. (Posture(Tables, d))
    BY <2>1, Verdicts
  <2>4. Kept(3, d)
    BY <1>0, <2>3 DEF Kept
  <2> QED
    BY <1>3, <2>4
<1>4. CASE n = 4
  <2>2. Steps(n, d) = Step4PendingJobsIndex(d)
    BY <1>4, Chosen
  <2>1. Step4PendingJobsIndex(d).verified
    BY <2>2
  <2>3. (d.idx["pending"] = "valid")
    BY <2>1, Verdicts
  <2>4. Kept(4, d)
    BY <2>3 DEF Kept
  <2> QED
    BY <1>4, <2>4
<1>5. CASE n = 5
  <2>2. Steps(n, d) = Step5TenantUserIndexes(d)
    BY <1>5, Chosen
  <2>1. Step5TenantUserIndexes(d).verified
    BY <2>2
  <2>3. ("base" \in d.tables =>
              d.idx["tenantUser"] = "valid" /\ "userIndex" \notin d.legacy)
    BY <2>1, Verdicts
  <2>4. Kept(5, d)
    BY <2>3 DEF Kept
  <2> QED
    BY <1>5, <2>4
<1>6. CASE n = 6
  <2>2. Steps(n, d) = Step6PurposeAuthorization(d)
    BY <1>6, Chosen
  <2>1. Step6PurposeAuthorization(d).verified
    BY <2>2
  <2>3. (d.col["jobPurpose"] # "absent" /\ Guarded("purpose", d))
    BY <2>1, Verdicts
  <2>4. Kept(6, d)
    BY <2>3 DEF Kept
  <2> QED
    BY <1>6, <2>4
<1>7. CASE n = 7
  <2>2. Steps(n, d) = Step7SourcePurpose(d)
    BY <1>7, Chosen
  <2>1. Step7SourcePurpose(d).verified
    BY <2>2
  <2>3. (d.col["evidencePurpose"] = "notnull" /\ d.col["snapshotPurpose"] = "notnull")
    BY <2>1, Verdicts
  <2>4. Kept(7, d)
    BY <2>3 DEF Kept
  <2> QED
    BY <1>7, <2>4
<1>8. CASE n = 8
  <2>2. Steps(n, d) = Step8AccessAudit(d)
    BY <1>8, Chosen
  <2>1. Step8AccessAudit(d).verified
    BY <2>2
  <2>3. ("audit" \in d.tables /\ Guarded("audit", d))
    BY <2>1, Verdicts
  <2>4. Kept(8, d)
    BY <2>3 DEF Kept
  <2> QED
    BY <1>8, <2>4
<1>9. CASE n = 9
  <2>2. Steps(n, d) = Step9RecallVisibility(d)
    BY <1>9, Chosen
  <2>1. Step9RecallVisibility(d).verified
    BY <2>2
  <2>3. (/\ d.col["summaryPurpose"] # "absent" /\ d.idx["tenantBelief"] = "valid"
              /\ "beliefIndex" \notin d.legacy)
    BY <2>1, Verdicts
  <2>4. Kept(9, d)
    BY <2>3 DEF Kept
  <2> QED
    BY <1>9, <2>4
<1>10. CASE n = 10
  <2>2. Steps(n, d) = Step10DerivedProvenance(d)
    BY <1>10, Chosen
  <2>1. Step10DerivedProvenance(d).verified
    BY <2>2
  <2>3. (d.col["unions"] # "absent")
    BY <2>1, Verdicts
  <2>4. Kept(10, d)
    BY <2>3 DEF Kept
  <2> QED
    BY <1>10, <2>4
<1>11. CASE n = 11
  <2>2. Steps(n, d) = Step11DeletionReplay(d)
    BY <1>11, Chosen
  <2>1. Step11DeletionReplay(d).verified
    BY <2>2
  <2>3. (/\ "generations" \in d.tables /\ d.col["snapGeneration"] # "absent" /\ d.wmTable
              /\ Guarded("generations", d))
    BY <2>1, Verdicts
  <2>4. Kept(11, d)
    BY <2>3 DEF Kept
  <2> QED
    BY <1>11, <2>4
<1>12. CASE n = 12
  <2>2. Steps(n, d) = Step12BeliefGlobalId(d)
    BY <1>12, Chosen
  <2>1. Step12BeliefGlobalId(d).verified
    BY <2>2
  <2>3. ("beliefs" \in d.tables =>
              /\ d.col["globalId"] # "absent" /\ "globalId" \notin d.unfilled
              /\ (OnPg => d.col["globalId"] = "notnull") /\ d.idx["globalId"] = "valid")
    BY <2>1, Verdicts
  <2>4. Kept(12, d)
    BY <2>3 DEF Kept
  <2> QED
    BY <1>12, <2>4
<1>13. CASE n = 13
  <2>2. Steps(n, d) = Step13SyncState(d)
    BY <1>13, Chosen
  <2>1. Step13SyncState(d).verified
    BY <2>2
  <2>3. ("sync" \in d.tables /\ Guarded("sync", d))
    BY <2>1, Verdicts
  <2>4. Kept(13, d)
    BY <2>3 DEF Kept
  <2> QED
    BY <1>13, <2>4
<1> QED
  BY <1>1, <1>2, <1>3, <1>4, <1>5, <1>6, <1>7, <1>8, <1>9, <1>10, <1>11, <1>12, <1>13
     DEF Step, Latest

\* The stages a step may be made of.
Ops == {"tenantColumns", "rebuild", "column", "add", "fill", "seal", "reseal", "compositeKey",
        "roles", "wmTable", "mint", "protect", "index", "dropIndex", "table"}

\* A stage: what it does, and what it does it to.
Stage == [op : Ops, on : Columns \cup Indexes \cup Legacy
                      \cup Tables \cup {""} \cup SUBSET Tables]

\* The stages of step n touch what step n made, or what it replaces.
Fits(s, n) ==
  \/ s.op = "tenantColumns" /\ n = 1
  \/ s.op = "rebuild" /\ n = 1 /\ s.on \in {"base", "beliefs"}
  \/ s.op \in {"column", "add"} /\ s.on \in Columns \ {"tenant"} /\ n = ColumnSince(s.on)
  \/ s.op \in {"fill", "seal", "reseal"} /\ s.on \in Columns
  \/ s.op \in {"compositeKey", "roles", "wmTable", "mint"}
  \/ s.op = "protect" /\ s.on \subseteq Tables
  \/ s.op = "index" /\ s.on \in Indexes
  \/ s.op = "dropIndex" /\ s.on \in Legacy
  \/ s.op = "table" /\ s.on \in Tables \ {"base", "beliefs"} /\ n > 3

\* A list of stages of step n.
Todo(q, n) == q \in Seq(Stage) /\ \A i \in DOMAIN q : Fits(q[i], n)

\* Every added column came with one of the steps.
LEMMA ColumnAges ==
  /\ ColumnSince("tenant") = 1 /\ ColumnSince("jobPurpose") = 6
  /\ ColumnSince("evidencePurpose") = 7 /\ ColumnSince("snapshotPurpose") = 7
  /\ ColumnSince("summaryPurpose") = 9 /\ ColumnSince("unions") = 10
  /\ ColumnSince("snapGeneration") = 11 /\ ColumnSince("globalId") = 12
<1>1. ColumnSince("tenant") = 1
  BY DEF ColumnSince
<1>2. ColumnSince("jobPurpose") = 6
  BY DEF ColumnSince
<1>3. ColumnSince("evidencePurpose") = 7
  BY DEF ColumnSince
<1>4. ColumnSince("snapshotPurpose") = 7
  BY DEF ColumnSince
<1>5. ColumnSince("summaryPurpose") = 9
  BY DEF ColumnSince
<1>6. ColumnSince("unions") = 10
  BY DEF ColumnSince
<1>7. ColumnSince("snapGeneration") = 11
  BY DEF ColumnSince
<1>8. ColumnSince("globalId") = 12
  BY DEF ColumnSince
<1> QED
  BY <1>1, <1>2, <1>3, <1>4, <1>5, <1>6, <1>7, <1>8

\* The short lists of stages are lists of stages.
LEMMA ListIsTodo ==
  ASSUME NEW n
  PROVE  /\ Todo(<<>>, n)
         /\ \A a \in Stage : Fits(a, n) => Todo(<<a>>, n)
         /\ \A a, b \in Stage : Fits(a, n) /\ Fits(b, n) => Todo(<<a, b>>, n)
         /\ \A a, b, c \in Stage :
              Fits(a, n) /\ Fits(b, n) /\ Fits(c, n) => Todo(<<a, b, c>>, n)
         /\ \A a, b, c, d \in Stage :
              Fits(a, n) /\ Fits(b, n) /\ Fits(c, n) /\ Fits(d, n) => Todo(<<a, b, c, d>>, n)
         /\ \A a, b, c, d, e \in Stage :
              Fits(a, n) /\ Fits(b, n) /\ Fits(c, n) /\ Fits(d, n) /\ Fits(e, n)
                => Todo(<<a, b, c, d, e>>, n)
  BY DEF Todo

\* The stages of a step fit the step.
LEMMA StagesFit ==
  ASSUME NEW n \in Step, NEW d
  PROVE  Todo(Steps(n, d).stages, n)
<1>1. CASE n = 1
  <2>1. Step1Tenancy(d).stages = <<Do("tenantColumns", ""), Do("fill", "tenant"), Do("seal", "tenant")>>
        \/ Step1Tenancy(d).stages = <<Do("rebuild", "beliefs"), Do("rebuild", "base")>>
    BY DEF Step1Tenancy, AStep
  <2>4. Steps(n, d) = Step1Tenancy(d)
    BY <1>1, Chosen
  <2>2. /\ Do("tenantColumns", "") \in Stage
        /\ Do("fill", "tenant") \in Stage
        /\ Do("seal", "tenant") \in Stage
        /\ Do("rebuild", "beliefs") \in Stage
        /\ Do("rebuild", "base") \in Stage
    BY DEF Do, Stage, Ops, Columns, Indexes, Legacy, Tables
  <2>3. /\ Fits(Do("tenantColumns", ""), n)
        /\ Fits(Do("fill", "tenant"), n)
        /\ Fits(Do("seal", "tenant"), n)
        /\ Fits(Do("rebuild", "beliefs"), n)
        /\ Fits(Do("rebuild", "base"), n)
    BY <1>1, ColumnAges DEF Do, Fits, Columns, Indexes, Legacy, Tables
  <2> QED
    BY <2>1, <2>2, <2>3, <2>4, ListIsTodo
<1>2. CASE n = 2
  <2>1. Step2TenantPrimaryKeys(d).stages = <<Do("compositeKey", "")>>
        \/ Step2TenantPrimaryKeys(d).stages = <<>>
    BY DEF Step2TenantPrimaryKeys, AStep
  <2>4. Steps(n, d) = Step2TenantPrimaryKeys(d)
    BY <1>2, Chosen
  <2>2. /\ Do("compositeKey", "") \in Stage
    BY DEF Do, Stage, Ops, Columns, Indexes, Legacy, Tables
  <2>3. /\ Fits(Do("compositeKey", ""), n)
    BY <1>2, ColumnAges DEF Do, Fits, Columns, Indexes, Legacy, Tables
  <2> QED
    BY <2>1, <2>2, <2>3, <2>4, ListIsTodo
<1>3. CASE n = 3
  <2>1. Step3RowLevelSecurity(d).stages = <<Do("roles", ""), Do("protect", Tables)>>
        \/ Step3RowLevelSecurity(d).stages = <<>>
    BY DEF Step3RowLevelSecurity, AStep
  <2>4. Steps(n, d) = Step3RowLevelSecurity(d)
    BY <1>3, Chosen
  <2>2. /\ Do("roles", "") \in Stage
        /\ Do("protect", Tables) \in Stage
    BY DEF Do, Stage, Ops, Columns, Indexes, Legacy, Tables
  <2>3. /\ Fits(Do("roles", ""), n)
        /\ Fits(Do("protect", Tables), n)
    BY <1>3, ColumnAges DEF Do, Fits, Columns, Indexes, Legacy, Tables
  <2> QED
    BY <2>1, <2>2, <2>3, <2>4, ListIsTodo
<1>4. CASE n = 4
  <2>1. Step4PendingJobsIndex(d).stages = <<Do("index", "pending")>>
    BY DEF Step4PendingJobsIndex, AStep
  <2>4. Steps(n, d) = Step4PendingJobsIndex(d)
    BY <1>4, Chosen
  <2>2. /\ Do("index", "pending") \in Stage
    BY DEF Do, Stage, Ops, Columns, Indexes, Legacy, Tables
  <2>3. /\ Fits(Do("index", "pending"), n)
    BY <1>4, ColumnAges DEF Do, Fits, Columns, Indexes, Legacy, Tables
  <2> QED
    BY <2>1, <2>2, <2>3, <2>4, ListIsTodo
<1>5. CASE n = 5
  <2>1. Step5TenantUserIndexes(d).stages = <<Do("index", "tenantUser"), Do("dropIndex", "userIndex")>>
    BY DEF Step5TenantUserIndexes, AStep
  <2>4. Steps(n, d) = Step5TenantUserIndexes(d)
    BY <1>5, Chosen
  <2>2. /\ Do("index", "tenantUser") \in Stage
        /\ Do("dropIndex", "userIndex") \in Stage
    BY DEF Do, Stage, Ops, Columns, Indexes, Legacy, Tables
  <2>3. /\ Fits(Do("index", "tenantUser"), n)
        /\ Fits(Do("dropIndex", "userIndex"), n)
    BY <1>5, ColumnAges DEF Do, Fits, Columns, Indexes, Legacy, Tables
  <2> QED
    BY <2>1, <2>2, <2>3, <2>4, ListIsTodo
<1>6. CASE n = 6
  <2>1. Step6PurposeAuthorization(d).stages = <<Do("table", "purpose"), Do("column", "jobPurpose"), Do("protect", {"purpose"})>>
    BY DEF Step6PurposeAuthorization, AStep
  <2>4. Steps(n, d) = Step6PurposeAuthorization(d)
    BY <1>6, Chosen
  <2>2. /\ Do("table", "purpose") \in Stage
        /\ Do("column", "jobPurpose") \in Stage
        /\ Do("protect", {"purpose"}) \in Stage
    BY DEF Do, Stage, Ops, Columns, Indexes, Legacy, Tables
  <2>3. /\ Fits(Do("table", "purpose"), n)
        /\ Fits(Do("column", "jobPurpose"), n)
        /\ Fits(Do("protect", {"purpose"}), n)
    BY <1>6, ColumnAges DEF Do, Fits, Columns, Indexes, Legacy, Tables
  <2> QED
    BY <2>1, <2>2, <2>3, <2>4, ListIsTodo
<1>7. CASE n = 7
  <2>1. Step7SourcePurpose(d).stages = <<Do("column", "evidencePurpose"), Do("column", "snapshotPurpose")>>
    BY DEF Step7SourcePurpose, AStep
  <2>4. Steps(n, d) = Step7SourcePurpose(d)
    BY <1>7, Chosen
  <2>2. /\ Do("column", "evidencePurpose") \in Stage
        /\ Do("column", "snapshotPurpose") \in Stage
    BY DEF Do, Stage, Ops, Columns, Indexes, Legacy, Tables
  <2>3. /\ Fits(Do("column", "evidencePurpose"), n)
        /\ Fits(Do("column", "snapshotPurpose"), n)
    BY <1>7, ColumnAges DEF Do, Fits, Columns, Indexes, Legacy, Tables
  <2> QED
    BY <2>1, <2>2, <2>3, <2>4, ListIsTodo
<1>8. CASE n = 8
  <2>1. Step8AccessAudit(d).stages = <<Do("table", "audit"), Do("protect", {"audit"})>>
    BY DEF Step8AccessAudit, AStep
  <2>4. Steps(n, d) = Step8AccessAudit(d)
    BY <1>8, Chosen
  <2>2. /\ Do("table", "audit") \in Stage
        /\ Do("protect", {"audit"}) \in Stage
    BY DEF Do, Stage, Ops, Columns, Indexes, Legacy, Tables
  <2>3. /\ Fits(Do("table", "audit"), n)
        /\ Fits(Do("protect", {"audit"}), n)
    BY <1>8, ColumnAges DEF Do, Fits, Columns, Indexes, Legacy, Tables
  <2> QED
    BY <2>1, <2>2, <2>3, <2>4, ListIsTodo
<1>9. CASE n = 9
  <2>1. Step9RecallVisibility(d).stages = <<Do("index", "tenantBelief"), Do("dropIndex", "beliefIndex"), Do("column", "summaryPurpose")>>
    BY DEF Step9RecallVisibility, AStep
  <2>4. Steps(n, d) = Step9RecallVisibility(d)
    BY <1>9, Chosen
  <2>2. /\ Do("index", "tenantBelief") \in Stage
        /\ Do("dropIndex", "beliefIndex") \in Stage
        /\ Do("column", "summaryPurpose") \in Stage
    BY DEF Do, Stage, Ops, Columns, Indexes, Legacy, Tables
  <2>3. /\ Fits(Do("index", "tenantBelief"), n)
        /\ Fits(Do("dropIndex", "beliefIndex"), n)
        /\ Fits(Do("column", "summaryPurpose"), n)
    BY <1>9, ColumnAges DEF Do, Fits, Columns, Indexes, Legacy, Tables
  <2> QED
    BY <2>1, <2>2, <2>3, <2>4, ListIsTodo
<1>10. CASE n = 10
  <2>1. Step10DerivedProvenance(d).stages = <<Do("column", "unions")>>
    BY DEF Step10DerivedProvenance, AStep
  <2>4. Steps(n, d) = Step10DerivedProvenance(d)
    BY <1>10, Chosen
  <2>2. /\ Do("column", "unions") \in Stage
    BY DEF Do, Stage, Ops, Columns, Indexes, Legacy, Tables
  <2>3. /\ Fits(Do("column", "unions"), n)
    BY <1>10, ColumnAges DEF Do, Fits, Columns, Indexes, Legacy, Tables
  <2> QED
    BY <2>1, <2>2, <2>3, <2>4, ListIsTodo
<1>11. CASE n = 11
  <2>1. Step11DeletionReplay(d).stages = <<Do("table", "generations"), Do("column", "snapGeneration"), Do("wmTable", ""), Do("mint", ""), Do("protect", {"generations"})>>
    BY DEF Step11DeletionReplay, AStep
  <2>4. Steps(n, d) = Step11DeletionReplay(d)
    BY <1>11, Chosen
  <2>2. /\ Do("table", "generations") \in Stage
        /\ Do("column", "snapGeneration") \in Stage
        /\ Do("wmTable", "") \in Stage
        /\ Do("mint", "") \in Stage
        /\ Do("protect", {"generations"}) \in Stage
    BY DEF Do, Stage, Ops, Columns, Indexes, Legacy, Tables
  <2>3. /\ Fits(Do("table", "generations"), n)
        /\ Fits(Do("column", "snapGeneration"), n)
        /\ Fits(Do("wmTable", ""), n)
        /\ Fits(Do("mint", ""), n)
        /\ Fits(Do("protect", {"generations"}), n)
    BY <1>11, ColumnAges DEF Do, Fits, Columns, Indexes, Legacy, Tables
  <2> QED
    BY <2>1, <2>2, <2>3, <2>4, ListIsTodo
<1>12. CASE n = 12
  <2>1. Step12BeliefGlobalId(d).stages = <<Do("column", "globalId"), Do("fill", "globalId"), Do("reseal", "globalId"), Do("index", "globalId")>>
    BY DEF Step12BeliefGlobalId, AStep
  <2>4. Steps(n, d) = Step12BeliefGlobalId(d)
    BY <1>12, Chosen
  <2>2. /\ Do("column", "globalId") \in Stage
        /\ Do("fill", "globalId") \in Stage
        /\ Do("reseal", "globalId") \in Stage
        /\ Do("index", "globalId") \in Stage
    BY DEF Do, Stage, Ops, Columns, Indexes, Legacy, Tables
  <2>3. /\ Fits(Do("column", "globalId"), n)
        /\ Fits(Do("fill", "globalId"), n)
        /\ Fits(Do("reseal", "globalId"), n)
        /\ Fits(Do("index", "globalId"), n)
    BY <1>12, ColumnAges DEF Do, Fits, Columns, Indexes, Legacy, Tables
  <2> QED
    BY <2>1, <2>2, <2>3, <2>4, ListIsTodo
<1>13. CASE n = 13
  <2>1. Step13SyncState(d).stages = <<Do("table", "sync"), Do("protect", {"sync"})>>
    BY DEF Step13SyncState, AStep
  <2>4. Steps(n, d) = Step13SyncState(d)
    BY <1>13, Chosen
  <2>2. /\ Do("table", "sync") \in Stage
        /\ Do("protect", {"sync"}) \in Stage
    BY DEF Do, Stage, Ops, Columns, Indexes, Legacy, Tables
  <2>3. /\ Fits(Do("table", "sync"), n)
        /\ Fits(Do("protect", {"sync"}), n)
    BY <1>13, ColumnAges DEF Do, Fits, Columns, Indexes, Legacy, Tables
  <2> QED
    BY <2>1, <2>2, <2>3, <2>4, ListIsTodo
<1> QED
  BY <1>1, <1>2, <1>3, <1>4, <1>5, <1>6, <1>7, <1>8, <1>9, <1>10, <1>11, <1>12, <1>13
     DEF Step, Latest

\* What a column stage stands for fits the step.
LEMMA ColumnsFit ==
  ASSUME NEW n, NEW c \in Columns \ {"tenant"}, n = ColumnSince(c), NEW d
  PROVE  Todo(ColumnStages(c, d), n)
<1>1. Do("add", c) \in Stage /\ Do("fill", c) \in Stage /\ Do("seal", c) \in Stage
  BY DEF Do, Stage, Ops
<1>2. Fits(Do("add", c), n) /\ Fits(Do("fill", c), n) /\ Fits(Do("seal", c), n)
  BY DEF Do, Fits
<1>3. \/ ColumnStages(c, d) = <<>>
      \/ ColumnStages(c, d) = <<Do("add", c)>>
      \/ ColumnStages(c, d) = <<Do("add", c), Do("seal", c)>>
      \/ ColumnStages(c, d) = <<Do("add", c), Do("fill", c), Do("seal", c)>>
  BY DEF ColumnStages
<1> QED
  BY <1>1, <1>2, <1>3, ListIsTodo

\* The first stage and the rest of a list.
LEMMA TodoRests ==
  ASSUME NEW n, NEW q, Todo(q, n), q # <<>>
  PROVE  /\ Head(q) \in Stage /\ Fits(Head(q), n)
         /\ Todo(Tail(q), n)
         /\ \A p : Todo(p, n) => Todo(p \o Tail(q), n)
<1>1. /\ q \in Seq(Stage) /\ \A i \in DOMAIN q : Fits(q[i], n)
  BY DEF Todo
<1>2. /\ Head(q) = q[1] /\ 1 \in DOMAIN q /\ Head(q) \in Stage
  BY <1>1
<1>3. /\ Tail(q) \in Seq(Stage)
      /\ \A i \in DOMAIN Tail(q) : i + 1 \in DOMAIN q /\ Tail(q)[i] = q[i + 1]
  BY <1>1
<1>4. Todo(Tail(q), n)
  BY <1>1, <1>3 DEF Todo
<1>5. ASSUME NEW p, Todo(p, n) PROVE Todo(p \o Tail(q), n)
  <2> DEFINE t == Tail(q)
  <2>1. p \in Seq(Stage) /\ t \in Seq(Stage)
    BY <1>4, <1>5 DEF Todo
  <2>2. \A i \in DOMAIN p : Fits(p[i], n)
    BY <1>5 DEF Todo
  <2>3. \A i \in DOMAIN t : Fits(t[i], n)
    BY <1>4 DEF Todo
  <2> HIDE DEF t
  <2>4. p \o t \in Seq(Stage)
    BY <2>1
  <2>5. \A i \in DOMAIN (p \o t) :
          \/ i \in DOMAIN p /\ (p \o t)[i] = p[i]
          \/ i - Len(p) \in DOMAIN t /\ (p \o t)[i] = t[i - Len(p)]
    BY <2>1
  <2> QED
    BY <2>2, <2>3, <2>4, <2>5 DEF Todo, t
<1> QED
  BY <1>1, <1>2, <1>4, <1>5

-----------------------------------------------------------------------------
(* The stages: what one durable stage does to the catalog.                  *)

\* One state of the catalog against a later one: nothing that verify of a step
\* below k asks for is lost.
Grows(k, d, e) ==
  /\ d.tables \subseteq e.tables /\ d.protected \subseteq e.protected
  /\ d.roles => e.roles
  /\ d.composite => e.composite
  /\ d.wmTable => e.wmTable
  /\ e.untenanted \subseteq d.untenanted /\ e.legacy \subseteq d.legacy
  /\ \A c \in Columns : ColumnSince(c) < k => e.col[c] \in {d.col[c], "notnull"}
  /\ \A i \in Indexes : d.idx[i] = "valid" => e.idx[i] = "valid"
  /\ "base" \in e.tables => "base" \in d.tables
  /\ "beliefs" \in e.tables => "beliefs" \in d.tables
  /\ d.tables # e.tables /\ OnPg => d.tables # {} \/ k < 3

\* What is kept of a step below k is kept.
LEMMA GrowsKeeps ==
  ASSUME NEW k \in Nat, NEW m \in Step, m < k, NEW d, NEW e, Grows(k, d, e), Kept(m, d)
  PROVE  Kept(m, e)
<1>0. /\ d.tables \subseteq e.tables /\ d.protected \subseteq e.protected
      /\ d.roles => e.roles
      /\ d.composite => e.composite
      /\ d.wmTable => e.wmTable
      /\ e.untenanted \subseteq d.untenanted /\ e.legacy \subseteq d.legacy
      /\ \A c \in Columns : ColumnSince(c) < k => e.col[c] \in {d.col[c], "notnull"}
      /\ \A i \in Indexes : d.idx[i] = "valid" => e.idx[i] = "valid"
      /\ "base" \in e.tables => "base" \in d.tables
      /\ "beliefs" \in e.tables => "beliefs" \in d.tables
      /\ d.tables # e.tables /\ OnPg => d.tables # {} \/ k < 3
  BY DEF Grows
<1>1. CASE m = 1
  <2>1. Kept(1, d)
    BY <1>1
  <2>2. Kept(1, e)
    BY <1>1, <1>0, <2>1, ColumnAges DEF Kept, Guarded, Columns, Indexes
  <2> QED
    BY <1>1, <2>2
<1>2. CASE m = 2
  <2>1. Kept(2, d)
    BY <1>2
  <2>2. Kept(2, e)
    BY <1>2, <1>0, <2>1, ColumnAges DEF Kept, Guarded, Columns, Indexes
  <2> QED
    BY <1>2, <2>2
<1>3. CASE m = 3
  <2>1. Kept(3, d)
    BY <1>3
  <2>2. Kept(3, e)
    BY <1>3, <1>0, <2>1, ColumnAges DEF Kept, Guarded, Columns, Indexes
  <2> QED
    BY <1>3, <2>2
<1>4. CASE m = 4
  <2>1. Kept(4, d)
    BY <1>4
  <2>2. Kept(4, e)
    BY <1>4, <1>0, <2>1, ColumnAges DEF Kept, Guarded, Columns, Indexes
  <2> QED
    BY <1>4, <2>2
<1>5. CASE m = 5
  <2>1. Kept(5, d)
    BY <1>5
  <2>2. Kept(5, e)
    BY <1>5, <1>0, <2>1, ColumnAges DEF Kept, Guarded, Columns, Indexes
  <2> QED
    BY <1>5, <2>2
<1>6. CASE m = 6
  <2>1. Kept(6, d)
    BY <1>6
  <2>2. Kept(6, e)
    BY <1>6, <1>0, <2>1, ColumnAges DEF Kept, Guarded, Columns, Indexes
  <2> QED
    BY <1>6, <2>2
<1>7. CASE m = 7
  <2>1. Kept(7, d)
    BY <1>7
  <2>2. Kept(7, e)
    BY <1>7, <1>0, <2>1, ColumnAges DEF Kept, Guarded, Columns, Indexes
  <2> QED
    BY <1>7, <2>2
<1>8. CASE m = 8
  <2>1. Kept(8, d)
    BY <1>8
  <2>2. Kept(8, e)
    BY <1>8, <1>0, <2>1, ColumnAges DEF Kept, Guarded, Columns, Indexes
  <2> QED
    BY <1>8, <2>2
<1>9. CASE m = 9
  <2>1. Kept(9, d)
    BY <1>9
  <2>2. Kept(9, e)
    BY <1>9, <1>0, <2>1, ColumnAges DEF Kept, Guarded, Columns, Indexes
  <2> QED
    BY <1>9, <2>2
<1>10. CASE m = 10
  <2>1. Kept(10, d)
    BY <1>10
  <2>2. Kept(10, e)
    BY <1>10, <1>0, <2>1, ColumnAges DEF Kept, Guarded, Columns, Indexes
  <2> QED
    BY <1>10, <2>2
<1>11. CASE m = 11
  <2>1. Kept(11, d)
    BY <1>11
  <2>2. Kept(11, e)
    BY <1>11, <1>0, <2>1, ColumnAges DEF Kept, Guarded, Columns, Indexes
  <2> QED
    BY <1>11, <2>2
<1>12. CASE m = 12
  <2>1. Kept(12, d)
    BY <1>12
  <2>2. Kept(12, e)
    BY <1>12, <1>0, <2>1, ColumnAges DEF Kept, Guarded, Columns, Indexes
  <2> QED
    BY <1>12, <2>2
<1>13. CASE m = 13
  <2>1. Kept(13, d)
    BY <1>13
  <2>2. Kept(13, e)
    BY <1>13, <1>0, <2>1, ColumnAges DEF Kept, Guarded, Columns, Indexes
  <2> QED
    BY <1>13, <2>2
<1> QED
  BY <1>1, <1>2, <1>3, <1>4, <1>5, <1>6, <1>7, <1>8, <1>9, <1>10, <1>11, <1>12, <1>13
     DEF Step, Latest

\* A database that grew above its last recorded version is coherent still.
LEMMA GrowsCoheres ==
  ASSUME NEW k \in Nat, NEW d \in Database, NEW e \in Database, Coherent(d), Grows(k, d, e),
         e.versions = d.versions, \A m \in d.versions : m < k,
         "base" \notin e.tables => e.idx["pending"] # "valid"
  PROVE  Coherent(e)
<1>1. /\ \A n \in d.versions : 1 .. n \subseteq d.versions
      /\ \A n \in d.versions : Kept(n, d)
      /\ "base" \in d.tables <=> "beliefs" \in d.tables
      /\ "base" \notin d.tables => d.untenanted = {}
  BY DEF Coherent
<1>2. d.versions \subseteq Step
  BY DEF Database
<1>3. \A n \in e.versions : Kept(n, e)
  BY <1>1, <1>2, GrowsKeeps
<1>4. /\ d.tables \subseteq e.tables
      /\ e.untenanted \subseteq d.untenanted
      /\ "base" \in e.tables => "base" \in d.tables
      /\ "beliefs" \in e.tables => "beliefs" \in d.tables
  BY DEF Grows
<1>5. "base" \in e.tables <=> "beliefs" \in e.tables
  BY <1>1, <1>4
<1>6. "base" \notin e.tables => e.untenanted = {}
  BY <1>1, <1>4
<1> QED
  BY <1>1, <1>3, <1>5, <1>6 DEF Coherent

\* The parts of a database.
LEMMA Parts ==
  ASSUME NEW d \in Database
  PROVE  /\ d.tables \subseteq Tables /\ d.protected \subseteq Tables /\ d.roles \in BOOLEAN
         /\ d.untenanted \subseteq {"base", "beliefs"} /\ d.composite \in BOOLEAN
         /\ d.col \in [Columns -> {"absent", "nullable", "notnull"}] /\ d.unfilled \subseteq Columns
         /\ d.idx \in [Indexes -> {"absent", "invalid", "valid"}] /\ d.legacy \subseteq Legacy
         /\ d.temp \subseteq {"base", "beliefs"} /\ d.versions \subseteq Step /\ d.wmTable \in BOOLEAN
         /\ d.wm \in [life : Life \cup {NoLife}, applied : Nat] /\ d.beliefs \subseteq Belief
  BY DEF Database

\* What a stage leaves as it is.
Rests(d, e) ==
  /\ e.versions = d.versions /\ e.wm = d.wm /\ e.beliefs = d.beliefs
  /\ d.tables \subseteq e.tables

\* The tenant columns: step 1 on PostgreSQL.
LEMMA AddTenantColumnsDoes ==
  ASSUME NEW d \in Database
  PROVE  LET e == AddTenantColumns(d) IN
         e \in Database /\ Rests(d, e) /\ Grows(1, d, e) /\ e.idx = d.idx /\ e.tables = d.tables
<1> DEFINE e == AddTenantColumns(d)
<1>0. "tenant" \in Columns
  BY DEF Columns
<1>1. /\ e.tables = d.tables /\ e.protected = d.protected
      /\ e.untenanted = {} /\ e.legacy = d.legacy /\ e.temp = d.temp
      /\ e.idx = d.idx /\ e.versions = d.versions /\ e.wm = d.wm /\ e.beliefs = d.beliefs
      /\ e.col = [d.col EXCEPT !["tenant"] = "nullable"]
      /\ e.unfilled \subseteq d.unfilled \cup {"tenant"}
      /\ e.roles = d.roles /\ e.composite = d.composite /\ e.wmTable = d.wmTable
  BY DEF AddTenantColumns, Database
<1>2. e \in Database
  <2>1. /\ e.col \in [Columns -> {"absent", "nullable", "notnull"}] /\ e.unfilled \subseteq Columns
    BY <1>0, <1>1, Parts
  <2> QED
    BY <1>1, <2>1 DEF Database, AddTenantColumns
<1> HIDE DEF e
<1>3. Grows(1, d, e)
  <2>1. \A c \in Columns : ColumnSince(c) < 1 => e.col[c] \in {d.col[c], "notnull"}
    BY ColumnAges DEF Columns
  <2> QED
    BY <1>1, <2>1 DEF Grows
<1>4. Rests(d, e)
  BY <1>1 DEF Rests
<1> QED
  BY <1>1, <1>2, <1>3, <1>4 DEF e

\* The rebuild of a table: step 1 on SQLite.
LEMMA RebuildTableDoes ==
  ASSUME NEW d \in Database, NEW t \in {"base", "beliefs"}
  PROVE  LET e == RebuildTable(t, d) IN
         e \in Database /\ Rests(d, e) /\ Grows(1, d, e) /\ e.tables = d.tables
<1> DEFINE e == RebuildTable(t, d)
<1>1. /\ e.tables = d.tables /\ e.protected = d.protected
      /\ e.untenanted \subseteq d.untenanted /\ e.legacy \subseteq d.legacy /\ e.temp = d.temp
      /\ e.versions = d.versions /\ e.wm = d.wm /\ e.beliefs = d.beliefs
      /\ e.unfilled = d.unfilled
      /\ e.roles = d.roles /\ e.composite = d.composite /\ e.wmTable = d.wmTable
  BY DEF RebuildTable, Database
<1>2. /\ e.idx \in [Indexes -> {"absent", "invalid", "valid"}]
      /\ \A i \in Indexes : e.idx[i] \in {d.idx[i], "valid"}
  <2>1. e.idx = [i \in Indexes |-> IF t = "base" /\ i # "globalId" THEN "valid" ELSE d.idx[i]]
    BY DEF RebuildTable, Database
  <2>2. \A i \in Indexes : d.idx[i] \in {"absent", "invalid", "valid"}
    BY Parts
  <2> HIDE DEF e
  <2> QED
    BY <2>1, <2>2
<1>3. e.col \in [Columns -> {"absent", "nullable", "notnull"}]
  <2>1. e.col = [c \in Columns |->
                   IF c \notin (IF t = "beliefs" THEN {"globalId"} ELSE Columns \ {"globalId"})
                   THEN d.col[c] ELSE IF c = "snapGeneration" THEN "nullable" ELSE "notnull"]
    BY DEF RebuildTable, Database
  <2>2. \A i \in Columns : d.col[i] \in {"absent", "nullable", "notnull"}
    BY Parts
  <2> HIDE DEF e
  <2> QED
    BY <2>1, <2>2
<1>4. e \in Database
  <2>0. e = [d EXCEPT !.untenanted = e.untenanted, !.col = e.col, !.idx = e.idx, !.legacy = e.legacy]
    BY DEF RebuildTable, Database
  <2>1. /\ e.untenanted \subseteq {"base", "beliefs"} /\ e.legacy \subseteq Legacy
    BY <1>1, Parts
  <2> HIDE DEF e
  <2> QED
    BY <1>2, <1>3, <2>0, <2>1 DEF Database
<1> HIDE DEF e
<1>5. Grows(1, d, e)
  <2>1. \A c \in Columns : ColumnSince(c) < 1 => e.col[c] \in {d.col[c], "notnull"}
    BY ColumnAges DEF Columns
  <2> QED
    BY <1>1, <1>2, <2>1 DEF Grows
<1>6. Rests(d, e)
  BY <1>1 DEF Rests
<1> QED
  BY <1>1, <1>4, <1>5, <1>6 DEF e

\* An added column.
LEMMA AddColumnDoes ==
  ASSUME NEW d \in Database, NEW c \in Columns
  PROVE  LET e == AddColumn(c, d) IN
         /\ e \in Database /\ Rests(d, e) /\ Grows(ColumnSince(c), d, e)
         /\ e.idx = d.idx /\ e.tables = d.tables
<1> DEFINE e == AddColumn(c, d)
<1>1. /\ e.tables = d.tables /\ e.protected = d.protected
      /\ e.untenanted = d.untenanted /\ e.legacy = d.legacy /\ e.temp = d.temp
      /\ e.idx = d.idx /\ e.versions = d.versions /\ e.wm = d.wm /\ e.beliefs = d.beliefs
      /\ e.unfilled \subseteq d.unfilled \cup {c}
      /\ e.roles = d.roles /\ e.composite = d.composite /\ e.wmTable = d.wmTable
  BY DEF AddColumn, Database
<1>2. /\ e.col \in [Columns -> {"absent", "nullable", "notnull"}]
      /\ \A o \in Columns : o # c => e.col[o] = d.col[o]
  <2>1. e.col \in {[d.col EXCEPT ![c] = "nullable"], [d.col EXCEPT ![c] = "notnull"]}
    BY DEF AddColumn, Database
  <2>2. d.col \in [Columns -> {"absent", "nullable", "notnull"}]
    BY Parts
  <2> HIDE DEF e
  <2> QED
    BY <2>1, <2>2
<1>3. e \in Database
  <2>0. e = [d EXCEPT !.col = e.col, !.unfilled = e.unfilled]
    BY DEF AddColumn, Database
  <2>1. e.unfilled \subseteq Columns
    BY <1>1, Parts
  <2> HIDE DEF e
  <2> QED
    BY <1>2, <2>0, <2>1 DEF Database
<1> HIDE DEF e
<1>4. Grows(ColumnSince(c), d, e)
  <2>1. ColumnSince(c) \in Nat
    BY ColumnAges DEF Columns
  <2>2. \A o \in Columns : ColumnSince(o) < ColumnSince(c) => o # c
    BY <2>1
  <2> QED
    BY <1>1, <1>2, <2>2 DEF Grows
<1>5. Rests(d, e)
  BY <1>1 DEF Rests
<1> QED
  BY <1>1, <1>3, <1>4, <1>5 DEF e

\* stages of one field
LEMMA BackfillDoes ==
  ASSUME NEW d \in Database, NEW c \in Columns
  PROVE  LET e == Backfill(c, d) IN
         /\ e \in Database /\ Rests(d, e) /\ \A k \in Nat : Grows(k, d, e)
         /\ e.idx = d.idx /\ e.tables = d.tables
<1> DEFINE e == Backfill(c, d)
<1>1. /\ e.tables = d.tables /\ e.protected = d.protected /\ e.untenanted = d.untenanted /\ e.legacy = d.legacy /\ e.col = d.col
      /\ e.idx = d.idx /\ e.temp = d.temp /\ e.versions = d.versions /\ e.wm = d.wm /\ e.beliefs = d.beliefs
      /\ e.roles = d.roles /\ e.composite = d.composite /\ e.wmTable = d.wmTable
      /\ e.unfilled = d.unfilled \ {c}
  BY DEF Backfill, Database
<1>2. e.unfilled \subseteq Columns
  BY <1>1, Parts
<1>3. e \in Database
  <2>1. e = [d EXCEPT !.unfilled = e.unfilled]
    BY DEF Backfill, Database
  <2> HIDE DEF e
  <2> QED
    BY <1>2, <2>1 DEF Database
<1> HIDE DEF e
<1>4. ASSUME NEW k \in Nat PROVE Grows(k, d, e)
  BY <1>1, <1>2 DEF Grows
<1>5. Rests(d, e)
  BY <1>1 DEF Rests
<1> QED
  BY <1>1, <1>3, <1>4, <1>5 DEF e

LEMMA ProveNotNullDoes ==
  ASSUME NEW d \in Database, NEW c \in Columns
  PROVE  LET e == ProveNotNull(c, d) IN
         /\ e \in Database /\ Rests(d, e) /\ \A k \in Nat : Grows(k, d, e)
         /\ e.idx = d.idx /\ e.tables = d.tables
<1> DEFINE e == ProveNotNull(c, d)
<1>1. /\ e.tables = d.tables /\ e.protected = d.protected /\ e.untenanted = d.untenanted /\ e.legacy = d.legacy /\ e.unfilled = d.unfilled
      /\ e.idx = d.idx /\ e.temp = d.temp /\ e.versions = d.versions /\ e.wm = d.wm /\ e.beliefs = d.beliefs
      /\ e.roles = d.roles /\ e.composite = d.composite /\ e.wmTable = d.wmTable
      /\ e.col = [d.col EXCEPT ![c] = "notnull"]
  BY DEF ProveNotNull, Database
<1>2. /\ e.col \in [Columns -> {"absent", "nullable", "notnull"}]
      /\ \A o \in Columns : e.col[o] = IF o = c THEN "notnull" ELSE d.col[o]
  <2>1. d.col \in [Columns -> {"absent", "nullable", "notnull"}]
    BY Parts
  <2> HIDE DEF e
  <2> QED
    BY <1>1, <2>1
<1>3. e \in Database
  <2>1. e = [d EXCEPT !.col = e.col]
    BY DEF ProveNotNull, Database
  <2> HIDE DEF e
  <2> QED
    BY <1>2, <2>1 DEF Database
<1> HIDE DEF e
<1>4. ASSUME NEW k \in Nat PROVE Grows(k, d, e)
  BY <1>1, <1>2 DEF Grows
<1>5. Rests(d, e)
  BY <1>1 DEF Rests
<1> QED
  BY <1>1, <1>3, <1>4, <1>5 DEF e

LEMMA BuildIndexDoes ==
  ASSUME NEW d \in Database, NEW i \in Indexes
  PROVE  LET e == BuildIndex(i, d) IN
         /\ e \in Database /\ Rests(d, e) /\ \A k \in Nat : Grows(k, d, e)
         /\ e.tables = d.tables /\ \A o \in Indexes : o # i => e.idx[o] = d.idx[o]
<1> DEFINE e == BuildIndex(i, d)
<1>1. /\ e.tables = d.tables /\ e.protected = d.protected /\ e.untenanted = d.untenanted /\ e.legacy = d.legacy /\ e.unfilled = d.unfilled
      /\ e.col = d.col /\ e.temp = d.temp /\ e.versions = d.versions /\ e.wm = d.wm /\ e.beliefs = d.beliefs
      /\ e.roles = d.roles /\ e.composite = d.composite /\ e.wmTable = d.wmTable
      /\ e.idx = [d.idx EXCEPT ![i] = "valid"]
  BY DEF BuildIndex, Database
<1>2. /\ e.idx \in [Indexes -> {"absent", "invalid", "valid"}]
      /\ \A o \in Indexes : e.idx[o] = IF o = i THEN "valid" ELSE d.idx[o]
  <2>1. d.idx \in [Indexes -> {"absent", "invalid", "valid"}]
    BY Parts
  <2> HIDE DEF e
  <2> QED
    BY <1>1, <2>1
<1>3. e \in Database
  <2>1. e = [d EXCEPT !.idx = e.idx]
    BY DEF BuildIndex, Database
  <2> HIDE DEF e
  <2> QED
    BY <1>2, <2>1 DEF Database
<1> HIDE DEF e
<1>4. ASSUME NEW k \in Nat PROVE Grows(k, d, e)
  BY <1>1, <1>2 DEF Grows
<1>5. Rests(d, e)
  BY <1>1 DEF Rests
<1> QED
  BY <1>1, <1>2, <1>3, <1>4, <1>5 DEF e

LEMMA IndexDebrisDoes ==
  ASSUME NEW d \in Database, NEW i \in Indexes, d.idx[i] # "valid"
  PROVE  LET e == [d EXCEPT !.idx[i] = "invalid"] IN
         /\ e \in Database /\ Rests(d, e) /\ \A k \in Nat : Grows(k, d, e)
         /\ e.tables = d.tables /\ \A o \in Indexes : o # i => e.idx[o] = d.idx[o]
<1> DEFINE e == [d EXCEPT !.idx[i] = "invalid"]
<1>1. /\ e.tables = d.tables /\ e.protected = d.protected /\ e.untenanted = d.untenanted /\ e.legacy = d.legacy /\ e.unfilled = d.unfilled
      /\ e.col = d.col /\ e.temp = d.temp /\ e.versions = d.versions /\ e.wm = d.wm /\ e.beliefs = d.beliefs
      /\ e.roles = d.roles /\ e.composite = d.composite /\ e.wmTable = d.wmTable
      /\ e.idx = [d.idx EXCEPT ![i] = "invalid"]
  BY DEF Database
<1>2. /\ e.idx \in [Indexes -> {"absent", "invalid", "valid"}]
      /\ \A o \in Indexes : e.idx[o] = IF o = i THEN "invalid" ELSE d.idx[o]
  <2>1. d.idx \in [Indexes -> {"absent", "invalid", "valid"}]
    BY Parts
  <2> HIDE DEF e
  <2> QED
    BY <1>1, <2>1
<1>3. e \in Database
  <2>1. e = [d EXCEPT !.idx = e.idx]
    BY DEF Database
  <2> HIDE DEF e
  <2> QED
    BY <1>2, <2>1 DEF Database
<1> HIDE DEF e
<1>4. ASSUME NEW k \in Nat PROVE Grows(k, d, e)
  BY <1>1, <1>2 DEF Grows
<1>5. Rests(d, e)
  BY <1>1 DEF Rests
<1> QED
  BY <1>1, <1>2, <1>3, <1>4, <1>5 DEF e

LEMMA TempDebrisDoes ==
  ASSUME NEW d \in Database, NEW t \in {"base", "beliefs"}
  PROVE  LET e == [d EXCEPT !.temp = @ \cup {t}] IN
         /\ e \in Database /\ Rests(d, e) /\ \A k \in Nat : Grows(k, d, e)
         /\ e.idx = d.idx /\ e.tables = d.tables
<1> DEFINE e == [d EXCEPT !.temp = @ \cup {t}]
<1>1. /\ e.tables = d.tables /\ e.protected = d.protected /\ e.untenanted = d.untenanted /\ e.legacy = d.legacy /\ e.unfilled = d.unfilled
      /\ e.col = d.col /\ e.idx = d.idx /\ e.versions = d.versions /\ e.wm = d.wm /\ e.beliefs = d.beliefs
      /\ e.roles = d.roles /\ e.composite = d.composite /\ e.wmTable = d.wmTable
      /\ e.temp = d.temp \cup {t}
  BY DEF Database
<1>2. e.temp \subseteq {"base", "beliefs"}
  BY <1>1, Parts
<1>3. e \in Database
  <2>1. e = [d EXCEPT !.temp = e.temp]
    BY DEF Database
  <2> HIDE DEF e
  <2> QED
    BY <1>2, <2>1 DEF Database
<1> HIDE DEF e
<1>4. ASSUME NEW k \in Nat PROVE Grows(k, d, e)
  BY <1>1, <1>2 DEF Grows
<1>5. Rests(d, e)
  BY <1>1 DEF Rests
<1> QED
  BY <1>1, <1>3, <1>4, <1>5 DEF e

LEMMA RolesDoes ==
  ASSUME NEW d \in Database
  PROVE  LET e == [d EXCEPT !.roles = TRUE] IN
         /\ e \in Database /\ Rests(d, e) /\ \A k \in Nat : Grows(k, d, e)
         /\ e.idx = d.idx /\ e.tables = d.tables
<1> DEFINE e == [d EXCEPT !.roles = TRUE]
<1>1. /\ e.tables = d.tables /\ e.protected = d.protected /\ e.untenanted = d.untenanted /\ e.legacy = d.legacy /\ e.unfilled = d.unfilled
      /\ e.col = d.col /\ e.idx = d.idx /\ e.temp = d.temp /\ e.versions = d.versions /\ e.wm = d.wm
      /\ e.beliefs = d.beliefs /\ e.composite = d.composite /\ e.wmTable = d.wmTable
      /\ e.roles = TRUE
  BY DEF Database
<1>2. e.roles \in BOOLEAN
  BY <1>1
<1>3. e \in Database
  <2>1. e = [d EXCEPT !.roles = e.roles]
    BY DEF Database
  <2> HIDE DEF e
  <2> QED
    BY <1>2, <2>1 DEF Database
<1> HIDE DEF e
<1>4. ASSUME NEW k \in Nat PROVE Grows(k, d, e)
  BY <1>1, <1>2 DEF Grows
<1>5. Rests(d, e)
  BY <1>1 DEF Rests
<1> QED
  BY <1>1, <1>3, <1>4, <1>5 DEF e

LEMMA WmTableDoes ==
  ASSUME NEW d \in Database
  PROVE  LET e == [d EXCEPT !.wmTable = TRUE] IN
         /\ e \in Database /\ Rests(d, e) /\ \A k \in Nat : Grows(k, d, e)
         /\ e.idx = d.idx /\ e.tables = d.tables
<1> DEFINE e == [d EXCEPT !.wmTable = TRUE]
<1>1. /\ e.tables = d.tables /\ e.protected = d.protected /\ e.untenanted = d.untenanted /\ e.legacy = d.legacy /\ e.unfilled = d.unfilled
      /\ e.col = d.col /\ e.idx = d.idx /\ e.temp = d.temp /\ e.versions = d.versions /\ e.wm = d.wm
      /\ e.beliefs = d.beliefs /\ e.roles = d.roles /\ e.composite = d.composite
      /\ e.wmTable = TRUE
  BY DEF Database
<1>2. e.wmTable \in BOOLEAN
  BY <1>1
<1>3. e \in Database
  <2>1. e = [d EXCEPT !.wmTable = e.wmTable]
    BY DEF Database
  <2> HIDE DEF e
  <2> QED
    BY <1>2, <2>1 DEF Database
<1> HIDE DEF e
<1>4. ASSUME NEW k \in Nat PROVE Grows(k, d, e)
  BY <1>1, <1>2 DEF Grows
<1>5. Rests(d, e)
  BY <1>1 DEF Rests
<1> QED
  BY <1>1, <1>3, <1>4, <1>5 DEF e

LEMMA ProtectDoes ==
  ASSUME NEW d \in Database, NEW p \in SUBSET Tables
  PROVE  LET e == [d EXCEPT !.protected = @ \cup p] IN
         /\ e \in Database /\ Rests(d, e) /\ \A k \in Nat : Grows(k, d, e)
         /\ e.idx = d.idx /\ e.tables = d.tables
<1> DEFINE e == [d EXCEPT !.protected = @ \cup p]
<1>1. /\ e.tables = d.tables /\ e.untenanted = d.untenanted /\ e.legacy = d.legacy /\ e.unfilled = d.unfilled /\ e.col = d.col
      /\ e.idx = d.idx /\ e.temp = d.temp /\ e.versions = d.versions /\ e.wm = d.wm /\ e.beliefs = d.beliefs
      /\ e.roles = d.roles /\ e.composite = d.composite /\ e.wmTable = d.wmTable
      /\ e.protected = d.protected \cup p
  BY DEF Database
<1>2. e.protected \subseteq Tables
  BY <1>1, Parts
<1>3. e \in Database
  <2>1. e = [d EXCEPT !.protected = e.protected]
    BY DEF Database
  <2> HIDE DEF e
  <2> QED
    BY <1>2, <2>1 DEF Database
<1> HIDE DEF e
<1>4. ASSUME NEW k \in Nat PROVE Grows(k, d, e)
  BY <1>1, <1>2 DEF Grows
<1>5. Rests(d, e)
  BY <1>1 DEF Rests
<1> QED
  BY <1>1, <1>3, <1>4, <1>5 DEF e

LEMMA DropIndexDoes ==
  ASSUME NEW d \in Database, NEW i \in Legacy
  PROVE  LET e == [d EXCEPT !.legacy = @ \ {i}] IN
         /\ e \in Database /\ Rests(d, e) /\ \A k \in Nat : Grows(k, d, e)
         /\ e.idx = d.idx /\ e.tables = d.tables
<1> DEFINE e == [d EXCEPT !.legacy = @ \ {i}]
<1>1. /\ e.tables = d.tables /\ e.protected = d.protected /\ e.untenanted = d.untenanted /\ e.unfilled = d.unfilled /\ e.col = d.col
      /\ e.idx = d.idx /\ e.temp = d.temp /\ e.versions = d.versions /\ e.wm = d.wm /\ e.beliefs = d.beliefs
      /\ e.roles = d.roles /\ e.composite = d.composite /\ e.wmTable = d.wmTable
      /\ e.legacy = d.legacy \ {i}
  BY DEF Database
<1>2. e.legacy \subseteq Legacy
  BY <1>1, Parts
<1>3. e \in Database
  <2>1. e = [d EXCEPT !.legacy = e.legacy]
    BY DEF Database
  <2> HIDE DEF e
  <2> QED
    BY <1>2, <2>1 DEF Database
<1> HIDE DEF e
<1>4. ASSUME NEW k \in Nat PROVE Grows(k, d, e)
  BY <1>1, <1>2 DEF Grows
<1>5. Rests(d, e)
  BY <1>1 DEF Rests
<1> QED
  BY <1>1, <1>3, <1>4, <1>5 DEF e

LEMMA WriteDoes ==
  ASSUME NEW d \in Database, NEW p \in SUBSET Columns
  PROVE  LET e == [d EXCEPT !.unfilled = @ \cup p] IN
         /\ e \in Database /\ Rests(d, e) /\ \A k \in Nat : Grows(k, d, e)
         /\ e.idx = d.idx /\ e.tables = d.tables
<1> DEFINE e == [d EXCEPT !.unfilled = @ \cup p]
<1>1. /\ e.tables = d.tables /\ e.protected = d.protected /\ e.untenanted = d.untenanted /\ e.legacy = d.legacy /\ e.col = d.col
      /\ e.idx = d.idx /\ e.temp = d.temp /\ e.versions = d.versions /\ e.wm = d.wm /\ e.beliefs = d.beliefs
      /\ e.roles = d.roles /\ e.composite = d.composite /\ e.wmTable = d.wmTable
      /\ e.unfilled = d.unfilled \cup p
  BY DEF Database
<1>2. e.unfilled \subseteq Columns
  BY <1>1, Parts
<1>3. e \in Database
  <2>1. e = [d EXCEPT !.unfilled = e.unfilled]
    BY DEF Database
  <2> HIDE DEF e
  <2> QED
    BY <1>2, <2>1 DEF Database
<1> HIDE DEF e
<1>4. ASSUME NEW k \in Nat PROVE Grows(k, d, e)
  BY <1>1, <1>2 DEF Grows
<1>5. Rests(d, e)
  BY <1>1 DEF Rests
<1> QED
  BY <1>1, <1>3, <1>4, <1>5 DEF e

LEMMA TableDoes ==
  ASSUME NEW d \in Database, NEW t \in Tables \ {"base", "beliefs"}, OnPg => d.tables # {}
  PROVE  LET e == [d EXCEPT !.tables = @ \cup {t}] IN
         /\ e \in Database /\ Rests(d, e) /\ \A k \in Nat : Grows(k, d, e)
         /\ e.idx = d.idx
<1> DEFINE e == [d EXCEPT !.tables = @ \cup {t}]
<1>1. /\ e.protected = d.protected /\ e.untenanted = d.untenanted /\ e.legacy = d.legacy /\ e.unfilled = d.unfilled /\ e.col = d.col
      /\ e.idx = d.idx /\ e.temp = d.temp /\ e.versions = d.versions /\ e.wm = d.wm /\ e.beliefs = d.beliefs
      /\ e.roles = d.roles /\ e.composite = d.composite /\ e.wmTable = d.wmTable
      /\ e.tables = d.tables \cup {t}
  BY DEF Database
<1>2. e.tables \subseteq Tables
  BY <1>1, Parts DEF Tables
<1>3. e \in Database
  <2>1. e = [d EXCEPT !.tables = e.tables]
    BY DEF Database
  <2> HIDE DEF e
  <2> QED
    BY <1>2, <2>1 DEF Database
<1> HIDE DEF e
<1>4. ASSUME NEW k \in Nat PROVE Grows(k, d, e)
  BY <1>1, <1>2 DEF Grows, Tables
<1>5. Rests(d, e)
  BY <1>1 DEF Rests
<1> QED
  BY <1>1, <1>3, <1>4, <1>5 DEF e

\* The composite key: step 2.
LEMMA CompositeKeyDoes ==
  ASSUME NEW d \in Database
  PROVE  LET e == SwapPrimaryKey(d) IN
         /\ e \in Database /\ Rests(d, e) /\ \A k \in Nat : Grows(k, d, e)
         /\ e.idx = d.idx /\ e.tables = d.tables
<1> DEFINE e == SwapPrimaryKey(d)
<1>1. /\ e.tables = d.tables /\ e.protected = d.protected /\ e.untenanted = d.untenanted
      /\ e.legacy = d.legacy /\ e.unfilled = d.unfilled /\ e.idx = d.idx
      /\ e.temp = d.temp /\ e.versions = d.versions /\ e.wm = d.wm /\ e.beliefs = d.beliefs
      /\ e.roles = d.roles /\ e.composite = TRUE /\ e.wmTable = d.wmTable
      /\ e.col = [d.col EXCEPT !["tenant"] = "notnull"]
  BY DEF SwapPrimaryKey, Database
<1>2. /\ e.col \in [Columns -> {"absent", "nullable", "notnull"}]
      /\ \A o \in Columns : e.col[o] = IF o = "tenant" THEN "notnull" ELSE d.col[o]
  <2>1. d.col \in [Columns -> {"absent", "nullable", "notnull"}]
    BY Parts
  <2> HIDE DEF e
  <2> QED
    BY <1>1, <2>1
<1>3. e \in Database
  <2>1. e = [d EXCEPT !.composite = TRUE, !.col = e.col]
    BY DEF SwapPrimaryKey, Database
  <2> HIDE DEF e
  <2> QED
    BY <1>2, <2>1 DEF Database
<1> HIDE DEF e
<1>4. ASSUME NEW k \in Nat PROVE Grows(k, d, e)
  BY <1>1, <1>2 DEF Grows
<1>5. Rests(d, e)
  BY <1>1 DEF Rests
<1> QED
  BY <1>1, <1>3, <1>4, <1>5 DEF e

\* A stage that changes nothing the steps ask for.
LEMMA Unchanged ==
  ASSUME NEW d \in Database, NEW k \in Nat
  PROVE  Grows(k, d, d) /\ Rests(d, d)
  BY DEF Grows, Rests

\* One stage of a step that ran all steps before it.
Ready(n, d) ==
  /\ d \in Database /\ Coherent(d) /\ d.versions = 1 .. (n - 1)

\* A step's database that grows is the step's still.
LEMMA ReadyGrows ==
  ASSUME NEW n \in Step, NEW k \in Nat, n <= k, NEW d, NEW e \in Database, Ready(n, d),
         Grows(k, d, e), Rests(d, e), "base" \notin e.tables => e.idx["pending"] # "valid"
  PROVE  Ready(n, e)
<1>1. d \in Database /\ Coherent(d) /\ d.versions = 1 .. (n - 1) /\ e.versions = d.versions
  BY DEF Ready, Rests
<1>2. \A m \in d.versions : m < k
  BY <1>1 DEF Step, Latest
<1>3. Coherent(e)
  BY <1>1, <1>2, GrowsCoheres
<1> QED
  BY <1>1, <1>3 DEF Ready

\* From step 2 on, base and beliefs are either both there or neither.
LEMMA ReadyTables ==
  ASSUME NEW n \in Step, NEW d, Ready(n, d)
  PROVE  /\ d \in Database
         /\ "base" \notin d.tables => d.idx["pending"] # "valid"
         /\ n > 3 /\ OnPg => "base" \in d.tables
<1>1. d \in Database /\ Coherent(d) /\ d.versions = 1 .. (n - 1)
  BY DEF Ready
<1>2. n > 3 => Kept(3, d)
  BY <1>1 DEF Coherent, Step, Latest
<1>3. Kept(3, d) /\ OnPg => "base" \in d.tables
  BY DEF Kept, Guarded
<1> QED
  BY <1>1, <1>2, <1>3 DEF Coherent

\* Any feasible stage: the step goes on with a database that grew.
LEMMA AfterDoes ==
  ASSUME NEW n \in Step, NEW s \in Stage, Fits(s, n), s.op \notin {"column", "mint"},
         NEW d, Ready(n, d), Feasible(s, d),
         n = 1 => "base" \in d.tables
  PROVE  Ready(n, After(s, d)) /\ Rests(d, After(s, d))
<1> DEFINE e == After(s, d)
<1>0. /\ d \in Database
      /\ "base" \notin d.tables => d.idx["pending"] # "valid"
      /\ n > 3 /\ OnPg => "base" \in d.tables
      /\ n = 1 => "base" \in d.tables
      /\ n \in Nat /\ n <= 14
  <2>1. n \in Nat /\ n <= 14
    BY DEF Step, Latest
  <2> QED
    BY <2>1, ReadyTables
<1>1. CASE s.op = "tenantColumns"
  <2>1. e = AddTenantColumns(d)
    BY <1>1 DEF After
  <2>2. n = 1
    BY <1>1 DEF Fits
  <2> HIDE DEF e
  <2> QED
    BY <1>0, <2>1, <2>2, AddTenantColumnsDoes, ReadyGrows DEF e
<1>2. CASE s.op = "rebuild"
  <2>1. e = RebuildTable(s.on, d)
    BY <1>2 DEF After
  <2>2. n = 1 /\ s.on \in {"base", "beliefs"}
    BY <1>2 DEF Fits
  <2> HIDE DEF e
  <2> QED
    BY <1>0, <2>1, <2>2, RebuildTableDoes, ReadyGrows DEF e
<1>3. CASE s.op = "add"
  <2>1. e = AddColumn(s.on, d)
    BY <1>3 DEF After
  <2>2. s.on \in Columns /\ n = ColumnSince(s.on)
    BY <1>3 DEF Fits
  <2> HIDE DEF e
  <2> QED
    BY <1>0, <2>1, <2>2, AddColumnDoes, ReadyGrows DEF e
<1>4. CASE s.op = "fill"
  <2>1. e = Backfill(s.on, d)
    BY <1>4 DEF After
  <2>2. s.on \in Columns
    BY <1>4 DEF Fits
  <2> HIDE DEF e
  <2> QED
    BY <1>0, <2>1, <2>2, BackfillDoes, ReadyGrows DEF e
<1>5. CASE s.op \in {"seal", "reseal"}
  <2>1. e = ProveNotNull(s.on, d)
    BY <1>5 DEF After
  <2>2. s.on \in Columns
    BY <1>5 DEF Fits
  <2> HIDE DEF e
  <2> QED
    BY <1>0, <2>1, <2>2, ProveNotNullDoes, ReadyGrows DEF e
<1>6. CASE s.op = "compositeKey"
  <2>1. e = SwapPrimaryKey(d)
    BY <1>6 DEF After
  <2> HIDE DEF e
  <2> QED
    BY <1>0, <2>1, CompositeKeyDoes, ReadyGrows DEF e
<1>7. CASE s.op = "roles"
  <2>1. e = [d EXCEPT !.roles = TRUE]
    BY <1>7 DEF After
  <2> HIDE DEF e
  <2> QED
    BY <1>0, <2>1, RolesDoes, ReadyGrows DEF e
<1>8. CASE s.op = "protect"
  <2>1. e = RlsPlan(s.on, d)
    BY <1>8 DEF After
  <2>2. s.on \cap d.tables \in SUBSET Tables
    BY <1>0, Parts
  <2>3. e = d \/ e = [d EXCEPT !.protected = @ \cup (s.on \cap d.tables)]
    BY <2>1 DEF RlsPlan
  <2> HIDE DEF e
  <2>4. CASE e = d
    BY <1>0, <2>4, Unchanged DEF e
  <2>5. CASE e = [d EXCEPT !.protected = @ \cup (s.on \cap d.tables)]
    <3> DEFINE p == s.on \cap d.tables
    <3>1. p \in SUBSET Tables
      BY <2>2
    <3> HIDE DEF p
    <3>2. e = [d EXCEPT !.protected = @ \cup p]
      BY <2>5 DEF p
    <3>3. /\ e \in Database /\ Rests(d, e) /\ \A k \in Nat : Grows(k, d, e)
          /\ e.idx = d.idx /\ e.tables = d.tables
      BY <1>0, <3>1, <3>2, ProtectDoes
    <3> QED
      BY <1>0, <3>3, ReadyGrows DEF e
  <2> QED
    BY <2>3, <2>4, <2>5
<1>9. CASE s.op = "index"
  <2>1. e = BuildIndex(s.on, d)
    BY <1>9 DEF After
  <2>2. s.on \in Indexes
    BY <1>9 DEF Fits
  <2>3. s.on = "pending" => "base" \in d.tables
    BY <1>9 DEF Feasible
  <2>4. /\ e \in Database /\ Rests(d, e) /\ \A k \in Nat : Grows(k, d, e)
        /\ e.tables = d.tables /\ \A o \in Indexes : o # s.on => e.idx[o] = d.idx[o]
    BY <1>0, <2>1, <2>2, BuildIndexDoes
  <2>5. "pending" \in Indexes
    BY DEF Indexes
  <2> HIDE DEF e
  <2>6. "base" \notin e.tables => e.idx["pending"] # "valid"
    BY <1>0, <2>3, <2>4, <2>5
  <2> QED
    BY <1>0, <2>4, <2>6, ReadyGrows DEF e
<1>10. CASE s.op = "dropIndex"
  <2>1. e = [d EXCEPT !.legacy = @ \ {s.on}]
    BY <1>10 DEF After
  <2>2. s.on \in Legacy
    BY <1>10 DEF Fits
  <2> HIDE DEF e
  <2> QED
    BY <1>0, <2>1, <2>2, DropIndexDoes, ReadyGrows DEF e
<1>11. CASE s.op = "table"
  <2>1. e = [d EXCEPT !.tables = @ \cup {s.on}]
    BY <1>11 DEF After
  <2>2. s.on \in Tables \ {"base", "beliefs"} /\ n > 3
    BY <1>11 DEF Fits
  <2>3. e.tables = d.tables \cup {s.on}
    BY <1>0, <2>1 DEF Database
  <2>4. OnPg => d.tables # {}
    BY <1>0, <2>2
  <2> HIDE DEF e
  <2>5. e \in Database /\ Rests(d, e) /\ (\A k \in Nat : Grows(k, d, e)) /\ e.idx = d.idx
    BY <1>0, <2>1, <2>2, <2>4, TableDoes
  <2>6. "base" \notin e.tables => e.idx["pending"] # "valid"
    BY <1>0, <2>3, <2>5
  <2> QED
    BY <1>0, <2>5, <2>6, ReadyGrows DEF e
<1>12. CASE s.op = "wmTable"
  <2>1. e = [d EXCEPT !.wmTable = TRUE]
    BY <1>12 DEF After
  <2> HIDE DEF e
  <2> QED
    BY <1>0, <2>1, WmTableDoes, ReadyGrows DEF e
<1> QED
  BY <1>1, <1>2, <1>3, <1>4, <1>5, <1>6, <1>7, <1>8, <1>9, <1>10, <1>11, <1>12 DEF Stage, Ops

\* What an interrupted stage leaves has lost nothing.
LEMMA DebrisDoes ==
  ASSUME NEW n \in Step, NEW s \in Stage, Fits(s, n), NEW d, Ready(n, d), NEW e \in Debris(s, d)
  PROVE  Ready(n, e) /\ Rests(d, e)
<1>0. /\ d \in Database
      /\ "base" \notin d.tables => d.idx["pending"] # "valid"
      /\ n \in Nat
  BY ReadyTables DEF Step, Latest
<1>1. CASE e = d
  BY <1>0, <1>1, Unchanged
<1>2. CASE s.op = "index" /\ d.idx[s.on] # "valid" /\ e = [d EXCEPT !.idx[s.on] = "invalid"]
  <2>2. s.on \in Indexes
    BY <1>2 DEF Fits
  <2>4. /\ e \in Database /\ Rests(d, e) /\ \A k \in Nat : Grows(k, d, e)
        /\ e.tables = d.tables /\ \A o \in Indexes : o # s.on => e.idx[o] = d.idx[o]
    BY <1>0, <1>2, <2>2, IndexDebrisDoes
  <2>5. "pending" \in Indexes /\ e.idx[s.on] = "invalid"
    BY <1>0, <1>2, <2>2, Parts DEF Indexes, Database
  <2>6. "base" \notin e.tables => e.idx["pending"] # "valid"
    BY <1>0, <2>4, <2>5
  <2> QED
    BY <1>0, <2>4, <2>6, ReadyGrows
<1>3. CASE s.op = "rebuild" /\ e = [d EXCEPT !.temp = @ \cup {s.on}]
  <2>2. s.on \in {"base", "beliefs"}
    BY <1>3 DEF Fits
  <2>3. /\ e \in Database /\ Rests(d, e) /\ \A k \in Nat : Grows(k, d, e)
        /\ e.idx = d.idx /\ e.tables = d.tables
    BY <1>0, <1>3, <2>2, TempDebrisDoes
  <2> QED
    BY <1>0, <2>3, ReadyGrows
<1> QED
  BY <1>1, <1>2, <1>3 DEF Debris

\* Recording a verified step leaves the database coherent.
LEMMA VersionMoves ==
  ASSUME NEW n \in Step, NEW d, Ready(n, d), Steps(n, d).verified
  PROVE  LET e == [d EXCEPT !.versions = @ \cup {n}] IN
         /\ e \in Database /\ Coherent(e) /\ e.versions = 1 .. n
         /\ e.wm = d.wm /\ e.beliefs = d.beliefs
<1> DEFINE e == [d EXCEPT !.versions = @ \cup {n}]
<1>0. /\ d \in Database /\ Coherent(d) /\ d.versions = 1 .. (n - 1)
      /\ n \in 1 .. 13 /\ Step = 1 .. 13
  BY DEF Ready, Step, Latest
<1>1. /\ e.tables = d.tables /\ e.protected = d.protected /\ e.untenanted = d.untenanted
      /\ e.legacy = d.legacy /\ e.unfilled = d.unfilled /\ e.idx = d.idx
      /\ e.temp = d.temp /\ e.versions = d.versions \cup {n} /\ e.wm = d.wm /\ e.beliefs = d.beliefs
      /\ e.roles = d.roles /\ e.composite = d.composite /\ e.wmTable = d.wmTable /\ e.col = d.col
  BY <1>0 DEF Database
<1>2. e.versions = 1 .. n
  BY <1>0, <1>1
<1>3. e \in Database
  <2>1. e = [d EXCEPT !.versions = e.versions] /\ e.versions \subseteq Step
    BY <1>0, <1>2
  <2> HIDE DEF e
  <2> QED
    BY <1>0, <2>1 DEF Database
<1> HIDE DEF e
<1>4. \A m \in Step : Kept(m, d) => Kept(m, e)
  <2>1. Grows(14, d, e)
    BY <1>1 DEF Grows
  <2> QED
    BY <2>1, GrowsKeeps DEF Step, Latest
<1>5. \A m \in 1 .. (n - 1) : Kept(m, d)
  BY <1>0 DEF Coherent
<1>6. Kept(n, d)
  BY VerifiedIsKept
<1>7. \A m \in e.versions : Kept(m, e)
  BY <1>0, <1>2, <1>4, <1>5, <1>6
<1>8. \A m \in e.versions : 1 .. m \subseteq e.versions
  BY <1>0, <1>2
<1>9. /\ "base" \in e.tables <=> "beliefs" \in e.tables
      /\ "base" \notin e.tables => e.untenanted = {} /\ e.idx["pending"] # "valid"
  BY <1>0, <1>1 DEF Coherent
<1>10. Coherent(e)
  BY <1>7, <1>8, <1>9 DEF Coherent
<1> QED
  BY <1>1, <1>2, <1>3, <1>10 DEF e

-----------------------------------------------------------------------------
(* The shapes of older releases, and a new file.                            *)

\* Every table came with one of the steps.
LEMMA TableAges ==
  /\ Since("base") = 0 /\ Since("beliefs") = 0 /\ Since("purpose") = 6
  /\ Since("audit") = 8 /\ Since("generations") = 11 /\ Since("sync") = 13
<1>1. Since("base") = 0
  BY DEF Since
<1>2. Since("beliefs") = 0
  BY DEF Since
<1>3. Since("purpose") = 6
  BY DEF Since
<1>4. Since("audit") = 8
  BY DEF Since
<1>5. Since("generations") = 11
  BY DEF Since
<1>6. Since("sync") = 13
  BY DEF Since
<1> QED
  BY <1>1, <1>2, <1>3, <1>4, <1>5, <1>6

\* Every index came with one of the steps.
LEMMA IndexAges ==
  /\ IndexSince("pending") = 4 /\ IndexSince("tenantUser") = 5
  /\ IndexSince("tenantBelief") = 9 /\ IndexSince("globalId") = 12
<1>1. IndexSince("pending") = 4
  BY DEF IndexSince
<1>2. IndexSince("tenantUser") = 5
  BY DEF IndexSince
<1>3. IndexSince("tenantBelief") = 9
  BY DEF IndexSince
<1>4. IndexSince("globalId") = 12
  BY DEF IndexSince
<1> QED
  BY <1>1, <1>2, <1>3, <1>4

\* A watermark row of a life is not the missing row.
LEMMA RowFacts ==
  ASSUME MigrationConstants
  PROVE  /\ NoRow \in [life : Life \cup {NoLife}, applied : Nat]
         /\ NoRow.life = NoLife
         /\ \A l \in Life, n \in Nat :
              /\ [life |-> l, applied |-> n] \in [life : Life \cup {NoLife}, applied : Nat]
              /\ [life |-> l, applied |-> n] # NoRow
              /\ [life |-> l, applied |-> n].life = l /\ [life |-> l, applied |-> n].applied = n
<1>1. NoRow.life = NoLife /\ NoRow \in [life : Life \cup {NoLife}, applied : Nat]
  BY DEF NoRow
<1>2. ASSUME NEW l \in Life, NEW n \in Nat
      PROVE  /\ [life |-> l, applied |-> n] \in [life : Life \cup {NoLife}, applied : Nat]
             /\ [life |-> l, applied |-> n].life = l /\ [life |-> l, applied |-> n].applied = n
             /\ [life |-> l, applied |-> n].life # NoLife
  BY LifeFacts
<1>3. ASSUME NEW l \in Life, NEW n \in Nat
      PROVE  [life |-> l, applied |-> n] # NoRow
  BY <1>1, <1>2
<1> QED
  BY <1>1, <1>2, <1>3

\* What an older release left is coherent.
LEMMA ShapeStands ==
  ASSUME MigrationConstants, NEW v \in 0 .. 13, NEW bs \in SUBSET Belief
  PROVE  LET e == Shape(v, backend, bs) IN
         /\ e \in Database /\ Coherent(e)
         /\ e.beliefs = bs /\ (e.wm = NoRow \/ e.wm = [life |-> 1, applied |-> 0])
<1> DEFINE e == Shape(v, backend, bs)
<1>1. /\ e.tables = {t \in Tables : Since(t) <= v}
      /\ e.protected = (IF backend = "postgresql" /\ v >= 3
                        THEN {t \in Tables : Since(t) <= v} ELSE {})
      /\ e.untenanted = (IF v = 0 THEN {"base", "beliefs"} ELSE {})
      /\ e.unfilled = {} /\ e.temp = {} /\ e.versions = 1 .. v /\ e.beliefs = bs
      /\ e.legacy = (IF v < 5 THEN {"userIndex"} ELSE {}) \cup (IF v < 9 THEN {"beliefIndex"} ELSE {})
      /\ e.wm = IF v >= 11 THEN [life |-> 1, applied |-> 0] ELSE NoRow
  BY DEF Shape
<1>2. /\ e.roles = (backend = "postgresql" /\ v >= 3)
      /\ e.composite = (backend = "postgresql" /\ v >= 2)
      /\ e.wmTable = (v >= 11)
  BY DEF Shape
<1>3. e.col = [c \in Columns |-> IF ColumnSince(c) > v THEN "absent"
                                 ELSE IF c = "snapGeneration" THEN "nullable" ELSE "notnull"]
  BY DEF Shape
<1>4. e.idx = [i \in Indexes |-> IF IndexSince(i) > v THEN "absent" ELSE "valid"]
  BY DEF Shape
<1>5. e \in Database
  <2>1. e.versions \subseteq Step
    BY <1>1 DEF Step, Latest
  <2>2. e.wm \in [life : Life \cup {NoLife}, applied : Nat]
    BY <1>1, RowFacts, LifeFacts
  <2>3. e.legacy \subseteq Legacy
    BY <1>1 DEF Legacy
  <2>4. e.tables \subseteq Tables /\ e.protected \subseteq Tables
    BY <1>1
  <2>5. /\ e.col \in [Columns -> {"absent", "nullable", "notnull"}]
        /\ e.idx \in [Indexes -> {"absent", "invalid", "valid"}]
    BY <1>3, <1>4
  <2>6. e = [tables |-> e.tables, protected |-> e.protected, roles |-> e.roles,
             untenanted |-> e.untenanted, composite |-> e.composite, col |-> e.col,
             unfilled |-> e.unfilled, idx |-> e.idx, legacy |-> e.legacy, temp |-> e.temp,
             versions |-> e.versions, wmTable |-> e.wmTable, wm |-> e.wm, beliefs |-> e.beliefs]
    BY DEF Shape
  <2>7. e.roles \in BOOLEAN /\ e.composite \in BOOLEAN /\ e.wmTable \in BOOLEAN
    BY <1>2
  <2> HIDE DEF e
  <2> QED
    BY <1>1, <2>1, <2>2, <2>3, <2>4, <2>5, <2>6, <2>7 DEF Database
<1> HIDE DEF e
<1>6. /\ "base" \in e.tables /\ "beliefs" \in e.tables
      /\ v >= 6 => "purpose" \in e.tables
      /\ v >= 8 => "audit" \in e.tables
      /\ v >= 11 => "generations" \in e.tables
      /\ v >= 13 => "sync" \in e.tables
  BY <1>1, TableAges DEF Tables
<1>7. OnPg /\ v >= 3 => e.protected = e.tables
  BY <1>1 DEF OnPg
<1>10. /\ OnPg /\ v >= 3 => e.roles
       /\ OnPg /\ v >= 2 => e.composite
       /\ v >= 11 => e.wmTable
  BY <1>2 DEF OnPg
<1>8. \A m \in 1 .. v : Kept(m, e)
  <2>1. ASSUME NEW m \in 1 .. v PROVE Kept(m, e)
    <3>1. \A c \in Columns : m >= ColumnSince(c) /\ c # "snapGeneration" => e.col[c] = "notnull"
      BY <1>3, ColumnAges DEF Columns
    <3>2. m >= 11 => e.col["snapGeneration"] = "nullable"
      BY <1>3, ColumnAges DEF Columns
    <3>3. \A i \in Indexes : m >= IndexSince(i) => e.idx[i] = "valid"
      BY <1>4, IndexAges DEF Indexes
    <3>4. \A t \in e.tables : m >= 3 => Guarded(t, e)
      BY <1>7, <1>10 DEF Guarded
    <3>5. /\ m >= 1 => e.untenanted = {}
          /\ m >= 2 => (OnPg => e.composite)
          /\ m >= 11 => e.wmTable
          /\ m >= 5 => "userIndex" \notin e.legacy
          /\ m >= 9 => "beliefIndex" \notin e.legacy
      BY <1>1, <1>10
    <3>6. /\ m >= 6 => "purpose" \in e.tables
          /\ m >= 8 => "audit" \in e.tables
          /\ m >= 11 => "generations" \in e.tables
          /\ m >= 13 => "sync" \in e.tables
      BY <1>6
    <3>7. /\ m >= 6 => e.col["jobPurpose"] = "notnull"
          /\ m >= 7 => e.col["evidencePurpose"] = "notnull" /\ e.col["snapshotPurpose"] = "notnull"
          /\ m >= 9 => e.col["summaryPurpose"] = "notnull"
          /\ m >= 10 => e.col["unions"] = "notnull"
          /\ m >= 12 => e.col["globalId"] = "notnull"
      BY <3>1, ColumnAges DEF Columns
    <3>8. /\ m >= 4 => e.idx["pending"] = "valid"
          /\ m >= 5 => e.idx["tenantUser"] = "valid"
          /\ m >= 9 => e.idx["tenantBelief"] = "valid"
          /\ m >= 12 => e.idx["globalId"] = "valid"
      BY <3>3, IndexAges DEF Indexes
    <3> QED
      BY <1>6, <3>2, <3>4, <3>5, <3>6, <3>7, <3>8 DEF Kept
  <2> QED
    BY <2>1
<1>9. Coherent(e)
  BY <1>1, <1>6, <1>8 DEF Coherent
<1> QED
  BY <1>1, <1>5, <1>9 DEF e

\* A database without tables is coherent.
LEMMA EmptyStands ==
  ASSUME MigrationConstants
  PROVE  LET e == Empty(backend) IN
         e \in Database /\ Coherent(e) /\ e.beliefs = {} /\ e.wm = NoRow
<1> DEFINE s == Shape(0, backend, {})
           e == Empty(backend)
<1>1. s \in Database /\ s.versions = {} /\ s.beliefs = {} /\ s.wm = NoRow
  <2>1. s.versions = 1 .. 0 /\ s.beliefs = {} /\ s.wm = NoRow
    BY DEF Shape
  <2> QED
    BY <2>1, ShapeStands
<1>2. s.idx["pending"] = "absent"
  <2>1. s.idx = [i \in Indexes |-> IF IndexSince(i) > 0 THEN "absent" ELSE "valid"]
    BY DEF Shape
  <2> QED
    BY <2>1, IndexAges DEF Indexes
<1>3. e = [s EXCEPT !.tables = {}, !.untenanted = {}, !.legacy = {}]
  BY DEF Empty
<1> HIDE DEF s, e
<1>4. /\ e \in Database /\ e.versions = {} /\ e.beliefs = {} /\ e.wm = NoRow
      /\ e.tables = {} /\ e.untenanted = {} /\ e.idx = s.idx
  BY <1>1, <1>3 DEF Database
<1> QED
  BY <1>2, <1>4 DEF Coherent, e

\* create_all loses nothing.
LEMMA CreateAllStands ==
  ASSUME ~ OnPg, NEW d \in Database, Coherent(d)
  PROVE  LET e == CreateAll(d) IN
         /\ e \in Database /\ Coherent(e)
         /\ e.versions = d.versions /\ e.wm = d.wm /\ e.beliefs = d.beliefs
         /\ e.tables = Tables
<1> DEFINE e == CreateAll(d)
           own == [c \in Columns |-> IF c \in {"jobPurpose", "evidencePurpose", "snapshotPurpose",
                                          "summaryPurpose", "unions", "snapGeneration", "tenant"}
                                     THEN "base" ELSE "beliefs"]
<1>1. /\ e.tables = Tables /\ e.protected = d.protected /\ e.untenanted = d.untenanted
      /\ e.legacy = d.legacy /\ e.unfilled = d.unfilled /\ e.temp = d.temp
      /\ e.versions = d.versions /\ e.wm = d.wm /\ e.beliefs = d.beliefs
      /\ e.roles = d.roles /\ e.composite = d.composite /\ e.wmTable = d.wmTable
  BY DEF CreateAll, Database
<1>2. e.col = [c \in Columns |-> IF own[c] \notin Tables \ d.tables THEN d.col[c]
                                 ELSE IF c = "snapGeneration" THEN "nullable" ELSE "notnull"]
  BY DEF CreateAll, Database
<1>3. e.idx = [i \in Indexes |-> IF "base" \in Tables \ d.tables /\ i # "globalId" THEN "valid" ELSE d.idx[i]]
  BY DEF CreateAll, Database
<1>4. /\ e.col \in [Columns -> {"absent", "nullable", "notnull"}]
      /\ e.idx \in [Indexes -> {"absent", "invalid", "valid"}]
  <2>1. /\ \A c \in Columns : d.col[c] \in {"absent", "nullable", "notnull"}
        /\ \A i \in Indexes : d.idx[i] \in {"absent", "invalid", "valid"}
    BY Parts
  <2>2. /\ \A c \in Columns : e.col[c] \in {"absent", "nullable", "notnull"}
        /\ \A i \in Indexes : e.idx[i] \in {"absent", "invalid", "valid"}
    BY <1>2, <1>3, <2>1
  <2> QED
    BY <1>2, <1>3, <2>2
<1>5. e \in Database
  <2>1. e = [d EXCEPT !.tables = e.tables, !.col = e.col, !.idx = e.idx]
    BY <1>1 DEF CreateAll, Database
  <2> HIDE DEF e
  <2> QED
    BY <1>1, <1>4, <2>1 DEF Database
<1> HIDE DEF e
<1>6. {"base", "beliefs"} \subseteq Tables
  BY DEF Tables
<1>7. CASE "base" \in d.tables
  <2>1. "beliefs" \in d.tables
    BY <1>7 DEF Coherent
  <2>2. \A c \in Columns : e.col[c] = d.col[c]
    <3>1. \A c \in Columns : own[c] \in {"base", "beliefs"}
      OBVIOUS
    <3> HIDE DEF own
    <3> QED
      BY <1>2, <1>7, <2>1, <3>1
  <2>3. \A i \in Indexes : e.idx[i] = d.idx[i]
    BY <1>3, <1>7
  <2>4. d.tables \subseteq e.tables
    BY <1>1, Parts
  <2>5. Grows(14, d, e)
    BY <1>1, <1>7, <2>1, <2>2, <2>3, <2>4 DEF Grows
  <2>6. \A m \in d.versions : m < 14
    BY Parts DEF Step, Latest
  <2>7. Coherent(e)
    BY <1>1, <1>5, <1>6, <2>5, <2>6, GrowsCoheres
  <2> QED
    BY <1>1, <1>5, <2>7 DEF e
<1>8. CASE "base" \notin d.tables
  <2>1. d.untenanted = {} /\ d.idx["pending"] # "valid"
    BY <1>8 DEF Coherent
  <2>2. ~ Kept(4, d)
    BY <2>1 DEF Kept
  <2>3. \A n \in d.versions : n \in 1 .. 3
    <3>1. d.versions \subseteq 1 .. 13
      BY Parts DEF Step, Latest
    <3>2. 4 \notin d.versions
      BY <2>2 DEF Coherent
    <3>3. \A n \in d.versions : 1 .. n \subseteq d.versions
      BY DEF Coherent
    <3>4. ASSUME NEW n \in d.versions PROVE n \in 1 .. 3
      <4>1. n \in 1 .. 13 /\ 1 .. n \subseteq d.versions
        BY <3>1, <3>3
      <4>2. ~ n >= 4
        BY <3>2, <4>1
      <4> QED
        BY <4>1, <4>2
    <3> QED
      BY <3>4
  <2>4. \A n \in 1 .. 3 : Kept(n, e)
    BY <1>1, <2>1 DEF Kept, Guarded
  <2>5. \A n \in e.versions : Kept(n, e)
    BY <1>1, <2>3, <2>4
  <2>6. \A n \in e.versions : 1 .. n \subseteq e.versions
    BY <1>1 DEF Coherent
  <2>7. Coherent(e)
    BY <1>1, <1>6, <2>5, <2>6 DEF Coherent
  <2> QED
    BY <1>1, <1>5, <2>7 DEF e
<1> QED
  BY <1>7, <1>8

\* The version is the last recorded one.
LEMMA VersionFacts ==
  ASSUME NEW d \in Database, Coherent(d)
  PROVE  Version(d) \in 0 .. 13 /\ d.versions = 1 .. Version(d)
<1> DEFINE V == d.versions
<1>1. V \subseteq 1 .. 13 /\ \A n \in V : 1 .. n \subseteq V
  BY Parts DEF Coherent, Step, Latest
<1>2. CASE V = {}
  <2>1. Version(d) = 0
    BY <1>2 DEF Version
  <2> QED
    BY <1>2, <2>1
<1>3. CASE V # {}
  <2>1. 1 \in V
    <3>1. PICK n \in V : TRUE
      BY <1>3
    <3>2. n \in 1 .. 13
      BY <1>1
    <3> QED
      BY <1>1, <3>2
  <2>2. \E n \in V : n + 1 \notin V
    <3> SUFFICES ASSUME \A n \in V : n + 1 \in V
                 PROVE  FALSE
      OBVIOUS
    <3>1. 2 \in V
      BY <2>1
    <3>2. 3 \in V
      BY <3>1
    <3>3. 4 \in V
      BY <3>2
    <3>4. 5 \in V
      BY <3>3
    <3>5. 6 \in V
      BY <3>4
    <3>6. 7 \in V
      BY <3>5
    <3>7. 8 \in V
      BY <3>6
    <3>8. 9 \in V
      BY <3>7
    <3>9. 10 \in V
      BY <3>8
    <3>10. 11 \in V
      BY <3>9
    <3>11. 12 \in V
      BY <3>10
    <3>12. 13 \in V
      BY <3>11
    <3>13. 14 \in V
      BY <3>12
    <3> QED
      BY <1>1, <3>13
  <2>3. PICK n \in V : n + 1 \notin V
    BY <2>2
  <2>4. \A w \in V : w <= n
    <3>1. ASSUME NEW w \in V, ~ w <= n PROVE FALSE
      <4>1. w \in 1 .. 13 /\ n \in 1 .. 13
        BY <1>1
      <4>2. n + 1 \in 1 .. w
        BY <3>1, <4>1
      <4> QED
        BY <1>1, <2>3, <4>2
    <3> QED
      BY <3>1
  <2>5. \E v \in V : \A w \in V : w <= v
    BY <2>4
  <2>6. Version(d) \in V /\ \A w \in V : w <= Version(d)
    BY <1>3, <2>5 DEF Version
  <2> HIDE DEF V
  <2>7. V = 1 .. Version(d)
    <3>1. Version(d) \in 1 .. 13 /\ 1 .. Version(d) \subseteq V
      BY <1>1, <2>6
    <3>2. \A w \in V : w \in 1 .. Version(d)
      BY <1>1, <2>6
    <3> QED
      BY <3>1, <3>2
  <2> QED
    BY <1>1, <2>6, <2>7 DEF V
<1> QED
  BY <1>2, <1>3

-----------------------------------------------------------------------------
(* The invariant of the catalog.                                            *)

\* A run: 14 is the adoption after the last step.
Job == [step : 0 .. 14, todo : Seq(Stage), entered : BOOLEAN, adopt : Life \cup {NoLife},
        fresh : BOOLEAN]

\* A watermark row is of a life.
Rowed(d) == d.wm = NoRow \/ d.wm.life \in Life

\* What a run has done: every step below its own is recorded, and what it still
\* has to do are stages of its step.
JobFits(j, d) ==
  /\ j.step \in Step =>
       /\ d.versions = 1 .. (j.step - 1)
       /\ Todo(j.todo, j.step)
       /\ j.step = 1 /\ j.todo # <<>> => "base" \in d.tables
  /\ ~ j.entered => j.todo = <<>>
  /\ j.step \notin Step => ~ j.entered
  /\ j.step = 0 => j = Idle
  /\ j.step = 14 => j.adopt # NoLife

\* The types, with the shape of a run.
MigTyped ==
  /\ backend \in Dialects /\ db \in Database /\ archive \in Database
  /\ bak \in Database \cup {NoFile}
  /\ job \in Job
  /\ minted \in 0 .. MaxLives /\ engine \in BOOLEAN /\ forced \in BOOLEAN
  /\ log \in [Life -> Seq(Belief) \cup {NoGenesis}]
  /\ deleted \subseteq Belief
  /\ Rowed(db) /\ Rowed(archive) /\ (bak # NoFile => Rowed(bak))
  /\ engine => db.wm.life \in Life /\ log[db.wm.life] # NoGenesis

\* Every copy of the catalog is coherent, and the run is where its database is.
CatalogStands ==
  /\ Coherent(db) /\ Coherent(archive) /\ (bak # NoFile => Coherent(bak))
  /\ JobFits(job, db)
  /\ job.step \in Step /\ ~ OnPg => bak # NoFile
  /\ engine => job = Idle

\* The inductive invariant of the catalog.
MigInv == MigTyped /\ CatalogStands

\* No list of beliefs is the missing log.
LEMMA LogFacts ==
  ASSUME MigrationConstants
  PROVE  /\ NoGenesis \notin Seq(Belief)
         /\ <<>> \in Seq(Belief)
         /\ \A q \in Seq(Belief), b \in Belief : Append(q, b) \in Seq(Belief)
<1>1. NoGenesis \notin Seq(Belief)
  <2>1. ASSUME NoGenesis \in Seq(Belief) PROVE FALSE
    <3>1. NoGenesis[1] \in Belief
      <4>1. Len(NoGenesis) = 1
        BY DEF NoGenesis
      <4> QED
        BY <2>1, <4>1
    <3>2. NoGenesis[1] = "no genesis"
      BY DEF NoGenesis
    <3> QED
      BY <3>1, <3>2 DEF MigrationConstants
  <2> QED
    BY <2>1
<1> QED
  BY <1>1

\* No run fits every database.
LEMMA IdleFits ==
  /\ Idle \in Job
  /\ \A d : JobFits(Idle, d)
  /\ Idle.step = 0 /\ Idle.step \notin Step /\ Idle.todo = <<>> /\ ~ Idle.entered
  /\ Idle.adopt = NoLife
<1>1. /\ Idle.step = 0 /\ Idle.step \notin Step /\ Idle.todo = <<>> /\ ~ Idle.entered
      /\ Idle.adopt = NoLife
  BY DEF Idle, Step, Latest
<1>2. Idle \in Job
  BY DEF Idle, Job
<1>3. ASSUME NEW d PROVE JobFits(Idle, d)
  BY <1>1 DEF JobFits
<1> QED
  BY <1>1, <1>2, <1>3

\* Coherence looks at the dialect and the database only.
LEMMA CoherentDb ==
  ASSUME NEW e, Coherent(e), db' = e, backend' = backend
  PROVE  Coherent(db)'
  BY DEF Coherent, Kept, Guarded, OnPg

LEMMA CoherentBak ==
  ASSUME NEW e, Coherent(e), bak' = e, backend' = backend
  PROVE  Coherent(bak)'
  BY DEF Coherent, Kept, Guarded, OnPg

LEMMA CoherentArchive ==
  ASSUME NEW e, Coherent(e), archive' = e, backend' = backend
  PROVE  Coherent(archive)'
  BY DEF Coherent, Kept, Guarded, OnPg

\* A step that brings a coherent database and a run that fits it.
LEMMA CatalogMoves ==
  ASSUME CatalogStands, backend' = backend, archive' = archive,
         NEW e, db' = e, Coherent(e),
         NEW k, bak' = k, k # NoFile => Coherent(k),
         NEW j, job' = j, JobFits(j, e), j.step \in Step /\ ~ OnPg => k # NoFile,
         engine' => j = Idle
  PROVE  CatalogStands'
<1>1. Coherent(db)'
  BY CoherentDb
<1>2. Coherent(archive)'
  BY CoherentArchive DEF CatalogStands
<1>3. bak' # NoFile => Coherent(bak)'
  BY CoherentBak
<1>4. JobFits(job, db)'
  BY DEF JobFits
<1>5. (job.step \in Step /\ ~ OnPg => bak # NoFile)'
  BY DEF OnPg
<1> QED
  BY <1>1, <1>2, <1>3, <1>4, <1>5 DEF CatalogStands

\* The except branch: the database as it is, or the backup.
LEMMA AbandonDoes ==
  ASSUME MigInv, job.step \in Step, NEW d \in Database, Coherent(d), Rowed(d), Abandon(d),
         backend' = backend, archive' = archive, bak' = bak, engine' = engine
  PROVE  /\ CatalogStands' /\ job' \in Job /\ db' \in Database /\ Rowed(db)'
<1>1. job' = Idle /\ db' = (IF OnPg THEN d ELSE bak)
  BY DEF Abandon
<1>2. ~ OnPg => bak \in Database /\ Coherent(bak) /\ Rowed(bak)
  BY DEF MigInv, MigTyped, CatalogStands
<1>3. db' \in Database
  BY <1>1, <1>2
<1>4. Rowed(db)'
  BY <1>1, <1>2 DEF Rowed
<1>5. CatalogStands'
  <2>1. CatalogStands /\ (bak # NoFile => Coherent(bak))
    BY DEF MigInv, CatalogStands
  <2>2. CASE OnPg
    BY <1>1, <2>1, <2>2, CatalogMoves, IdleFits
  <2>3. CASE ~ OnPg
    BY <1>1, <1>2, <2>1, <2>3, CatalogMoves, IdleFits
  <2> QED
    BY <2>2, <2>3
<1> QED
  BY <1>1, <1>3, <1>4, <1>5, IdleFits

\* What the catalog asks nothing of: the watermark row and the beliefs.
LEMMA BookDoes ==
  ASSUME NEW d \in Database, Coherent(d), NEW e \in Database,
         e.tables = d.tables, e.protected = d.protected, e.roles = d.roles,
         e.untenanted = d.untenanted, e.composite = d.composite, e.col = d.col,
         e.idx = d.idx, e.legacy = d.legacy, e.versions = d.versions, d.wmTable => e.wmTable
  PROVE  Coherent(e)
<1>1. Grows(14, d, e)
  BY DEF Grows
<1>2. "base" \notin e.tables => e.idx["pending"] # "valid"
  BY DEF Coherent
<1>3. \A m \in d.versions : m < 14
  BY Parts DEF Step, Latest
<1> QED
  BY <1>1, <1>2, <1>3, GrowsCoheres

\* The initial states.
LEMMA MigInit ==
  ASSUME MigrationConstants, MigrationInit
  PROVE  MigInv
<1>1. /\ db \in Database /\ Coherent(db)
      /\ db.wm = NoRow \/ db.wm = [life |-> 1, applied |-> 0]
  <2>1. CASE db = Empty(backend)
    BY <2>1, EmptyStands
  <2>2. CASE db # Empty(backend)
    <3>1. PICK v \in Releases, bs \in SUBSET Belief : db = Shape(v, backend, bs)
      BY <2>2 DEF MigrationInit
    <3>2. v \in 0 .. 13
      BY DEF MigrationConstants, Latest
    <3> QED
      BY <3>1, <3>2, ShapeStands
  <2> QED
    BY <2>1, <2>2
<1>2. Rowed(db)
  BY <1>1, RowFacts, LifeFacts DEF Rowed
<1>0. /\ backend \in Dialects /\ job = Idle /\ bak = NoFile /\ archive = db
      /\ minted = (IF db.wm = NoRow THEN 0 ELSE 1)
      /\ log = [l \in Life |-> IF l <= minted THEN <<>> ELSE NoGenesis]
      /\ engine = FALSE /\ deleted = {} /\ forced = FALSE
  BY DEF MigrationInit
<1>3. minted \in 0 .. MaxLives
  <2>1. minted = 0 \/ minted = 1
    BY <1>0
  <2>2. MaxLives \in Nat /\ MaxLives # 0
    BY DEF MigrationConstants
  <2> QED
    BY <2>1, <2>2
<1>4. log \in [Life -> Seq(Belief) \cup {NoGenesis}]
  <2>1. <<>> \in Seq(Belief)
    OBVIOUS
  <2>2. log = [l \in Life |-> IF l <= minted THEN <<>> ELSE NoGenesis]
    BY <1>0
  <2> QED
    BY <2>1, <2>2
<1>5. MigTyped
  BY <1>0, <1>1, <1>2, <1>3, <1>4, IdleFits DEF MigTyped
<1>6. CatalogStands
  BY <1>0, <1>1, IdleFits DEF CatalogStands
<1> QED
  BY <1>5, <1>6 DEF MigInv

-----------------------------------------------------------------------------
(* One lemma per action: the catalog stands.                                *)

\* The invariant, part by part.
LEMMA Standing ==
  ASSUME MigInv
  PROVE  /\ backend \in Dialects /\ db \in Database /\ archive \in Database
         /\ bak \in Database \cup {NoFile} /\ job \in Job
         /\ minted \in 0 .. MaxLives /\ engine \in BOOLEAN /\ forced \in BOOLEAN
         /\ log \in [Life -> Seq(Belief) \cup {NoGenesis}] /\ deleted \subseteq Belief
         /\ Rowed(db) /\ Rowed(archive) /\ (bak # NoFile => bak \in Database /\ Rowed(bak))
         /\ engine => db.wm.life \in Life /\ log[db.wm.life] # NoGenesis
         /\ Coherent(db) /\ Coherent(archive) /\ (bak # NoFile => Coherent(bak))
         /\ JobFits(job, db) /\ CatalogStands
         /\ job.step \in Step /\ ~ OnPg => bak # NoFile
         /\ engine => job = Idle
  BY DEF MigInv, MigTyped, CatalogStands

\* A step that changes the run and the database only.
LEMMA JobDbMoves ==
  ASSUME MigInv, CatalogStands', job' \in Job, db' \in Database, Rowed(db)', bak' = bak,
         UNCHANGED <<backend, archive, log, engine, deleted>>,
         minted' \in 0 .. MaxLives, forced' \in BOOLEAN, ~ engine \/ db' = db
  PROVE  MigInv'
<1>1. MigTyped'
  BY Standing DEF MigTyped, Rowed
<1> QED
  BY <1>1 DEF MigInv

\* A run in a step.
LEMMA Working ==
  ASSUME MigInv, job.step \in Step
  PROVE  /\ ~ engine /\ Ready(job.step, db) /\ Todo(job.todo, job.step)
         /\ job.step \in Nat /\ job.step \in 1 .. 13
         /\ job.step = 1 /\ job.todo # <<>> => "base" \in db.tables
<1>1. job # Idle
  BY IdleFits
<1>2. ~ engine
  BY <1>1, Standing
<1>3. /\ db.versions = 1 .. (job.step - 1) /\ Todo(job.todo, job.step)
      /\ job.step = 1 /\ job.todo # <<>> => "base" \in db.tables
  BY Standing DEF JobFits
<1>4. Ready(job.step, db)
  BY <1>3, Standing DEF Ready
<1>5. job.step \in Nat /\ job.step \in 1 .. 13
  BY DEF Step, Latest
<1> QED
  BY <1>2, <1>3, <1>4, <1>5

\* Only a run in a step is entered.
LEMMA EnteredWorks ==
  ASSUME MigInv, job.entered
  PROVE  job.step \in Step
  BY Standing DEF JobFits

LEMMA StartUpgradeStands ==
  ASSUME MigrationConstants, MigInv, NEW a \in Life \cup {NoLife}, NEW f \in BOOLEAN, StartUpgrade(a, f)
  PROVE  MigInv'
<1> DEFINE j == IF Version(db) = Latest THEN Idle
                ELSE [Idle EXCEPT !.step = Version(db) + 1, !.adopt = a, !.fresh = f]
           k == IF OnPg THEN bak ELSE db
<1>0. /\ job = Idle /\ ~ engine /\ job' = j /\ bak' = k
      /\ UNCHANGED <<backend, db, archive, log, minted, engine, deleted, forced, spent>>
  BY DEF StartUpgrade, BackupSqlite
<1>1. Version(db) \in 0 .. 13 /\ db.versions = 1 .. Version(db)
  BY Standing, VersionFacts
<1>2. j \in Job /\ JobFits(j, db)
  <2>1. CASE Version(db) = Latest
    BY <2>1, IdleFits
  <2>2. CASE Version(db) # Latest
    <3>1. /\ j = [step |-> Version(db) + 1, todo |-> <<>>, entered |-> FALSE, adopt |-> a, fresh |-> f]
      BY <2>2 DEF Idle
    <3>2. Version(db) + 1 \in 1 .. 13
      BY <1>1, <2>2 DEF Latest
    <3> HIDE DEF j
    <3>3. /\ j.step = Version(db) + 1 /\ j.todo = <<>> /\ ~ j.entered
          /\ j.adopt = a /\ j.fresh = f
      BY <3>1
    <3>4. j \in Job
      BY <3>1, <3>2 DEF Job
    <3>5. JobFits(j, db)
      BY <1>1, <3>2, <3>3, ListIsTodo DEF JobFits, Step, Latest
    <3> QED
      BY <3>4, <3>5
  <2> QED
    BY <2>1, <2>2
<1>3. (~ OnPg => k = db /\ k # NoFile) /\ (OnPg => k = bak)
  BY Standing, FileFacts
<1> HIDE DEF j, k
<1>4. CatalogStands'
  <2>1. k # NoFile => Coherent(k)
    BY <1>3, Standing
  <2> QED
    BY <1>0, <1>2, <1>3, <2>1, Standing, CatalogMoves
<1>5. MigTyped'
  <2>1. k \in Database \cup {NoFile} /\ (k # NoFile => Rowed(k))
    BY <1>3, Standing
  <2>2. Rowed(bak)' <=> Rowed(k)
    BY <1>0 DEF Rowed
  <2> QED
    BY <1>0, <1>2, <2>1, <2>2, Standing DEF MigTyped, Rowed
<1> QED
  BY <1>4, <1>5 DEF MigInv

LEMMA StartAdoptStands ==
  ASSUME MigrationConstants, MigInv, NEW l \in Life, StartAdopt(l)
  PROVE  MigInv'
<1>1. CASE Version(db) < Latest
  BY <1>1, StartUpgradeStands DEF StartAdopt
<1>2. CASE ~ Version(db) < Latest
  <2> DEFINE j == [Idle EXCEPT !.step = Latest + 1, !.adopt = l]
  <2>0. /\ job' = j /\ ~ engine
        /\ UNCHANGED <<backend, db, bak, archive, log, minted, engine, deleted, forced, spent>>
    BY <1>2 DEF StartAdopt
  <2>1. Latest + 1 = 14
    BY DEF Latest
  <2>2. j.step = 14 /\ j.todo = Idle.todo /\ j.entered = Idle.entered /\ j.adopt = l
    <3>1. j.step = Latest + 1 /\ j.adopt = l /\ j.todo = Idle.todo /\ j.entered = Idle.entered
      BY IdleFits DEF Job
    <3> QED
      BY <2>1, <3>1
  <2>3. j \in Job
    <3>1. Latest + 1 \in 0 .. 14
      BY <2>1
    <3> QED
      BY <3>1, IdleFits DEF Job
  <2> HIDE DEF j
  <2>7. ~ j.entered /\ j.todo = <<>>
    BY <2>2, IdleFits
  <2>4. JobFits(j, db) /\ j.step \notin Step
    <3>1. j.step \notin Step /\ j.step # 0 /\ NoLife # l
      BY <2>2, LifeFacts
    <3> QED
      BY <2>2, <2>7, <3>1 DEF JobFits
  <2>5. CatalogStands'
    BY <2>0, <2>4, Standing, CatalogMoves
  <2>6. Rowed(db)'
    BY <2>0, Standing DEF Rowed
  <2> QED
    BY <2>0, <2>3, <2>5, <2>6, Standing, JobDbMoves
<1> QED
  BY <1>1, <1>2

LEMMA EnterStepStands ==
  ASSUME MigrationConstants, MigInv, EnterStep
  PROVE  MigInv'
<1> DEFINE q == IF Steps(job.step, db).needed THEN Steps(job.step, db).stages ELSE <<>>
           j == [job EXCEPT !.entered = TRUE, !.todo = q]
<1>0. /\ job' = j /\ job.step \in Step
      /\ UNCHANGED <<backend, db, bak, archive, log, minted, engine, deleted, forced, spent>>
  BY DEF EnterStep
<1>1. Todo(q, job.step)
  BY <1>0, StagesFit, ListIsTodo
<1>2. job.step = 1 /\ q # <<>> => "base" \in db.tables
  <2>1. ASSUME job.step = 1, q # <<>> PROVE "base" \in db.tables
    <3>1. Steps(1, db).needed
      BY <2>1
    <3>4. Step1Tenancy(db).needed <=> db.untenanted # {}
      BY DEF Step1Tenancy, AStep
    <3>2. Steps(1, db) = Step1Tenancy(db)
      BY Chosen
    <3>3. "base" \notin db.tables => db.untenanted = {}
      BY Standing DEF Coherent
    <3> QED
      BY <3>1, <3>2, <3>3, <3>4
  <2> QED
    BY <2>1
<1>3. q \in Seq(Stage)
  BY <1>1 DEF Todo
<1> HIDE DEF q
<1>4. /\ j \in Job /\ j.step = job.step /\ j.entered /\ j.todo = q /\ j.adopt = job.adopt
  BY <1>3, Standing DEF Job
<1> HIDE DEF j
<1>5. JobFits(j, db)
  <2>1. db.versions = 1 .. (job.step - 1)
    BY <1>0, Standing DEF JobFits
  <2>2. job.step # 0 /\ job.step # 14
    BY <1>0 DEF Step, Latest
  <2> QED
    BY <1>0, <1>1, <1>2, <1>4, <2>1, <2>2 DEF JobFits
<1>6. CatalogStands'
  BY <1>0, <1>4, <1>5, Working, Standing, CatalogMoves
<1>7. Rowed(db)'
  BY <1>0, Standing DEF Rowed
<1> QED
  BY <1>0, <1>4, <1>6, <1>7, Standing, JobDbMoves

\* A run that goes on within its step.
LEMMA WorkGoesOn ==
  ASSUME MigInv, job.entered, NEW e, Ready(job.step, e), Rowed(e),
         NEW q, Todo(q, job.step), job.step = 1 /\ q # <<>> => "base" \in e.tables,
         db' = e, job' = [job EXCEPT !.todo = q],
         UNCHANGED <<backend, bak, archive, log, engine, deleted>>,
         minted' \in 0 .. MaxLives, forced' \in BOOLEAN
  PROVE  MigInv'
<1> DEFINE j == [job EXCEPT !.todo = q]
<1>0. job.step \in Step /\ e \in Database /\ Coherent(e) /\ e.versions = 1 .. (job.step - 1)
  BY EnteredWorks DEF Ready
<1>1. q \in Seq(Stage)
  BY DEF Todo
<1>2. j \in Job /\ j.step = job.step /\ j.entered = job.entered /\ j.todo = q /\ j.adopt = job.adopt
  BY <1>1, Standing DEF Job
<1> HIDE DEF j
<1>3. JobFits(j, e)
  <2>2. job.step # 0 /\ job.step # 14
    BY <1>0 DEF Step, Latest
  <2> QED
    BY <1>0, <1>2, <2>2 DEF JobFits
<1>4. job' = j
  BY DEF j
<1>5. ~ engine
  BY <1>0, Working
<1>6. CatalogStands'
  BY <1>0, <1>2, <1>3, <1>4, <1>5, Standing, CatalogMoves
<1>7. Rowed(db)'
  BY DEF Rowed
<1> QED
  BY <1>0, <1>2, <1>4, <1>5, <1>6, <1>7, JobDbMoves

\* A step that abandons the run.
LEMMA AbandonStands ==
  ASSUME MigInv, job.step \in Step, NEW d \in Database, Coherent(d), Rowed(d), Abandon(d),
         UNCHANGED <<backend, bak, archive, log, minted, engine, deleted, forced>>
  PROVE  MigInv'
<1>1. ~ engine
  BY Working
<1> QED
  BY <1>1, AbandonDoes, JobDbMoves, Standing

LEMMA RunStageStands ==
  ASSUME MigrationConstants, MigInv, RunStage
  PROVE  MigInv'
<1> DEFINE s == Head(job.todo)
           n == job.step
<1>0. /\ job.entered /\ job.todo # <<>> /\ s.op # "mint"
      /\ UNCHANGED <<backend, bak, archive, log, minted, engine, deleted, forced, spent>>
      /\ IF s.op = "column"
         THEN /\ job' = [job EXCEPT !.todo = ColumnStages(s.on, db) \o Tail(@)]
              /\ db' = db
         ELSE IF Feasible(s, db)
         THEN /\ job' = [job EXCEPT !.todo = Tail(@)]
              /\ db' = After(s, db)
         ELSE Abandon(db)
  BY DEF RunStage, Pending
<1>1. n \in Step /\ Ready(n, db) /\ Todo(job.todo, n) /\ ~ engine
      /\ (n = 1 => "base" \in db.tables)
  BY <1>0, EnteredWorks, Working
<1>2. s \in Stage /\ Fits(s, n) /\ Todo(Tail(job.todo), n)
      /\ \A p : Todo(p, n) => Todo(p \o Tail(job.todo), n)
  BY <1>0, <1>1, TodoRests
<1> HIDE DEF s, n
<1>3. CASE s.op = "column"
  <2> DEFINE q == ColumnStages(s.on, db) \o Tail(job.todo)
  <2>1. s.on \in Columns \ {"tenant"} /\ n = ColumnSince(s.on)
    BY <1>2, <1>3 DEF Fits
  <2>2. Todo(ColumnStages(s.on, db), n)
    BY <2>1, ColumnsFit
  <2>3. Todo(q, n)
    BY <1>2, <2>2
  <2>4. job' = [job EXCEPT !.todo = q] /\ db' = db
    BY <1>0, <1>3 DEF Job
  <2> HIDE DEF q
  <2> QED
    BY <1>0, <1>1, <2>3, <2>4, WorkGoesOn, Standing DEF n
<1>4. CASE s.op # "column" /\ Feasible(s, db)
  <2> DEFINE q == Tail(job.todo)
             e == After(s, db)
  <2>1. job' = [job EXCEPT !.todo = q] /\ db' = e
    BY <1>0, <1>4
  <2>2. Ready(n, e) /\ Rests(db, e)
    BY <1>0, <1>1, <1>2, <1>4, AfterDoes
  <2>3. Rowed(e) /\ (n = 1 => "base" \in e.tables)
    BY <1>1, <2>2, Standing DEF Rests, Rowed
  <2> HIDE DEF q, e
  <2> QED
    BY <1>0, <1>1, <1>2, <2>1, <2>2, <2>3, WorkGoesOn, Standing DEF n, q
<1>5. CASE s.op # "column" /\ ~ Feasible(s, db)
  BY <1>0, <1>1, <1>5, AbandonStands, Standing DEF n
<1> QED
  BY <1>3, <1>4, <1>5

\* A watermark row written over a database.
LEMMA RowDoes ==
  ASSUME MigrationConstants, NEW d \in Database, Coherent(d), NEW l \in Life, NEW e,
         \/ e = [d EXCEPT !.wm = [life |-> l, applied |-> 0]]
         \/ e = [d EXCEPT !.wmTable = TRUE, !.wm = [life |-> l, applied |-> 0]]
  PROVE  /\ e \in Database /\ Coherent(e) /\ Rowed(e)
         /\ e.versions = d.versions /\ e.tables = d.tables /\ e.beliefs = d.beliefs
         /\ e.wm = [life |-> l, applied |-> 0]
<1> DEFINE r == [life |-> l, applied |-> 0]
<1>1. r \in [life : Life \cup {NoLife}, applied : Nat] /\ r.life = l
  BY RowFacts
<1>0. e = [d EXCEPT !.wm = r] \/ e = [d EXCEPT !.wmTable = TRUE, !.wm = r]
  OBVIOUS
<1> HIDE DEF r
<1>2. /\ e \in Database /\ e.tables = d.tables /\ e.protected = d.protected /\ e.roles = d.roles
      /\ e.untenanted = d.untenanted /\ e.composite = d.composite /\ e.col = d.col
      /\ e.idx = d.idx /\ e.legacy = d.legacy /\ e.versions = d.versions
      /\ (d.wmTable => e.wmTable) /\ e.wm = r /\ e.beliefs = d.beliefs
  <2>1. CASE e = [d EXCEPT !.wm = r]
    BY <1>1, <2>1 DEF Database
  <2>2. CASE e = [d EXCEPT !.wmTable = TRUE, !.wm = r]
    BY <1>1, <2>2 DEF Database
  <2> QED
    BY <1>0, <2>1, <2>2
<1>3. Coherent(e)
  BY <1>2, BookDoes
<1>4. Rowed(e)
  BY <1>1, <1>2 DEF Rowed
<1> QED
  BY <1>2, <1>3, <1>4 DEF r

LEMMA MintRowStands ==
  ASSUME MigrationConstants, MigInv, MintRow
  PROVE  MigInv'
<1> DEFINE skip == job.adopt # NoLife \/ db.wm # NoRow
           n == job.step
           q == Tail(job.todo)
<1>0. /\ job.entered /\ job.todo # <<>>
      /\ UNCHANGED <<backend, bak, archive, log, engine, deleted, spent>>
      /\ IF ~ skip /\ MustAdopt /\ ~ job.fresh
         THEN Abandon(db) /\ UNCHANGED <<minted, forced>>
         ELSE /\ ~ skip => minted < MaxLives
              /\ minted' = IF skip THEN minted ELSE minted + 1
              /\ db' = IF skip THEN db ELSE [db EXCEPT !.wm = [life |-> minted + 1, applied |-> 0]]
              /\ forced' = (forced \/ (~ skip /\ MustAdopt))
              /\ job' = [job EXCEPT !.todo = Tail(@)]
  BY DEF MintRow, Pending
<1>1. n \in Step /\ Ready(n, db) /\ Todo(job.todo, n) /\ ~ engine
      /\ (n = 1 => "base" \in db.tables)
  BY <1>0, EnteredWorks, Working
<1>2. Todo(q, n)
  BY <1>0, <1>1, TodoRests
<1>3. CASE ~ skip /\ MustAdopt /\ ~ job.fresh
  BY <1>0, <1>1, <1>3, AbandonStands, Standing
<1>4. CASE skip
  <2>1. db' = db /\ minted' = minted /\ job' = [job EXCEPT !.todo = q]
    BY <1>0, <1>4
  <2>2. forced' \in BOOLEAN
    BY <1>0, <1>4
  <2> QED
    BY <1>0, <1>1, <1>2, <2>1, <2>2, WorkGoesOn, Standing
<1>5. CASE ~ skip /\ ~ (MustAdopt /\ ~ job.fresh)
  <2> DEFINE l == minted + 1
             e == [db EXCEPT !.wm = [life |-> l, applied |-> 0]]
  <2>1. minted < MaxLives /\ minted' = l /\ db' = e /\ job' = [job EXCEPT !.todo = q]
    BY <1>0, <1>5
  <2>2. forced' \in BOOLEAN
    BY <1>0, <1>5
  <2>3. l \in Life /\ l \in 0 .. MaxLives
    <3>1. minted \in 0 .. MaxLives /\ MaxLives \in Nat
      BY Standing DEF MigrationConstants
    <3> QED
      BY <2>1, <3>1 DEF Life
  <2>4. e = [db EXCEPT !.wm = [life |-> l, applied |-> 0]]
    OBVIOUS
  <2> HIDE DEF e, l
  <2>6. /\ e \in Database /\ Coherent(e) /\ Rowed(e)
        /\ e.versions = db.versions /\ e.tables = db.tables
    BY <2>3, <2>4, RowDoes, Standing
  <2>7. Ready(n, e)
    BY <1>1, <2>6 DEF Ready
  <2> QED
    BY <1>0, <1>1, <1>2, <2>1, <2>2, <2>3, <2>6, <2>7, WorkGoesOn, Standing
<1> QED
  BY <1>3, <1>4, <1>5

\* What an interrupted stage leaves, of the run's own stage.
LEMMA Debrises ==
  ASSUME MigInv, Pending, NEW d \in Debris(Head(job.todo), db)
  PROVE  /\ d \in Database /\ Coherent(d) /\ Rowed(d) /\ Rests(db, d) /\ job.step \in Step
<1>0. job.entered /\ job.todo # <<>>
  BY DEF Pending
<1>1. job.step \in Step /\ Ready(job.step, db) /\ Todo(job.todo, job.step)
  BY <1>0, EnteredWorks, Working
<1>2. Head(job.todo) \in Stage /\ Fits(Head(job.todo), job.step)
  BY <1>0, <1>1, TodoRests
<1>3. Ready(job.step, d) /\ Rests(db, d)
  BY <1>1, <1>2, DebrisDoes
<1>4. Rowed(d)
  BY <1>3, Standing DEF Rests, Rowed
<1> QED
  BY <1>1, <1>3, <1>4 DEF Ready

LEMMA StageFailsStands ==
  ASSUME MigInv, StageFails
  PROVE  MigInv'
<1>1. PICK d \in Debris(Head(job.todo), db) : Abandon(d)
  BY DEF StageFails
<1>2. Pending /\ UNCHANGED <<backend, bak, archive, log, minted, engine, deleted, forced>>
  BY DEF StageFails
<1> QED
  BY <1>1, <1>2, Debrises, AbandonStands

LEMMA VerifyStepStands ==
  ASSUME MigrationConstants, MigInv, VerifyStep
  PROVE  MigInv'
<1> DEFINE n == job.step
           e == [db EXCEPT !.versions = @ \cup {n}]
<1>0. /\ job.entered /\ job.todo = <<>>
      /\ UNCHANGED <<backend, bak, archive, log, minted, engine, deleted, forced, spent>>
  BY DEF VerifyStep
<1>1. n \in Step /\ Ready(n, db) /\ ~ engine
  BY <1>0, EnteredWorks, Working
<1>2. CASE ~ Steps(n, db).verified
  <2>1. Abandon(db)
    BY <1>2 DEF VerifyStep
  <2> QED
    BY <1>0, <1>1, <2>1, AbandonStands, Standing
<1>3. CASE Steps(n, db).verified
  <2> DEFINE j == [job EXCEPT !.step = n + 1, !.entered = FALSE]
  <2>1. /\ db' = e
        /\ job' = IF n = Latest /\ job.adopt = NoLife THEN Idle ELSE j
    <3>1. job' = IF n = Latest /\ job.adopt = NoLife THEN Idle ELSE [job EXCEPT !.step = @ + 1, !.entered = FALSE]
      BY <1>3 DEF VerifyStep
    <3>2. [job EXCEPT !.step = @ + 1, !.entered = FALSE] = j
      BY Standing DEF Job
    <3> QED
      BY <1>3, <3>1, <3>2 DEF VerifyStep
  <2>2. /\ e \in Database /\ Coherent(e) /\ e.versions = 1 .. n
        /\ e.wm = db.wm /\ e.beliefs = db.beliefs
    BY <1>1, <1>3, VersionMoves
  <2>3. n \in 1 .. 13 /\ Step = 1 .. 13 /\ Latest = 13
    BY <1>1, LifeFacts
  <2>4. /\ j \in Job /\ j.step = n + 1 /\ j.todo = <<>> /\ ~ j.entered /\ j.adopt = job.adopt
    <3>1. j \in Job
      <4>1. n + 1 \in 0 .. 14 /\ job \in Job
        BY <2>3, Standing
      <4> QED
        BY <4>1 DEF Job
    <3>2. j.step = n + 1 /\ j.todo = job.todo /\ j.adopt = job.adopt
      BY Standing DEF Job
    <3>3. ~ j.entered
      BY Standing DEF Job
    <3> QED
      BY <1>0, <3>1, <3>2, <3>3
  <2> HIDE DEF e, j, n
  <2>5. CASE n = Latest /\ job.adopt = NoLife
    <3>1. job' = Idle
      BY <2>1, <2>5
    <3>2. CatalogStands'
      BY <1>0, <1>1, <2>1, <2>2, <3>1, Standing, IdleFits, CatalogMoves
    <3>3. Rowed(db)'
      BY <2>1, <2>2, Standing DEF Rowed
    <3> QED
      BY <1>0, <1>1, <2>1, <2>2, <3>1, <3>2, <3>3, Standing, IdleFits, JobDbMoves
  <2>6. CASE ~ (n = Latest /\ job.adopt = NoLife)
    <3>1. job' = j
      BY <2>1, <2>6
    <3>2. JobFits(j, e)
      <4>1. j.step # 0 /\ (j.step = 14 => j.adopt # NoLife)
        BY <2>3, <2>4, <2>6
      <4>2. j.step \in Step => e.versions = 1 .. (j.step - 1) /\ Todo(j.todo, j.step)
        BY <2>2, <2>3, <2>4, ListIsTodo
      <4> QED
        BY <2>4, <4>1, <4>2 DEF JobFits
    <3>3. ~ OnPg => bak # NoFile
      BY <1>1, Standing DEF n
    <3>4. CatalogStands'
      BY <1>0, <1>1, <2>1, <2>2, <3>1, <3>2, <3>3, Standing, CatalogMoves
    <3>5. Rowed(db)'
      BY <2>1, <2>2, Standing DEF Rowed
    <3> QED
      BY <1>0, <1>1, <2>1, <2>2, <2>4, <3>1, <3>4, <3>5, Standing, JobDbMoves
  <2> QED
    BY <2>5, <2>6
<1> QED
  BY <1>2, <1>3

LEMMA CrashStands ==
  ASSUME MigInv, Crash
  PROVE  MigInv'
<1>0. /\ job # Idle /\ job' = Idle
      /\ db' \in IF Pending THEN Debris(Head(job.todo), db) ELSE {db}
      /\ UNCHANGED <<backend, bak, archive, log, minted, engine, deleted, forced>>
  BY DEF Crash
<1>1. PICK d : db' = d /\ d \in Database /\ Coherent(d) /\ Rowed(d)
  <2>1. CASE Pending
    BY <1>0, <2>1, Debrises
  <2>2. CASE ~ Pending
    BY <1>0, <2>2, Standing
  <2> QED
    BY <2>1, <2>2
<1>2. ~ engine
  BY <1>0, Standing
<1>3. CatalogStands'
  BY <1>0, <1>1, <1>2, IdleFits, CatalogMoves, Standing
<1>4. Rowed(db)'
  BY <1>1 DEF Rowed
<1> QED
  BY <1>0, <1>1, <1>2, <1>3, <1>4, IdleFits, JobDbMoves, Standing

LEMMA OldWriteStands ==
  ASSUME MigInv, OldWrite
  PROVE  MigInv'
<1> DEFINE p == {c \in Columns \ {"snapGeneration"} : db.col[c] = "nullable"}
           e == [db EXCEPT !.unfilled = @ \cup p]
<1>0. /\ OnPg /\ job # Idle /\ db' = e
      /\ UNCHANGED <<backend, job, bak, archive, log, minted, engine, deleted, forced>>
  BY DEF OldWrite
<1>1. p \in SUBSET Columns
  OBVIOUS
<1> HIDE DEF p
<1>2. /\ e \in Database /\ Rests(db, e) /\ \A k \in Nat : Grows(k, db, e)
      /\ e.idx = db.idx /\ e.tables = db.tables
  BY <1>1, WriteDoes, Standing
<1> HIDE DEF e
<1>3. Coherent(e)
  <2>1. Grows(14, db, e) /\ e.versions = db.versions
    BY <1>2 DEF Rests
  <2>2. "base" \notin e.tables => e.idx["pending"] # "valid"
    BY <1>2, Standing DEF Coherent
  <2>3. \A m \in db.versions : m < 14
    <3>1. db.versions \subseteq Step
      BY Parts, Standing
    <3> QED
      BY <3>1 DEF Step, Latest
  <2> QED
    BY <1>2, <2>1, <2>2, <2>3, GrowsCoheres, Standing
<1>4. JobFits(job, e)
  BY <1>2, Standing DEF JobFits, Rests
<1>5. ~ engine
  BY <1>0, Standing
<1>6. CatalogStands'
  BY <1>0, <1>3, <1>4, <1>5, Standing, CatalogMoves
<1>7. Rowed(db)'
  BY <1>0, <1>2, Standing DEF Rests, Rowed
<1> QED
  BY <1>0, <1>2, <1>5, <1>6, <1>7, Standing, JobDbMoves

\* What a start works on once create_all and ensure_watermark are done.
Started(d) ==
  /\ d \in Database /\ Coherent(d) /\ Rowed(d) /\ d.beliefs = db.beliefs
  /\ db.wm # NoRow \/ db.beliefs # {} => d.wm = db.wm
  /\ db.wm = NoRow /\ db.beliefs = {} =>
       minted + 1 \in Life /\ d.wm = [life |-> minted + 1, applied |-> 0]

\* create_all and ensure_watermark, by the row and the data they find.
LEMMA EngineOpens ==
  ASSUME MigrationConstants, MigInv, StartEngine
  PROVE  \E d :
           /\ Started(d)
           /\ \/ /\ d.wm = NoRow \/ d.wm.applied < Len(EntriesOf(d.wm.life))
                 /\ db' = d /\ UNCHANGED <<log, minted, engine>>
              \/ /\ d.wm # NoRow
                 /\ minted' = IF db.wm = NoRow THEN minted + 1 ELSE minted
                 /\ log' = [log EXCEPT ![d.wm.life] = EntriesOf(d.wm.life)]
                 /\ db' = [d EXCEPT !.beliefs = @ \ Above(EntriesOf(d.wm.life), d.wm.applied),
                                    !.wm.applied = Len(EntriesOf(d.wm.life))]
                 /\ engine' = TRUE
<1> DEFINE c == IF OnPg THEN db ELSE CreateAll(db)
           g == [c EXCEPT !.wmTable = TRUE]
           d == Claimed(g)
<1>0. /\ db.wm = NoRow /\ ~ HasData(db) => minted < MaxLives
      /\ IF d.wm = NoRow \/ (d.wm.applied < Len(EntriesOf(d.wm.life)) /\ ~ ColumnsThere(Columns, d))
         THEN /\ db' = d
              /\ UNCHANGED <<log, minted, engine>>
         ELSE /\ minted' = IF db.wm = NoRow THEN minted + 1 ELSE minted
              /\ log' = [log EXCEPT ![d.wm.life] = EntriesOf(d.wm.life)]
              /\ db' = [d EXCEPT !.beliefs = @ \ Above(EntriesOf(d.wm.life), d.wm.applied),
                                 !.wm.applied = Len(EntriesOf(d.wm.life))]
              /\ engine' = TRUE
  BY DEF StartEngine
<1>1. /\ c \in Database /\ Coherent(c) /\ c.wm = db.wm /\ c.beliefs = db.beliefs
  BY CreateAllStands, Standing
<1> HIDE DEF c
<1>2. /\ g \in Database /\ Coherent(g) /\ g.wm = db.wm /\ g.beliefs = db.beliefs
  <2>1. /\ g \in Database /\ Rests(c, g) /\ Grows(14, c, g) /\ g.idx = c.idx /\ g.tables = c.tables
    BY <1>1, WmTableDoes
  <2>2. Coherent(g)
    <3>1. \A m \in c.versions : m < 14
      <4>1. c.versions \subseteq Step
        BY <1>1, Parts
      <4> QED
        BY <4>1 DEF Step, Latest
    <3>2. "base" \notin g.tables => g.idx["pending"] # "valid"
      BY <1>1, <2>1 DEF Coherent
    <3>3. g.versions = c.versions
      BY <2>1 DEF Rests
    <3> QED
      BY <1>1, <2>1, <3>1, <3>2, <3>3, GrowsCoheres
  <2> QED
    BY <1>1, <2>1, <2>2 DEF Rests
<1> HIDE DEF g
<1>3. CASE db.wm # NoRow \/ db.beliefs # {}
  <2>1. d = g
    BY <1>2, <1>3 DEF Claimed, HasData
  <2>2. Started(d)
    BY <1>2, <1>3, <2>1, Standing DEF Started, Rowed
  <2> HIDE DEF d
  <2> QED
    BY <1>0, <2>2
<1>4. CASE db.wm = NoRow /\ db.beliefs = {}
  <2> DEFINE l == minted + 1
  <2>1. d = [g EXCEPT !.wm = [life |-> l, applied |-> 0]]
    BY <1>2, <1>4 DEF Claimed, HasData
  <2>2. l \in Life
    <3>1. minted < MaxLives
      BY <1>0, <1>4 DEF HasData
    <3>2. minted \in 0 .. MaxLives /\ MaxLives \in Nat
      BY Standing DEF MigrationConstants
    <3> QED
      BY <3>1, <3>2 DEF Life
  <2> HIDE DEF d, l
  <2>3. /\ d \in Database /\ Coherent(d) /\ Rowed(d) /\ d.beliefs = g.beliefs
        /\ d.wm = [life |-> l, applied |-> 0]
    BY <1>2, <2>1, <2>2, RowDoes
  <2>4. Started(d)
    BY <1>2, <1>4, <2>2, <2>3 DEF Started, l
  <2> QED
    BY <1>0, <2>4
<1> QED
  BY <1>3, <1>4

\* The entries of a life: a new log has none.
LEMMA Entries ==
  ASSUME MigrationConstants, MigInv, NEW l \in Life
  PROVE  EntriesOf(l) \in Seq(Belief) /\ Len(EntriesOf(l)) \in Nat /\ EntriesOf(l) # NoGenesis
<1>1. EntriesOf(l) \in Seq(Belief)
  BY Standing, LogFacts DEF EntriesOf
<1> QED
  BY <1>1, LogFacts

LEMMA StartEngineStands ==
  ASSUME MigrationConstants, MigInv, StartEngine
  PROVE  MigInv'
<1>0. /\ job = Idle /\ ~ engine
      /\ UNCHANGED <<backend, job, bak, archive, deleted, forced, spent>>
  BY DEF StartEngine
<1>1. PICK d :
           /\ Started(d)
           /\ \/ /\ d.wm = NoRow \/ d.wm.applied < Len(EntriesOf(d.wm.life))
                 /\ db' = d /\ UNCHANGED <<log, minted, engine>>
              \/ /\ d.wm # NoRow
                 /\ minted' = IF db.wm = NoRow THEN minted + 1 ELSE minted
                 /\ log' = [log EXCEPT ![d.wm.life] = EntriesOf(d.wm.life)]
                 /\ db' = [d EXCEPT !.beliefs = @ \ Above(EntriesOf(d.wm.life), d.wm.applied),
                                    !.wm.applied = Len(EntriesOf(d.wm.life))]
                 /\ engine' = TRUE
  BY EngineOpens
<1>2. d \in Database /\ Coherent(d) /\ Rowed(d)
  BY <1>1 DEF Started
<1>3. CASE db' = d /\ UNCHANGED <<log, minted, engine>>
  <2>1. CatalogStands'
    BY <1>0, <1>2, <1>3, CatalogMoves, IdleFits, Standing
  <2>2. Rowed(db)'
    BY <1>2, <1>3 DEF Rowed
  <2> QED
    BY <1>0, <1>2, <1>3, <2>1, <2>2, JobDbMoves, IdleFits, Standing
<1>4. CASE /\ d.wm # NoRow
           /\ minted' = IF db.wm = NoRow THEN minted + 1 ELSE minted
           /\ log' = [log EXCEPT ![d.wm.life] = EntriesOf(d.wm.life)]
           /\ db' = [d EXCEPT !.beliefs = @ \ Above(EntriesOf(d.wm.life), d.wm.applied),
                              !.wm.applied = Len(EntriesOf(d.wm.life))]
           /\ engine' = TRUE
  <2> DEFINE l == d.wm.life
             n == Len(EntriesOf(l))
             e == [d EXCEPT !.beliefs = @ \ Above(EntriesOf(l), d.wm.applied), !.wm.applied = n]
  <2>1. l \in Life
    BY <1>2, <1>4 DEF Rowed
  <2>2. EntriesOf(l) \in Seq(Belief) /\ n \in Nat /\ EntriesOf(l) # NoGenesis
    BY <2>1, Entries
  <2>3. db' = e /\ log' = [log EXCEPT ![l] = EntriesOf(l)]
    BY <1>4
  <2> HIDE DEF n
  <2>12. e = [d EXCEPT !.beliefs = @ \ Above(EntriesOf(l), d.wm.applied), !.wm.applied = n]
    OBVIOUS
  <2> HIDE DEF e
  <2>4. e \in Database /\ Coherent(e) /\ Rowed(e) /\ e.wm = [life |-> l, applied |-> n]
    <3>1. [d.wm EXCEPT !.applied = n] = [life |-> l, applied |-> n]
      <4> DEFINE w == d.wm
      <4>1. w \in [life : Life \cup {NoLife}, applied : Nat] /\ l = w.life
        BY <1>2, Parts
      <4> HIDE DEF w, l
      <4>2. [w EXCEPT !.applied = n] = [life |-> l, applied |-> n]
        BY <4>1
      <4> QED
        BY <4>2 DEF w
    <3>2. [d.wm EXCEPT !.applied = n] \in [life : Life \cup {NoLife}, applied : Nat]
      BY <2>1, <2>2, <3>1
    <3>3. /\ e.tables = d.tables /\ e.protected = d.protected /\ e.roles = d.roles
          /\ e.untenanted = d.untenanted /\ e.composite = d.composite /\ e.col = d.col
          /\ e.idx = d.idx /\ e.legacy = d.legacy /\ e.versions = d.versions
          /\ (d.wmTable => e.wmTable) /\ e.wm = [d.wm EXCEPT !.applied = n]
      BY <1>2, <2>12 DEF Database
    <3>4. e \in Database
      BY <1>2, <2>12, <3>2 DEF Database
    <3>5. Coherent(e)
      BY <1>2, <3>3, <3>4, BookDoes
    <3>6. e.wm = [life |-> l, applied |-> n]
      BY <3>1, <3>3
    <3>7. Rowed(e)
      BY <2>1, <3>6 DEF Rowed
    <3> QED
      BY <3>4, <3>5, <3>6, <3>7
  <2> HIDE DEF l
  <2>5. CatalogStands'
    BY <1>0, <2>3, <2>4, CatalogMoves, IdleFits, Standing
  <2>6. Rowed(db)'
    BY <2>3, <2>4 DEF Rowed
  <2>7. minted' \in 0 .. MaxLives
    <3>1. CASE db.wm # NoRow
      BY <1>4, <3>1, Standing
    <3>2. CASE db.wm = NoRow
      <4>1. db.beliefs = {} /\ minted + 1 \in Life /\ minted' = minted + 1
        BY <1>1, <1>4, <3>2 DEF Started
      <4> QED
        BY <4>1 DEF Life
    <3> QED
      BY <3>1, <3>2
  <2>8. log' \in [Life -> Seq(Belief) \cup {NoGenesis}] /\ log'[l] = EntriesOf(l)
    BY <2>1, <2>2, <2>3, Standing
  <2>9. db'.wm.life = l
    BY <2>3, <2>4
  <2>10. MigTyped'
    BY <1>0, <1>4, <2>1, <2>2, <2>3, <2>4, <2>6, <2>7, <2>8, <2>9, Standing DEF MigTyped, Rowed
  <2> QED
    BY <2>5, <2>10 DEF MigInv
<1> QED
  BY <1>1, <1>3, <1>4

LEMMA DeleteStands ==
  ASSUME MigrationConstants, MigInv, NEW b \in Belief, Delete(b)
  PROVE  MigInv'
<1> DEFINE l == db.wm.life
           n == Len(log[l]) + 1
           e == [db EXCEPT !.beliefs = @ \ {b}, !.wm.applied = n]
<1>0. /\ engine /\ log' = [log EXCEPT ![l] = Append(log[l], b)] /\ db' = e
      /\ deleted' = deleted \cup {b}
      /\ UNCHANGED <<backend, job, bak, archive, minted, engine, forced, spent>>
  <2>1. log' = [log EXCEPT ![l] = Append(@, b)]
    BY DEF Delete
  <2> QED
    BY <2>1, Standing DEF Delete
<1>1. l \in Life /\ log[l] \in Seq(Belief) /\ n \in Nat /\ job = Idle
  BY <1>0, Standing
<1>2. db.wm # NoRow
  BY <1>1, RowFacts, LifeFacts
<1> HIDE DEF n
<1>9. e = [db EXCEPT !.beliefs = @ \ {b}, !.wm.applied = n]
  OBVIOUS
<1> HIDE DEF e
<1>3. e \in Database /\ Coherent(e) /\ Rowed(e) /\ e.wm = [life |-> l, applied |-> n]
  <2>0. db \in Database /\ Coherent(db)
    BY Standing
  <2>1. [db.wm EXCEPT !.applied = n] = [life |-> l, applied |-> n]
    <3> DEFINE w == db.wm
    <3>1. w \in [life : Life \cup {NoLife}, applied : Nat] /\ l = w.life
      BY <2>0, Parts
    <3> HIDE DEF w, l
    <3>2. [w EXCEPT !.applied = n] = [life |-> l, applied |-> n]
      BY <3>1
    <3> QED
      BY <3>2 DEF w
  <2>2. [db.wm EXCEPT !.applied = n] \in [life : Life \cup {NoLife}, applied : Nat]
    BY <1>1, <2>1
  <2>3. /\ e.tables = db.tables /\ e.protected = db.protected /\ e.roles = db.roles
        /\ e.untenanted = db.untenanted /\ e.composite = db.composite /\ e.col = db.col
        /\ e.idx = db.idx /\ e.legacy = db.legacy /\ e.versions = db.versions
        /\ (db.wmTable => e.wmTable) /\ e.wm = [db.wm EXCEPT !.applied = n]
    BY <1>9, <2>0 DEF Database
  <2>4. e \in Database
    BY <1>9, <2>0, <2>2 DEF Database
  <2>5. Coherent(e)
    BY <2>0, <2>3, <2>4, BookDoes
  <2>6. e.wm = [life |-> l, applied |-> n]
    BY <2>1, <2>3
  <2>7. Rowed(e)
    BY <1>1, <2>6 DEF Rowed
  <2> QED
    BY <2>4, <2>5, <2>6, <2>7
<1> HIDE DEF l
<1>4. CatalogStands'
  BY <1>0, <1>1, <1>3, CatalogMoves, IdleFits, Standing
<1>5. Rowed(db)'
  BY <1>0, <1>3 DEF Rowed
<1>6. /\ log' \in [Life -> Seq(Belief) \cup {NoGenesis}] /\ log'[l] = Append(log[l], b)
      /\ log'[l] # NoGenesis
  <2>1. Append(log[l], b) \in Seq(Belief)
    BY <1>1
  <2> QED
    BY <1>0, <1>1, <2>1, LogFacts, Standing
<1>7. db'.wm.life = l
  BY <1>0, <1>3
<1>8. MigTyped'
  BY <1>0, <1>1, <1>3, <1>5, <1>6, <1>7, Standing DEF MigTyped, Rowed
<1> QED
  BY <1>4, <1>8 DEF MigInv

LEMMA WriteAdoptedRowStands ==
  ASSUME MigrationConstants, MigInv, WriteAdoptedRow
  PROVE  MigInv'
<1>0. /\ job.step = 14 /\ job' = Idle
      /\ db' = IF db.wm # NoRow THEN db
               ELSE [db EXCEPT !.wmTable = TRUE, !.wm = [life |-> job.adopt, applied |-> 0]]
      /\ UNCHANGED <<backend, bak, archive, log, minted, engine, deleted, forced, spent>>
  BY DEF WriteAdoptedRow, Latest
<1>1. job.adopt \in Life
  BY <1>0, Standing DEF JobFits, Job
<1>2. PICK e : db' = e /\ e \in Database /\ Coherent(e) /\ Rowed(e)
  <2>1. CASE db.wm # NoRow
    BY <1>0, <2>1, Standing
  <2>2. CASE db.wm = NoRow
    <3> DEFINE e == [db EXCEPT !.wmTable = TRUE, !.wm = [life |-> job.adopt, applied |-> 0]]
    <3>1. db' = e
      BY <1>0, <2>2
    <3>2. e = [db EXCEPT !.wmTable = TRUE, !.wm = [life |-> job.adopt, applied |-> 0]]
      OBVIOUS
    <3> HIDE DEF e
    <3>3. e \in Database /\ Coherent(e) /\ Rowed(e)
      BY <1>1, <3>2, RowDoes, Standing
    <3> QED
      BY <3>1, <3>3
  <2> QED
    BY <2>1, <2>2
<1>3. ~ engine
  BY <1>0, Standing, IdleFits
<1>4. CatalogStands'
  BY <1>0, <1>2, <1>3, CatalogMoves, IdleFits, Standing
<1>5. Rowed(db)'
  BY <1>2 DEF Rowed
<1> QED
  BY <1>0, <1>2, <1>3, <1>4, <1>5, JobDbMoves, IdleFits, Standing

LEMMA CopyBackStands ==
  ASSUME MigInv, job = Idle, ~ engine, NEW e \in Database, Coherent(e), Rowed(e), db' = e,
         UNCHANGED <<backend, job, bak, archive, log, minted, engine, deleted, forced>>
  PROVE  MigInv'
<1>1. CatalogStands'
  BY CatalogMoves, IdleFits, Standing
<1>2. Rowed(db)'
  BY DEF Rowed
<1> QED
  BY <1>1, <1>2, JobDbMoves, IdleFits, Standing

LEMMA StopEngineStands ==
  ASSUME MigInv, StopEngine
  PROVE  MigInv'
<1>0. /\ engine /\ engine' = FALSE
      /\ UNCHANGED <<backend, db, job, bak, archive, log, minted, deleted, forced, spent>>
  BY DEF StopEngine
<1>1. CatalogStands'
  BY <1>0, CatalogMoves, Standing
<1>2. MigTyped'
  BY <1>0, Standing DEF MigTyped, Rowed
<1> QED
  BY <1>1, <1>2 DEF MigInv

\* Every step preserves the invariant.
LEMMA MigStep ==
  ASSUME MigrationConstants, MigInv, [MigrationNext]_migrationVars
  PROVE  MigInv'
<1>1. ASSUME NEW f \in BOOLEAN, StartUpgrade(NoLife, f) PROVE MigInv'
  BY <1>1, StartUpgradeStands
<1>2. CASE EnterStep
  BY <1>2, EnterStepStands
<1>3. CASE RunStage
  BY <1>3, RunStageStands
<1>4. CASE MintRow
  BY <1>4, MintRowStands
<1>5. CASE StageFails
  BY <1>5, StageFailsStands
<1>6. CASE VerifyStep
  BY <1>6, VerifyStepStands
<1>7. CASE Crash
  BY <1>7, CrashStands
<1>8. CASE OldWrite
  BY <1>8, OldWriteStands
<1>9. CASE Downgrade
  BY <1>9, CopyBackStands, Standing DEF Downgrade
<1>10. ASSUME NEW l \in Life, StartAdopt(l) PROVE MigInv'
  BY <1>10, StartAdoptStands
<1>11. CASE WriteAdoptedRow
  BY <1>11, WriteAdoptedRowStands
<1>12. CASE StartEngine
  BY <1>12, StartEngineStands
<1>13. CASE StopEngine
  BY <1>13, StopEngineStands
<1>14. ASSUME NEW b \in Belief, Delete(b) PROVE MigInv'
  BY <1>14, DeleteStands
<1>15. CASE Restore
  BY <1>15, CopyBackStands, Standing DEF Restore
<1>16. CASE UNCHANGED migrationVars
  <2>1. UNCHANGED <<backend, db, job, bak, archive, log, minted, engine, deleted, forced>>
    BY <1>16 DEF migrationVars
  <2>2. CatalogStands'
    BY <2>1, CatalogMoves, Standing
  <2>3. MigTyped'
    BY <2>1, Standing DEF MigTyped, Rowed
  <2> QED
    BY <2>2, <2>3 DEF MigInv
<1> QED
  BY <1>1, <1>2, <1>3, <1>4, <1>5, <1>6, <1>7, <1>8, <1>9, <1>10, <1>11, <1>12, <1>13, <1>14,
     <1>15, <1>16 DEF MigrationNext

\* The invariant holds of every behaviour.
LEMMA MigAlways ==
  ASSUME MigrationConstants
  PROVE  MigrationSpec => []MigInv
<1>1. MigrationInit => MigInv
  BY MigInit
<1>2. MigInv /\ [MigrationNext]_migrationVars => MigInv'
  BY MigStep
<1> QED
  BY <1>1, <1>2, PTL DEF MigrationSpec

\* The migration keeps its types, whatever fails or is killed (schema_migration.py
\* upgrade_database, deletion_adopt.py, api.py _initialize_db).
THEOREM MigrationTypes ==
  MigrationSpec => []MigrationTypeOK
<1> USE ConstantsFit
<1>1. MigInv => MigrationTypeOK
  <2> SUFFICES ASSUME MigInv PROVE MigrationTypeOK
    OBVIOUS
  <2>1. /\ job.step \in 0 .. 14 /\ job.adopt \in Life \cup {NoLife}
    BY Standing DEF Job
  <2>2. 0 .. (Latest + 1) = 0 .. 14
    BY DEF Latest
  <2>3. \A l \in Life : log[l] = NoGenesis \/ \A i \in DOMAIN log[l] : log[l][i] \in Belief
    BY Standing
  <2> QED
    BY <2>1, <2>2, <2>3, Standing DEF MigrationTypeOK
<1> QED
  BY <1>1, MigAlways, PTL

\* At every moment the catalog backs every recorded version: no failed, killed or
\* repeated run records a step whose work is not there (schema_migration.py
\* upgrade_database, _record_version).
THEOREM VersionsAreBacked ==
  MigrationSpec => []CatalogBacksVersion
<1> USE ConstantsFit
<1>1. MigInv => CatalogBacksVersion
  <2> SUFFICES ASSUME MigInv, NEW n \in db.versions PROVE Backed(n, db)
    BY DEF CatalogBacksVersion, Backed
  <2>1. n \in Step
    BY Parts, Standing
  <2>2. Kept(n, db)
    BY Standing DEF Coherent
  <2> QED
    BY <2>1, <2>2, KeptIsBacked, Standing
<1> QED
  BY <1>1, MigAlways, PTL

-----------------------------------------------------------------------------
(* The actions, by what becomes of the lives, the rows and the beliefs.     *)

\* The steps, by what becomes of the lives, the rows and the beliefs.
Quiet ==
  /\ db'.wm = db.wm /\ db'.beliefs = db.beliefs
  /\ UNCHANGED <<backend, archive, log, minted, deleted, forced>>
  /\ engine' => engine
  /\ job'.adopt \in {NoLife, job.adopt} \cup Known
  /\ \/ bak' = bak /\ (OnPg \/ (job'.step \in Step => job.step \in Step))
     \/ ~ OnPg /\ bak' = db

\* A copy of the database is put back.
PutBack(d) ==
  /\ db' = d /\ ~ engine /\ ~ engine' /\ job' = Idle
  /\ UNCHANGED <<backend, bak, archive, log, minted, deleted, forced>>

\* The migration mints a life.
Mints ==
  /\ job.step \in Step /\ job'.step = job.step /\ job'.adopt = job.adopt
  /\ db.wm = NoRow /\ db'.wm = [life |-> minted + 1, applied |-> 0] /\ db'.beliefs = db.beliefs
  /\ minted' = minted + 1 /\ (~ forced' => ~ forced /\ ~ MustAdopt)
  /\ ~ engine /\ ~ engine'
  /\ UNCHANGED <<backend, bak, archive, log, deleted>>

\* The operator's row for a life the log knows.
Adopts ==
  /\ job.step = 14 /\ job.adopt \in Life /\ job' = Idle
  /\ db.wm = NoRow /\ db'.wm = [life |-> job.adopt, applied |-> 0] /\ db'.beliefs = db.beliefs
  /\ ~ engine /\ ~ engine'
  /\ UNCHANGED <<backend, bak, archive, log, minted, deleted, forced>>

\* An engine starts in life l: it replays what the log holds above n.
ServesAt(l, n) ==
  /\ ~ engine /\ engine' /\ job = Idle /\ job' = Idle
  /\ \/ db.wm # NoRow /\ l = db.wm.life /\ n = db.wm.applied /\ minted' = minted
     \/ db.wm = NoRow /\ db.beliefs = {} /\ l = minted + 1 /\ n = 0 /\ minted' = minted + 1
  /\ log' = [log EXCEPT ![l] = EntriesOf(l)]
  /\ db'.wm = [life |-> l, applied |-> Len(EntriesOf(l))]
  /\ db'.beliefs = db.beliefs \ Above(EntriesOf(l), n)
  /\ UNCHANGED <<backend, bak, archive, deleted, forced>>

\* A deletion, logged and applied.
DeletesAt(l, b) ==
  /\ engine /\ engine' /\ job = Idle /\ job' = Idle /\ b \in db.beliefs
  /\ l = db.wm.life
  /\ log' = [log EXCEPT ![l] = Append(log[l], b)]
  /\ db'.wm = [life |-> l, applied |-> Len(log[l]) + 1]
  /\ db'.beliefs = db.beliefs \ {b}
  /\ deleted' = deleted \cup {b}
  /\ UNCHANGED <<backend, bak, archive, minted, forced>>

\* What any step does to them.
BookStep ==
  \/ Quiet \/ (bak # NoFile /\ PutBack(bak)) \/ PutBack(archive) \/ Mints \/ Adopts
  \/ \E l \in Life, n \in Nat : ServesAt(l, n)
  \/ \E l \in Life, b \in Belief : DeletesAt(l, b)

\* Which of these each action is.
LEMMA StartUpgradeBooks ==
  ASSUME MigInv, NEW a \in Known \cup {NoLife}, NEW f, StartUpgrade(a, f)
  PROVE  Quiet
<1> DEFINE j == IF Version(db) = Latest THEN Idle
                ELSE [Idle EXCEPT !.step = Version(db) + 1, !.adopt = a, !.fresh = f]
           k == IF OnPg THEN bak ELSE db
<1>0. /\ job = Idle /\ job' = j /\ bak' = k /\ Version(db) = Version(db)
      /\ UNCHANGED <<backend, db, archive, log, minted, engine, deleted, forced, spent>>
  BY DEF StartUpgrade, BackupSqlite
<1>1. j.adopt \in {NoLife} \cup Known
  <2>1. CASE Version(db) = Latest
    BY <2>1, IdleFits
  <2>2. CASE Version(db) # Latest
    BY <2>2 DEF Idle
  <2> QED
    BY <2>1, <2>2
<1>2. CASE ~ OnPg
  BY <1>0, <1>1, <1>2 DEF Quiet
<1>3. CASE OnPg
  BY <1>0, <1>1, <1>3 DEF Quiet
<1> QED
  BY <1>2, <1>3

LEMMA AbandonBooks ==
  ASSUME MigInv, job.step \in Step, NEW d, d.wm = db.wm, d.beliefs = db.beliefs, Abandon(d),
         UNCHANGED <<backend, bak, archive, log, minted, engine, deleted, forced>>
  PROVE  Quiet \/ (bak # NoFile /\ PutBack(bak))
<1>0. job' = Idle /\ db' = (IF OnPg THEN d ELSE bak) /\ ~ engine
  BY Working DEF Abandon
<1>1. CASE OnPg
  BY <1>0, <1>1, IdleFits DEF Quiet
<1>2. CASE ~ OnPg
  BY <1>0, <1>2, Standing DEF PutBack
<1> QED
  BY <1>1, <1>2

LEMMA RunStageBooks ==
  ASSUME MigInv, RunStage
  PROVE  Quiet \/ (bak # NoFile /\ PutBack(bak))
<1> DEFINE s == Head(job.todo)
<1>0. /\ job.entered /\ job.todo # <<>> /\ s.op # "mint"
      /\ UNCHANGED <<backend, bak, archive, log, minted, engine, deleted, forced, spent>>
      /\ IF s.op = "column"
         THEN /\ job' = [job EXCEPT !.todo = ColumnStages(s.on, db) \o Tail(@)]
              /\ db' = db
         ELSE IF Feasible(s, db)
         THEN /\ job' = [job EXCEPT !.todo = Tail(@)]
              /\ db' = After(s, db)
         ELSE Abandon(db)
  BY DEF RunStage, Pending
<1>1. job.step \in Step /\ Ready(job.step, db) /\ Todo(job.todo, job.step)
      /\ (job.step = 1 => "base" \in db.tables)
  BY <1>0, EnteredWorks, Working
<1>2. s \in Stage /\ Fits(s, job.step)
  BY <1>0, <1>1, TodoRests
<1> HIDE DEF s
<1>3. CASE s.op = "column"
  <2>1. job'.step = job.step /\ job'.adopt = job.adopt
    BY <1>0, <1>3, Standing DEF Job
  <2> QED
    BY <1>0, <1>3, <2>1 DEF Quiet
<1>4. CASE s.op # "column" /\ Feasible(s, db)
  <2>1. job'.step = job.step /\ job'.adopt = job.adopt
    BY <1>0, <1>4, Standing DEF Job
  <2>2. Rests(db, db')
    BY <1>0, <1>1, <1>2, <1>4, AfterDoes
  <2> QED
    BY <1>0, <2>1, <2>2 DEF Quiet, Rests
<1>5. CASE s.op # "column" /\ ~ Feasible(s, db)
  BY <1>0, <1>1, <1>5, AbandonBooks
<1> QED
  BY <1>3, <1>4, <1>5

LEMMA MintRowBooks ==
  ASSUME MigrationConstants, MigInv, MintRow
  PROVE  Quiet \/ (bak # NoFile /\ PutBack(bak)) \/ Mints
<1> DEFINE skip == job.adopt # NoLife \/ db.wm # NoRow
<1>0. /\ job.entered /\ job.todo # <<>>
      /\ UNCHANGED <<backend, bak, archive, log, engine, deleted, spent>>
      /\ IF ~ skip /\ MustAdopt /\ ~ job.fresh
         THEN Abandon(db) /\ UNCHANGED <<minted, forced>>
         ELSE /\ minted' = IF skip THEN minted ELSE minted + 1
              /\ db' = IF skip THEN db ELSE [db EXCEPT !.wm = [life |-> minted + 1, applied |-> 0]]
              /\ forced' = (forced \/ (~ skip /\ MustAdopt))
              /\ job' = [job EXCEPT !.todo = Tail(@)]
  BY DEF MintRow, Pending
<1>1. job.step \in Step /\ ~ engine
  BY <1>0, EnteredWorks, Working
<1>2. CASE ~ skip /\ MustAdopt /\ ~ job.fresh
  BY <1>0, <1>1, <1>2, AbandonBooks
<1>3. CASE ~ (~ skip /\ MustAdopt /\ ~ job.fresh)
  <2>1. job'.step = job.step /\ job'.adopt = job.adopt
    BY <1>0, <1>3, Standing DEF Job
  <2>2. CASE skip
    <3>1. forced' = forced
      BY <1>0, <1>3, <2>2, Standing
    <3>2. db' = db /\ minted' = minted
      BY <1>0, <1>3, <2>2
    <3> HIDE DEF skip
    <3> QED
      BY <1>0, <2>1, <3>1, <3>2 DEF Quiet
  <2>3. CASE ~ skip
    <3>1. ~ forced' => ~ forced /\ ~ MustAdopt
      BY <1>0, <1>3, <2>3
    <3>2. db' = [db EXCEPT !.wm = [life |-> minted + 1, applied |-> 0]] /\ minted' = minted + 1
      BY <1>0, <1>3, <2>3
    <3>3. db'.wm = [life |-> minted + 1, applied |-> 0] /\ db'.beliefs = db.beliefs
      BY <3>2, Standing DEF Database
    <3>4. ~ engine /\ ~ engine'
      BY <1>0, <1>1
    <3>5. db.wm = NoRow
      BY <2>3
    <3> HIDE DEF skip
    <3> QED
      BY <1>0, <1>1, <2>1, <3>1, <3>2, <3>3, <3>4, <3>5 DEF Mints
  <2> QED
    BY <2>2, <2>3
<1> QED
  BY <1>2, <1>3

LEMMA RunBooks ==
  ASSUME MigrationConstants, MigInv
  PROVE  /\ EnterStep => Quiet
         /\ StageFails => Quiet \/ (bak # NoFile /\ PutBack(bak))
         /\ VerifyStep => Quiet \/ (bak # NoFile /\ PutBack(bak))
         /\ Crash => Quiet
         /\ OldWrite => Quiet
         /\ StopEngine => Quiet
<1>1. ASSUME EnterStep PROVE Quiet
  <2>1. job'.step = job.step /\ job'.adopt = job.adopt
    BY <1>1, Standing DEF EnterStep, Job
  <2> QED
    BY <1>1, <2>1 DEF EnterStep, Quiet
<1>2. ASSUME StageFails PROVE Quiet \/ (bak # NoFile /\ PutBack(bak))
  <2>1. PICK d \in Debris(Head(job.todo), db) : Abandon(d)
    BY <1>2 DEF StageFails
  <2>2. Pending /\ UNCHANGED <<backend, bak, archive, log, minted, engine, deleted, forced>>
    BY <1>2 DEF StageFails
  <2> QED
    BY <2>1, <2>2, Debrises, AbandonBooks DEF Rests
<1>3. ASSUME VerifyStep PROVE Quiet \/ (bak # NoFile /\ PutBack(bak))
  <2>0. /\ job.entered
        /\ UNCHANGED <<backend, bak, archive, log, minted, engine, deleted, forced, spent>>
    BY <1>3 DEF VerifyStep
  <2>1. job.step \in Step
    BY <2>0, EnteredWorks
  <2>2. CASE ~ Steps(job.step, db).verified
    <3>1. Abandon(db)
      BY <1>3, <2>2 DEF VerifyStep
    <3> QED
      BY <2>0, <2>1, <3>1, AbandonBooks
  <2>3. CASE Steps(job.step, db).verified
    <3> DEFINE j == IF job.step = Latest /\ job.adopt = NoLife THEN Idle
                    ELSE [job EXCEPT !.step = @ + 1, !.entered = FALSE]
    <3>1. /\ db' = [db EXCEPT !.versions = @ \cup {job.step}]
          /\ job' = j
      BY <1>3, <2>3 DEF VerifyStep
    <3>2. db'.wm = db.wm /\ db'.beliefs = db.beliefs
      BY <3>1, Standing DEF Database
    <3>3. j.adopt \in {NoLife, job.adopt}
      BY IdleFits, Standing DEF Job
    <3> HIDE DEF j
    <3> QED
      BY <2>0, <2>1, <3>1, <3>2, <3>3 DEF Quiet
  <2> QED
    BY <2>2, <2>3
<1>4. ASSUME Crash PROVE Quiet
  <2>0. /\ job' = Idle
        /\ db' \in IF Pending THEN Debris(Head(job.todo), db) ELSE {db}
        /\ UNCHANGED <<backend, bak, archive, log, minted, engine, deleted, forced>>
    BY <1>4 DEF Crash
  <2>1. db'.wm = db.wm /\ db'.beliefs = db.beliefs
    <3>1. CASE Pending
      BY <2>0, <3>1, Debrises DEF Rests
    <3>2. CASE ~ Pending
      BY <2>0, <3>2
    <3> QED
      BY <3>1, <3>2
  <2> QED
    BY <2>0, <2>1, IdleFits DEF Quiet
<1>5. ASSUME OldWrite PROVE Quiet
  <2>1. db'.wm = db.wm /\ db'.beliefs = db.beliefs
    BY <1>5, Standing DEF OldWrite, Database
  <2> QED
    BY <1>5, <2>1 DEF OldWrite, Quiet
<1>6. ASSUME StopEngine PROVE Quiet
  BY <1>6 DEF StopEngine, Quiet
<1> QED
  BY <1>1, <1>2, <1>3, <1>4, <1>5, <1>6

LEMMA StartAdoptBooks ==
  ASSUME MigrationConstants, MigInv, NEW l \in Life, StartAdopt(l)
  PROVE  Quiet
<1>0. l \in Known
  BY DEF StartAdopt, Known
<1>1. CASE Version(db) < Latest
  BY <1>0, <1>1, StartUpgradeBooks DEF StartAdopt
<1>2. CASE ~ Version(db) < Latest
  <2>1. /\ job' = [Idle EXCEPT !.step = Latest + 1, !.adopt = l]
        /\ UNCHANGED <<backend, db, bak, archive, log, minted, engine, deleted, forced, spent>>
    BY <1>2 DEF StartAdopt
  <2>2. job'.adopt = l /\ job'.step = Latest + 1
    BY <2>1, IdleFits DEF Job
  <2>3. job'.step \notin Step
    BY <2>2 DEF Latest, Step
  <2> QED
    BY <1>0, <2>1, <2>2, <2>3 DEF Quiet
<1> QED
  BY <1>1, <1>2

LEMMA WriteAdoptedRowBooks ==
  ASSUME MigrationConstants, MigInv, WriteAdoptedRow
  PROVE  Quiet \/ Adopts
<1>0. /\ job.step = 14 /\ job' = Idle
      /\ db' = IF db.wm # NoRow THEN db
               ELSE [db EXCEPT !.wmTable = TRUE, !.wm = [life |-> job.adopt, applied |-> 0]]
      /\ UNCHANGED <<backend, bak, archive, log, minted, engine, deleted, forced, spent>>
  BY DEF WriteAdoptedRow, Latest
<1>1. job.adopt \in Life /\ ~ engine
  BY <1>0, Standing, IdleFits DEF JobFits, Job
<1>2. CASE db.wm # NoRow
  BY <1>0, <1>2, IdleFits DEF Quiet
<1>3. CASE db.wm = NoRow
  <2>1. db' = [db EXCEPT !.wmTable = TRUE, !.wm = [life |-> job.adopt, applied |-> 0]]
    BY <1>0, <1>3
  <2>2. db'.wm = [life |-> job.adopt, applied |-> 0] /\ db'.beliefs = db.beliefs
    BY <2>1, Standing DEF Database
  <2> QED
    BY <1>0, <1>1, <1>3, <2>2 DEF Adopts
<1> QED
  BY <1>2, <1>3

LEMMA DeleteBooks ==
  ASSUME MigrationConstants, MigInv, NEW b \in Belief, Delete(b)
  PROVE  \E l \in Life : DeletesAt(l, b)
<1> DEFINE l == db.wm.life
           n == Len(log[l]) + 1
<1>0. /\ engine /\ log' = [log EXCEPT ![l] = Append(log[l], b)]
      /\ db' = [db EXCEPT !.beliefs = @ \ {b}, !.wm.applied = n]
      /\ deleted' = deleted \cup {b} /\ b \in db.beliefs
      /\ UNCHANGED <<backend, job, bak, archive, minted, engine, forced, spent>>
  <2>1. log' = [log EXCEPT ![l] = Append(@, b)]
    BY DEF Delete
  <2> QED
    BY <2>1, Standing DEF Delete
<1>1. l \in Life /\ job = Idle
  BY <1>0, Standing
<1> HIDE DEF n
<1>2. db'.wm = [db.wm EXCEPT !.applied = n] /\ db'.beliefs = db.beliefs \ {b}
  BY <1>0, Standing DEF Database
<1>3. [db.wm EXCEPT !.applied = n] = [life |-> l, applied |-> n]
  <2> DEFINE w == db.wm
  <2>1. w \in [life : Life \cup {NoLife}, applied : Nat] /\ l = w.life
    BY Parts, Standing
  <2> HIDE DEF w, l
  <2>2. [w EXCEPT !.applied = n] = [life |-> l, applied |-> n]
    BY <2>1
  <2> QED
    BY <2>2 DEF w
<1>4. l = db.wm.life /\ n = Len(log[l]) + 1
  BY DEF n
<1>5. db'.wm = [life |-> l, applied |-> Len(log[l]) + 1]
  BY <1>2, <1>3, <1>4
<1> HIDE DEF l
<1>6. DeletesAt(l, b)
  BY <1>0, <1>1, <1>2, <1>4, <1>5 DEF DeletesAt
<1> QED
  BY <1>1, <1>6

LEMMA StartEngineBooks ==
  ASSUME MigrationConstants, MigInv, \A l \in Life : l > minted => log[l] = NoGenesis, StartEngine
  PROVE  Quiet \/ \E l \in Life, n \in Nat : ServesAt(l, n)
<1>0. /\ job = Idle /\ ~ engine
      /\ UNCHANGED <<backend, job, bak, archive, deleted, forced, spent>>
  BY DEF StartEngine
<1>1. PICK d :
           /\ Started(d)
           /\ \/ /\ d.wm = NoRow \/ d.wm.applied < Len(EntriesOf(d.wm.life))
                 /\ db' = d /\ UNCHANGED <<log, minted, engine>>
              \/ /\ d.wm # NoRow
                 /\ minted' = IF db.wm = NoRow THEN minted + 1 ELSE minted
                 /\ log' = [log EXCEPT ![d.wm.life] = EntriesOf(d.wm.life)]
                 /\ db' = [d EXCEPT !.beliefs = @ \ Above(EntriesOf(d.wm.life), d.wm.applied),
                                    !.wm.applied = Len(EntriesOf(d.wm.life))]
                 /\ engine' = TRUE
  BY EngineOpens
<1>2. d \in Database /\ Rowed(d) /\ d.beliefs = db.beliefs
  BY <1>1 DEF Started
<1>3. CASE /\ d.wm = NoRow \/ d.wm.applied < Len(EntriesOf(d.wm.life))
           /\ db' = d /\ UNCHANGED <<log, minted, engine>>
  <2>1. d.wm = db.wm
    <3>1. CASE db.wm # NoRow \/ db.beliefs # {}
      BY <1>1, <3>1 DEF Started
    <3>2. CASE db.wm = NoRow /\ db.beliefs = {}
      <4>1. minted + 1 \in Life /\ d.wm = [life |-> minted + 1, applied |-> 0]
        BY <1>1, <3>2 DEF Started
      <4>2. EntriesOf(minted + 1) = <<>>
        <5>1. minted + 1 > minted
          BY Standing
        <5> QED
          BY <4>1, <5>1 DEF EntriesOf
      <4>3. d.wm # NoRow /\ d.wm.applied = 0 /\ d.wm.life = minted + 1
        BY <4>1, RowFacts
      <4>4. d.wm.applied < Len(EntriesOf(d.wm.life))
        BY <1>3, <4>3
      <4>5. Len(EntriesOf(d.wm.life)) = 0
        BY <4>2, <4>3
      <4> QED
        BY <4>3, <4>4, <4>5
    <3> QED
      BY <3>1, <3>2
  <2> QED
    BY <1>0, <1>2, <1>3, <2>1 DEF Quiet
<1>4. CASE /\ d.wm # NoRow
           /\ minted' = IF db.wm = NoRow THEN minted + 1 ELSE minted
           /\ log' = [log EXCEPT ![d.wm.life] = EntriesOf(d.wm.life)]
           /\ db' = [d EXCEPT !.beliefs = @ \ Above(EntriesOf(d.wm.life), d.wm.applied),
                              !.wm.applied = Len(EntriesOf(d.wm.life))]
           /\ engine' = TRUE
  <2> DEFINE l == d.wm.life
             n == d.wm.applied
             m == Len(EntriesOf(l))
             x == Above(EntriesOf(l), n)
  <2>1. l \in Life
    BY <1>2, <1>4 DEF Rowed
  <2>2. n \in Nat
    BY <1>2, Parts
  <2>3. db' = [d EXCEPT !.beliefs = @ \ x, !.wm.applied = m] /\ log' = [log EXCEPT ![l] = EntriesOf(l)]
    BY <1>4
  <2> HIDE DEF m, x
  <2>4. db'.wm = [d.wm EXCEPT !.applied = m] /\ db'.beliefs = d.beliefs \ x
    BY <1>2, <2>3 DEF Database
  <2>5. [d.wm EXCEPT !.applied = m] = [life |-> l, applied |-> m]
    <3> DEFINE w == d.wm
    <3>1. w \in [life : Life \cup {NoLife}, applied : Nat] /\ l = w.life
      BY <1>2, Parts
    <3> HIDE DEF w, l
    <3>2. [w EXCEPT !.applied = m] = [life |-> l, applied |-> m]
      BY <3>1
    <3> QED
      BY <3>2 DEF w
  <2>6. db'.wm = [life |-> l, applied |-> Len(EntriesOf(l))]
        /\ db'.beliefs = db.beliefs \ Above(EntriesOf(l), n)
    BY <1>2, <2>4, <2>5 DEF m, x
  <2>7. \/ db.wm # NoRow /\ l = db.wm.life /\ n = db.wm.applied /\ minted' = minted
        \/ db.wm = NoRow /\ db.beliefs = {} /\ l = minted + 1 /\ n = 0 /\ minted' = minted + 1
    <3>1. CASE db.wm # NoRow
      BY <1>1, <1>4, <3>1 DEF Started
    <3>2. CASE db.wm = NoRow
      <4>1. db.beliefs = {} /\ minted + 1 \in Life /\ d.wm = [life |-> minted + 1, applied |-> 0]
        BY <1>1, <1>4, <3>2 DEF Started
      <4>2. l = minted + 1 /\ n = 0
        BY <4>1
      <4> QED
        BY <1>4, <3>2, <4>1, <4>2
    <3> QED
      BY <3>1, <3>2
  <2> HIDE DEF l, n
  <2>8. ServesAt(l, n)
    BY <1>0, <1>4, <2>3, <2>6, <2>7 DEF ServesAt
  <2> QED
    BY <2>1, <2>2, <2>8
<1> QED
  BY <1>1, <1>3, <1>4

LEMMA Books ==
  ASSUME MigrationConstants, MigInv, \A l \in Life : l > minted => log[l] = NoGenesis, [MigrationNext]_migrationVars
  PROVE  BookStep
<1>1. ASSUME NEW f \in BOOLEAN, StartUpgrade(NoLife, f) PROVE BookStep
  BY <1>1, StartUpgradeBooks DEF BookStep
<1>2. CASE EnterStep \/ StageFails \/ VerifyStep \/ Crash \/ OldWrite \/ StopEngine
  BY <1>2, RunBooks DEF BookStep
<1>3. CASE RunStage
  BY <1>3, RunStageBooks DEF BookStep
<1>4. CASE MintRow
  BY <1>4, MintRowBooks DEF BookStep
<1>5. CASE Downgrade
  BY <1>5 DEF BookStep, PutBack, Downgrade
<1>6. ASSUME NEW l \in Life, StartAdopt(l) PROVE BookStep
  BY <1>6, StartAdoptBooks DEF BookStep
<1>7. CASE WriteAdoptedRow
  BY <1>7, WriteAdoptedRowBooks DEF BookStep
<1>8. CASE StartEngine
  BY <1>8, StartEngineBooks DEF BookStep
<1>9. ASSUME NEW b \in Belief, Delete(b) PROVE BookStep
  BY <1>9, DeleteBooks DEF BookStep
<1>10. CASE Restore
  BY <1>10 DEF BookStep, PutBack, Restore
<1>11. CASE UNCHANGED migrationVars
  BY <1>11 DEF migrationVars, BookStep, Quiet
<1> QED
  BY <1>1, <1>2, <1>3, <1>4, <1>5, <1>6, <1>7, <1>8, <1>9, <1>10, <1>11 DEF MigrationNext

-----------------------------------------------------------------------------
(* Lives, rows and deletions.                                               *)

\* Where lives come from: logs are of minted lives, rows too, a run adopts a life the log
\* knows, and an engine serves in a life it has opened to the end.
LivesStand ==
  /\ \A l \in Life : l > minted => log[l] = NoGenesis
  /\ Dated(db) /\ Dated(archive) /\ (bak # NoFile => Dated(bak))
  /\ job.adopt # NoLife => job.adopt \in Known
  /\ ServingIsBound
  /\ deleted \subseteq archive.beliefs
  /\ OnPg => bak = NoFile

\* The initial states.
LEMMA LivesInit ==
  ASSUME MigrationConstants, MigrationInit
  PROVE  LivesStand
<1>0. /\ job = Idle /\ bak = NoFile /\ archive = db
      /\ minted = (IF db.wm = NoRow THEN 0 ELSE 1)
      /\ log = [l \in Life |-> IF l <= minted THEN <<>> ELSE NoGenesis]
      /\ engine = FALSE /\ deleted = {} /\ forced = FALSE
  BY DEF MigrationInit
<1>1. db.wm = NoRow \/ db.wm = [life |-> 1, applied |-> 0]
  <2>1. CASE db = Empty(backend)
    BY <2>1, EmptyStands
  <2>2. CASE db # Empty(backend)
    <3>1. PICK v \in Releases, bs \in SUBSET Belief : db = Shape(v, backend, bs)
      BY <2>2 DEF MigrationInit
    <3>2. v \in 0 .. 13
      BY DEF MigrationConstants, Latest
    <3> QED
      BY <3>1, <3>2, ShapeStands
  <2> QED
    BY <2>1, <2>2
<1>2. Dated(db)
  <2>1. db.wm # NoRow => db.wm.life = 1 /\ minted = 1
    BY <1>0, <1>1
  <2> QED
    BY <1>0, <2>1 DEF Dated
<1>3. \A l \in Life : l > minted => log[l] = NoGenesis
  <2>1. minted \in Nat
    BY <1>0
  <2>2. \A l \in Life : l \in Nat
    BY LifeFacts
  <2> QED
    BY <1>0, <2>1, <2>2
<1>4. ServingIsBound
  BY <1>0 DEF ServingIsBound
<1>5. Dated(archive)
  BY <1>0, <1>2
<1> QED
  BY <1>0, <1>2, <1>3, <1>4, <1>5, IdleFits DEF LivesStand

\* Every step preserves it.
LEMMA LivesMove ==
  ASSUME MigrationConstants, MigInv, LivesStand, MigInv', BookStep
  PROVE  LivesStand'
<1>0. /\ minted \in Nat /\ minted' \in Nat /\ Life \subseteq Nat
  BY Standing, LifeFacts DEF MigInv, MigTyped
<1>1. /\ \A l \in Life : l > minted => log[l] = NoGenesis
      /\ Dated(db) /\ Dated(archive) /\ (bak # NoFile => Dated(bak))
      /\ job.adopt # NoLife => job.adopt \in Known
      /\ ServingIsBound
      /\ deleted \subseteq archive.beliefs
      /\ OnPg => bak = NoFile
  BY DEF LivesStand
<1>2. ASSUME Quiet PROVE LivesStand'
  <2>0. /\ db'.wm = db.wm /\ db'.beliefs = db.beliefs
        /\ UNCHANGED <<backend, archive, log, minted, deleted, forced>>
        /\ engine' => engine
        /\ job'.adopt \in {NoLife, job.adopt} \cup Known
        /\ bak' = bak \/ (~ OnPg /\ bak' = db)
    BY <1>2 DEF Quiet
  <2>1. Dated(db)'
    BY <1>1, <2>0 DEF Dated
  <2>2. Dated(archive)'
    BY <1>1, <2>0 DEF Dated
  <2>3. (bak # NoFile => Dated(bak))'
    BY <1>1, <2>0 DEF Dated
  <2>4. (job.adopt # NoLife => job.adopt \in Known)'
    BY <1>1, <2>0 DEF Known
  <2>5. ServingIsBound'
    BY <1>1, <2>0 DEF ServingIsBound
  <2>6. (OnPg => bak = NoFile)'
    BY <1>1, <2>0 DEF OnPg
  <2> QED
    BY <1>1, <2>0, <2>1, <2>2, <2>3, <2>4, <2>5, <2>6 DEF LivesStand
<1>3. ASSUME NEW d, Dated(d), PutBack(d) PROVE LivesStand'
  <2>0. /\ db' = d /\ ~ engine' /\ job' = Idle
        /\ UNCHANGED <<backend, bak, archive, log, minted, deleted, forced>>
    BY <1>3 DEF PutBack
  <2>1. Dated(db)'
    BY <1>3, <2>0 DEF Dated
  <2>2. Dated(archive)' /\ (bak # NoFile => Dated(bak))'
    BY <1>1, <2>0 DEF Dated
  <2>3. ServingIsBound'
    BY <2>0 DEF ServingIsBound
  <2>6. (OnPg => bak = NoFile)'
    BY <1>1, <2>0 DEF OnPg
  <2> QED
    BY <1>1, <2>0, <2>1, <2>2, <2>3, <2>6, IdleFits DEF LivesStand
<1>4. ASSUME Mints PROVE LivesStand'
  <2>0. /\ job'.adopt = job.adopt /\ db.wm = NoRow /\ db'.beliefs = db.beliefs
        /\ db'.wm = [life |-> minted + 1, applied |-> 0]
        /\ minted' = minted + 1 /\ ~ engine'
        /\ UNCHANGED <<backend, bak, archive, log, deleted>>
    BY <1>4 DEF Mints
  <2>1. Dated(db)'
    <3>1. db'.wm.life = minted + 1 /\ minted + 1 \in 1 .. minted'
      BY <1>0, <2>0
    <3>2. db'.wm # NoRow
      <4>1. NoRow.life = 0
        BY DEF NoRow, NoLife
      <4> QED
        BY <1>0, <3>1, <4>1
    <3> QED
      BY <1>1, <2>0, <3>1, <3>2 DEF Dated
  <2>2. Dated(archive)'
    BY <1>0, <1>1, <2>0 DEF Dated
  <2>3. (bak # NoFile => Dated(bak))'
    BY <1>0, <1>1, <2>0 DEF Dated
  <2>4. (job.adopt # NoLife => job.adopt \in Known)'
    BY <1>1, <2>0 DEF Known
  <2>5. ServingIsBound'
    BY <2>0 DEF ServingIsBound
  <2>6. (OnPg => bak = NoFile)'
    BY <1>1, <2>0 DEF OnPg
  <2>7. \A l \in Life : l > minted' => log'[l] = NoGenesis
    <3>1. ASSUME NEW l \in Life, l > minted' PROVE l > minted
      BY <1>0, <2>0, <3>1
    <3>2. log' = log
      BY <2>0
    <3> QED
      BY <1>1, <3>1, <3>2
  <2> QED
    BY <1>1, <2>0, <2>1, <2>2, <2>3, <2>4, <2>5, <2>6, <2>7 DEF LivesStand
<1>5. ASSUME Adopts PROVE LivesStand'
  <2>0. /\ job.adopt \in Life /\ job' = Idle /\ db.wm = NoRow /\ db'.beliefs = db.beliefs
        /\ db'.wm = [life |-> job.adopt, applied |-> 0] /\ ~ engine'
        /\ UNCHANGED <<backend, bak, archive, log, minted, deleted, forced>>
    BY <1>5 DEF Adopts
  <2>1. Dated(db)'
    <3>1. job.adopt # NoLife /\ db'.wm.life = job.adopt /\ db'.wm # NoRow
      BY <2>0, RowFacts, LifeFacts
    <3>2. job.adopt \in 1 .. minted
      <4>1. log[job.adopt] # NoGenesis
        BY <1>1, <3>1 DEF Known
      <4>2. job.adopt \in 1 .. MaxLives
        BY <2>0 DEF Life
      <4>3. job.adopt \in Nat
        BY <1>0, <2>0
      <4> QED
        BY <1>0, <1>1, <2>0, <4>1, <4>2, <4>3
    <3> QED
      BY <1>1, <2>0, <3>1, <3>2 DEF Dated
  <2>2. Dated(archive)' /\ (bak # NoFile => Dated(bak))'
    BY <1>1, <2>0 DEF Dated
  <2>3. ServingIsBound'
    BY <2>0 DEF ServingIsBound
  <2>6. (OnPg => bak = NoFile)'
    BY <1>1, <2>0 DEF OnPg
  <2> QED
    BY <1>1, <2>0, <2>1, <2>2, <2>3, <2>6, IdleFits DEF LivesStand
<1>6. ASSUME NEW l \in Life, NEW n \in Nat, ServesAt(l, n) PROVE LivesStand'
  <2>0. /\ job' = Idle
        /\ \/ db.wm # NoRow /\ l = db.wm.life /\ n = db.wm.applied /\ minted' = minted
           \/ db.wm = NoRow /\ db.beliefs = {} /\ l = minted + 1 /\ n = 0 /\ minted' = minted + 1
        /\ log' = [log EXCEPT ![l] = EntriesOf(l)]
        /\ db'.wm = [life |-> l, applied |-> Len(EntriesOf(l))]
        /\ db'.beliefs \subseteq db.beliefs
        /\ UNCHANGED <<backend, bak, archive, deleted, forced>>
    BY <1>6 DEF ServesAt
  <2>1. l \in 1 .. minted' /\ minted <= minted'
    <3>1. CASE db.wm # NoRow
      BY <1>0, <1>1, <2>0, <3>1 DEF Dated
    <3>2. CASE db.wm = NoRow
      BY <1>0, <2>0, <3>2
    <3> QED
      BY <3>1, <3>2
  <2>2. EntriesOf(l) \in Seq(Belief) /\ Len(EntriesOf(l)) \in Nat /\ EntriesOf(l) # NoGenesis
    BY Entries
  <2>3. db'.wm # NoRow /\ db'.wm.life = l /\ db'.wm.applied = Len(EntriesOf(l))
    BY <2>0, <2>2, RowFacts
  <2>4. log'[l] = EntriesOf(l) /\ \A k \in Life : k # l => log'[k] = log[k]
    BY <2>0, Standing
  <2>5. Dated(db)'
    BY <1>1, <2>0, <2>1, <2>3 DEF Dated
  <2>6. Dated(archive)'
    BY <1>0, <1>1, <2>0, <2>1 DEF Dated
  <2>7. (bak # NoFile => Dated(bak))'
    BY <1>0, <1>1, <2>0, <2>1 DEF Dated
  <2>8. ServingIsBound'
    BY <2>2, <2>3, <2>4 DEF ServingIsBound
  <2>9. \A k \in Life : k > minted' => log'[k] = NoGenesis
    <3>1. ASSUME NEW k \in Life, k > minted' PROVE log'[k] = NoGenesis
      <4>1. k \in Nat /\ k # l /\ k > minted
        BY <1>0, <2>1, <3>1
      <4> QED
        BY <1>1, <2>4, <4>1
    <3> QED
      BY <3>1
  <2>10. (OnPg => bak = NoFile)'
    BY <1>1, <2>0 DEF OnPg
  <2> QED
    BY <1>1, <2>0, <2>5, <2>6, <2>7, <2>8, <2>9, <2>10, IdleFits DEF LivesStand
<1>7. ASSUME NEW l \in Life, NEW b \in Belief, DeletesAt(l, b) PROVE LivesStand'
  <2>0. /\ engine /\ job' = Idle /\ b \in db.beliefs /\ l = db.wm.life
        /\ log' = [log EXCEPT ![l] = Append(log[l], b)]
        /\ db'.wm = [life |-> l, applied |-> Len(log[l]) + 1]
        /\ db'.beliefs = db.beliefs \ {b}
        /\ deleted' = deleted \cup {b}
        /\ UNCHANGED <<backend, bak, archive, minted, forced>>
    BY <1>7 DEF DeletesAt
  <2>1. db.wm # NoRow /\ l \in 1 .. minted /\ log[l] \in Seq(Belief)
    BY <1>1, <2>0, Standing DEF ServingIsBound, Dated
  <2>2. log'[l] = Append(log[l], b) /\ \A k \in Life : k # l => log'[k] = log[k]
    BY <2>0, Standing
  <2>3. /\ log'[l] # NoGenesis /\ Len(log'[l]) = Len(log[l]) + 1 /\ Len(log[l]) + 1 \in Nat
    BY <2>1, <2>2, LogFacts
  <2>4. db'.wm # NoRow /\ db'.wm.life = l /\ db'.wm.applied = Len(log'[l])
    BY <2>0, <2>3, RowFacts
  <2>5. Dated(db)'
    BY <1>1, <2>0, <2>1, <2>4 DEF Dated
  <2>6. Dated(archive)'
    BY <1>1, <2>0 DEF Dated
  <2>7. (bak # NoFile => Dated(bak))'
    BY <1>1, <2>0 DEF Dated
  <2>8. ServingIsBound'
    BY <2>3, <2>4 DEF ServingIsBound
  <2>9. \A k \in Life : k > minted' => log'[k] = NoGenesis
    <3>1. ASSUME NEW k \in Life, k > minted' PROVE log'[k] = NoGenesis
      <4>1. k \in Nat /\ k # l /\ k > minted
        BY <1>0, <2>0, <2>1, <3>1
      <4> QED
        BY <1>1, <2>2, <4>1
    <3> QED
      BY <3>1
  <2>10. deleted' \subseteq archive'.beliefs
    BY <1>1, <2>0 DEF Dated
  <2>11. (OnPg => bak = NoFile)'
    BY <1>1, <2>0 DEF OnPg
  <2> QED
    BY <2>0, <2>5, <2>6, <2>7, <2>8, <2>9, <2>10, <2>11, IdleFits DEF LivesStand
<1> QED
  BY <1>1, <1>2, <1>3, <1>4, <1>5, <1>6, <1>7 DEF BookStep

\* The logs and watermarks are what they are taken for.
LEMMA Lived ==
  ASSUME MigrationConstants, MigInv, LivesStand
  PROVE  /\ \A l \in Known : l \in Life /\ log[l] \in Seq(Belief) /\ Len(log[l]) \in Nat
         /\ db.wm.applied \in Nat /\ archive.wm.applied \in Nat
         /\ bak # NoFile => bak.wm.applied \in Nat
<1>1. \A l \in Known : l \in Life /\ log[l] \in Seq(Belief) /\ Len(log[l]) \in Nat
  BY Standing DEF Known
<1>2. \A d \in Database : d.wm.applied \in Nat
  BY Parts
<1> QED
  BY <1>1, <1>2, Standing

\* What a log holds above a watermark, at its end and after one more entry.
LEMMA AboveFacts ==
  ASSUME NEW q \in Seq(Belief)
  PROVE  /\ Above(q, Len(q)) = {}
         /\ \A b \in Belief, n \in Nat :
              n <= Len(q) => Above(Append(q, b), n) = Above(q, n) \cup {b}
<1>1. Above(q, Len(q)) = {}
  BY DEF Above
<1>2. ASSUME NEW b \in Belief, NEW n \in Nat, n <= Len(q)
      PROVE  Above(Append(q, b), n) = Above(q, n) \cup {b}
  <2> DEFINE p == Append(q, b)
  <2>1. Len(p) = Len(q) + 1 /\ p[Len(q) + 1] = b /\ \A i \in 1 .. Len(q) : p[i] = q[i]
    OBVIOUS
  <2>2. Len(q) \in Nat
    OBVIOUS
  <2> HIDE DEF p
  <2>3. Above(p, n) = {p[i] : i \in (n + 1) .. (Len(q) + 1)}
    BY <2>1 DEF Above
  <2>4. Above(q, n) = {q[i] : i \in (n + 1) .. Len(q)}
    BY DEF Above
  <2>5. ASSUME NEW x \in Above(p, n) PROVE x \in Above(q, n) \cup {b}
    <3>1. PICK i \in (n + 1) .. (Len(q) + 1) : x = p[i]
      BY <2>3
    <3>2. CASE i = Len(q) + 1
      BY <2>1, <3>1, <3>2
    <3>3. CASE i # Len(q) + 1
      <4>1. i \in (n + 1) .. Len(q) /\ i \in 1 .. Len(q)
        BY <1>2, <2>2, <3>1, <3>3
      <4> QED
        BY <2>1, <2>4, <3>1, <4>1
    <3> QED
      BY <3>2, <3>3
  <2>6. b \in Above(p, n)
    <3>1. Len(q) + 1 \in (n + 1) .. (Len(q) + 1)
      BY <1>2, <2>2
    <3> QED
      BY <2>1, <2>3, <3>1
  <2>7. ASSUME NEW x \in Above(q, n) PROVE x \in Above(p, n)
    <3>1. PICK i \in (n + 1) .. Len(q) : x = q[i]
      BY <2>4
    <3>2. i \in (n + 1) .. (Len(q) + 1) /\ i \in 1 .. Len(q)
      BY <1>2, <2>2, <3>1
    <3> QED
      BY <2>1, <2>3, <3>1, <3>2
  <2> QED
    BY <2>5, <2>6, <2>7 DEF p
<1> QED
  BY <1>1, <1>2

\* In the initial states nothing is deleted, and there is at most one life.
LEMMA DeletionsInit ==
  ASSUME MigrationConstants, MigrationInit, LivesStand
  PROVE  DeletionsStand
<1>0. /\ job = Idle /\ bak = NoFile /\ archive = db
      /\ minted = (IF db.wm = NoRow THEN 0 ELSE 1)
      /\ log = [l \in Life |-> IF l <= minted THEN <<>> ELSE NoGenesis]
      /\ engine = FALSE /\ deleted = {} /\ forced = FALSE
  BY DEF MigrationInit
<1>1. db.wm = NoRow \/ db.wm = [life |-> 1, applied |-> 0]
  <2>1. CASE db = Empty(backend)
    BY <2>1, EmptyStands
  <2>2. CASE db # Empty(backend)
    <3>1. PICK v \in Releases, bs \in SUBSET Belief : db = Shape(v, backend, bs)
      BY <2>2 DEF MigrationInit
    <3>2. v \in 0 .. 13
      BY DEF MigrationConstants, Latest
    <3> QED
      BY <3>1, <3>2, ShapeStands
  <2> QED
    BY <2>1, <2>2
<1>2. <<>> # NoGenesis
  BY LogFacts
<1>3. /\ db.wm = NoRow => Known = {}
      /\ db.wm # NoRow => Known = {1} /\ log[1] = <<>>
  <2>1. CASE db.wm = NoRow
    <3>1. \A l \in Life : ~ l <= minted
      BY <1>0, <2>1, LifeFacts
    <3> QED
      BY <1>0, <2>1, <3>1 DEF Known
  <2>2. CASE db.wm # NoRow
    <3>1. \A l \in Life : l <= minted <=> l = 1
      <4>1. \A l \in Life : l \in Nat /\ l >= 1
        BY LifeFacts DEF Life
      <4> QED
        BY <1>0, <2>2, <4>1
    <3>2. 1 \in Life
      BY LifeFacts
    <3> QED
      BY <1>0, <1>2, <2>2, <3>1, <3>2 DEF Known
  <2> QED
    BY <2>1, <2>2
<1>4. Accounted(db)
  <2>1. db.wm # NoRow => db.wm.life = 1 /\ db.wm.applied = 0
    BY <1>1
  <2>2. Len(<<>>) = 0
    OBVIOUS
  <2> QED
    BY <1>0, <1>3, <2>1, <2>2 DEF Accounted
<1>5. OneLife
  BY <1>0, <1>3, <1>4, IdleFits DEF OneLife
<1> QED
  BY <1>5 DEF DeletionsStand

\* Every step preserves the account of the deletions.
LEMMA DeletionsMove ==
  ASSUME MigrationConstants, MigInv, LivesStand, MigInv', LivesStand', DeletionsStand, BookStep
  PROVE  DeletionsStand'
<1> SUFFICES ASSUME archive'.beliefs # {}, ~ forced'
             PROVE  OneLife'
  BY DEF DeletionsStand
<1>0. /\ minted \in Nat /\ minted' \in Nat /\ Life \subseteq Nat
  BY Standing, LifeFacts DEF MigInv, MigTyped
<1>a. /\ \A l \in Life : l > minted => log[l] = NoGenesis
      /\ Dated(db) /\ Dated(archive) /\ (bak # NoFile => Dated(bak))
      /\ job.adopt # NoLife => job.adopt \in Known
      /\ ServingIsBound
      /\ deleted \subseteq archive.beliefs
      /\ OnPg => bak = NoFile
  BY DEF LivesStand
<1>b. /\ archive' = archive /\ ~ forced
  <2>1. Quiet => archive' = archive /\ ~ forced
    BY DEF Quiet
  <2>2. \A d : PutBack(d) => archive' = archive /\ ~ forced
    BY DEF PutBack
  <2>3. Mints => archive' = archive /\ ~ forced
    BY DEF Mints
  <2>4. Adopts => archive' = archive /\ ~ forced
    BY DEF Adopts
  <2>5. \A l \in Life, n \in Nat : ServesAt(l, n) => archive' = archive /\ ~ forced
    BY DEF ServesAt
  <2>6. \A l \in Life, b \in Belief : DeletesAt(l, b) => archive' = archive /\ ~ forced
    BY DEF DeletesAt
  <2> QED
    BY <2>1, <2>2, <2>3, <2>4, <2>5, <2>6 DEF BookStep
<1>c. OneLife
  BY <1>b DEF DeletionsStand
<1>d. /\ \A k, l \in Known : k = l
      /\ \A l \in Known : deleted \subseteq Above(log[l], 0)
      /\ Known = {} => deleted = {} /\ archive.wm = NoRow
      /\ Accounted(db) /\ Accounted(archive) /\ (bak # NoFile => Accounted(bak))
      /\ Known = {} /\ bak # NoFile /\ bak.wm # NoRow /\ db.wm # NoRow => bak.wm.life = db.wm.life
      /\ job.step \in Step /\ ~ OnPg /\ db.wm = NoRow => bak.wm = NoRow
  BY <1>c DEF OneLife
<1>e. db.wm = NoRow => db.beliefs # {}
  BY <1>a, <1>b DEF Dated
<1>2. ASSUME Quiet PROVE OneLife'
  <2>0. /\ db'.wm = db.wm /\ db'.beliefs = db.beliefs
        /\ UNCHANGED <<backend, archive, log, minted, deleted, forced>>
        /\ \/ bak' = bak /\ (OnPg \/ (job'.step \in Step => job.step \in Step))
           \/ ~ OnPg /\ bak' = db
    BY <1>2 DEF Quiet
  <2>1. Known' = Known
    BY <2>0 DEF Known
  <2>2. Accounted(db)'
    BY <1>d, <2>0, <2>1 DEF Accounted
  <2>3. Accounted(archive)'
    BY <1>d, <2>0, <2>1 DEF Accounted
  <2>4. (bak # NoFile => Accounted(bak))'
    <3>1. CASE bak' = bak
      BY <1>d, <2>0, <2>1, <3>1 DEF Accounted
    <3>2. CASE bak' = db
      BY <1>d, <2>0, <2>1, <3>2 DEF Accounted
    <3> QED
      BY <2>0, <3>1, <3>2
  <2>5. (Known = {} /\ bak # NoFile /\ bak.wm # NoRow /\ db.wm # NoRow => bak.wm.life = db.wm.life)'
    BY <1>d, <2>0, <2>1
  <2>6. (job.step \in Step /\ ~ OnPg /\ db.wm = NoRow => bak.wm = NoRow)'
    BY <1>d, <2>0 DEF OnPg
  <2> QED
    BY <1>d, <2>0, <2>1, <2>2, <2>3, <2>4, <2>5, <2>6 DEF OneLife
<1>3. ASSUME NEW d, Accounted(d), Known = {} => (bak # NoFile /\ bak.wm # NoRow /\ d.wm # NoRow => bak.wm.life = d.wm.life),
             PutBack(d)
      PROVE  OneLife'
  <2>0. /\ db' = d /\ ~ engine' /\ job' = Idle
        /\ UNCHANGED <<backend, bak, archive, log, minted, deleted, forced>>
    BY <1>3 DEF PutBack
  <2>1. Known' = Known
    BY <2>0 DEF Known
  <2>2. Accounted(db)'
    BY <1>3, <2>0, <2>1 DEF Accounted
  <2>3. Accounted(archive)' /\ (bak # NoFile => Accounted(bak))'
    BY <1>d, <2>0, <2>1 DEF Accounted
  <2> QED
    BY <1>3, <1>d, <2>0, <2>1, <2>2, <2>3, IdleFits DEF OneLife
<1>4. ASSUME Mints PROVE OneLife'
  <2>0. /\ job.step \in Step /\ job'.step = job.step /\ db.wm = NoRow /\ db'.beliefs = db.beliefs
        /\ db'.wm = [life |-> minted + 1, applied |-> 0]
        /\ minted' = minted + 1 /\ ~ MustAdopt
        /\ UNCHANGED <<backend, bak, archive, log, deleted>>
    BY <1>4 DEF Mints
  <2>1. Known' = Known
    BY <2>0 DEF Known
  <2>2. Known = {}
    BY <1>e, <2>0 DEF MustAdopt, HasData, LogKnowsLives, Known
  <2>3. db'.wm.applied = 0
    BY <2>0
  <2>4. Accounted(db)'
    BY <2>1, <2>2, <2>3 DEF Accounted
  <2>5. Accounted(archive)' /\ (bak # NoFile => Accounted(bak))'
    BY <1>d, <2>0, <2>1 DEF Accounted
  <2>6. bak # NoFile => bak.wm = NoRow
    BY <1>a, <1>d, <2>0
  <2>7. db'.wm # NoRow
    <3>1. NoRow.life = 0 /\ db'.wm.life = minted + 1
      BY <2>0 DEF NoRow, NoLife
    <3> QED
      BY <1>0, <3>1
  <2> QED
    BY <1>d, <2>0, <2>1, <2>2, <2>4, <2>5, <2>6, <2>7 DEF OneLife
<1>5. ASSUME Adopts PROVE OneLife'
  <2>0. /\ job.adopt \in Life /\ job' = Idle /\ db.wm = NoRow /\ db'.beliefs = db.beliefs
        /\ db'.wm = [life |-> job.adopt, applied |-> 0]
        /\ UNCHANGED <<backend, bak, archive, log, minted, deleted, forced>>
    BY <1>5 DEF Adopts
  <2>1. Known' = Known
    BY <2>0 DEF Known
  <2>2. job.adopt \in Known
    BY <1>a, <2>0, LifeFacts
  <2>3. db'.wm.life = job.adopt /\ db'.wm.applied = 0
    BY <2>0
  <2>4. Accounted(db)'
    <3>1. 0 <= Len(log[job.adopt])
      BY <2>2, Lived
    <3>2. deleted \subseteq Above(log[job.adopt], 0)
      BY <1>d, <2>2
    <3> QED
      BY <2>0, <2>1, <2>2, <2>3, <3>1, <3>2 DEF Accounted
  <2>5. Accounted(archive)' /\ (bak # NoFile => Accounted(bak))'
    BY <1>d, <2>0, <2>1 DEF Accounted
  <2> QED
    BY <1>d, <2>0, <2>1, <2>2, <2>4, <2>5, IdleFits DEF OneLife
<1>6. ASSUME NEW l \in Life, NEW n \in Nat, ServesAt(l, n) PROVE OneLife'
  <2>0. /\ job' = Idle
        /\ \/ db.wm # NoRow /\ l = db.wm.life /\ n = db.wm.applied /\ minted' = minted
           \/ db.wm = NoRow /\ db.beliefs = {} /\ l = minted + 1 /\ n = 0 /\ minted' = minted + 1
        /\ log' = [log EXCEPT ![l] = EntriesOf(l)]
        /\ db'.wm = [life |-> l, applied |-> Len(EntriesOf(l))]
        /\ db'.beliefs = db.beliefs \ Above(EntriesOf(l), n)
        /\ UNCHANGED <<backend, bak, archive, deleted, forced>>
    BY <1>6 DEF ServesAt
  <2>1. db.wm # NoRow /\ l = db.wm.life /\ n = db.wm.applied
    BY <1>e, <2>0
  <2>2. EntriesOf(l) \in Seq(Belief) /\ Len(EntriesOf(l)) \in Nat /\ EntriesOf(l) # NoGenesis
    BY Entries
  <2>3. db'.wm.life = l /\ db'.wm.applied = Len(EntriesOf(l))
    BY <2>0
  <2>4. log'[l] = EntriesOf(l) /\ \A k \in Life : k # l => log'[k] = log[k]
    BY <2>0, Standing
  <2>5. CASE Known = {}
    <3>1. EntriesOf(l) = <<>>
      BY <2>5 DEF EntriesOf, Known
    <3>2. Known' = {l}
      BY <2>2, <2>4, <2>5 DEF Known
    <3>3. Len(EntriesOf(l)) = 0 /\ Len(log'[l]) = 0
      BY <2>4, <3>1
    <3>4. deleted' = {}
      BY <1>d, <2>0, <2>5
    <3>5. Accounted(db)'
      BY <2>3, <3>2, <3>3, <3>4 DEF Accounted
    <3>6. Accounted(archive)'
      BY <1>d, <2>0, <2>5 DEF Accounted
    <3>7. (bak # NoFile => Accounted(bak))'
      <4>1. bak # NoFile /\ bak.wm # NoRow => bak.wm.life = l /\ bak.wm.applied = 0
        BY <1>d, <2>1, <2>5 DEF Accounted
      <4> QED
        BY <2>0, <3>2, <3>3, <3>4, <4>1 DEF Accounted
    <3> QED
      BY <2>0, <3>2, <3>4, <3>5, <3>6, <3>7, IdleFits DEF OneLife
  <2>6. CASE Known # {}
    <3>1. l \in Known /\ n <= Len(log[l])
          /\ db.beliefs \cap deleted \subseteq Above(log[l], n)
      BY <1>d, <2>1, <2>6 DEF Accounted
    <3>2. EntriesOf(l) = log[l]
      BY <3>1 DEF EntriesOf, Known
    <3>3. log' = log
      BY <2>0, <3>2, Standing
    <3>4. Known' = Known
      BY <3>3 DEF Known
    <3>5. db'.beliefs \cap deleted' = {}
      BY <2>0, <3>1, <3>2
    <3>6. Accounted(db)'
      BY <2>2, <2>3, <3>1, <3>2, <3>3, <3>4, <3>5 DEF Accounted
    <3>7. Accounted(archive)' /\ (bak # NoFile => Accounted(bak))'
      BY <1>d, <2>0, <3>3, <3>4 DEF Accounted
    <3> QED
      BY <1>d, <2>0, <2>6, <3>3, <3>4, <3>6, <3>7, IdleFits DEF OneLife
  <2> QED
    BY <2>5, <2>6
<1>7. ASSUME NEW l \in Life, NEW b \in Belief, DeletesAt(l, b) PROVE OneLife'
  <2>0. /\ engine /\ job' = Idle /\ b \in db.beliefs /\ l = db.wm.life
        /\ log' = [log EXCEPT ![l] = Append(log[l], b)]
        /\ db'.wm = [life |-> l, applied |-> Len(log[l]) + 1]
        /\ db'.beliefs = db.beliefs \ {b}
        /\ deleted' = deleted \cup {b}
        /\ UNCHANGED <<backend, bak, archive, minted, forced>>
    BY <1>7 DEF DeletesAt
  <2>1. /\ db.wm # NoRow /\ log[l] \in Seq(Belief) /\ l \in Known
        /\ db.wm.applied = Len(log[l])
    BY <1>a, <2>0, Standing DEF ServingIsBound, Known
  <2>2. log'[l] = Append(log[l], b) /\ \A k \in Life : k # l => log'[k] = log[k]
    BY <2>0, Standing
  <2>3. Append(log[l], b) # NoGenesis /\ Len(log'[l]) = Len(log[l]) + 1
    BY <2>1, <2>2, LogFacts
  <2>4. Known' = Known /\ Known = {l}
    <3>1. Known = {l}
      BY <1>d, <2>1
    <3>2. \A k \in Life : log'[k] # NoGenesis <=> log[k] # NoGenesis
      BY <2>1, <2>2, <2>3 DEF Known
    <3> QED
      BY <3>1, <3>2 DEF Known
  <2>5. \A k \in Nat : k <= Len(log[l]) => Above(log'[l], k) = Above(log[l], k) \cup {b}
    BY <2>1, <2>2, AboveFacts
  <2>6. db.beliefs \cap deleted = {}
    <3>1. db.beliefs \cap deleted \subseteq Above(log[l], Len(log[l]))
      BY <1>d, <2>0, <2>1 DEF Accounted
    <3> QED
      BY <2>1, <3>1, AboveFacts
  <2>7. db'.wm.life = l /\ db'.wm.applied = Len(log'[l])
    BY <2>0, <2>3
  <2>8. Accounted(db)'
    <3>1. Len(log'[l]) \in Nat
      BY <2>1, <2>3
    <3>2. db'.beliefs \cap deleted' = {}
      BY <2>0, <2>6
    <3> QED
      BY <2>1, <2>4, <2>7, <3>1, <3>2 DEF Accounted
  <2>9. ASSUME NEW d \in Database, Accounted(d), d.wm # NoRow
        PROVE  /\ d.wm.life \in Known' /\ d.wm.applied <= Len(log'[d.wm.life])
               /\ d.beliefs \cap deleted' \subseteq Above(log'[d.wm.life], d.wm.applied)
    <3>1. d.wm.applied \in Nat
      BY Parts
    <3>2. /\ d.wm.life = l /\ d.wm.applied <= Len(log[l])
          /\ d.beliefs \cap deleted \subseteq Above(log[l], d.wm.applied)
      BY <2>4, <2>9 DEF Accounted
    <3>3. Len(log[l]) \in Nat
      BY <2>1
    <3> QED
      BY <2>0, <2>3, <2>4, <2>5, <3>1, <3>2, <3>3
  <2>10. Accounted(archive)'
    BY <1>d, <2>0, <2>4, <2>9, Standing DEF Accounted
  <2>11. (bak # NoFile => Accounted(bak))'
    BY <1>d, <2>0, <2>4, <2>9, Standing DEF Accounted
  <2>12. deleted' \subseteq Above(log'[l], 0)
    <3>1. 0 <= Len(log[l]) /\ deleted \subseteq Above(log[l], 0)
      BY <1>d, <2>1
    <3> QED
      BY <2>0, <2>5, <3>1
  <2> QED
    BY <2>0, <2>4, <2>8, <2>10, <2>11, <2>12, IdleFits DEF OneLife
<1> QED
  BY <1>2, <1>3, <1>4, <1>5, <1>6, <1>7, <1>d DEF BookStep

\* The three invariants hold of every behaviour.
LEMMA HistoryStands ==
  ASSUME MigrationConstants
  PROVE  MigrationSpec => [](MigInv /\ LivesStand /\ DeletionsStand)
<1>1. MigrationInit => MigInv /\ LivesStand /\ DeletionsStand
  BY MigInit, LivesInit, DeletionsInit
<1>2. MigInv /\ LivesStand /\ DeletionsStand /\ [MigrationNext]_migrationVars => (MigInv /\ LivesStand /\ DeletionsStand)'
  <2> SUFFICES ASSUME MigInv, LivesStand, DeletionsStand, [MigrationNext]_migrationVars
               PROVE  (MigInv /\ LivesStand /\ DeletionsStand)'
    OBVIOUS
  <2>1. MigInv'
    BY MigStep
  <2>2. BookStep
    BY Books DEF LivesStand
  <2>3. LivesStand'
    BY <2>1, <2>2, LivesMove
  <2>4. DeletionsStand'
    BY <2>1, <2>2, <2>3, DeletionsMove
  <2> QED
    BY <2>1, <2>3, <2>4
<1> QED
  BY <1>1, <1>2, PTL DEF MigrationSpec

\* No engine serves before its start has bound it: the watermark row is there, its life
\* has a log, and the watermark is at the log's end (api.py _initialize_db,
\* ensure_watermark).
THEOREM EnginesAreBound ==
  MigrationSpec => []ServingIsBound
<1> USE ConstantsFit
<1>1. LivesStand => ServingIsBound
  BY DEF LivesStand
<1> QED
  BY <1>1, HistoryStands, PTL

\* An acknowledged deletion is not served again after any run of upgrades, failures,
\* kills, downgrades, restores and adoptions, unless the operator asked for a new lineage
\* over data the log knew (schema_migration.py _mint_or_refuse, deletion_adopt.py).
THEOREM DeletionsHold ==
  MigrationSpec => []DeletedStaysDeleted
<1> USE ConstantsFit
<1>1. MigInv /\ LivesStand /\ DeletionsStand => DeletedStaysDeleted
  <2> SUFFICES ASSUME MigInv, LivesStand, DeletionsStand, engine, ~ forced
               PROVE  db.beliefs \cap deleted = {}
    BY DEF DeletedStaysDeleted
  <2>1. /\ Dated(db) /\ db.wm # NoRow /\ log[db.wm.life] # NoGenesis
        /\ db.wm.applied = Len(log[db.wm.life])
    BY DEF LivesStand, ServingIsBound
  <2>2. CASE archive.beliefs = {}
    BY <2>1, <2>2 DEF Dated
  <2>3. CASE archive.beliefs # {}
    <3>1. Accounted(db)
      BY <2>3 DEF DeletionsStand, OneLife
    <3>2. db.wm.life \in Known /\ log[db.wm.life] \in Seq(Belief)
      BY <2>1, Standing DEF Known
    <3>3. db.beliefs \cap deleted \subseteq Above(log[db.wm.life], Len(log[db.wm.life]))
      BY <2>1, <3>1, <3>2 DEF Accounted
    <3> QED
      BY <3>2, <3>3, AboveFacts
  <2> QED
    BY <2>2, <2>3
<1> QED
  BY <1>1, HistoryStands, PTL
==============================================================================
