------------------------ MODULE DatabaseClient_proofs ------------------------
(* Theorems about DatabaseClient, for every set of units, every number of    *)
(* faults and every sequence of publications.                                *)
EXTENDS DatabaseClient, TLAPS

(* The hooks whose handlers read the relation. *)
Calls == JoinedHooks \cup {<<"changed">>}
Quiet == {<<"other">>, None}

Busy(u) == pending[u] \cup {hook[u].kind}

(* Juju's side: a relation that is gone leaves no hook behind, the broken    *)
(* hook comes last, and what a hook of the relation sees is not older than   *)
(* what its unit recorded.                                                   *)
UnitOrder(u) ==
    /\ phase = "absent" => Busy(u) \subseteq Quiet
    /\ phase = "related" => <<"broken">> \notin Busy(u)
    /\ phase = "dying" => <<"broken">> \in pending[u] \/ Busy(u) \subseteq Quiet \cup {<<"broken">>}
    /\ hook[u].kind \in Calls => hook[u].sees >= known[u]
    /\ Idle(u) \/ hook[u].kind \in HookKinds

HookOrder == \A u \in Units : UnitOrder(u)

(* Credentials are never withdrawn while a relation lasts, and the unit that *)
(* has recorded them is the unit that was told, once, by a committed hook.   *)
UnitRecorded(u) ==
    /\ \A i, j \in known[u]..Now :
          i <= j /\ log[i]["credentials"] # 0 => log[j]["credentials"] # 0
    /\ \/ announced[u] \in {"no", "undone"} /\ log[known[u]]["credentials"] = 0
       \/ announced[u] = "committed" /\ log[known[u]]["credentials"] # 0

Recorded == \A u \in Units : UnitRecorded(u)

IInv == TypeOK /\ HookOrder /\ Recorded

-----------------------------------------------------------------------------
(* Data: positions in `log`, what is read at them, and the hooks' names.     *)

LEMMA Kinds ==
    /\ Calls \subseteq HookKinds /\ None \notin HookKinds
    /\ <<"changed">> \in Calls /\ <<"broken">> \in HookKinds /\ <<"other">> \in HookKinds
    /\ \A s \in Servers : Joined(s) \in Calls
    /\ <<"broken">> \notin Quiet \cup Calls /\ Quiet \cap Calls = {}
<1>1. \A s : Joined(s)[1] = "joined"
  BY DEF Joined
<1>2. <<"changed">>[1] = "changed" /\ <<"broken">>[1] = "broken" /\ <<"other">>[1] = "other"
  OBVIOUS
<1>3. <<"other">> # <<"changed">> /\ <<"other">> # <<"broken">> /\ <<"broken">> # <<"changed">>
  BY <1>2
<1>4. \A s : Joined(s) # <<"changed">> /\ Joined(s) # <<"broken">> /\ Joined(s) # <<"other">>
  BY <1>1, <1>2
<1>5. None \notin HookKinds
  BY HooksAssumption
<1> QED BY <1>3, <1>4, <1>5 DEF HookKinds, JoinedHooks, Calls, Quiet

LEMMA Positions ==
    ASSUME TypeOK
    PROVE  /\ Now \in Nat /\ Now >= 1
           /\ \A i \in 1..Now : log[i] \in [Fields -> Nat]
BY DEF TypeOK, Now

LEMMA Appended ==
    ASSUME TypeOK, NEW r \in [Fields -> Nat], log' = Append(log, r)
    PROVE  /\ log' \in Seq([Fields -> Nat]) /\ log' # <<>>
           /\ Now' = Now + 1
           /\ \A i \in 1..Now : log'[i] = log[i]
           /\ log'[Now + 1] = r
BY DEF TypeOK, Now

LEMMA ConnectionType ==
    ASSUME TypeOK, NEW i \in 0..Now, Complete(i)
    PROVE  /\ i \in 1..Now
           /\ Connection(i) \in (Nat \ {0}) \X (Nat \ {0})
           /\ Connection(i) \in EverPublished
<1>1. i \in 1..Now /\ log[i] \in [Fields -> Nat]
  BY Positions DEF Complete, ResourceCreated
<1>2. log[i]["credentials"] \in Nat \ {0} /\ log[i]["endpoints"] \in Nat \ {0}
  BY <1>1 DEF Complete, ResourceCreated, Fields
<1> QED BY <1>1, <1>2 DEF Connection, EverPublished

(* What the leader reads while its hook runs. *)
StoredFrom(u) == u = leader /\ Complete(hook[u].sees) /\ dsn' = Connection(hook[u].sees)

(* Whatever events a hook handles, the stored connection stays the one it    *)
(* was or becomes one that was published.                                    *)
LEMMA EventsStore ==
    ASSUME TypeOK, NEW u \in Units, NEW some \in BOOLEAN, OnDatabaseEvents(u, some)
    PROVE  /\ deferred' \in [Units -> BOOLEAN]
           /\ dsn' = dsn \/ (StoredFrom(u) /\ dsn' \in (Nat \ {0}) \X (Nat \ {0}))
<1>1. deferred \in [Units -> BOOLEAN] /\ hook[u].sees \in 0..Now
  BY DEF TypeOK
<1>2. \E d \in BOOLEAN : Defer(u, d)
  BY DEF OnDatabaseEvents
<1>3. dsn' = dsn \/ (u = leader /\ Complete(hook[u].sees) /\ Store(u))
  BY DEF OnDatabaseEvents
<1> QED BY <1>1, <1>2, <1>3, ConnectionType DEF Defer, Store, StoredFrom

-----------------------------------------------------------------------------
(* What the steps do to the log and to the hooks.                            *)

LEMMA LogGrows ==
    ASSUME TypeOK, [Next]_vars
    PROVE  \/ log' = log
           \/ \E r \in [Fields -> Nat] : log' = Append(log, r)
<1>1. ASSUME NEW fields, Publish(fields) PROVE \E r \in [Fields -> Nat] : log' = Append(log, r)
  <2> DEFINE r == [f \in Fields |-> IF f \in fields THEN Now + 1 ELSE log[Now][f]]
  <2>1. r \in [Fields -> Nat]
    BY Positions
  <2>2. log' = Append(log, r)
    BY <1>1 DEF Publish
  <2> QED BY <2>1, <2>2
<1>2. ASSUME Integrate PROVE \E r \in [Fields -> Nat] : log' = Append(log, r)
  <2>1. EmptyDatabag \in [Fields -> Nat]
    BY DEF EmptyDatabag
  <2> QED BY <1>2, <2>1 DEF Integrate
<1>3. Provision \/ Rotate => \E fields : Publish(fields)
  BY DEF Provision, Rotate
<1>4. ASSUME NEW u \in Units, UnitStep(u) PROVE log' = log
  BY <1>4 DEF UnitStep, StartHook, RelationJoined, RelationChanged, RelationBroken, OtherHook,
     RaiseWithoutEndpoints, Raise, library, records
<1>5. ASSUME NEW u \in Units, PeriodicHook(u) \/ ElectLeader(u) \/ Crash(u) PROVE log' = log
  BY <1>5 DEF PeriodicHook, ElectLeader, Crash, Raise, library, records
<1>6. DatabaseRequested \/ PeerRelationCreated \/ (\E s \in Servers : ScaleDatabase(s)) \/ Remove
        \/ Gone \/ UNCHANGED vars => log' = log
  BY DEF DatabaseRequested, PeerRelationCreated, ScaleDatabase, Remove, Gone, vars, library, records
<1> QED BY <1>1, <1>2, <1>3, <1>4, <1>5, <1>6 DEF Next

LEMMA NowGrows ==
    ASSUME TypeOK, [Next]_vars
    PROVE  /\ log' \in Seq([Fields -> Nat]) /\ log' # <<>>
           /\ Now \in Nat /\ Now' \in Nat /\ Now <= Now'
           /\ \A i \in 1..Now : log'[i] = log[i]
<1>1. CASE log' = log
  BY <1>1, Positions DEF TypeOK, Now
<1>2. ASSUME NEW r \in [Fields -> Nat], log' = Append(log, r)
      PROVE  /\ log' \in Seq([Fields -> Nat]) /\ log' # <<>>
             /\ Now \in Nat /\ Now' \in Nat /\ Now <= Now'
             /\ \A i \in 1..Now : log'[i] = log[i]
  <2>1. Now \in Nat
    BY Positions
  <2>2. /\ log' \in Seq([Fields -> Nat]) /\ log' # <<>>
        /\ Now' = Now + 1
        /\ \A i \in 1..Now : log'[i] = log[i]
    BY <1>2, Appended
  <2> QED BY <2>1, <2>2
<1> QED BY <1>1, <1>2, LogGrows

LEMMA BeginTypes ==
    ASSUME TypeOK, NEW u \in Units, NEW k \in HookKinds, Begin(u, k), UNCHANGED log
    PROVE  /\ hook' \in [Units -> [kind : HookKinds \cup {None}, sees : 0..Now]]
           /\ hook'[u].kind = k /\ hook'[u].sees = (IF Visible(u, k) THEN Now ELSE 0)
           /\ \A v \in Units \ {u} : hook'[v] = hook[v]
BY Positions DEF Begin, TypeOK

LEMMA FinishTypes ==
    ASSUME TypeOK, NEW u \in Units, Finish(u)
    PROVE  /\ hook' \in [Units -> [kind : HookKinds \cup {None}, sees : 0..Now]]
           /\ hook'[u] = NoHook
           /\ \A v \in Units \ {u} : hook'[v] = hook[v]
BY Positions DEF Finish, NoHook, TypeOK

LEMMA RaiseTypes ==
    ASSUME TypeOK, NEW u \in Units, hook[u].kind \in HookKinds, NEW told, Raise(u, told)
    PROVE  /\ pending' \in [Units -> SUBSET HookKinds]
           /\ failed' \in [Units -> HookKinds \cup {None}]
           /\ announced' \in [Units -> Announcements]
BY DEF Raise, Announce, Announcements, TypeOK

LEMMA NotifyTypes ==
    ASSUME TypeOK, NEW us \in SUBSET Units, NEW kinds \in SUBSET HookKinds, Notify(us, kinds)
    PROVE  pending' \in [Units -> SUBSET HookKinds]
BY DEF Notify, TypeOK

(* Beside the log: the lease, the relation and the bounds. *)
LeaseTypes ==
    /\ leader \in Units
    /\ faults \in 0..MaxFaults /\ moves \in 0..faults
    /\ ready \in BOOLEAN /\ request \in BOOLEAN /\ asked \in BOOLEAN
    /\ phase \in {"absent", "related", "dying"}

LEMMA LeaseTypesNext == TypeOK /\ [Next]_vars => LeaseTypes'
<1> SUFFICES ASSUME TypeOK, LeaseTypes, [Next]_vars PROVE LeaseTypes'
  BY DEF TypeOK, LeaseTypes
<1> USE BoundsAssumption
<1>1. ASSUME NEW u \in Units, UnitStep(u) PROVE LeaseTypes'
  <2>1. UNCHANGED <<juju, asked, faults>>
    BY <1>1 DEF UnitStep, StartHook, RelationJoined, RelationChanged, RelationBroken, OtherHook,
       RaiseWithoutEndpoints, Raise, library, records
  <2>2. request' \in BOOLEAN
    BY <1>1 DEF UnitStep, StartHook, RelationJoined, RelationChanged, RelationBroken, OtherHook,
       RaiseWithoutEndpoints, Raise, library, records, LeaseTypes
  <2> QED BY <2>1, <2>2 DEF LeaseTypes, juju
<1>2. ASSUME NEW u \in Units, PeriodicHook(u) PROVE LeaseTypes'
  BY <1>2 DEF PeriodicHook, library, records, juju, LeaseTypes
<1>3. ASSUME NEW f, Fault(f) PROVE faults' \in 0..MaxFaults /\ faults' = faults + 1
  BY <1>3 DEF Fault, LeaseTypes
<1>4. ASSUME NEW u \in Units, ElectLeader(u) PROVE LeaseTypes'
  BY <1>3, <1>4 DEF ElectLeader, library, records, LeaseTypes
<1>5. ASSUME NEW u \in Units, Crash(u) PROVE LeaseTypes'
  BY <1>3, <1>5 DEF Crash, Raise, library, records, juju, LeaseTypes
<1>6. ASSUME NEW fields, Publish(fields) PROVE LeaseTypes'
  BY <1>6 DEF Publish, juju, LeaseTypes
<1>7. CASE Provision \/ Rotate
  BY <1>6, <1>7 DEF Provision, Rotate
<1>8. CASE DatabaseRequested
  BY <1>8 DEF DatabaseRequested, juju, LeaseTypes
<1>9. CASE PeerRelationCreated
  BY <1>9 DEF PeerRelationCreated, library, records, LeaseTypes
<1>10. CASE Integrate
  BY <1>10 DEF Integrate, LeaseTypes
<1>11. ASSUME NEW s \in Servers, ScaleDatabase(s) PROVE LeaseTypes'
  BY <1>3, <1>11 DEF ScaleDatabase, library, records, juju, LeaseTypes
<1>12. CASE Remove
  BY <1>3, <1>12 DEF Remove, library, records, LeaseTypes
<1>13. CASE Gone
  BY <1>13 DEF Gone, library, records, LeaseTypes
<1>14. CASE UNCHANGED vars
  BY <1>14 DEF vars, library, records, juju, LeaseTypes
<1> QED BY <1>1, <1>2, <1>4, <1>5, <1>7, <1>8, <1>9, <1>10, <1>11, <1>12, <1>13, <1>14 DEF Next

(* The units: their hooks, records and events, and the stored connection. *)
ClientTypes ==
    /\ known \in [Units -> 1..Now]
    /\ pending \in [Units -> SUBSET HookKinds]
    /\ failed \in [Units -> HookKinds \cup {None}]
    /\ hook \in [Units -> [kind : HookKinds \cup {None}, sees : 0..Now]]
    /\ deferred \in [Units -> BOOLEAN]
    /\ announced \in [Units -> Announcements]
    /\ dsn \in ((Nat \ {0}) \X (Nat \ {0})) \cup {None}

LEMMA TypeParts ==
    TypeOK <=> LeaseTypes /\ ClientTypes /\ log \in Seq([Fields -> Nat]) /\ log # <<>>
BY DEF TypeOK, LeaseTypes, ClientTypes

LEMMA UnitTypes ==
    ASSUME TypeOK, HookOrder, NEW u \in Units, UnitStep(u)
    PROVE  ClientTypes'
<1>0. log' = log /\ Now' = Now
  BY DEF UnitStep, StartHook, RelationJoined, RelationChanged, RelationBroken, OtherHook,
     RaiseWithoutEndpoints, Raise, library, records, Now
<1>1. ASSUME NEW k \in HookKinds, StartHook(u, k) PROVE ClientTypes'
  <2>1. hook' \in [Units -> [kind : HookKinds \cup {None}, sees : 0..Now]]
    BY <1>0, <1>1, BeginTypes DEF StartHook
  <2> QED BY <1>0, <1>1, <2>1 DEF StartHook, library, records, TypeOK, ClientTypes
<1>2. ASSUME NEW s \in Servers, RelationJoined(u, s) PROVE ClientTypes'
  <2>1. deferred[u] \in BOOLEAN
    BY DEF TypeOK
  <2>2. deferred' \in [Units -> BOOLEAN] /\ dsn' \in ((Nat \ {0}) \X (Nat \ {0})) \cup {None}
    BY <1>2, <2>1, EventsStore DEF RelationJoined, TypeOK
  <2>3. hook' \in [Units -> [kind : HookKinds \cup {None}, sees : 0..Now]]
    BY <1>2, FinishTypes DEF RelationJoined
  <2>4. pending' \in [Units -> SUBSET HookKinds]
    BY <1>2, Kinds DEF RelationJoined, TypeOK
  <2> QED BY <1>0, <1>2, <2>2, <2>3, <2>4 DEF RelationJoined, TypeOK, ClientTypes
<1>3. ASSUME RelationChanged(u) PROVE ClientTypes'
  <2> DEFINE emitted == Emitted(known[u], hook[u].sees)
  <2>1. (deferred[u] \/ emitted # {}) \in BOOLEAN
    BY DEF TypeOK
  <2>2. deferred' \in [Units -> BOOLEAN] /\ dsn' \in ((Nat \ {0}) \X (Nat \ {0})) \cup {None}
    BY <1>3, <2>1, EventsStore DEF RelationChanged, TypeOK
  <2>3. hook' \in [Units -> [kind : HookKinds \cup {None}, sees : 0..Now]]
    BY <1>3, FinishTypes DEF RelationChanged
  <2>4. hook[u].sees \in 1..Now
    <3>1. hook[u].kind \in Calls
      BY <1>3, Kinds DEF RelationChanged, Running
    <3>2. hook[u].sees \in 0..Now /\ known[u] \in 1..Now
      BY DEF TypeOK
    <3> QED BY <3>1, <3>2, Positions DEF HookOrder, UnitOrder
  <2>5. known' \in [Units -> 1..Now]
    BY <1>3, <2>4 DEF RelationChanged, TypeOK
  <2>6. announced' \in [Units -> Announcements]
    BY <1>3 DEF RelationChanged, Announce, Announcements, TypeOK
  <2> QED BY <1>0, <1>3, <2>2, <2>3, <2>5, <2>6 DEF RelationChanged, TypeOK, ClientTypes
<1>4. CASE RelationBroken(u)
  <2>1. hook' \in [Units -> [kind : HookKinds \cup {None}, sees : 0..Now]]
    BY <1>4, FinishTypes DEF RelationBroken
  <2>2. deferred' \in [Units -> BOOLEAN]
    BY <1>4 DEF RelationBroken, Defer, TypeOK
  <2> QED BY <1>0, <1>4, <2>1, <2>2 DEF RelationBroken, library, records, TypeOK, ClientTypes
<1>5. CASE OtherHook(u)
  <2>1. deferred[u] \in BOOLEAN
    BY DEF TypeOK
  <2>2. deferred' \in [Units -> BOOLEAN] /\ dsn' \in ((Nat \ {0}) \X (Nat \ {0})) \cup {None}
    BY <1>5, <2>1, EventsStore DEF OtherHook, TypeOK
  <2>3. hook' \in [Units -> [kind : HookKinds \cup {None}, sees : 0..Now]]
    BY <1>5, FinishTypes DEF OtherHook
  <2> QED BY <1>0, <1>5, <2>2, <2>3 DEF OtherHook, library, records, TypeOK, ClientTypes
<1>6. CASE RaiseWithoutEndpoints(u)
  <2>1. hook[u].kind \in HookKinds
    BY <1>6 DEF RaiseWithoutEndpoints, HookOrder, UnitOrder
  <2>2. hook' \in [Units -> [kind : HookKinds \cup {None}, sees : 0..Now]]
    BY <1>6, FinishTypes DEF RaiseWithoutEndpoints, Raise
  <2>3. /\ pending' \in [Units -> SUBSET HookKinds] /\ failed' \in [Units -> HookKinds \cup {None}]
        /\ announced' \in [Units -> Announcements]
    BY <1>6, <2>1, RaiseTypes DEF RaiseWithoutEndpoints
  <2> QED BY <1>0, <1>6, <2>2, <2>3 DEF RaiseWithoutEndpoints, Raise, library, records, TypeOK, ClientTypes
<1> QED BY <1>1, <1>2, <1>3, <1>4, <1>5, <1>6 DEF UnitStep

LEMMA ClientTypesNext == TypeOK /\ HookOrder /\ [Next]_vars => ClientTypes'
<1> SUFFICES ASSUME TypeOK, HookOrder, [Next]_vars PROVE ClientTypes'
  OBVIOUS
<1>0. Now \in Nat /\ Now' \in Nat /\ Now <= Now'
  BY NowGrows
<1>1. ASSUME NEW u \in Units, UnitStep(u) PROVE ClientTypes'
  BY <1>1, UnitTypes
<1>2. ASSUME NEW u \in Units, PeriodicHook(u) PROVE ClientTypes'
  <2>1. hook' \in [Units -> [kind : HookKinds \cup {None}, sees : 0..Now]]
    BY <1>2, BeginTypes, Kinds DEF PeriodicHook, library, records
  <2> QED BY <1>2, <2>1 DEF PeriodicHook, library, records, Now, TypeOK, ClientTypes
<1>3. ASSUME NEW u \in Units, ElectLeader(u) PROVE ClientTypes'
  BY <1>3 DEF ElectLeader, library, records, Now, TypeOK, ClientTypes
<1>4. ASSUME NEW u \in Units, Crash(u) PROVE ClientTypes'
  <2>1. hook[u].kind \in HookKinds
    BY <1>4 DEF Crash, HookOrder, UnitOrder
  <2>2. hook' \in [Units -> [kind : HookKinds \cup {None}, sees : 0..Now]]
    BY <1>4, FinishTypes DEF Crash, Raise
  <2>3. /\ pending' \in [Units -> SUBSET HookKinds] /\ failed' \in [Units -> HookKinds \cup {None}]
        /\ announced' \in [Units -> Announcements]
    BY <1>4, <2>1, RaiseTypes DEF Crash
  <2> QED BY <1>4, <2>2, <2>3 DEF Crash, Raise, library, records, Now, TypeOK, ClientTypes
<1>5. ASSUME NEW fields, Publish(fields) PROVE ClientTypes'
  <2>1. pending' \in [Units -> SUBSET HookKinds]
    BY <1>5, NotifyTypes, Kinds DEF Publish
  <2>2. UNCHANGED <<known, failed, hook, deferred, announced, dsn>>
    BY <1>5 DEF Publish
  <2>3. known' \in [Units -> 1..Now'] /\ hook' \in [Units -> [kind : HookKinds \cup {None}, sees : 0..Now']]
    BY <1>0, <2>2 DEF TypeOK
  <2> QED BY <2>1, <2>2, <2>3 DEF TypeOK, ClientTypes
<1>6. CASE Provision \/ Rotate
  BY <1>5, <1>6 DEF Provision, Rotate
<1>7. CASE DatabaseRequested
  <2>1. pending' \in [Units -> SUBSET HookKinds]
    BY <1>7, NotifyTypes, Kinds DEF DatabaseRequested
  <2> QED BY <1>7, <2>1 DEF DatabaseRequested, Now, TypeOK, ClientTypes
<1>8. CASE PeerRelationCreated
  BY <1>8 DEF PeerRelationCreated, library, records, Now, TypeOK, ClientTypes
<1>9. CASE Integrate
  <2>1. Now' = Now + 1
    BY <1>9, Appended DEF Integrate, EmptyDatabag
  <2>2. pending' \in [Units -> SUBSET HookKinds]
    <3>1. PICK s \in Servers : Notify(Units, {Joined(s)})
      BY <1>9 DEF Integrate
    <3> QED BY <3>1, NotifyTypes, Kinds
  <2>3. known' \in [Units -> 1..Now']
    BY <1>0, <1>9, <2>1 DEF Integrate
  <2>4. hook' \in [Units -> [kind : HookKinds \cup {None}, sees : 0..Now']]
    BY <1>0, <1>9 DEF Integrate, TypeOK
  <2> QED BY <1>9, <2>2, <2>3, <2>4 DEF Integrate, Announcements, TypeOK, ClientTypes
<1>10. ASSUME NEW s \in Servers, ScaleDatabase(s) PROVE ClientTypes'
  <2>1. pending' \in [Units -> SUBSET HookKinds]
    BY <1>10, NotifyTypes, Kinds DEF ScaleDatabase
  <2> QED BY <1>10, <2>1 DEF ScaleDatabase, library, records, Now, TypeOK, ClientTypes
<1>11. CASE Remove
  <2>1. pending' \in [Units -> SUBSET HookKinds]
    BY <1>11, Kinds DEF Remove, TypeOK
  <2> QED BY <1>11, <2>1 DEF Remove, library, records, Now, TypeOK, ClientTypes
<1>12. CASE Gone
  BY <1>12 DEF Gone, library, records, Now, TypeOK, ClientTypes
<1>13. CASE UNCHANGED vars
  BY <1>13 DEF vars, library, records, Now, TypeOK, ClientTypes
<1> QED BY <1>1, <1>2, <1>3, <1>4, <1>6, <1>7, <1>8, <1>9, <1>10, <1>11, <1>12, <1>13 DEF Next

-----------------------------------------------------------------------------
(* HookOrder is preserved. *)

LEMMA SameOrder ==
    ASSUME NEW v \in Units, UnitOrder(v), UNCHANGED <<phase, pending[v], hook[v], known[v]>>
    PROVE  UnitOrder(v)'
BY DEF UnitOrder, Busy, Idle

(* A unit whose hook ends, with nothing more or with its hook to run again. *)
LEMMA IdleOrder ==
    ASSUME TypeOK, NEW u \in Units, UnitOrder(u), hook'[u] = NoHook, phase' = phase,
           pending'[u] \in {pending[u], Busy(u)}
    PROVE  UnitOrder(u)'
<1>1. hook'[u].kind = None /\ None \in Quiet /\ None \notin Calls
  BY Kinds DEF NoHook, Quiet
<1>2. Busy(u)' \subseteq Busy(u) \cup {None} /\ pending[u] \subseteq pending'[u]
  BY <1>1 DEF Busy
<1>3. None # <<"broken">>
  BY Kinds
<1> QED BY <1>1, <1>2, <1>3 DEF UnitOrder, Idle

LEMMA StartOrder ==
    ASSUME TypeOK, NEW u \in Units, UnitOrder(u), NEW k \in HookKinds, StartHook(u, k)
    PROVE  UnitOrder(u)'
<1>1. hook'[u].kind = k /\ hook'[u].sees = (IF Visible(u, k) THEN Now ELSE 0)
  BY BeginTypes DEF StartHook, library, records
<1>2. pending'[u] = pending[u] \ {k} /\ k \in pending[u] /\ phase' = phase /\ known' = known
  BY DEF StartHook, TypeOK, juju, library, records
<1>3. Busy(u)' \subseteq Busy(u)
  BY <1>1, <1>2 DEF Busy
<1>4. phase = "dying" /\ k = <<"broken">> => Busy(u)' \subseteq Quiet \cup {<<"broken">>}
  BY <1>1, <1>2 DEF StartHook, Busy, Quiet
<1>5. ASSUME k \in Calls PROVE Visible(u, k)
  <2>1. k \in Busy(u) /\ k \notin Quiet \cup {<<"broken">>}
    BY <1>2, <1>5, Kinds DEF Busy
  <2> QED BY <1>5, <2>1 DEF UnitOrder, Visible, TypeOK
<1>6. k \in Calls => hook'[u].sees >= known'[u]
  BY <1>1, <1>2, <1>5, Positions DEF TypeOK
<1> QED BY <1>1, <1>2, <1>3, <1>4, <1>6 DEF UnitOrder

LEMMA UnitKeepsOrder ==
    ASSUME TypeOK, HookOrder, NEW u \in Units, UnitStep(u)
    PROVE  HookOrder'
<1>0. phase' = phase
  BY DEF UnitStep, StartHook, RelationJoined, RelationChanged, RelationBroken, OtherHook,
     RaiseWithoutEndpoints, Raise, juju
<1>1. ASSUME NEW v \in Units \ {u} PROVE UnitOrder(v)'
  <2>1. UNCHANGED <<pending[v], hook[v], known[v]>>
    BY DEF UnitStep, StartHook, Begin, RelationJoined, RelationChanged, RelationBroken, OtherHook,
       RaiseWithoutEndpoints, Raise, Finish, library, records, TypeOK
  <2> QED BY <1>0, <2>1, SameOrder DEF HookOrder
<1>2. ASSUME NEW k \in HookKinds, StartHook(u, k) PROVE UnitOrder(u)'
  BY <1>2, StartOrder DEF HookOrder
<1>3. ASSUME NEW s \in Servers, RelationJoined(u, s) PROVE UnitOrder(u)'
  <2>1. hook'[u] = NoHook /\ pending'[u] = pending[u] \cup {<<"changed">>}
    BY <1>3, FinishTypes DEF RelationJoined, TypeOK
  <2>2. hook[u].kind \in Calls /\ hook[u].kind \in Busy(u) /\ <<"changed">> \in Calls
    BY <1>3, Kinds DEF RelationJoined, Running, Busy
  <2>3. phase # "absent" /\ (phase = "dying" => <<"broken">> \in pending[u])
    BY <2>2, Kinds DEF HookOrder, UnitOrder
  <2>4. Busy(u)' \subseteq Busy(u) \cup {<<"changed">>, None} /\ hook'[u].kind = None
    BY <2>1 DEF Busy, NoHook
  <2>5. None \notin Calls /\ None # <<"broken">> /\ <<"changed">> # <<"broken">>
    BY Kinds
  <2> QED BY <1>0, <2>1, <2>3, <2>4, <2>5 DEF HookOrder, UnitOrder, Idle
<1>4. ASSUME RelationChanged(u) \/ RelationBroken(u) \/ OtherHook(u) PROVE UnitOrder(u)'
  <2>1. hook'[u] = NoHook /\ pending'[u] = pending[u]
    BY <1>4, FinishTypes DEF RelationChanged, RelationBroken, OtherHook
  <2>2. UnitOrder(u)
    BY DEF HookOrder
  <2> QED BY <1>0, <2>1, <2>2, IdleOrder
<1>5. ASSUME RaiseWithoutEndpoints(u) PROVE UnitOrder(u)'
  <2>1. hook'[u] = NoHook /\ pending'[u] = Busy(u)
    BY <1>5, FinishTypes DEF RaiseWithoutEndpoints, Raise, TypeOK, Busy
  <2>2. UnitOrder(u)
    BY DEF HookOrder
  <2> QED BY <1>0, <2>1, <2>2, IdleOrder
<1>6. UnitOrder(u)'
  BY <1>2, <1>3, <1>4, <1>5 DEF UnitStep
<1> QED BY <1>1, <1>6 DEF HookOrder

LEMMA HookOrderNext == TypeOK /\ HookOrder /\ [Next]_vars => HookOrder'
<1> SUFFICES ASSUME TypeOK, HookOrder, [Next]_vars PROVE HookOrder'
  OBVIOUS
<1>1. ASSUME NEW u \in Units, UnitStep(u) PROVE HookOrder'
  BY <1>1, UnitKeepsOrder
<1>2. ASSUME NEW u \in Units, PeriodicHook(u) PROVE HookOrder'
  <2>1. hook'[u].kind = <<"other">> /\ UNCHANGED <<phase, pending, known>>
        /\ \A v \in Units \ {u} : hook'[v] = hook[v]
    BY <1>2, BeginTypes, Kinds DEF PeriodicHook, library, records, juju
  <2>2. UnitOrder(u)'
    BY <1>2, <2>1, Kinds DEF PeriodicHook, UnitOrder, Busy, Quiet
  <2>3. \A v \in Units \ {u} : UnitOrder(v)'
    BY <2>1, SameOrder DEF HookOrder
  <2> QED BY <2>2, <2>3 DEF HookOrder
<1>3. ASSUME NEW u \in Units, Crash(u) PROVE HookOrder'
  <2>1. UnitOrder(u)
    BY DEF HookOrder
  <2>2. hook'[u] = NoHook /\ pending'[u] = Busy(u) /\ UNCHANGED <<phase, known>>
    BY <1>3, FinishTypes DEF Crash, Raise, TypeOK, library, records, juju, Busy
  <2>3. \A v \in Units \ {u} : UNCHANGED <<hook[v], pending[v]>>
    BY <1>3, FinishTypes DEF Crash, Raise, TypeOK
  <2>4. UnitOrder(u)'
    BY <2>1, <2>2, IdleOrder
  <2>5. \A v \in Units \ {u} : UnitOrder(v)'
    BY <2>2, <2>3, SameOrder DEF HookOrder
  <2> QED BY <2>4, <2>5 DEF HookOrder
<1>4. ASSUME NEW kinds \in SUBSET Calls, Notify(Units, kinds), phase = "related", phase' = phase,
             UNCHANGED <<hook, known>>
      PROVE  HookOrder'
  <2> SUFFICES ASSUME NEW u \in Units PROVE UnitOrder(u)'
    BY DEF HookOrder
  <2>1. pending'[u] = pending[u] \cup kinds
    BY <1>4 DEF Notify
  <2> QED BY <1>4, <2>1, Kinds DEF HookOrder, UnitOrder, Busy, Idle
<1>5. ASSUME NEW fields, Publish(fields) PROVE HookOrder'
  BY <1>4, <1>5, Kinds DEF Publish, juju
<1>6. CASE Provision \/ Rotate \/ DatabaseRequested \/ (\E s \in Servers : ScaleDatabase(s))
  BY <1>4, <1>5, <1>6, Kinds DEF Provision, Rotate, DatabaseRequested, ScaleDatabase, juju, library, records
<1>7. CASE Integrate
  <2>1. PICK s \in Servers : Notify(Units, {Joined(s)})
    BY <1>7 DEF Integrate
  <2> SUFFICES ASSUME NEW u \in Units PROVE UnitOrder(u)'
    BY DEF HookOrder
  <2>2. pending'[u] = pending[u] \cup {Joined(s)} /\ hook' = hook /\ phase' = "related"
    BY <1>7, <2>1 DEF Notify, Integrate
  <2>3. Busy(u) \subseteq Quiet
    BY <1>7 DEF Integrate, HookOrder, UnitOrder
  <2>4. hook[u].kind \in Quiet
    BY <2>3 DEF Busy
  <2> QED BY <2>2, <2>3, <2>4, Kinds DEF HookOrder, UnitOrder, Busy, Idle
<1>8. CASE Remove
  <2> SUFFICES ASSUME NEW u \in Units PROVE UnitOrder(u)'
    BY DEF HookOrder
  <2>1. <<"broken">> \in pending'[u] /\ UNCHANGED <<hook, known>> /\ phase' = "dying"
    BY <1>8 DEF Remove, library, records
  <2> QED BY <2>1 DEF HookOrder, UnitOrder, Idle
<1>9. CASE Gone
  <2> SUFFICES ASSUME NEW u \in Units PROVE UnitOrder(u)'
    BY DEF HookOrder
  <2>1. UNCHANGED <<hook, known, pending>> /\ phase' = "absent" /\ phase = "dying"
    BY <1>9 DEF Gone, library, records
  <2>2. <<"broken">> \notin pending[u] /\ hook[u].kind # <<"broken">>
    BY <1>9, Kinds DEF Gone, Running, Idle, NoHook
  <2> QED BY <2>1, <2>2 DEF HookOrder, UnitOrder, Busy, Idle
<1>10. CASE PeerRelationCreated \/ (\E u \in Units : ElectLeader(u)) \/ UNCHANGED vars
  <2>1. UNCHANGED <<phase, hook, known, pending>>
    BY <1>10 DEF PeerRelationCreated, ElectLeader, vars, juju, library, records
  <2> QED BY <2>1, SameOrder DEF HookOrder
<1> QED BY <1>1, <1>2, <1>3, <1>5, <1>6, <1>7, <1>8, <1>9, <1>10 DEF Next

-----------------------------------------------------------------------------
(* Recorded is preserved.                                                    *)

LEMMA SameRecord ==
    ASSUME TypeOK, NEW u \in Units, UnitRecorded(u), UNCHANGED <<log, known[u], announced[u]>>
    PROVE  UnitRecorded(u)'
BY DEF UnitRecorded, Now

LEMMA ChangedRecord ==
    ASSUME TypeOK, HookOrder, NEW u \in Units, UnitRecorded(u), RelationChanged(u)
    PROVE  UnitRecorded(u)'
<1> DEFINE old == known[u]
           new == hook[u].sees
<1>1. hook[u].kind \in Calls
  BY Kinds DEF RelationChanged, Running
<1>2. old \in 1..Now /\ new \in 0..Now /\ new >= old /\ Now \in Nat
  BY <1>1, Positions DEF HookOrder, UnitOrder, TypeOK
<1>3. new \in 1..Now /\ new \in old..Now /\ old \in old..Now
  BY <1>2
<1>4. known'[u] = new /\ log' = log /\ Now' = Now
  BY DEF RelationChanged, TypeOK, Now
<1>5. \A i, j \in new..Now :
          i <= j /\ log[i]["credentials"] # 0 => log[j]["credentials"] # 0
  <2>1. new..Now \subseteq old..Now
    BY <1>2
  <2> QED BY <2>1 DEF UnitRecorded
<1>6. log[old]["credentials"] # 0 => log[new]["credentials"] # 0
  BY <1>2, <1>3 DEF UnitRecorded
<1>7. Announces(u) <=> log[old]["credentials"] = 0 /\ log[new]["credentials"] # 0
  BY DEF RelationChanged, Running, Announces, Emitted, Added, Fields
<1>8. IF Announces(u) THEN Announce(u, "committed") ELSE UNCHANGED announced
  BY DEF RelationChanged
<1>9. announced \in [Units -> Announcements]
  BY DEF TypeOK
<1>10. \/ announced'[u] \in {"no", "undone"} /\ log[new]["credentials"] = 0
       \/ announced'[u] = "committed" /\ log[new]["credentials"] # 0
  <2>1. CASE Announces(u)
    BY <2>1, <1>7, <1>8, <1>9 DEF Announce, UnitRecorded
  <2>2. CASE ~Announces(u)
    BY <2>2, <1>6, <1>7, <1>8 DEF UnitRecorded
  <2> QED BY <2>1, <2>2
<1> HIDE DEF old, new
<1> QED BY <1>4, <1>5, <1>10 DEF UnitRecorded

(* A hook that raises after the announcement had not recorded it. *)
LEMMA RaisedRecord ==
    ASSUME TypeOK, NEW u \in Units, NEW v \in Units, UnitRecorded(u), HookOrder,
           NEW told \in {FALSE, Announces(v)}, Raise(v, told)
    PROVE  UnitRecorded(u)'
<1>1. UNCHANGED <<log, known>> /\ Now' = Now
  BY DEF Raise, records, Now
<1>2. CASE told /\ u = v
  <2>1. log[known[u]]["credentials"] = 0
    BY <1>2 DEF Announces, Emitted, Added, Fields
  <2>2. announced' = [announced EXCEPT ![u] =
                         IF @ \in {"committed", "repeated"} THEN "repeated" ELSE "undone"]
    BY <1>2 DEF Raise, Announce
  <2>3. announced \in [Units -> Announcements] /\ announced[u] \in {"no", "undone"}
    BY <2>1 DEF TypeOK, UnitRecorded
  <2>4. announced'[u] = "undone"
    BY <2>2, <2>3
  <2> QED BY <1>1, <2>1, <2>4 DEF UnitRecorded
<1>3. CASE ~told \/ u # v
  <2>1. announced'[u] = announced[u]
    BY <1>3 DEF Raise, Announce, TypeOK
  <2> QED BY <1>1, <2>1, SameRecord
<1> QED BY <1>2, <1>3

LEMMA PublishedRecord ==
    ASSUME TypeOK, NEW u \in Units, UnitRecorded(u), NEW fields, Publish(fields)
    PROVE  UnitRecorded(u)'
<1> DEFINE r == [f \in Fields |-> IF f \in fields THEN Now + 1 ELSE log[Now][f]]
<1>1. Now \in Nat /\ known[u] \in 1..Now /\ r \in [Fields -> Nat]
  <2>1. Now \in Nat /\ log[Now] \in [Fields -> Nat]
    BY Positions
  <2> QED BY <2>1, SMTT(30) DEF TypeOK
<1>2. log' = Append(log, r) /\ UNCHANGED <<known, announced>>
  BY DEF Publish
<1>3. Now' = Now + 1 /\ log'[Now + 1] = r /\ \A i \in 1..Now : log'[i] = log[i]
  BY <1>1, <1>2, Appended
<1>4. log[Now]["credentials"] # 0 => r["credentials"] # 0
  BY <1>1 DEF Fields
<1> HIDE DEF r
<1>5. log'[known[u]] = log[known[u]]
  BY <1>1, <1>3
<1>6. ASSUME NEW i \in known[u]..Now + 1, NEW j \in known[u]..Now + 1, i <= j,
             log'[i]["credentials"] # 0
      PROVE  log'[j]["credentials"] # 0
  <2>1. CASE i = Now + 1
    BY <1>1, <1>6, <2>1
  <2>2. CASE i # Now + 1 /\ j # Now + 1
    <3>1. i \in known[u]..Now /\ j \in known[u]..Now /\ i \in 1..Now /\ j \in 1..Now
      BY <1>1, <1>6, <2>2
    <3> QED BY <1>3, <1>6, <3>1 DEF UnitRecorded
  <2>3. CASE i # Now + 1 /\ j = Now + 1
    <3>1. i \in known[u]..Now /\ Now \in known[u]..Now /\ i \in 1..Now /\ i <= Now
      BY <1>1, <1>6, <2>3
    <3>2. log[Now]["credentials"] # 0
      BY <1>3, <1>6, <3>1 DEF UnitRecorded
    <3> QED BY <1>3, <1>4, <2>3, <3>2
  <2> QED BY <2>1, <2>2, <2>3
<1>7. known'[u] = known[u] /\ announced'[u] = announced[u]
  BY <1>2
<1> QED BY <1>3, <1>5, <1>6, <1>7 DEF UnitRecorded

LEMMA RecordedNext == TypeOK /\ HookOrder /\ Recorded /\ [Next]_vars => Recorded'
<1> SUFFICES ASSUME TypeOK, HookOrder, Recorded, [Next]_vars, NEW u \in Units
             PROVE  UnitRecorded(u)'
  BY DEF Recorded
<1>0. UnitRecorded(u)
  BY DEF Recorded
<1>1. ASSUME NEW v \in Units, UnitStep(v) PROVE UnitRecorded(u)'
  <2>1. CASE RelationChanged(v)
    <3>1. CASE u = v
      BY <1>0, <2>1, <3>1, ChangedRecord
    <3>2. CASE u # v
      BY <1>0, <2>1, <3>2, SameRecord DEF RelationChanged, Announce, TypeOK
    <3> QED BY <3>1, <3>2
  <2>2. CASE RaiseWithoutEndpoints(v)
    <3>1. PICK told \in {FALSE, Announces(v)} : Raise(v, told)
      BY <2>2 DEF RaiseWithoutEndpoints
    <3> QED BY <1>0, <3>1, RaisedRecord
  <2>3. CASE ~RelationChanged(v) /\ ~RaiseWithoutEndpoints(v)
    <3>1. UNCHANGED <<log, known, announced>>
      BY <1>1, <2>3 DEF UnitStep, StartHook, RelationJoined, RelationBroken, OtherHook,
         library, records
    <3> QED BY <1>0, <3>1, SameRecord
  <2> QED BY <2>1, <2>2, <2>3
<1>2. ASSUME NEW fields, Publish(fields) PROVE UnitRecorded(u)'
  BY <1>0, <1>2, PublishedRecord
<1>3. CASE Provision \/ Rotate
  BY <1>2, <1>3 DEF Provision, Rotate
<1>4. CASE Integrate
  <2>1. Now' = Now + 1 /\ Now \in Nat
    BY <1>4, Appended, Positions DEF Integrate, EmptyDatabag
  <2>2. known'[u] = Now + 1 /\ announced'[u] = "no"
    BY <1>4 DEF Integrate
  <2>3. EmptyDatabag \in [Fields -> Nat] /\ EmptyDatabag["credentials"] = 0
    BY DEF EmptyDatabag, Fields
  <2>4. log'[Now + 1]["credentials"] = 0
    BY <1>4, <2>3, Appended DEF Integrate
  <2>5. \A i, j \in (Now + 1)..(Now + 1) : i = j
    BY <2>1
  <2> QED BY <2>1, <2>2, <2>4, <2>5 DEF UnitRecorded
<1>7. ASSUME NEW v \in Units, Crash(v) PROVE UnitRecorded(u)'
  BY <1>0, <1>7, RaisedRecord DEF Crash
<1>5. CASE \/ \E v \in Units : PeriodicHook(v) \/ ElectLeader(v)
           \/ DatabaseRequested \/ PeerRelationCreated \/ (\E s \in Servers : ScaleDatabase(s))
           \/ Remove \/ Gone \/ UNCHANGED vars
  <2>1. UNCHANGED <<log, known, announced>>
    BY <1>5 DEF PeriodicHook, ElectLeader, DatabaseRequested, PeerRelationCreated,
       ScaleDatabase, Remove, Gone, vars, library, records
  <2> QED BY <1>0, <2>1, SameRecord
<1> QED BY <1>1, <1>3, <1>4, <1>5, <1>7 DEF Next

-----------------------------------------------------------------------------
(* The invariant, and what the runs check of it.                             *)

LEMMA IInvInit == Init => IInv
<1> SUFFICES ASSUME Init PROVE IInv
  OBVIOUS
<1>1. log = <<EmptyDatabag>> /\ EmptyDatabag \in [Fields -> Nat]
  BY DEF Init, EmptyDatabag
<1>2. log \in Seq([Fields -> Nat]) /\ log # <<>> /\ Now = 1
  BY <1>1 DEF Now
<1>3. TypeOK
  <2>1. LeaseTypes
    <3>1. 0 \in 0..MaxFaults /\ 0 \in 0..0
      BY BoundsAssumption
    <3>2. moves = 0 /\ faults = 0
      BY DEF Init
    <3> QED BY <3>1, <3>2 DEF Init, LeaseTypes
  <2>2. NoHook \in [kind : HookKinds \cup {None}, sees : 0..Now]
    BY <1>2 DEF NoHook
  <2>3. known \in [Units -> 1..Now] /\ hook \in [Units -> [kind : HookKinds \cup {None}, sees : 0..Now]]
    BY <1>2, <2>2 DEF Init
  <2> QED BY <1>2, <2>1, <2>3 DEF Init, Announcements, ClientTypes, TypeOK, LeaseTypes
<1>4. HookOrder
  BY Kinds DEF Init, HookOrder, UnitOrder, Busy, Idle, NoHook, Quiet
<1>5. Recorded
  <2> SUFFICES ASSUME NEW u \in Units PROVE UnitRecorded(u)
    BY DEF Recorded
  <2>1. known[u] = 1 /\ announced[u] = "no"
    BY DEF Init
  <2>2. \A i, j \in 1..1 : i = j
    OBVIOUS
  <2>3. log[1]["credentials"] = 0
    BY <1>1 DEF EmptyDatabag, Fields
  <2> QED BY <1>2, <2>1, <2>2, <2>3 DEF UnitRecorded
<1> QED BY <1>3, <1>4, <1>5 DEF IInv

LEMMA IInvNext == IInv /\ [Next]_vars => IInv'
<1> SUFFICES ASSUME TypeOK, HookOrder, Recorded, [Next]_vars PROVE IInv'
  BY DEF IInv
<1>1. LeaseTypes' /\ ClientTypes' /\ log' \in Seq([Fields -> Nat]) /\ log' # <<>>
  BY LeaseTypesNext, ClientTypesNext, NowGrows
<1>2. TypeOK'
  BY <1>1 DEF TypeOK, LeaseTypes, ClientTypes
<1> QED BY <1>2, HookOrderNext, RecordedNext DEF IInv

(* Every reachable state is well typed: no unit records a databag that was   *)
(* not published, and no part of a stored connection is missing.             *)
THEOREM TypeCorrect == Spec => []TypeOK
<1>1. IInv => TypeOK
  BY DEF IInv
<1> QED BY <1>1, IInvInit, IInvNext, PTL DEF Spec

(* A unit whose record has the credentials was told of them by a hook that   *)
(* was committed, and is never told again in that relation; a hook that      *)
(* raises before that leaves neither the record nor a committed announcement.*)
THEOREM ToldExactly == Spec => []ToldAsRecorded
<1>1. IInv => ToldAsRecorded
  BY DEF IInv, Recorded, UnitRecorded, ToldAsRecorded
<1> QED BY <1>1, IInvInit, IInvNext, PTL DEF Spec

-----------------------------------------------------------------------------
(* The stored connection.                                                    *)

LEMMA DsnStep ==
    ASSUME TypeOK, [Next]_vars
    PROVE  \/ dsn' \in {dsn, None} /\ (dsn' = dsn \/ log' = log)
           \/ log' = log /\ StoredFrom(leader) /\ hook'[leader] = NoHook
<1>1. ASSUME NEW u \in Units, UnitStep(u)
      PROVE  log' = log /\ (dsn' \in {dsn, None} \/ (StoredFrom(leader) /\ hook'[leader] = NoHook))
  <2>1. log' = log
    BY <1>1 DEF UnitStep, StartHook, RelationJoined, RelationChanged, RelationBroken, OtherHook,
       RaiseWithoutEndpoints, Raise, library, records
  <2>2. ASSUME NEW some \in BOOLEAN, OnDatabaseEvents(u, some)
        PROVE  dsn' = dsn \/ (u = leader /\ StoredFrom(leader))
    BY <2>2, EventsStore DEF StoredFrom
  <2>3. deferred[u] \in BOOLEAN
    BY DEF TypeOK
  <2>4. ASSUME NEW s \in Servers, RelationJoined(u, s)
        PROVE  dsn' = dsn \/ (StoredFrom(leader) /\ hook'[leader] = NoHook)
    BY <2>2, <2>3, <2>4, FinishTypes DEF RelationJoined
  <2>5. CASE RelationChanged(u)
    <3>1. (deferred[u] \/ Emitted(known[u], hook[u].sees) # {}) \in BOOLEAN
      BY <2>3
    <3> QED BY <2>1, <2>2, <2>5, <3>1, FinishTypes DEF RelationChanged
  <2>6. CASE OtherHook(u)
    BY <2>1, <2>2, <2>3, <2>6, FinishTypes DEF OtherHook
  <2>7. CASE RelationBroken(u)
    BY <2>1, <2>7 DEF RelationBroken
  <2>8. CASE RaiseWithoutEndpoints(u) \/ \E k \in HookKinds : StartHook(u, k)
    BY <2>1, <2>8 DEF RaiseWithoutEndpoints, Raise, StartHook
  <2> QED BY <1>1, <2>1, <2>4, <2>5, <2>6, <2>7, <2>8 DEF UnitStep
<1>2. ASSUME NEW fields, Publish(fields) PROVE dsn' = dsn
  BY <1>2 DEF Publish
<1>3. Provision \/ Rotate => dsn' = dsn
  BY <1>2 DEF Provision, Rotate
<1>4. ASSUME NEW u \in Units, PeriodicHook(u) \/ ElectLeader(u) \/ Crash(u) PROVE dsn' = dsn
  BY <1>4 DEF PeriodicHook, ElectLeader, Crash, Raise
<1>5. DatabaseRequested \/ PeerRelationCreated \/ Integrate \/ (\E s \in Servers : ScaleDatabase(s))
        \/ Remove \/ Gone \/ UNCHANGED vars => dsn' = dsn
  BY DEF DatabaseRequested, PeerRelationCreated, Integrate, ScaleDatabase, Remove, Gone, vars
<1> QED BY <1>1, <1>3, <1>4, <1>5 DEF Next

LEMMA PublishedGrows ==
    ASSUME TypeOK, TypeOK', [Next]_vars
    PROVE  /\ EverPublished \subseteq EverPublished' /\ EverPublished' \subseteq Nat \X Nat
           /\ log' = log => EverPublished' = EverPublished
<1>1. EverPublished \subseteq EverPublished'
  <2> SUFFICES ASSUME NEW i \in 1..Now, Complete(i) PROVE Connection(i) \in EverPublished'
    BY DEF EverPublished
  <2>1. i \in 1..Now' /\ log'[i] = log[i]
    BY NowGrows
  <2>2. Complete(i)' /\ Connection(i)' = Connection(i)
    BY <2>1 DEF Complete, ResourceCreated, Connection
  <2> QED BY <2>1, <2>2 DEF EverPublished
<1>2. EverPublished' \subseteq Nat \X Nat
  <2> SUFFICES ASSUME NEW i \in 1..Now', Complete(i)' PROVE Connection(i)' \in Nat \X Nat
    BY DEF EverPublished
  <2>1. log' \in Seq([Fields -> Nat]) /\ i \in 1..Len(log')
    BY DEF TypeOK, Now
  <2>2. log'[i] \in [Fields -> Nat]
    BY <2>1
  <2> QED BY <2>2 DEF Connection, Fields
<1>3. log' = log => EverPublished' = EverPublished
  BY DEF EverPublished, Complete, ResourceCreated, Connection, Now
<1> QED BY <1>1, <1>2, <1>3

(* The charm keeps its promise about the stored connection: it is always one *)
(* the database has published as a whole, or there is none.                  *)
THEOREM KeepsPromise == Spec => StoresPublished
<1>1. Init => Promise!Init
  <2> SUFFICES ASSUME Init PROVE EverPublished = {} /\ dsn = None
    BY DEF Promise!Init
  <2>1. \A i \in 1..Now : log[i]["credentials"] = 0
    BY DEF Init, Now, EmptyDatabag, Fields
  <2> QED BY <2>1 DEF Init, EverPublished, Complete, ResourceCreated
<1>2. IInv /\ IInv' /\ [Next]_vars => [Promise!Next]_<<EverPublished, dsn>>
  <2> SUFFICES ASSUME TypeOK, TypeOK', [Next]_vars PROVE [Promise!Next]_<<EverPublished, dsn>>
    BY DEF IInv
  <2>1. CASE dsn' = dsn
    BY <2>1, PublishedGrows DEF Promise!Next, Promise!Publish
  <2>2. CASE dsn' = None /\ log' = log
    BY <2>2, PublishedGrows DEF Promise!Next, Promise!Clear
  <2>3. CASE StoredFrom(leader) /\ log' = log
    <3>1. hook[leader].sees \in 0..Now
      BY DEF TypeOK
    <3>2. dsn' \in EverPublished
      BY <2>3, <3>1, ConnectionType DEF StoredFrom
    <3> QED BY <2>3, <3>2, PublishedGrows DEF Promise!Next, Promise!Store
  <2> QED BY <2>1, <2>2, <2>3, DsnStep
<1>3. Spec => []IInv
  BY IInvInit, IInvNext, PTL DEF Spec
<1> QED BY <1>1, <1>2, <1>3, PTL DEF Spec, StoresPublished, Promise!Spec

-----------------------------------------------------------------------------
(* The stored connection never goes back. *)

(* A value in the databag is not older than the ones it replaced. *)
Rising ==
    \A f \in Fields : \A i \in 1..Now :
        /\ log[i][f] <= i
        /\ \A j \in i..Now : log[j][f] = 0 \/ log[i][f] <= log[j][f]

(* What is stored is not younger than what the leader's hook sees. *)
Latest ==
    moves = 0 /\ dsn # None =>
        \E i \in 1..Now : /\ Complete(i) /\ dsn = Connection(i)
                          /\ hook[leader].sees = 0 \/ i <= hook[leader].sees

LEMMA RisingNext == TypeOK /\ Rising /\ [Next]_vars => Rising'
<1> SUFFICES ASSUME TypeOK, Rising, [Next]_vars PROVE Rising'
  OBVIOUS
<1>1. CASE log' = log
  BY <1>1 DEF Rising, Now
<1>2. ASSUME NEW fields, Publish(fields) PROVE Rising'
  <2> DEFINE r == [f \in Fields |-> IF f \in fields THEN Now + 1 ELSE log[Now][f]]
  <2>1. Now \in Nat /\ Now >= 1 /\ r \in [Fields -> Nat]
    BY Positions
  <2>2. Now' = Now + 1 /\ log'[Now + 1] = r /\ \A i \in 1..Now : log'[i] = log[i]
    BY <1>2, <2>1, Appended DEF Publish
  <2> SUFFICES ASSUME NEW f \in Fields, NEW i \in 1..(Now + 1)
               PROVE  /\ log'[i][f] <= i
                      /\ \A j \in i..(Now + 1) : log'[j][f] = 0 \/ log'[i][f] <= log'[j][f]
    BY <2>2 DEF Rising
  <2>3. r[f] = Now + 1 \/ r[f] = log[Now][f]
    OBVIOUS
  <2>4. log[Now][f] <= Now /\ log[Now][f] \in Nat
    BY <2>1, Positions DEF Rising
  <2> HIDE DEF r
  <2>5. r[f] <= Now + 1 /\ r[f] \in Nat
    BY <2>1, <2>3, <2>4
  <2>6. CASE i = Now + 1
    BY <2>1, <2>2, <2>5, <2>6
  <2>7. CASE i \in 1..Now
    <3>1. log'[i] = log[i] /\ log[i][f] <= i /\ log[i][f] \in Nat
      BY <2>2, <2>7, Positions DEF Rising
    <3>2. ASSUME NEW j \in i..Now PROVE log'[j][f] = 0 \/ log'[i][f] <= log'[j][f]
      BY <2>1, <2>2, <2>7, <3>1, <3>2 DEF Rising
    <3>3. r[f] = 0 \/ log[i][f] <= r[f]
      <4>1. Now \in i..Now /\ log[i][f] <= Now + 1
        BY <2>1, <2>7, <3>1
      <4>2. log[Now][f] = 0 \/ log[i][f] <= log[Now][f]
        BY <2>7, <4>1 DEF Rising
      <4> QED BY <2>3, <4>1, <4>2
    <3>4. \A j \in i..(Now + 1) : j \in i..Now \/ j = Now + 1
      BY <2>1
    <3> QED BY <2>2, <3>1, <3>2, <3>3, <3>4
  <2> QED BY <2>1, <2>6, <2>7
<1>3. CASE Provision \/ Rotate
  BY <1>2, <1>3 DEF Provision, Rotate
<1>4. CASE Integrate
  <2>1. Now \in Nat /\ Now >= 1
    BY Positions
  <2>2. Now' = Now + 1 /\ log'[Now + 1] = EmptyDatabag /\ \A i \in 1..Now : log'[i] = log[i]
    BY <1>4, Appended DEF Integrate, EmptyDatabag
  <2> SUFFICES ASSUME NEW f \in Fields, NEW i \in 1..(Now + 1)
               PROVE  /\ log'[i][f] <= i
                      /\ \A j \in i..(Now + 1) : log'[j][f] = 0 \/ log'[i][f] <= log'[j][f]
    BY <2>2 DEF Rising
  <2>3. log'[Now + 1][f] = 0
    BY <2>2 DEF EmptyDatabag
  <2>4. \A k \in i..(Now + 1) : k \in i..Now \/ k = Now + 1
    BY <2>1
  <2>5. CASE i = Now + 1
    BY <2>1, <2>3, <2>4, <2>5
  <2>6. CASE i \in 1..Now
    <3>1. log'[i] = log[i] /\ log[i][f] <= i
      BY <2>2, <2>6 DEF Rising
    <3>2. ASSUME NEW j \in i..Now PROVE log'[j][f] = 0 \/ log'[i][f] <= log'[j][f]
      BY <2>1, <2>2, <2>6, <3>1, <3>2 DEF Rising
    <3> QED BY <2>3, <2>4, <3>1, <3>2
  <2> QED BY <2>1, <2>5, <2>6
<1>5. CASE \/ \E u \in Units : UnitStep(u) \/ PeriodicHook(u) \/ ElectLeader(u) \/ Crash(u)
           \/ DatabaseRequested \/ PeerRelationCreated \/ (\E s \in Servers : ScaleDatabase(s))
           \/ Remove \/ Gone \/ UNCHANGED vars
  <2>1. log' = log
    BY <1>5 DEF UnitStep, StartHook, RelationJoined, RelationChanged, RelationBroken, OtherHook,
       RaiseWithoutEndpoints, PeriodicHook, ElectLeader, Crash, Raise, DatabaseRequested,
       PeerRelationCreated, ScaleDatabase, Remove, Gone, vars, library, records
  <2> QED BY <1>1, <2>1
<1> QED BY <1>3, <1>4, <1>5 DEF Next

(* While the leadership does not move, the leader's hook sees the newest     *)
(* databag when it begins, and the same one until it ends.                   *)
LEMMA LeaderSees ==
    ASSUME TypeOK, [Next]_vars, moves' = 0
    PROVE  /\ moves = 0 /\ leader' = leader
           /\ hook'[leader].sees \in {hook[leader].sees, 0, Now}
<1>1. NoHook.sees = 0
  BY DEF NoHook
<1>2. leader \in Units /\ moves \in Nat
  BY DEF TypeOK
<1>3. ASSUME NEW u \in Units, NEW k \in HookKinds, Begin(u, k)
      PROVE  hook'[leader].sees \in {hook[leader].sees, 0, Now}
  BY <1>2, <1>3 DEF Begin, TypeOK
<1>4. ASSUME NEW u \in Units, Finish(u)
      PROVE  hook'[leader].sees \in {hook[leader].sees, 0, Now}
  BY <1>1, <1>2, <1>4, FinishTypes
<1>5. ASSUME NEW u \in Units, UnitStep(u)
      PROVE  UNCHANGED juju /\ hook'[leader].sees \in {hook[leader].sees, 0, Now}
  BY <1>3, <1>4, <1>5 DEF UnitStep, StartHook, RelationJoined, RelationChanged, RelationBroken,
     OtherHook, RaiseWithoutEndpoints, Raise
<1>6. ASSUME NEW u \in Units, PeriodicHook(u) \/ Crash(u)
      PROVE  UNCHANGED juju /\ hook'[leader].sees \in {hook[leader].sees, 0, Now}
  BY <1>3, <1>4, <1>6, Kinds DEF PeriodicHook, Crash, Raise
<1>7. ASSUME NEW u \in Units, ElectLeader(u) PROVE FALSE
  BY <1>2, <1>7 DEF ElectLeader
<1>8. ASSUME NEW fields, Publish(fields) PROVE UNCHANGED <<juju, hook>>
  BY <1>8 DEF Publish
<1>9. Provision \/ Rotate => UNCHANGED <<juju, hook>>
  BY <1>8 DEF Provision, Rotate
<1>10. DatabaseRequested \/ PeerRelationCreated \/ Integrate \/ (\E s \in Servers : ScaleDatabase(s))
         \/ Remove \/ Gone \/ UNCHANGED vars => UNCHANGED <<leader, moves, hook>>
  BY DEF DatabaseRequested, PeerRelationCreated, Integrate, ScaleDatabase, Remove, Gone, vars, juju
<1> QED BY <1>5, <1>6, <1>7, <1>9, <1>10 DEF Next, juju

LEMMA LatestNext == TypeOK /\ Latest /\ [Next]_vars => Latest'
<1> SUFFICES ASSUME TypeOK, Latest, [Next]_vars, moves' = 0, dsn' # None
             PROVE  \E i \in 1..Now' : /\ Complete(i)' /\ dsn' = Connection(i)'
                                       /\ hook'[leader'].sees = 0 \/ i <= hook'[leader'].sees
  BY DEF Latest
<1>1. moves = 0 /\ leader' = leader /\ hook'[leader].sees \in {hook[leader].sees, 0, Now}
  BY LeaderSees
<1>2. Now \in Nat /\ Now' \in Nat /\ Now <= Now' /\ \A i \in 1..Now : log'[i] = log[i]
  BY NowGrows
<1>3. ASSUME NEW i \in 1..Now, Complete(i)
      PROVE  i \in 1..Now' /\ Complete(i)' /\ Connection(i)' = Connection(i)
  BY <1>2, <1>3 DEF Complete, ResourceCreated, Connection
<1>4. CASE dsn' = dsn
  <2>1. PICK i \in 1..Now : /\ Complete(i) /\ dsn = Connection(i)
                            /\ hook[leader].sees = 0 \/ i <= hook[leader].sees
    BY <1>1, <1>4 DEF Latest
  <2>2. hook'[leader].sees = 0 \/ i <= hook'[leader].sees
    BY <1>1, <1>2, <2>1
  <2> QED BY <1>1, <1>3, <1>4, <2>1, <2>2
<1>5. CASE log' = log /\ StoredFrom(leader) /\ hook'[leader] = NoHook
  <2> DEFINE i == hook[leader].sees
  <2>1. i \in 0..Now
    BY DEF TypeOK
  <2>2. i \in 1..Now /\ Complete(i) /\ dsn' = Connection(i)
    BY <1>5, <2>1, ConnectionType DEF StoredFrom
  <2>3. hook'[leader].sees = 0
    BY <1>5 DEF NoHook
  <2> QED BY <1>1, <1>3, <2>2, <2>3
<1> QED BY <1>4, <1>5, DsnStep

LEMMA ForwardStep ==
    TypeOK /\ Rising /\ Latest /\ [Next]_vars
        => (moves = 0 /\ dsn # None /\ dsn' # None => dsn'[1] >= dsn[1] /\ dsn'[2] >= dsn[2])
<1> SUFFICES ASSUME TypeOK, Rising, Latest, [Next]_vars, moves = 0, dsn # None, dsn' # None
             PROVE  dsn'[1] >= dsn[1] /\ dsn'[2] >= dsn[2]
  OBVIOUS
<1>1. CASE dsn' = dsn
  <2>1. dsn[1] \in Nat /\ dsn[2] \in Nat
    BY DEF TypeOK
  <2> QED BY <1>1, <2>1
<1>2. CASE StoredFrom(leader)
  <2> DEFINE j == hook[leader].sees
  <2>1. j \in 0..Now
    BY DEF TypeOK
  <2>2. j \in 1..Now /\ dsn' = Connection(j) /\ Complete(j)
    BY <1>2, <2>1, ConnectionType DEF StoredFrom
  <2>3. PICK i \in 1..Now : Complete(i) /\ dsn = Connection(i) /\ (j = 0 \/ i <= j)
    BY DEF Latest
  <2>4. j \in i..Now /\ "credentials" \in Fields /\ "endpoints" \in Fields
    BY <2>2, <2>3, Positions DEF Fields
  <2>5. /\ log[j]["credentials"] = 0 \/ log[i]["credentials"] <= log[j]["credentials"]
        /\ log[j]["endpoints"] = 0 \/ log[i]["endpoints"] <= log[j]["endpoints"]
    BY <2>3, <2>4 DEF Rising
  <2>6. log[i] \in [Fields -> Nat] /\ log[j] \in [Fields -> Nat]
    BY <2>2, <2>3, Positions
  <2>7. log[i]["credentials"] <= log[j]["credentials"] /\ log[i]["endpoints"] <= log[j]["endpoints"]
    BY <2>2, <2>5 DEF Complete, ResourceCreated
  <2> QED BY <2>2, <2>3, <2>4, <2>6, <2>7 DEF Connection
<1> QED BY <1>1, <1>2, DsnStep

(* While the leadership does not move, a stored connection is never replaced *)
(* by an older one, in any order of hooks, crashes, retries and deferred     *)
(* events.                                                                   *)
THEOREM NeverBack == Spec => ForwardOnly
<1> DEFINE Forward == moves = 0 /\ dsn # None /\ dsn' # None => dsn'[1] >= dsn[1] /\ dsn'[2] >= dsn[2]
           Inv == IInv /\ Rising /\ Latest
<1>1. Init => Inv
  <2>1. Init => Rising
    <3> SUFFICES ASSUME Init PROVE Rising
      OBVIOUS
    <3>1. Now = 1 /\ \A f \in Fields : log[1][f] = 0
      BY DEF Init, Now, EmptyDatabag
    <3>2. \A i \in 1..1 : i = 1
      OBVIOUS
    <3> QED BY <3>1, <3>2 DEF Rising
  <2>2. Init => Latest
    BY DEF Init, Latest
  <2> QED BY <2>1, <2>2, IInvInit
<1>2. Inv /\ [Next]_vars => Inv' /\ [Forward]_vars
  <2>1. IInv => TypeOK
    BY DEF IInv
  <2> QED BY <2>1, IInvNext, RisingNext, LatestNext, ForwardStep
<1>3. Spec => [][Forward]_vars
  <2> HIDE DEF Inv, Forward
  <2> QED BY <1>1, <1>2, PTL DEF Spec
<1> QED BY <1>3 DEF ForwardOnly

-----------------------------------------------------------------------------
(* Nothing published is missed. *)

(* The newest databag, or none: no hook, or one that sees no relation. *)
AsSeen(u) == hook[u].sees \in {0, Now}

(* The unit has a hook to run that announces the newest databag, or runs one, *)
(* or has stored the event, or the connection is the published one.           *)
Awaited(u) ==
    \/ Calls \cap pending[u] # {}
    \/ hook[u].kind \in JoinedHooks
    \/ AsSeen(u) /\ (hook[u].kind = <<"changed">> \/ deferred[u] \/ dsn = Published)

(* The broken hook is still to end, or has removed the connection and the    *)
(* unit sees the relation no more.                                           *)
Forgotten(u) == <<"broken">> \in Busy(u) \/ (dsn = None /\ hook[u].sees = 0)

LeaderStores ==
    /\ dsn # None => ready
    /\ IF phase = "related" THEN Awaited(leader) ELSE Forgotten(leader)

Stored == moves = 0 => LeaderStores

LEMMA SameStores ==
    ASSUME LeaderStores,
           UNCHANGED <<leader, phase, log, dsn, pending[leader], hook[leader], deferred[leader]>>,
           ready => ready'
    PROVE  LeaderStores'
BY DEF LeaderStores, Awaited, Forgotten, AsSeen, Busy, Published, Complete, ResourceCreated,
   Connection, Now

(* What the leader has stored, removed or deferred when a hook of its ends.  *)
LEMMA EventsSettle ==
    ASSUME TypeOK, NEW some \in BOOLEAN, OnDatabaseEvents(leader, some)
    PROVE  /\ ~some => deferred'[leader] = FALSE /\ dsn' = dsn
           /\ some => \/ deferred'[leader] = TRUE /\ dsn' = dsn
                      \/ ready /\ StoredFrom(leader)
<1>1. leader \in Units /\ deferred \in [Units -> BOOLEAN]
  BY DEF TypeOK
<1>2. ASSUME NEW d, Defer(leader, d) PROVE deferred'[leader] = d
  BY <1>1, <1>2 DEF Defer
<1>3. CASE ~some
  BY <1>2, <1>3 DEF OnDatabaseEvents
<1>4. CASE some
  BY <1>2, <1>4 DEF OnDatabaseEvents, Store, StoredFrom
<1> QED BY <1>3, <1>4

(* What a hook stores that sees the newest databag is what is published.     *)
LEMMA StoresNewest ==
    ASSUME TypeOK, StoredFrom(leader), AsSeen(leader), phase = "related"
    PROVE  dsn' = Published
<1>1. hook[leader].sees = Now
  BY DEF AsSeen, StoredFrom, Complete, ResourceCreated
<1> QED BY <1>1 DEF StoredFrom, Published

LEMMA LeaderStarts ==
    ASSUME TypeOK, HookOrder, LeaderStores, NEW k \in HookKinds, StartHook(leader, k)
    PROVE  LeaderStores'
<1>1. leader \in Units /\ UnitOrder(leader)
  BY DEF TypeOK, HookOrder
<1>2. /\ UNCHANGED <<leader, ready, phase, log, dsn, deferred>>
      /\ hook[leader] = NoHook /\ k \in pending[leader]
      /\ pending'[leader] = pending[leader] \ {k}
  BY <1>1 DEF StartHook, juju, library, records, Idle, TypeOK
<1>3. hook'[leader].kind = k /\ hook'[leader].sees = (IF Visible(leader, k) THEN Now ELSE 0)
  BY <1>1, BeginTypes DEF StartHook, library, records
<1>4. CASE phase = "related"
  <2>1. Visible(leader, k)
    BY <1>4 DEF Visible
  <2>2. AsSeen(leader)'
    BY <1>2, <1>3, <2>1 DEF AsSeen, Now
  <2>3. k # <<"broken">>
    BY <1>1, <1>2, <1>4 DEF UnitOrder, Busy
  <2>4. CASE k \in Calls
    BY <1>2, <1>3, <1>4, <2>2, <2>4 DEF LeaderStores, Awaited, Calls
  <2>5. CASE k \notin Calls
    <3>1. hook[leader].kind = None /\ None \notin HookKinds
      BY <1>2, Kinds DEF NoHook
    <3>2. hook[leader].kind \notin JoinedHooks /\ hook[leader].kind # <<"changed">>
      BY <3>1 DEF HookKinds
    <3>3. Calls \cap pending[leader] # {} \/ deferred[leader] \/ dsn = Published
      BY <1>4, <3>2 DEF LeaderStores, Awaited
    <3>4. Published' = Published
      BY <1>2 DEF Published, Complete, ResourceCreated, Connection, Now
    <3>5. Calls \cap pending[leader] # {} => Calls \cap pending'[leader] # {}
      BY <1>2, <2>5
    <3> QED BY <1>2, <1>4, <2>2, <3>3, <3>4, <3>5 DEF LeaderStores, Awaited
  <2> QED BY <2>4, <2>5
<1>5. CASE phase # "related"
  <2>1. Forgotten(leader)
    BY <1>5 DEF LeaderStores
  <2>2. CASE <<"broken">> \in pending[leader]
    BY <1>2, <1>3, <1>5, <2>2 DEF LeaderStores, Forgotten, Busy
  <2>3. CASE <<"broken">> \notin pending[leader]
    <3>1. hook[leader].kind = None /\ None # <<"broken">>
      BY <1>2, Kinds DEF NoHook
    <3>2. dsn = None
      BY <2>1, <2>3, <3>1 DEF Forgotten, Busy
    <3>3. ~Visible(leader, k)
      BY <1>5, <2>3 DEF Visible
    <3> QED BY <1>2, <1>3, <1>5, <3>2, <3>3 DEF LeaderStores, Forgotten
  <2> QED BY <2>2, <2>3
<1> QED BY <1>4, <1>5

(* A hook of the leader that fails. *)
LEMMA LeaderFails ==
    ASSUME TypeOK, HookOrder, LeaderStores, NEW told, Raise(leader, told), ~Idle(leader)
    PROVE  LeaderStores'
<1>1. leader \in Units /\ UnitOrder(leader)
  BY DEF TypeOK, HookOrder
<1>2. /\ UNCHANGED <<leader, ready, phase, log, dsn, deferred>>
      /\ hook'[leader] = NoHook /\ pending'[leader] = Busy(leader)
  BY <1>1, FinishTypes DEF Raise, juju, library, records, TypeOK, Busy
<1>3. Calls \cap pending[leader] # {} \/ hook[leader].kind \in Calls
        => Calls \cap pending'[leader] # {}
  BY <1>2 DEF Busy
<1>4. CASE phase = "related"
  <2>1. Published' = Published
    BY <1>2 DEF Published, Complete, ResourceCreated, Connection, Now
  <2>2. hook[leader].kind \in JoinedHooks \/ hook[leader].kind = <<"changed">>
          => hook[leader].kind \in Calls
    BY DEF Calls
  <2>3. AsSeen(leader)'
    BY <1>2 DEF AsSeen, NoHook
  <2> QED BY <1>2, <1>3, <1>4, <2>1, <2>2, <2>3 DEF LeaderStores, Awaited
<1>5. CASE phase # "related"
  BY <1>2, <1>5 DEF LeaderStores, Forgotten, Busy, NoHook
<1> QED BY <1>4, <1>5

(* A hook of the leader that ends without a change of the databag's record.  *)
LEMMA LeaderEnds ==
    ASSUME TypeOK, HookOrder, LeaderStores, NEW some \in BOOLEAN,
           OnDatabaseEvents(leader, some), Finish(leader),
           UNCHANGED <<leader, ready, phase, log>>,
           hook[leader].kind \notin {<<"broken">>, None},
           pending[leader] \subseteq pending'[leader],
           deferred[leader] => some,
           hook[leader].kind = <<"changed">> => some,
           hook[leader].kind \in JoinedHooks => <<"changed">> \in pending'[leader]
    PROVE  LeaderStores'
<1>1. leader \in Units /\ hook'[leader] = NoHook
  BY FinishTypes DEF TypeOK
<1>2. AsSeen(leader)'
  BY <1>1 DEF AsSeen, NoHook
<1>3. dsn' # None => ready'
  BY EventsSettle DEF LeaderStores
<1>4. CASE phase = "related"
  <2>1. Published' = Published
    BY DEF Published, Complete, ResourceCreated, Connection, Now
  <2>2. CASE Calls \cap pending'[leader] # {}
    BY <1>3, <1>4, <2>2 DEF LeaderStores, Awaited
  <2>3. CASE Calls \cap pending'[leader] = {}
    <3>1. /\ AsSeen(leader)
          /\ hook[leader].kind = <<"changed">> \/ deferred[leader] \/ dsn = Published
      BY <1>4, <2>3, Kinds DEF LeaderStores, Awaited
    <3>2. CASE some
      <4>1. deferred'[leader] = TRUE \/ dsn' = Published
        BY <1>4, <3>1, <3>2, EventsSettle, StoresNewest
      <4> QED BY <1>2, <1>3, <1>4, <2>1, <4>1 DEF LeaderStores, Awaited
    <3>3. CASE ~some
      <4>1. dsn' = Published
        BY <3>1, <3>3, EventsSettle
      <4> QED BY <1>2, <1>3, <1>4, <2>1, <4>1 DEF LeaderStores, Awaited
    <3> QED BY <3>2, <3>3
  <2> QED BY <2>2, <2>3
<1>5. CASE phase # "related"
  <2>1. CASE <<"broken">> \in pending[leader]
    BY <1>3, <1>5, <2>1 DEF LeaderStores, Forgotten, Busy
  <2>2. CASE <<"broken">> \notin pending[leader]
    <3>1. dsn = None /\ hook[leader].sees = 0
      BY <1>5, <2>2 DEF LeaderStores, Forgotten, Busy
    <3>2. ~StoredFrom(leader)
      BY <3>1 DEF StoredFrom, Complete, ResourceCreated
    <3>3. dsn' = None
      BY <3>1, <3>2, EventsSettle
    <3>4. hook'[leader].sees = 0
      BY <1>1 DEF NoHook
    <3> QED BY <1>5, <3>3, <3>4 DEF LeaderStores, Forgotten
  <2> QED BY <2>1, <2>2
<1> QED BY <1>4, <1>5

(* The hooks of the leader. *)
LEMMA LeaderSteps ==
    ASSUME TypeOK, HookOrder, LeaderStores, UnitStep(leader)
    PROVE  LeaderStores'
<1>1. leader \in Units /\ UnitOrder(leader) /\ deferred[leader] \in BOOLEAN
  BY DEF TypeOK, HookOrder
<1>2. ASSUME NEW k \in HookKinds, StartHook(leader, k) PROVE LeaderStores'
  BY <1>2, LeaderStarts
<1>3. ASSUME NEW s \in Servers, RelationJoined(leader, s) PROVE LeaderStores'
  <2>1. /\ hook[leader].kind \in JoinedHooks
        /\ UNCHANGED <<leader, ready, phase, log>> /\ Finish(leader)
        /\ OnDatabaseEvents(leader, deferred[leader])
        /\ pending'[leader] = pending[leader] \cup {<<"changed">>}
    BY <1>1, <1>3 DEF RelationJoined, Running, JoinedHooks, juju, TypeOK
  <2>2. hook[leader].kind \notin {<<"broken">>, <<"changed">>, None}
    BY <2>1, <1>3, Kinds DEF RelationJoined, Running, Joined, Calls, HookKinds
  <2> QED BY <1>1, <2>1, <2>2, LeaderEnds
<1>4. ASSUME RelationChanged(leader) PROVE LeaderStores'
  <2> DEFINE some == deferred[leader] \/ Emitted(known[leader], hook[leader].sees) # {}
  <2>1. some = TRUE
    BY DEF Emitted
  <2>2. /\ hook[leader].kind = <<"changed">>
        /\ UNCHANGED <<leader, ready, phase, log, pending>> /\ Finish(leader)
        /\ OnDatabaseEvents(leader, some)
    BY <1>4 DEF RelationChanged, Running, juju
  <2>3. hook[leader].kind \notin {<<"broken">>, None} /\ hook[leader].kind \notin JoinedHooks
    <3>1. \A s : Joined(s)[1] = "joined"
      BY DEF Joined
    <3> QED BY <2>2, <3>1, Kinds DEF JoinedHooks, HookKinds
  <2> HIDE DEF some
  <2>4. OnDatabaseEvents(leader, TRUE)
    BY <2>1, <2>2
  <2> QED BY <2>2, <2>3, <2>4, LeaderEnds
<1>5. ASSUME OtherHook(leader) PROVE LeaderStores'
  <2>1. /\ hook[leader].kind = <<"other">>
        /\ UNCHANGED <<leader, ready, phase, log, pending>> /\ Finish(leader)
        /\ OnDatabaseEvents(leader, deferred[leader])
    BY <1>5 DEF OtherHook, Running, juju, library, records
  <2>2. /\ hook[leader].kind \notin {<<"broken">>, <<"changed">>, None}
        /\ hook[leader].kind \notin JoinedHooks
    BY <2>1, Kinds DEF Quiet, Calls
  <2> QED BY <1>1, <2>1, <2>2, LeaderEnds
<1>6. ASSUME RelationBroken(leader) PROVE LeaderStores'
  <2>1. /\ hook[leader].kind = <<"broken">> /\ hook'[leader] = NoHook
        /\ UNCHANGED <<leader, ready, phase, log, pending>>
        /\ dsn' = IF ready THEN None ELSE dsn
    BY <1>1, <1>6, FinishTypes DEF RelationBroken, Running, juju, library, records
  <2>2. phase # "related"
    BY <1>1, <2>1 DEF UnitOrder, Busy
  <2>3. dsn' = None
    BY <2>1 DEF LeaderStores
  <2> QED BY <2>1, <2>2, <2>3 DEF LeaderStores, Forgotten, NoHook
<1>7. ASSUME RaiseWithoutEndpoints(leader) PROVE LeaderStores'
  BY <1>7, LeaderFails DEF RaiseWithoutEndpoints
<1> QED BY <1>2, <1>3, <1>4, <1>5, <1>6, <1>7 DEF UnitStep

(* The hooks of the other units. *)
LEMMA FollowerSteps ==
    ASSUME TypeOK, LeaderStores, NEW u \in Units, u # leader, UnitStep(u)
    PROVE  LeaderStores'
<1>1. leader \in Units
  BY DEF TypeOK
<1>2. ASSUME NEW some, OnDatabaseEvents(u, some)
      PROVE  dsn' = dsn /\ deferred'[leader] = deferred[leader]
  BY <1>1, <1>2 DEF OnDatabaseEvents, Defer, TypeOK
<1>3. dsn' = dsn /\ deferred'[leader] = deferred[leader]
  BY <1>1, <1>2 DEF UnitStep, StartHook, RelationJoined, RelationChanged, RelationBroken, OtherHook,
     RaiseWithoutEndpoints, Raise, Defer, TypeOK
<1>4. UNCHANGED <<leader, ready, phase, log>>
  BY DEF UnitStep, StartHook, RelationJoined, RelationChanged, RelationBroken, OtherHook,
     RaiseWithoutEndpoints, Raise, juju, library, records
<1>5. pending'[leader] = pending[leader]
  BY <1>1 DEF UnitStep, StartHook, RelationJoined, RelationChanged, RelationBroken, OtherHook,
     RaiseWithoutEndpoints, Raise, library, records, TypeOK
<1>6. (\E k \in HookKinds : Begin(u, k) /\ log' = log) \/ Finish(u)
  BY DEF UnitStep, StartHook, RelationJoined, RelationChanged, RelationBroken, OtherHook,
     RaiseWithoutEndpoints, Raise, library, records
<1>7. hook'[leader] = hook[leader]
  BY <1>1, <1>6, BeginTypes, FinishTypes
<1> QED BY <1>3, <1>4, <1>5, <1>7, SameStores

(* A step that gives every unit a hook to run while the relation lasts.      *)
LEMMA NotifyStores ==
    ASSUME TypeOK, LeaderStores, NEW k \in Calls, Notify(Units, {k}), phase' = "related",
           UNCHANGED <<leader, ready, dsn>>
    PROVE  LeaderStores'
<1>1. leader \in Units
  BY DEF TypeOK
<1>2. k \in pending'[leader]
  BY <1>1 DEF Notify
<1> QED BY <1>2 DEF LeaderStores, Awaited

LEMMA StoredNext == TypeOK /\ HookOrder /\ Stored /\ [Next]_vars => Stored'
<1> SUFFICES ASSUME TypeOK, HookOrder, Stored, [Next]_vars, moves' = 0 PROVE LeaderStores'
  BY DEF Stored
<1>0. moves = 0 /\ leader' = leader /\ LeaderStores /\ leader \in Units
  BY LeaderSees DEF Stored, TypeOK
<1>1. ASSUME NEW u \in Units, UnitStep(u) PROVE LeaderStores'
  <2>1. CASE u = leader
    BY <1>0, <1>1, <2>1, LeaderSteps
  <2>2. CASE u # leader
    BY <1>0, <1>1, <2>2, FollowerSteps
  <2> QED BY <2>1, <2>2
<1>2. ASSUME NEW u \in Units, PeriodicHook(u) PROVE LeaderStores'
  <2>1. UNCHANGED <<leader, ready, phase, log, dsn, pending, deferred>>
    BY <1>2 DEF PeriodicHook, juju, library, records
  <2>2. CASE u # leader
    <3>1. hook'[leader] = hook[leader]
      BY <1>0, <1>2, <2>2, BeginTypes, Kinds DEF PeriodicHook, library, records
    <3> QED BY <1>0, <2>1, <3>1, SameStores
  <2>3. CASE u = leader
    <3>1. /\ deferred[leader] /\ pending[leader] = {} /\ hook[leader].kind = None
          /\ hook'[leader].sees = (IF Visible(leader, <<"other">>) THEN Now ELSE 0)
      BY <1>2, <2>3, BeginTypes, Kinds DEF PeriodicHook, library, records, Idle, NoHook
    <3>2. phase = "related" => Awaited(leader)'
      BY <2>1, <3>1 DEF Awaited, AsSeen, Now
    <3>3. ASSUME phase # "related" PROVE Forgotten(leader)'
      <4>1. ~Visible(leader, <<"other">>)
        BY <3>1, <3>3 DEF Visible
      <4>2. dsn = None
        BY <1>0, <3>1, <3>3, Kinds DEF LeaderStores, Forgotten, Busy
      <4> QED BY <2>1, <3>1, <4>1, <4>2 DEF Forgotten
    <3> QED BY <1>0, <2>1, <3>2, <3>3 DEF LeaderStores
  <2> QED BY <2>2, <2>3
<1>3. ASSUME NEW u \in Units, Crash(u) PROVE LeaderStores'
  <2>1. CASE u = leader
    BY <1>0, <1>3, <2>1, LeaderFails DEF Crash
  <2>2. CASE u # leader
    <3>1. /\ UNCHANGED <<leader, ready, phase, log, dsn, deferred>>
          /\ UNCHANGED <<pending[leader], hook[leader]>>
      BY <1>0, <1>3, <2>2 DEF Crash, Raise, Finish, juju, library, records, TypeOK
    <3> QED BY <1>0, <3>1, SameStores
  <2> QED BY <2>1, <2>2
<1>4. ASSUME NEW fields, Publish(fields) PROVE LeaderStores'
  BY <1>0, <1>4, NotifyStores, Kinds DEF Publish, juju
<1>5. CASE Provision \/ Rotate
  BY <1>4, <1>5 DEF Provision, Rotate
<1>6. CASE DatabaseRequested
  BY <1>0, <1>6, NotifyStores, Kinds DEF DatabaseRequested, juju
<1>7. ASSUME NEW s \in Servers, ScaleDatabase(s) PROVE LeaderStores'
  BY <1>0, <1>7, NotifyStores, Kinds DEF ScaleDatabase, juju
<1>8. CASE Integrate
  BY <1>0, <1>8, NotifyStores, Kinds DEF Integrate
<1>9. CASE PeerRelationCreated
  BY <1>0, <1>9, SameStores DEF PeerRelationCreated, library, records
<1>10. CASE Remove
  <2>1. <<"broken">> \in pending'[leader] /\ phase' = "dying" /\ UNCHANGED <<dsn, ready>>
    BY <1>0, <1>10 DEF Remove
  <2> QED BY <1>0, <2>1 DEF LeaderStores, Forgotten, Busy
<1>11. CASE Gone
  <2>1. /\ UNCHANGED <<ready, dsn, hook, pending>> /\ phase = "dying" /\ phase' = "absent"
    BY <1>11 DEF Gone
  <2> QED BY <1>0, <2>1 DEF LeaderStores, Forgotten, Busy
<1>12. CASE UNCHANGED vars
  BY <1>0, <1>12, SameStores DEF vars, juju, library, records
<1>13. ASSUME NEW u \in Units, ElectLeader(u) PROVE FALSE
  BY <1>0, <1>13 DEF ElectLeader
<1> QED BY <1>1, <1>2, <1>3, <1>5, <1>6, <1>7, <1>8, <1>9, <1>10, <1>11, <1>12, <1>13 DEF Next

(* While the leadership does not move, the connection is the published one   *)
(* whenever the hooks have run: no rotated password and no late endpoints    *)
(* are missed, and none is kept of an integration that is gone, for any      *)
(* number of publications, units of the database, crashes and integrations.  *)
THEOREM NothingMissed == Spec => []SettledStored
<1> DEFINE Inv == IInv /\ Stored
<1>1. Init => Inv
  <2>1. Init => Stored
    BY Kinds DEF Init, Stored, LeaderStores, Forgotten, Busy, NoHook
  <2> QED BY <2>1, IInvInit
<1>2. Inv /\ [Next]_vars => Inv'
  <2>1. IInv => TypeOK /\ HookOrder
    BY DEF IInv
  <2> QED BY <2>1, IInvNext, StoredNext
<1>3. Inv => SettledStored
  <2> SUFFICES ASSUME Stored, TypeOK, moves = 0, Settled PROVE dsn = Published
    BY DEF IInv, SettledStored
  <2>1. leader \in Units
    BY DEF TypeOK
  <2>2. /\ pending[leader] = {} /\ ~deferred[leader] /\ hook[leader].kind = None
    BY <2>1 DEF Settled, Idle, NoHook
  <2>3. hook[leader].kind \notin JoinedHooks \cup {<<"changed">>, <<"broken">>}
    BY <2>2, Kinds DEF HookKinds
  <2>4. CASE phase = "related"
    BY <2>2, <2>3, <2>4 DEF Stored, LeaderStores, Awaited
  <2>5. CASE phase # "related"
    BY <2>2, <2>3, <2>5 DEF Stored, LeaderStores, Forgotten, Busy, Published
  <2> QED BY <2>4, <2>5
<1>4. Spec => []Inv
  <2> HIDE DEF Inv
  <2> QED BY <1>1, <1>2, PTL DEF Spec
<1> HIDE DEF Inv
<1> QED BY <1>3, <1>4, PTL
=============================================================================
