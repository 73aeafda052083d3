------------------------ MODULE CharmEndpoints_proofs ------------------------
(***************************************************************************)
(* The exclusion of the two main databases, for every set of units, of      *)
(* connections and of faults: while the lease stays and no refused hook is   *)
(* given up, the units do not settle on both endpoints. The leader's hook    *)
(* that has to refuse one of them is pending, or runs and will raise.       *)
(***************************************************************************)
EXTENDS CharmService_proofs

(* Both main endpoints are integrated, to stay.                              *)
Contested ==
    /\ \A e \in MainEndpoints : rel[e] # "absent"
    /\ MainEndpoints \cap dying = {}

(* The hooks in which the leader refuses an endpoint beside the other one.   *)
Deciding == {Changed("database"), LegacyJoined}

Rival(k) == IF k = LegacyJoined THEN "database" ELSE "database_legacy"

Refuses(u) == hook[u].main \in Deciding /\ hook[u].seen.rel[Rival(hook[u].main)] # "absent"

(* A deployed application has its peer relation.                             *)
AlwaysReady == ready /\ \A u \in Units : ~Idle(u) => hook[u].seen.ready

RefusalOwed == Contested => Deciding \cap pending[leader] # {} \/ Refuses(leader)

(* The hook that refuses has its own event to handle still, which no notice  *)
(* kept before it can stand for.                                             *)
RefusedLast ==
    Refuses(leader) =>
        /\ hook[leader].todo # <<>>
        /\ hook[leader].todo[Len(hook[leader].todo)].kind = hook[leader].main
        /\ \A n \in Notices : Stored(n, hook[leader].kept) => n.kind # hook[leader].main

EndpointsInv == UnitInv /\ AlwaysReady /\ RefusalOwed /\ RefusedLast

(* juju resolved --no-retry of the leader's failed hook.                     *)
RefusalGivenUp ==
    failed[leader] \in Deciding /\ failed'[leader] = None /\ hook'[leader] = hook[leader]

SameLeader == leader' = leader /\ ~RefusalGivenUp

-----------------------------------------------------------------------------
LEMMA DecidingKinds ==
    /\ Deciding = {"database_relation_changed", "database_relation_joined"}
    /\ Deciding \subseteq Kinds /\ None \notin Deciding /\ Deciding \cap Actions = {}
<1>1. Deciding = {"database_relation_changed", "database_relation_joined"}
  BY EventKinds DEF Deciding, LegacyJoined
<1>2. Deciding \subseteq Kinds
  <2>1. Changed("database") \in {Changed(e) : e \in AllEndpoints}
    BY DEF AllEndpoints
  <2> QED
    BY <2>1 DEF Deciding, Kinds, RelationKinds
<1> QED
  BY <1>1, <1>2, DataAssumption DEF Actions

LEMMA AlwaysReadyNext == UnitInv /\ AlwaysReady /\ [Next]_vars => AlwaysReady'
<1> SUFFICES ASSUME UnitInv, AlwaysReady, [Next]_vars PROVE AlwaysReady'
  OBVIOUS
<1>1. CharmTypes /\ JujuTypes
  BY TypeInvParts DEF UnitInv
<1>2. ASSUME NEW v \in Units, hook'[v] = IdleHook, \A w \in Units \ {v} : hook'[w] = hook[w], ready' = ready
      PROVE  AlwaysReady'
  BY <1>2 DEF AlwaysReady, Idle, IdleHook
<1>3. ASSUME \A w \in Units : hook'[w].main = hook[w].main /\ hook'[w].seen = hook[w].seen,
             ready'
      PROVE  AlwaysReady'
  BY <1>3 DEF AlwaysReady, Idle
<1>4. ASSUME NEW v \in Units, Raise(v), ready' = ready PROVE AlwaysReady'
  BY <1>1, <1>2, <1>4 DEF Raise, CharmTypes
<1>5. ASSUME NEW v \in Units, Handle(v) PROVE AlwaysReady'
  <2>1. CASE HandlerRaises(v)
    BY <1>4, <2>1 DEF HandlerRaises
  <2>2. CASE Handled(v)
    BY <1>3, <2>2 DEF Handled, HandlesNotice, Uncommitted, jujuVars, AlwaysReady
  <2> QED
    BY <1>5, <2>1, <2>2, HandlersDo
<1>6. ASSUME NEW v \in Units, NEW k \in Kinds, Starts(v, k) PROVE AlwaysReady'
  <2>1. Begin(v, k) /\ ready' = ready
    BY <1>6, StepBegins DEF Starts
  <2>2. hook'[v].seen.ready = ready /\ \A w \in Units \ {v} : hook'[w] = hook[w]
    BY <1>1, <2>1 DEF Begin, CharmTypes, Snapshot
  <2> QED
    BY <2>1, <2>2 DEF AlwaysReady, Idle
<1>7. ASSUME NEW v \in Units, EndHook(v) \/ EndStop(v) PROVE AlwaysReady'
  <2>1. hook' = [hook EXCEPT ![v] = IdleHook] /\ ready' = ready
    BY <1>7 DEF EndHook, EndStop, Commit
  <2> QED
    BY <1>1, <1>2, <2>1 DEF CharmTypes
<1>8. ASSUME NEW v \in Units, Crash(v) PROVE AlwaysReady'
  BY <1>4, <1>8 DEF Crash
<1>9. ASSUME NEW e \in Endpoints, Gone(e) PROVE AlwaysReady'
  <2>1. TypeInv /\ ready'
    BY <1>9 DEF UnitInv, Gone, jujuVars, AlwaysReady
  <2>2. \A w \in Units : hook'[w].main = hook[w].main /\ hook'[w].seen = hook[w].seen
    BY <1>9, <2>1, GoneFields
  <2> QED
    BY <1>3, <2>1, <2>2
<1>10. CASE QuietStep
  <2>1. QuietFrame
    BY <1>10, QuietFrames
  <2> QED
    BY <1>3, <2>1 DEF QuietFrame, AlwaysReady
<1>11. CASE UNCHANGED vars
  BY <1>3, <1>11 DEF vars, charmVars, jujuVars, AlwaysReady
<1> QED
  BY <1>5, <1>6, <1>7, <1>8, <1>9, <1>10, <1>11, StepCases

-----------------------------------------------------------------------------
(* A step that leaves alone what the leader still has to run, and what both   *)
(* endpoints look like, keeps the invariant.                                 *)
SameHook(u) ==
    /\ hook'[u].main = hook[u].main /\ hook'[u].seen = hook[u].seen
    /\ hook'[u].todo = hook[u].todo /\ hook'[u].kept = hook[u].kept

LEMMA OwedKeeps ==
    ASSUME RefusalOwed, leader' = leader, Contested' => Contested,
           Deciding \cap pending[leader] \subseteq pending'[leader],
           hook'[leader].main = hook[leader].main, hook'[leader].seen = hook[leader].seen
    PROVE  RefusalOwed'
BY DEF RefusalOwed, Refuses

LEMMA LastKeeps ==
    ASSUME RefusedLast, leader' = leader, SameHook(leader)
    PROVE  RefusedLast'
BY DEF RefusedLast, Refuses, SameHook

(* The leader's handler of the event it has to refuse raises.                *)
LEMMA RefusingRaises ==
    ASSUME UnitInv, AlwaysReady, Handle(leader), Refuses(leader),
           HeadKind(leader) = hook[leader].main
    PROVE  Raise(leader)
<1> DEFINE u == leader
           k == HeadKind(u)
<1>1. k \in {"database_relation_changed", "database_relation_joined"}
  BY DecidingKinds DEF Refuses
<1>2. \A j : Handles(u, j) => k = j
  BY DEF Handles, HeadKind
<1>3. u \in Units /\ ~Idle(u)
  BY DecidingKinds, TypeInvParts DEF UnitInv, JujuTypes, Refuses, Idle
<1>4. hook[u].seen.ready
  BY <1>3 DEF AlwaysReady
<1>5. \/ HandleDatabaseChanged(u, "database") /\ k = "database_relation_changed"
      \/ HandleLegacyJoined(u) /\ k = "database_relation_joined"
  <2>1. ~HandleReconciling(u) /\ ~HandlePeerChanged(u) /\ ~HandleUpdateStatus(u) /\ ~HandleStop(u)
    BY <1>1, <1>2 DEF HandleReconciling, HandlePeerChanged, HandleUpdateStatus, HandleStop,
       ReconcilingKinds
  <2>2. /\ ~HandleMasterChanged(u) /\ ~HandleMetricsBroken(u)
        /\ ~HandleRestartAction(u) /\ ~HandleTokenAction(u)
    BY <1>1, <1>2, EventKinds DEF HandleMasterChanged, HandleMetricsBroken, HandleRestartAction,
       HandleTokenAction
  <2>3. ~HandleDatabaseBroken(u, "database") /\ ~HandleDatabaseBroken(u, "database_legacy")
    <3>1. Broken("database") \in MainBroken /\ Broken("database_legacy") \in MainBroken
      BY DEF MainBroken, MainEndpoints
    <3> QED
      BY <1>1, <1>2, <3>1, EventKinds DEF HandleDatabaseBroken
  <2>4. HandleDatabaseChanged(u, "database") => k = "database_relation_changed"
    BY <1>2, EventKinds DEF HandleDatabaseChanged
  <2>5. ~HandleDatabaseChanged(u, "metrics_db")
    BY <1>1, <1>2, EventKinds DEF HandleDatabaseChanged
  <2>6. HandleLegacyJoined(u) => k = "database_relation_joined"
    BY <1>2 DEF HandleLegacyJoined, LegacyJoined
  <2> QED
    BY <2>1, <2>2, <2>3, <2>4, <2>5, <2>6 DEF Handle
<1>6. CASE HandleDatabaseChanged(u, "database") /\ k = "database_relation_changed"
  <2>1. Refused(hook[u], "database")
    BY <1>6 DEF Refused, Refuses, Rival, LegacyJoined
  <2> QED
    BY <1>4, <1>6, <2>1 DEF HandleDatabaseChanged
<1>7. CASE HandleLegacyJoined(u) /\ k = "database_relation_joined"
  <2>1. hook[u].seen.rel["database"] # "absent"
    BY <1>7 DEF Refuses, Rival, LegacyJoined
  <2> QED
    BY <1>4, <1>7, <2>1 DEF HandleLegacyJoined
<1> QED
  BY <1>5, <1>6, <1>7

LEMMA RefusingHandled ==
    ASSUME EndpointsInv, Handle(leader), Handled(leader), ~Raise(leader), leader' = leader, TypeInv'
    PROVE  RefusedLast'
<1> DEFINE u == leader
           h == hook[u]
<1>1. u \in Units /\ h \in ActiveHooks /\ h.todo # <<>>
  BY TypeInvParts, HandlersDo DEF EndpointsInv, UnitInv, JujuTypes
<1>2. PICK d \in BOOLEAN : HandlesNotice(u, d)
  BY DEF Handled
<1>3. /\ hook'[u].main = h.main /\ hook'[u].seen = h.seen
      /\ hook'[u].todo = Consume(h, d).todo /\ hook'[u].kept = Consume(h, d).kept
  BY <1>2 DEF HandlesNotice
<1>4. SUFFICES ASSUME Refuses(u)
               PROVE  /\ hook'[u].todo # <<>>
                      /\ hook'[u].todo[Len(hook'[u].todo)].kind = h.main
                      /\ \A n \in Notices : Stored(n, hook'[u].kept) => n.kind # h.main
  BY <1>3 DEF RefusedLast, Refuses
<1>5. HeadKind(u) # h.main
  BY <1>4, RefusingRaises DEF EndpointsInv
<1>6. /\ h.todo[Len(h.todo)].kind = h.main
      /\ \A n \in Notices : Stored(n, h.kept) => n.kind # h.main
  BY <1>4 DEF EndpointsInv, RefusedLast
<1>7. \A n \in Notices : Stored(n, hook'[u].kept) => n.kind # h.main
  BY <1>1, <1>3, <1>5, <1>6, ConsumeNotices DEF HeadKind
<1>8. /\ Len(h.todo) \in Nat /\ h.todo[Len(h.todo)] \in Notices
      /\ Len(h.todo) = 1 => Head(h.todo) = h.todo[Len(h.todo)]
  BY <1>1 DEF ActiveHooks, Hooks
<1>9. IF hook'[u].todo = <<>>
      THEN Len(h.todo) = 1 \/ Stored(h.todo[Len(h.todo)], hook'[u].kept)
      ELSE hook'[u].todo[Len(hook'[u].todo)] = h.todo[Len(h.todo)]
  BY <1>1, <1>3, ConsumeNotices
<1> QED
  BY <1>5, <1>6, <1>7, <1>8, <1>9 DEF HeadKind

LEMMA RaiseOwes ==
    ASSUME EndpointsInv, NEW u \in Units, Raise(u), UNCHANGED <<leader, rel, dying>>
    PROVE  RefusalOwed' /\ RefusedLast'
<1>1. CharmTypes /\ JujuTypes
  BY TypeInvParts DEF EndpointsInv, UnitInv
<1>2. Contested' = Contested
  BY DEF Contested
<1>3. CASE u = leader
  <2>1. hook'[u].main = None /\ ~Refuses(leader)'
    BY <1>1, <1>3, DecidingKinds DEF Raise, CharmTypes, IdleHook, Refuses
  <2>2. Deciding \cap pending[u] \subseteq pending'[u]
    BY <1>1 DEF Raise, JujuTypes
  <2>3. Refuses(u) => hook[u].main \in Deciding \cap pending'[u]
    BY <1>1, DecidingKinds DEF Raise, JujuTypes, Refuses
  <2> QED
    BY <1>2, <1>3, <2>1, <2>2, <2>3 DEF EndpointsInv, RefusalOwed, RefusedLast
<1>4. CASE u # leader
  <2>1. hook'[leader] = hook[leader] /\ pending'[leader] = pending[leader]
    BY <1>1, <1>4 DEF Raise, CharmTypes, JujuTypes
  <2> QED
    BY <1>2, <2>1, OwedKeeps, LastKeeps DEF EndpointsInv, SameHook
<1> QED
  BY <1>3, <1>4

LEMMA BeginOwes ==
    ASSUME EndpointsInv, NEW u \in Units, NEW k \in Kinds, Starts(u, k)
    PROVE  RefusalOwed' /\ RefusedLast'
<1>1. CharmTypes /\ JujuTypes /\ leader \in Units
  BY TypeInvParts DEF EndpointsInv, UnitInv, JujuTypes
<1>2. /\ Idle(u) /\ Begin(u, k) /\ UNCHANGED <<leader, rel, dying, deferred>>
      /\ \A v \in Units : pending[v] \subseteq pending'[v] \cup IF v = u THEN {k} ELSE {}
      /\ k \in Deciding => StartHook(u, k)
  BY <1>1, DecidingKinds DEF Starts, StartHook, StartUpdateStatus, StartAction, jujuVars, worldVars,
     JujuTypes
<1>3. Contested' = Contested
  BY <1>2 DEF Contested
<1>4. /\ hook'[u].main = k /\ hook'[u].kept = <<>> /\ hook'[u].seen = Snapshot(u, k)
      /\ hook'[u].todo = IF k = "other" THEN deferred[u] ELSE Append(deferred[u], Notice(k))
      /\ \A v \in Units \ {u} : hook'[v] = hook[v]
  BY <1>1, <1>2 DEF Begin, CharmTypes
<1>5. CASE u # leader
  BY <1>1, <1>2, <1>3, <1>4, <1>5, OwedKeeps, LastKeeps DEF EndpointsInv, SameHook
<1>6. CASE u = leader
  <2>1. RefusedLast'
    <3>1. SUFFICES ASSUME k \in Deciding
                   PROVE  /\ hook'[u].todo # <<>>
                          /\ hook'[u].todo[Len(hook'[u].todo)].kind = k
                          /\ \A n \in Notices : Stored(n, hook'[u].kept) => n.kind # k
      BY <1>2, <1>4, <1>6 DEF RefusedLast, Refuses
    <3>2. hook'[u].todo = Append(deferred[u], Notice(k)) /\ deferred[u] \in Seq(Notices)
      BY <1>1, <1>4, <3>1, DecidingKinds DEF JujuTypes
    <3>3. Notice(k).kind = k
      BY DEF Notice
    <3>4. /\ Append(deferred[u], Notice(k)) # <<>>
          /\ Append(deferred[u], Notice(k))[Len(Append(deferred[u], Notice(k)))] = Notice(k)
      BY <3>2
    <3>5. \A n : ~Stored(n, hook'[u].kept)
      BY <1>4 DEF Stored
    <3> QED
      BY <3>2, <3>3, <3>4, <3>5
  <2>2. ~Refuses(u)
    BY <1>2, DecidingKinds DEF Refuses, Idle
  <2>3. ASSUME Contested, k \in Deciding PROVE Refuses(u)'
    <3> DEFINE e == Rival(k)
    <3>1. e \in MainEndpoints /\ e \in AllEndpoints
      BY DEF Rival, MainEndpoints, AllEndpoints
    <3>2. Sees(u, k, e)
      BY <2>3, <3>1 DEF Contested, Sees
    <3>3. Snapshot(u, k).rel[e] = rel[e]
      BY <3>1, <3>2 DEF Snapshot
    <3>4. rel[e] # "absent"
      BY <2>3, <3>1 DEF Contested
    <3> QED
      BY <1>4, <2>3, <3>3, <3>4 DEF Refuses
  <2>4. RefusalOwed'
    BY <1>2, <1>3, <1>6, <2>2, <2>3 DEF EndpointsInv, RefusalOwed
  <2> QED
    BY <2>1, <2>4
<1> QED
  BY <1>5, <1>6

LEMMA CommitOwes ==
    ASSUME EndpointsInv, NEW u \in Units, EndHook(u) \/ EndStop(u)
    PROVE  RefusalOwed' /\ RefusedLast'
<1>1. CharmTypes /\ JujuTypes /\ leader \in Units
  BY TypeInvParts DEF EndpointsInv, UnitInv, JujuTypes
<1>2. PICK again : Commit(u, again) /\ UNCHANGED <<leader, rel, dying>>
  BY DEF EndHook, EndStop
<1>3. /\ hook[u].todo = <<>> /\ hook'[u] = IdleHook /\ \A v \in Units \ {u} : hook'[v] = hook[v]
      /\ \A v \in Units : pending[v] \subseteq pending'[v]
  BY <1>1, <1>2 DEF Commit, CharmTypes
<1>4. Contested' = Contested
  BY <1>2 DEF Contested
<1>5. CASE u # leader
  BY <1>1, <1>2, <1>3, <1>4, <1>5, OwedKeeps, LastKeeps DEF EndpointsInv, SameHook
<1>6. CASE u = leader
  <2>1. ~Refuses(u)
    BY <1>3, <1>6 DEF EndpointsInv, RefusedLast
  <2>2. ~Refuses(u)'
    BY <1>3, DecidingKinds DEF Refuses, IdleHook
  <2> QED
    BY <1>1, <1>2, <1>3, <1>4, <1>6, <2>1, <2>2 DEF EndpointsInv, RefusalOwed, RefusedLast
<1> QED
  BY <1>5, <1>6

LEMMA GoneOwes ==
    ASSUME EndpointsInv, NEW e \in Endpoints, Gone(e)
    PROVE  RefusalOwed' /\ RefusedLast'
<1>1. /\ TypeInv /\ JujuTypes /\ leader \in Units /\ UNCHANGED <<leader, pending>>
      /\ e \in AllEndpoints
  BY TypeInvParts, EndpointsAssumption DEF EndpointsInv, UnitInv, JujuTypes, Gone, jujuVars
<1> DEFINE u == leader
           todo == hook[u].todo
           kept == hook[u].kept
<1>2. /\ hook'[u].main = hook[u].main /\ hook'[u].seen = hook[u].seen
      /\ hook'[u].todo = Aged(todo, e) /\ hook'[u].kept = Aged(kept, e)
      /\ todo \in Seq(Notices) /\ kept \in Seq(Notices)
  BY <1>1, GoneFields
<1>3. Contested' => Contested
  <2>1. rel' = [rel EXCEPT ![e] = "absent"] /\ dying' = dying \ {e}
    BY DEF Gone
  <2>2. rel \in [AllEndpoints -> RelationData] /\ MainEndpoints \subseteq AllEndpoints
    BY <1>1 DEF JujuTypes, MainEndpoints, AllEndpoints
  <2>3. \A f \in AllEndpoints : rel'[f] = IF f = e THEN "absent" ELSE rel[f]
    BY <2>1, <2>2
  <2> QED
    BY <2>1, <2>2, <2>3 DEF Contested
<1>4. RefusalOwed'
  BY <1>1, <1>2, <1>3, OwedKeeps DEF EndpointsInv
<1>5. ASSUME Refuses(u)
      PROVE  /\ Aged(todo, e) # <<>>
             /\ Aged(todo, e)[Len(Aged(todo, e))].kind = hook[u].main
             /\ \A n \in Notices : Stored(n, Aged(kept, e)) => n.kind # hook[u].main
  <2>1. /\ todo # <<>> /\ todo[Len(todo)].kind = hook[u].main
        /\ \A n \in Notices : Stored(n, kept) => n.kind # hook[u].main
    BY <1>5 DEF EndpointsInv, RefusedLast
  <2> HIDE DEF todo, kept
  <2>2. Len(todo) \in 1..Len(todo)
    BY <1>2, <2>1
  <2>3. Aged(todo, e)[Len(todo)].kind = todo[Len(todo)].kind /\ Len(Aged(todo, e)) = Len(todo)
    BY <1>2, <2>2, AgedKinds
  <2>4. Aged(todo, e) # <<>>
    BY <1>2, <2>2, <2>3
  <2>5. ASSUME NEW n \in Notices, Stored(n, Aged(kept, e)) PROVE n.kind # hook[u].main
    <3>1. PICK i \in 1..Len(kept) : Aged(kept, e)[i] = n
      BY <1>2, <2>5, AgedKinds DEF Stored
    <3>2. kept[i].kind = n.kind /\ kept[i] \in Notices /\ Stored(kept[i], kept)
      BY <1>2, <3>1, AgedKinds DEF Stored
    <3> QED
      BY <2>1, <3>2
  <2> QED
    BY <2>1, <2>3, <2>4, <2>5
<1>6. RefusedLast'
  BY <1>1, <1>2, <1>5 DEF RefusedLast, Refuses
<1> QED
  BY <1>4, <1>6

LEMMA QuietOwes ==
    ASSUME EndpointsInv, QuietStep, SameLeader
    PROVE  RefusalOwed' /\ RefusedLast'
<1>1. /\ CharmTypes /\ JujuTypes /\ leader \in Units /\ leader' = leader /\ hook' = hook
      /\ MainEndpoints \subseteq AllEndpoints /\ rel \in [AllEndpoints -> RelationData]
  BY TypeInvParts, QuietFrames DEF EndpointsInv, UnitInv, JujuTypes, SameLeader, QuietFrame,
     MainEndpoints, AllEndpoints
<1>2. RefusedLast'
  BY <1>1, LastKeeps DEF EndpointsInv, SameHook
<1>3. ASSUME Contested' => Contested, Deciding \cap pending[leader] \subseteq pending'[leader]
      PROVE  RefusalOwed'
  BY <1>1, <1>3, OwedKeeps DEF EndpointsInv
<1>4. CASE PeerRelationCreated
  <2>1. UNCHANGED <<rel, dying>> /\ \A u \in Units : pending[u] \subseteq pending'[u]
    BY <1>4 DEF PeerRelationCreated, Notify, worldVars
  <2>2. Contested' => Contested
    BY <2>1 DEF Contested
  <2>3. Deciding \cap pending[leader] \subseteq pending'[leader]
    BY <1>1, <2>1
  <2> QED
    BY <1>2, <1>3, <2>2, <2>3
<1>5. ASSUME NEW u \in Units, NEW c \in {"livepatch", "schema"}, ContainerUp(u, c) \/ ContainerDown(u, c)
      PROVE  RefusalOwed'
  BY <1>1, <1>3, <1>5 DEF ContainerUp, ContainerDown, Notify, jujuVars, Contested
<1>6. ASSUME NEW u \in Units, PodStop(u) \/ ElectLeader(u) PROVE RefusalOwed'
  BY <1>1, <1>3, <1>6 DEF PodStop, ElectLeader, Notify, Contested
<1>7. ASSUME NEW u \in Units, Resolve(u) PROVE RefusalOwed'
  <2>1. Contested' = Contested
    BY <1>7 DEF Resolve, Contested
  <2>2. Deciding \cap pending[leader] \subseteq pending'[leader]
    <3>1. CASE u = leader
      <4>1. failed[leader] \notin Deciding
        BY <1>1, <1>7, <3>1 DEF Resolve, JujuTypes, SameLeader, RefusalGivenUp
      <4> QED
        BY <1>1, <1>7, <3>1, <4>1 DEF Resolve, JujuTypes
    <3>2. CASE u # leader
      BY <1>1, <1>7, <3>2 DEF Resolve, JujuTypes
    <3> QED
      BY <3>1, <3>2
  <2> QED
    BY <1>3, <2>1, <2>2
<1>8. CASE ChangeConfig \/ ChangeLinks
  <2>1. UNCHANGED <<rel, dying>> /\ \A u \in Units : pending[u] \subseteq pending'[u]
    BY <1>8 DEF ChangeConfig, ChangeLinks, Notify
  <2>2. Contested' => Contested
    BY <2>1 DEF Contested
  <2>3. Deciding \cap pending[leader] \subseteq pending'[leader]
    BY <1>1, <2>1
  <2> QED
    BY <1>2, <1>3, <2>2, <2>3
<1>9. ASSUME NEW e \in Endpoints, Integrate(e) PROVE RefusalOwed'
  <2>1. CASE e \in MainEndpoints
    <3>1. (IF e = "database_legacy" THEN LegacyJoined ELSE Changed(e)) \in Deciding
      BY <2>1 DEF MainEndpoints, Deciding
    <3>2. (IF e = "database_legacy" THEN LegacyJoined ELSE Changed(e)) \in pending'[leader]
      BY <1>1, <1>9 DEF Integrate, Notify
    <3> QED
      BY <1>1, <3>1, <3>2 DEF RefusalOwed
  <2>2. CASE e \notin MainEndpoints
    <3>1. Contested' => Contested
      BY <1>1, <1>9, <2>2 DEF Integrate, Contested
    <3>2. Deciding \cap pending[leader] \subseteq pending'[leader]
      BY <1>1, <1>9 DEF Integrate, Notify
    <3> QED
      BY <1>3, <3>1, <3>2
  <2> QED
    BY <2>1, <2>2
<1>10. ASSUME NEW e \in Endpoints, Publish(e) PROVE RefusalOwed'
  <2>1. rel[e] # "absent" /\ \A f \in AllEndpoints \ {e} : rel'[f] = rel[f]
    BY <1>1, <1>10 DEF Publish
  <2>2. Contested' => Contested
    BY <1>1, <1>10, <2>1 DEF Publish, Contested
  <2>3. Deciding \cap pending[leader] \subseteq pending'[leader]
    BY <1>1, <1>10 DEF Publish, Notify
  <2> QED
    BY <1>2, <1>3, <2>2, <2>3
<1>11. ASSUME NEW e \in Endpoints, Remove(e) PROVE RefusalOwed'
  <2>1. CASE e \in MainEndpoints
    BY <1>11, <2>1 DEF Remove, RefusalOwed, Contested
  <2>2. CASE e \notin MainEndpoints
    <3>1. e = "metrics_db"
      BY <2>2, EndpointsAssumption DEF AllEndpoints, MainEndpoints
    <3>2. StaleKinds(e) \cap Deciding = {}
      BY <3>1, DecidingKinds, EventKinds DEF StaleKinds
    <3>3. Deciding \cap pending[leader] \subseteq pending'[leader]
      BY <1>1, <1>11, <3>2 DEF Remove
    <3>4. Contested' => Contested
      BY <1>11 DEF Remove, Contested
    <3> QED
      BY <1>3, <3>3, <3>4
  <2> QED
    BY <2>1, <2>2
<1> QED
  BY <1>2, <1>4, <1>5, <1>6, <1>7, <1>8, <1>9, <1>10, <1>11 DEF QuietStep

LEMMA EndpointsInvNext == EndpointsInv /\ [Next]_vars /\ [SameLeader]_vars => EndpointsInv'
<1> SUFFICES ASSUME EndpointsInv, [Next]_vars, [SameLeader]_vars PROVE RefusalOwed' /\ RefusedLast'
  BY UnitInvNext, AlwaysReadyNext DEF EndpointsInv
<1>1. leader \in Units
  BY TypeInvParts DEF EndpointsInv, UnitInv, JujuTypes
<1>2. ASSUME NEW v \in Units, Handle(v) PROVE RefusalOwed' /\ RefusedLast'
  <2>1. CASE Raise(v) /\ UNCHANGED <<leader, rel, dying>>
    BY <2>1, RaiseOwes
  <2>2. CASE Handled(v) /\ ~Raise(v)
    <3>1. UNCHANGED <<leader, pending, rel, dying>>
      BY <2>2 DEF Handled, Uncommitted, jujuVars
    <3>2. hook'[leader].main = hook[leader].main /\ hook'[leader].seen = hook[leader].seen
      BY <1>1, <2>2 DEF Handled, HandlesNotice
    <3>3. RefusalOwed'
      BY <3>1, <3>2, OwedKeeps DEF EndpointsInv, Contested
    <3>4. CASE v = leader
      BY <1>2, <2>2, <3>1, <3>3, <3>4, RefusingHandled, UnitInvNext DEF EndpointsInv, UnitInv
    <3>5. CASE v # leader
      <4>1. SameHook(leader)
        BY <1>1, <2>2, <3>5 DEF Handled, HandlesNotice, SameHook
      <4> QED
        BY <3>1, <3>3, <4>1, LastKeeps DEF EndpointsInv
    <3> QED
      BY <3>4, <3>5
  <2>3. Handled(v) \/ HandlerRaises(v)
    BY <1>2, HandlersDo DEF EndpointsInv
  <2>4. UNCHANGED <<leader, rel, dying>>
    BY <2>3 DEF Handled, HandlerRaises, Uncommitted, jujuVars, worldVars
  <2> QED
    BY <2>1, <2>2, <2>3, <2>4 DEF HandlerRaises
<1>3. ASSUME NEW v \in Units, Crash(v) PROVE RefusalOwed' /\ RefusedLast'
  BY <1>3, RaiseOwes DEF Crash
<1>4. CASE QuietStep
  <2>1. CASE SameLeader
    BY <1>4, <2>1, QuietOwes
  <2>2. CASE UNCHANGED vars
    BY <2>2, OwedKeeps, LastKeeps DEF EndpointsInv, vars, charmVars, jujuVars, worldVars,
       Contested, SameHook
  <2> QED
    BY <2>1, <2>2
<1>5. CASE UNCHANGED vars
  BY <1>5, OwedKeeps, LastKeeps DEF EndpointsInv, vars, charmVars, jujuVars, worldVars,
     Contested, SameHook
<1> QED
  BY <1>2, <1>3, <1>4, <1>5, BeginOwes, CommitOwes, GoneOwes, StepCases

LEMMA EndpointsInvInit == Deployed => EndpointsInv
<1> SUFFICES ASSUME Deployed PROVE AlwaysReady /\ RefusalOwed /\ RefusedLast
  BY UnitInvInit DEF EndpointsInv
<1>1. leader \in Units /\ hook[leader] = IdleHook /\ \A u \in Units : Idle(u)
  BY DEF Deployed, Idle, IdleHook
<1>2. ~Refuses(leader)
  BY <1>1, DecidingKinds DEF Refuses, IdleHook
<1>3. ~Contested
  <2>1. CASE Unintegrated
    BY <2>1 DEF Unintegrated, Contested, MainEndpoints, AllEndpoints
  <2>2. CASE Serving
    <3>1. PICK c \in Creds, e \in Endpoints :
              rel = [f \in AllEndpoints |-> IF f = e THEN c ELSE "absent"]
      BY <2>2 DEF Serving
    <3> QED
      BY <3>1 DEF Contested, MainEndpoints, AllEndpoints
  <2> QED
    BY <2>1, <2>2 DEF Deployed
<1> QED
  BY <1>1, <1>2, <1>3 DEF AlwaysReady, RefusalOwed, RefusedLast, Deployed

LEMMA OwedExcludes == EndpointsInv => EndpointsExclusive
<1> SUFFICES ASSUME EndpointsInv, Settled, rel["database_legacy"] # "absent"
             PROVE  rel["database"] \notin Creds
  BY DEF EndpointsExclusive
<1>1. leader \in Units /\ Idle(leader) /\ pending[leader] = {} /\ dying = {}
  BY TypeInvParts DEF EndpointsInv, UnitInv, JujuTypes, Settled
<1>2. ~Refuses(leader)
  BY <1>1, DecidingKinds DEF Refuses, Idle
<1>3. ~Contested
  BY <1>1, <1>2 DEF EndpointsInv, RefusalOwed
<1>4. rel["database"] = "absent"
  BY <1>1, <1>3 DEF Contested, MainEndpoints
<1> QED
  BY <1>4, DataAssumption

(* While the lease does not move and the leader's failed hook is not given up *)
(* the units do not settle on both main databases, whatever else fails: the   *)
(* RuntimeErrors of _on_database_event and of _on_legacy_db_relation_joined   *)
(* suffice, in either order of integration.                                  *)
THEOREM DeployedExclusive == DeployedSpec /\ [][SameLeader]_vars => []EndpointsExclusive
<1>1. Deployed => EndpointsInv
  BY EndpointsInvInit
<1>2. EndpointsInv /\ [Next]_vars /\ [SameLeader]_vars => EndpointsInv'
  BY EndpointsInvNext
<1>3. EndpointsInv => EndpointsExclusive
  BY OwedExcludes
<1> QED
  BY <1>1, <1>2, <1>3, PTL DEF DeployedSpec
=============================================================================
