------------------------ MODULE LivepatchCharm_proofs ------------------------
(* Theorems about LivepatchCharm, for every set of units, of connections and  *)
(* of settings, and every number of disturbances.                            *)
EXTENDS LivepatchCharm, TLAPS

ActiveHooks ==
    {h \in Hooks : h.main # None /\ h.seen \in Snapshots /\ h.view \in Databag}

IdleHooks == {h \in Hooks : h.main = None /\ h.todo = <<>> /\ h.wrote = {}}

(* What a handler needs beside the types: a hook that runs has its snapshot. *)
HookInv == \A u \in Units : hook[u] \in ActiveHooks \cup IdleHooks

TypeInv == TypeOK /\ HookInv

LEMMA OutcomeIsOutcome ==
    ASSUME NEW in
    PROVE  Outcome(in) \in Outcomes /\ (Outcome(in) = "started" => in.dsn /\ in.ready /\ in.workload)
BY DEF Outcome, Outcomes, DeferringOutcomes, DroppingOutcomes, SchemaUpgradeDefers

LEMMA StatusIsStatus ==
    ASSUME NEW o \in Outcomes, NEW old \in Statuses
    PROVE  StatusAfter(o, old) \in Statuses
BY DEF StatusAfter, Outcomes, DeferringOutcomes, DroppingOutcomes, Statuses

LEMMA KindsOfEndpoints ==
    /\ LegacyJoined \in Kinds
    /\ \A e \in AllEndpoints : Changed(e) \in Kinds /\ Broken(e) \in Kinds
    /\ {"livepatch_relation_changed", "config_changed", "start", "stop"} \subseteq Kinds
BY DEF Kinds, RelationKinds, ReconcilingKinds, LegacyJoined

LEMMA IdleHookType == IdleHook \in IdleHooks
BY DEF IdleHook, IdleHooks, Hooks

LEMMA ConsumeType ==
    ASSUME NEW h \in ActiveHooks, h.todo # <<>>, NEW d \in BOOLEAN
    PROVE  /\ Consume(h, d) \in ActiveHooks
           /\ Consume(h, d).main = h.main
           /\ Consume(h, d).wrote = h.wrote
<1> DEFINE kept == IF d /\ Head(h.todo).kind \notin Actions
                   THEN Append(h.kept, Head(h.todo)) ELSE h.kept
           rest == Tail(h.todo)
           emitted == Len(rest) = 1 => ~Stored(Head(rest), kept)
           todo == IF emitted THEN rest ELSE <<>>
<1>1. kept \in Seq(Notices) /\ todo \in Seq(Notices)
  <2>1. h.todo \in Seq(Notices) /\ h.kept \in Seq(Notices)
    BY DEF ActiveHooks, Hooks
  <2>2. Head(h.todo) \in Notices /\ rest \in Seq(Notices)
    BY <2>1
  <2>3. Append(h.kept, Head(h.todo)) \in Seq(Notices)
    BY <2>1, <2>2
  <2> QED BY <2>1, <2>2, <2>3
<1>2. Consume(h, d) = [h EXCEPT !.todo = todo, !.kept = kept]
  BY DEF Consume
<1> HIDE DEF kept, todo, rest, emitted
<1> QED BY <1>1, <1>2 DEF ActiveHooks, Hooks

LEMMA WriteType ==
    ASSUME NEW h \in ActiveHooks, NEW key \in Keys, NEW v,
           key \in {"dsn", "dsn_metrics"} => v \in Creds \cup {None},
           key = "resource_token" => v \in Tokens \cup {None}
    PROVE  /\ Write(h, key, v) \in ActiveHooks
           /\ Write(h, key, v).todo = h.todo
           /\ Write(h, key, v).main = h.main
<1>1. h.view \in Databag /\ h.wrote \in SUBSET Keys
  BY DEF ActiveHooks, Hooks
<1>2. [h.view EXCEPT ![key] = v] \in Databag
  BY <1>1 DEF Databag, Keys
<1>3. Write(h, key, v) = [h EXCEPT !.view = [h.view EXCEPT ![key] = v], !.wrote = h.wrote \cup {key}]
  BY DEF Write, ActiveHooks, Hooks
<1> DEFINE w == [h.view EXCEPT ![key] = v]
<1> HIDE DEF w
<1> QED BY <1>1, <1>2, <1>3, ZenonT(30) DEF ActiveHooks, Hooks, w

-----------------------------------------------------------------------------
(* The part of the type invariant that handlers change, and the rest. *)
CharmTypes ==
    /\ hook \in [Units -> Hooks]
    /\ HookInv
    /\ svc \in [Units -> Environments \cup {NoPlan, Stopped}]
    /\ status \in [Units -> Statuses]
    /\ conn \in [Units -> SUBSET {"livepatch", "schema"}]
    /\ spent \in 0..MaxDisturbances

JujuTypes ==
    /\ leader \in Units
    /\ ready \in BOOLEAN
    /\ config \in Configs
    /\ links \in Links
    /\ rel \in [AllEndpoints -> RelationData]
    /\ dying \subseteq AllEndpoints
    /\ requested \in BOOLEAN
    /\ peer \in Databag
    /\ pending \in [Units -> SUBSET Kinds]
    /\ failed \in [Units -> Kinds \cup {None}]
    /\ deferred \in [Units -> Seq(Notices)]

LEMMA TypeInvParts == TypeInv <=> CharmTypes /\ JujuTypes
BY DEF TypeInv, TypeOK, CharmTypes, JujuTypes

LEMMA TypeInvPartsNext == TypeInv' <=> CharmTypes' /\ JujuTypes'
BY DEF TypeInv, TypeOK, CharmTypes, JujuTypes

LEMMA UncommittedTypes ==
    JujuTypes /\ UNCHANGED Uncommitted => JujuTypes'
BY DEF JujuTypes, Uncommitted, jujuVars

(* Only a running hook has a notice to handle. *)
LEMMA HandlesActive ==
    ASSUME CharmTypes, NEW u \in Units, hook[u].todo # <<>>
    PROVE  hook[u] \in ActiveHooks
BY DEF CharmTypes, HookInv, IdleHooks

(* Replacing the hook of a unit by a running or an idle one. *)
LEMMA NewHookTypes ==
    ASSUME CharmTypes, NEW u \in Units, NEW h \in ActiveHooks \cup IdleHooks,
           hook' = [hook EXCEPT ![u] = h]
    PROVE  hook' \in [Units -> Hooks] /\ HookInv'
BY DEF CharmTypes, HookInv, ActiveHooks, IdleHooks

LEMMA DisturbTypes ==
    ASSUME NEW d, Disturb(d), spent \in 0..MaxDisturbances
    PROVE  spent' \in 0..MaxDisturbances
BY BoundAssumption DEF Disturb

LEMMA SkipTypes ==
    ASSUME CharmTypes, NEW u \in Units, NEW d \in BOOLEAN, hook[u].todo # <<>>, Skip(u, d)
    PROVE  CharmTypes'
<1>1. hook[u] \in ActiveHooks
  BY HandlesActive
<1>2. Consume(hook[u], d) \in ActiveHooks
  BY <1>1, ConsumeType
<1>3. hook' = [hook EXCEPT ![u] = Consume(hook[u], d)]
  BY DEF Skip, CharmTypes
<1>4. hook' \in [Units -> Hooks] /\ HookInv'
  BY <1>2, <1>3, NewHookTypes
<1> QED BY <1>4 DEF CharmTypes, Skip

(* A started service has the connection the gate has checked. *)
LEMMA EnvironmentType ==
    ASSUME NEW u \in Units, NEW h \in ActiveHooks, Outcome(InputsOf(u, h)) = "started"
    PROVE  EnvironmentOf(u, h) \in Environments
<1>1. InputsOf(u, h).dsn
  BY OutcomeIsOutcome
<1>2. h.view["dsn"] # None
  BY <1>1 DEF InputsOf
<1>3. h.view \in Databag
  BY DEF ActiveHooks
<1>4. h.view["dsn"] \in Creds /\ h.view["dsn_metrics"] \in Creds \cup {None}
  BY <1>2, <1>3 DEF Databag
<1> QED BY <1>4 DEF EnvironmentOf, Environments

LEMMA ReconfigureTypes ==
    ASSUME CharmTypes, NEW u \in Units, NEW h \in ActiveHooks, h.todo # <<>>,
           NEW before \in Environments \cup {NoPlan, Stopped},
           Reconfigure(u, h, before)
    PROVE  CharmTypes'
<1> DEFINE o == Outcome(InputsOf(u, h))
<1>1. o \in Outcomes
  BY OutcomeIsOutcome
<1>2. CASE /\ hook' = [hook EXCEPT ![u] = Consume(h, Defers(o))]
           /\ svc' = [svc EXCEPT ![u] = IF o = "started" THEN EnvironmentOf(u, h) ELSE before]
           /\ status' = [status EXCEPT ![u] = StatusAfter(o, @)]
           /\ UNCHANGED <<conn, spent>>
  <2>1. Defers(o) \in BOOLEAN
    BY DEF Defers
  <2>2. Consume(h, Defers(o)) \in ActiveHooks
    BY <2>1, ConsumeType
  <2>3. hook' \in [Units -> Hooks] /\ HookInv'
    BY <1>2, <2>2, NewHookTypes
  <2>4. o = "started" => EnvironmentOf(u, h) \in Environments
    BY EnvironmentType
  <2>5. svc' \in [Units -> Environments \cup {NoPlan, Stopped}]
    BY <1>2, <2>4 DEF CharmTypes
  <2>6. status' \in [Units -> Statuses]
    BY <1>1, <1>2, StatusIsStatus DEF CharmTypes
  <2> QED BY <1>2, <2>3, <2>5, <2>6 DEF CharmTypes
<1>3. CASE /\ Disturb("container")
           /\ hook' = [hook EXCEPT ![u] = Consume(h, FALSE)]
           /\ conn' = [conn EXCEPT ![u] = @ \ {"livepatch"}]
           /\ svc' = [svc EXCEPT ![u] = NoPlan]
           /\ status' = [status EXCEPT ![u] = "waiting"]
  <2>1. Consume(h, FALSE) \in ActiveHooks
    BY ConsumeType
  <2>2. hook' \in [Units -> Hooks] /\ HookInv'
    BY <1>3, <2>1, NewHookTypes
  <2>3. spent' \in 0..MaxDisturbances
    BY <1>3, DisturbTypes DEF CharmTypes
  <2> QED BY <1>3, <2>2, <2>3 DEF CharmTypes, Statuses
<1> QED BY <1>2, <1>3 DEF Reconfigure

-----------------------------------------------------------------------------
(* Type correctness, handler by handler. *)

LEMMA StoppedServiceType ==
    ASSUME CharmTypes, NEW u \in Units
    PROVE  /\ svc[u] \in Environments \cup {NoPlan, Stopped}
           /\ StoppedService(u) \in Environments \cup {NoPlan, Stopped}
BY DEF CharmTypes, StoppedService

LEMMA RaiseTypes ==
    ASSUME CharmTypes, JujuTypes, NEW u \in Units, hook[u].main # None, Raise(u)
    PROVE  /\ hook' \in [Units -> Hooks] /\ HookInv'
           /\ pending' \in [Units -> SUBSET Kinds]
           /\ failed' \in [Units -> Kinds \cup {None}]
<1>1. hook[u].main \in Kinds
  BY DEF CharmTypes, Hooks
<1>2. hook' \in [Units -> Hooks] /\ HookInv'
  BY IdleHookType, NewHookTypes DEF Raise
<1> QED BY <1>1, <1>2 DEF Raise, JujuTypes

(* The hook that raises commits nothing: the other variables keep their types *)
LEMMA RaisingHandlerTypes ==
    ASSUME CharmTypes, JujuTypes, NEW u \in Units, hook[u] \in ActiveHooks, Raise(u),
           UNCHANGED <<leader, ready, worldVars, peer, deferred, svc, status>>
    PROVE  CharmTypes' /\ JujuTypes'
<1>1. hook[u].main # None
  BY DEF ActiveHooks
<1> QED BY <1>1, RaiseTypes DEF CharmTypes, JujuTypes, worldVars

LEMMA ClearedType ==
    ASSUME NEW u \in Units, NEW h \in ActiveHooks
    PROVE  Cleared(u, h) \in ActiveHooks /\ Cleared(u, h).todo = h.todo
BY WriteType DEF Cleared, Keys

LEMMA HandleReconcilingTypes ==
    ASSUME CharmTypes, JujuTypes, NEW u \in Units, HandleReconciling(u)
    PROVE  CharmTypes' /\ JujuTypes'
<1>1. hook[u] \in ActiveHooks /\ hook[u].todo # <<>>
  BY HandlesActive DEF HandleReconciling, Handles
<1>2. CharmTypes'
  BY <1>1, ReconfigureTypes, StoppedServiceType DEF HandleReconciling
<1> QED BY <1>2, UncommittedTypes DEF HandleReconciling

LEMMA HandlePeerChangedTypes ==
    ASSUME CharmTypes, JujuTypes, NEW u \in Units, HandlePeerChanged(u)
    PROVE  CharmTypes' /\ JujuTypes'
<1>1. hook[u] \in ActiveHooks /\ hook[u].todo # <<>>
  BY HandlesActive DEF HandlePeerChanged, Handles
<1>2. CharmTypes'
  BY <1>1, ReconfigureTypes, SkipTypes, StoppedServiceType DEF HandlePeerChanged
<1> QED BY <1>2, UncommittedTypes DEF HandlePeerChanged

LEMMA HandleUpdateStatusTypes ==
    ASSUME CharmTypes, JujuTypes, NEW u \in Units, HandleUpdateStatus(u)
    PROVE  CharmTypes' /\ JujuTypes'
<1>1. hook[u] \in ActiveHooks /\ hook[u].todo # <<>>
  BY HandlesActive DEF HandleUpdateStatus, Handles
<1>2. Consume(hook[u], FALSE) \in ActiveHooks
  BY <1>1, ConsumeType
<1>3. hook' = [hook EXCEPT ![u] = Consume(hook[u], FALSE)]
  BY DEF HandleUpdateStatus, CharmTypes
<1>4. hook' \in [Units -> Hooks] /\ HookInv'
  BY <1>2, <1>3, NewHookTypes
<1>5. CharmTypes'
  BY <1>4 DEF CharmTypes, HandleUpdateStatus, Statuses
<1> QED BY <1>5, UncommittedTypes DEF HandleUpdateStatus

LEMMA HandleStopTypes ==
    ASSUME CharmTypes, JujuTypes, NEW u \in Units, HandleStop(u)
    PROVE  CharmTypes' /\ JujuTypes'
<1>1. hook[u] \in ActiveHooks /\ hook[u].todo # <<>>
  BY HandlesActive DEF HandleStop, Handles
<1>2. Consume(hook[u], FALSE) \in ActiveHooks
  BY <1>1, ConsumeType
<1>3. hook' = [hook EXCEPT ![u] = Consume(hook[u], FALSE)]
  BY DEF HandleStop, CharmTypes
<1>4. hook' \in [Units -> Hooks] /\ HookInv'
  BY <1>2, <1>3, NewHookTypes
<1>5. CharmTypes'
  BY <1>4, StoppedServiceType DEF CharmTypes, HandleStop, Statuses
<1> QED BY <1>5, UncommittedTypes DEF HandleStop

LEMMA HandleDatabaseChangedTypes ==
    ASSUME CharmTypes, JujuTypes, NEW u \in Units, NEW e \in {"database", "metrics_db"},
           HandleDatabaseChanged(u, e)
    PROVE  CharmTypes' /\ JujuTypes'
<1> DEFINE h == hook[u]
           key == IF e = "metrics_db" THEN "dsn_metrics" ELSE "dsn"
<1>1. hook[u] \in ActiveHooks /\ hook[u].todo # <<>>
  BY HandlesActive DEF HandleDatabaseChanged, Handles
<1>2. CASE UNCHANGED Uncommitted /\ (Skip(u, FALSE) \/ Skip(u, TRUE))
  BY <1>1, <1>2, SkipTypes, UncommittedTypes
<1>3. CASE Raise(u) /\ UNCHANGED <<leader, ready, worldVars, peer, deferred, svc, status>>
  BY <1>1, <1>3, RaisingHandlerTypes
<1>4. CASE /\ h.seen.rel[e] \in Creds
           /\ Reconfigure(u, Write(h, key, h.seen.rel[e]), svc[u])
           /\ UNCHANGED Uncommitted
  <2>1. /\ Write(h, key, h.seen.rel[e]) \in ActiveHooks
        /\ Write(h, key, h.seen.rel[e]).todo # <<>>
    BY <1>1, <1>4, WriteType DEF Keys
  <2>2. CharmTypes'
    BY <1>4, <2>1, ReconfigureTypes, StoppedServiceType
  <2> QED BY <1>4, <2>2, UncommittedTypes
<1> QED BY <1>2, <1>3, <1>4 DEF HandleDatabaseChanged

LEMMA HandleLegacyJoinedTypes ==
    ASSUME CharmTypes, JujuTypes, NEW u \in Units, HandleLegacyJoined(u)
    PROVE  CharmTypes' /\ JujuTypes'
<1> DEFINE h == hook[u]
           asked == h.seen.rel["database_legacy"] # "absent"
<1>1. hook[u] \in ActiveHooks /\ hook[u].todo # <<>>
  BY HandlesActive DEF HandleLegacyJoined, Handles
<1>2. CASE UNCHANGED Uncommitted /\ \E d \in BOOLEAN : Skip(u, d)
  BY <1>1, <1>2, SkipTypes, UncommittedTypes
<1>3. CASE Raise(u) /\ UNCHANGED <<leader, ready, worldVars, peer, deferred, svc, status>>
  BY <1>1, <1>3, RaisingHandlerTypes
<1>4. CASE /\ hook' = [hook EXCEPT ![u] = [Consume(h, FALSE) EXCEPT !.request = asked]]
           /\ UNCHANGED <<svc, status, conn, spent, Uncommitted>>
  <2>1. Consume(h, FALSE) \in ActiveHooks
    BY <1>1, ConsumeType
  <2>2. [Consume(h, FALSE) EXCEPT !.request = asked] \in ActiveHooks
    BY <2>1 DEF ActiveHooks, Hooks
  <2>3. hook' \in [Units -> Hooks] /\ HookInv'
    BY <1>4, <2>2, NewHookTypes
  <2>4. CharmTypes'
    BY <1>4, <2>3 DEF CharmTypes
  <2> QED BY <1>4, <2>4, UncommittedTypes
<1>5. (~h.seen.requested) \in BOOLEAN
  OBVIOUS
<1> QED BY <1>2, <1>3, <1>4, <1>5 DEF HandleLegacyJoined

LEMMA HandleMasterChangedTypes ==
    ASSUME CharmTypes, JujuTypes, NEW u \in Units, HandleMasterChanged(u)
    PROVE  CharmTypes' /\ JujuTypes'
<1> DEFINE h == hook[u]
           master == h.seen.rel["database_legacy"]
           g == IF leader = u /\ master \in Creds THEN Write(h, "dsn", master) ELSE h
<1>1. hook[u] \in ActiveHooks /\ hook[u].todo # <<>>
  BY HandlesActive DEF HandleMasterChanged, Handles
<1>2. g \in ActiveHooks /\ g.todo # <<>>
  BY <1>1, WriteType DEF Keys
<1>3. (~h.seen.ready) \in BOOLEAN
  OBVIOUS
<1>4. Skip(u, ~h.seen.ready) \/ Reconfigure(u, g, svc[u])
  BY DEF HandleMasterChanged
<1>5. CharmTypes'
  BY <1>1, <1>2, <1>3, <1>4, SkipTypes, ReconfigureTypes, StoppedServiceType
<1> QED BY <1>5, UncommittedTypes DEF HandleMasterChanged

LEMMA HandleDatabaseBrokenTypes ==
    ASSUME CharmTypes, JujuTypes, NEW u \in Units, NEW e, HandleDatabaseBroken(u, e)
    PROVE  CharmTypes' /\ JujuTypes'
<1>1. hook[u] \in ActiveHooks /\ hook[u].todo # <<>>
  BY HandlesActive DEF HandleDatabaseBroken, Handles
<1>2. Consume(Cleared(u, hook[u]), FALSE) \in ActiveHooks
  BY <1>1, ClearedType, ConsumeType
<1>3. hook' \in [Units -> Hooks] /\ HookInv'
  BY <1>2, NewHookTypes DEF HandleDatabaseBroken
<1>4. CharmTypes'
  BY <1>3, StoppedServiceType DEF CharmTypes, HandleDatabaseBroken, Statuses
<1> QED BY <1>4, UncommittedTypes DEF HandleDatabaseBroken

LEMMA HandleMetricsBrokenTypes ==
    ASSUME CharmTypes, JujuTypes, NEW u \in Units, HandleMetricsBroken(u)
    PROVE  CharmTypes' /\ JujuTypes'
<1> DEFINE h == hook[u]
           g == IF leader = u /\ h.seen.ready THEN Write(h, "dsn_metrics", None) ELSE h
<1>1. hook[u] \in ActiveHooks /\ hook[u].todo # <<>>
  BY HandlesActive DEF HandleMetricsBroken, Handles
<1>2. g \in ActiveHooks /\ g.todo # <<>>
  BY <1>1, WriteType DEF Keys
<1>3. Reconfigure(u, g, svc[u])
  BY DEF HandleMetricsBroken
<1>4. CharmTypes'
  BY <1>2, <1>3, ReconfigureTypes, StoppedServiceType
<1> QED BY <1>4, UncommittedTypes DEF HandleMetricsBroken

LEMMA HandleRestartActionTypes ==
    ASSUME CharmTypes, JujuTypes, NEW u \in Units, HandleRestartAction(u)
    PROVE  CharmTypes' /\ JujuTypes'
<1>1. hook[u] \in ActiveHooks /\ hook[u].todo # <<>>
  BY HandlesActive DEF HandleRestartAction, Handles
<1>2. CharmTypes'
  BY <1>1, ReconfigureTypes, StoppedServiceType DEF HandleRestartAction
<1> QED BY <1>2, UncommittedTypes DEF HandleRestartAction

LEMMA HandleTokenActionTypes ==
    ASSUME CharmTypes, JujuTypes, NEW u \in Units, HandleTokenAction(u)
    PROVE  CharmTypes' /\ JujuTypes'
<1>1. hook[u] \in ActiveHooks /\ hook[u].todo # <<>>
  BY HandlesActive DEF HandleTokenAction, Handles
<1>2. ASSUME NEW token \in Tokens \cup {None},
             Reconfigure(u, Write(hook[u], "resource_token", token), svc[u])
      PROVE  CharmTypes'
  <2>1. /\ Write(hook[u], "resource_token", token) \in ActiveHooks
        /\ Write(hook[u], "resource_token", token).todo # <<>>
    BY <1>1, WriteType DEF Keys
  <2> QED BY <1>2, <2>1, ReconfigureTypes, StoppedServiceType
<1>3. CharmTypes'
  BY <1>1, <1>2, SkipTypes DEF HandleTokenAction
<1> QED BY <1>3, UncommittedTypes DEF HandleTokenAction

LEMMA HandleTypes ==
    ASSUME CharmTypes, JujuTypes, NEW u \in Units, Handle(u)
    PROVE  CharmTypes' /\ JujuTypes'
BY HandleReconcilingTypes, HandlePeerChangedTypes, HandleUpdateStatusTypes, HandleStopTypes,
   HandleDatabaseChangedTypes, HandleLegacyJoinedTypes, HandleMasterChangedTypes,
   HandleDatabaseBrokenTypes, HandleMetricsBrokenTypes, HandleRestartActionTypes,
   HandleTokenActionTypes DEF Handle

-----------------------------------------------------------------------------
(* Type correctness of hooks and of the world around them. *)

LEMMA BeginTypes ==
    ASSUME CharmTypes, JujuTypes, NEW u \in Units, NEW k \in Kinds, Begin(u, k)
    PROVE  /\ hook' \in [Units -> Hooks] /\ HookInv'
           /\ hook'[u].wrote = {}
           /\ \A v \in Units \ {u} : hook'[v] = hook[v]
<1> DEFINE todo == IF k = "other" THEN deferred[u] ELSE Append(deferred[u], Notice(k))
           h == [main |-> k, todo |-> todo, kept |-> <<>>, seen |-> Snapshot(u, k),
                 view |-> peer, wrote |-> {}, request |-> FALSE]
<1>1. deferred[u] \in Seq(Notices) /\ Notice(k) \in Notices
  BY DEF JujuTypes, Notices, Notice
<1>2. todo \in Seq(Notices)
  BY <1>1
<1>3. Snapshot(u, k) \in Snapshots
  <2>1. config \in ConfigRecords /\ links \in LinkRecords
    BY SettingsAssumption DEF JujuTypes
  <2>2. [e \in AllEndpoints |-> IF Sees(u, k, e) THEN rel[e] ELSE "absent"]
            \in [AllEndpoints -> RelationData]
    BY DEF JujuTypes, RelationData
  <2>3. (requested /\ Sees(u, k, "database_legacy")) \in BOOLEAN /\ ready \in BOOLEAN
    BY DEF JujuTypes
  <2> DEFINE seenRel == [e \in AllEndpoints |-> IF Sees(u, k, e) THEN rel[e] ELSE "absent"]
             asked == requested /\ Sees(u, k, "database_legacy")
  <2> HIDE DEF seenRel, asked
  <2>4. Snapshot(u, k) = [ready |-> ready, config |-> config, links |-> links,
                          requested |-> asked, rel |-> seenRel]
    BY DEF Snapshot, seenRel, asked
  <2> QED BY <2>1, <2>2, <2>3, <2>4 DEF Snapshots, seenRel, asked
<1>4. k # None
  BY DataAssumption
<1>5. hook' = [hook EXCEPT ![u] = h]
  BY DEF Begin
<1> HIDE DEF todo
<1>6. h \in ActiveHooks
  BY <1>2, <1>3, <1>4 DEF ActiveHooks, Hooks, JujuTypes
<1>7. hook' \in [Units -> Hooks] /\ HookInv'
  BY <1>5, <1>6, NewHookTypes
<1> QED BY <1>5, <1>7 DEF CharmTypes

LEMMA StartTypes ==
    ASSUME CharmTypes, JujuTypes, NEW u \in Units,
           \/ \E k \in Kinds : StartHook(u, k)
           \/ StartUpdateStatus(u)
           \/ \E a \in Actions : StartAction(u, a)
    PROVE  CharmTypes' /\ JujuTypes'
<1>1. ASSUME NEW k \in Kinds, StartHook(u, k) PROVE CharmTypes' /\ JujuTypes'
  BY <1>1, BeginTypes DEF StartHook, CharmTypes, JujuTypes, worldVars
<1>2. CASE StartUpdateStatus(u)
  <2>1. "update_status" \in Kinds
    BY DEF Kinds
  <2> QED BY <1>2, <2>1, BeginTypes DEF StartUpdateStatus, CharmTypes, JujuTypes, worldVars, jujuVars
<1>3. ASSUME NEW a \in Actions, StartAction(u, a) PROVE CharmTypes' /\ JujuTypes'
  <2>1. a \in Kinds
    BY DEF Kinds
  <2>2. spent' \in 0..MaxDisturbances
    BY <1>3, DisturbTypes DEF StartAction, CharmTypes
  <2> QED BY <1>3, <2>1, <2>2, BeginTypes DEF StartAction, CharmTypes, JujuTypes, jujuVars
<1> QED BY <1>1, <1>2, <1>3

LEMMA CommitTypes ==
    ASSUME CharmTypes, JujuTypes, NEW u \in Units, hook[u].main # None,
           NEW again \in SUBSET Kinds, Commit(u, again)
    PROVE  /\ hook' \in [Units -> Hooks] /\ HookInv'
           /\ hook'[u] = IdleHook
           /\ \A v \in Units \ {u} : hook'[v] = hook[v]
           /\ peer' \in Databag
           /\ pending' \in [Units -> SUBSET Kinds]
           /\ deferred' \in [Units -> Seq(Notices)]
           /\ requested' \in BOOLEAN
<1>1. hook[u] \in ActiveHooks
  BY DEF CharmTypes, HookInv, IdleHooks
<1>2. hook' \in [Units -> Hooks] /\ HookInv'
  BY IdleHookType, NewHookTypes DEF Commit
<1>3. peer' \in Databag
  BY <1>1 DEF Commit, Databag, JujuTypes, ActiveHooks, Keys
<1>4. pending' \in [Units -> SUBSET Kinds]
  BY KindsOfEndpoints DEF Commit, JujuTypes
<1>5. deferred' \in [Units -> Seq(Notices)]
  <2>1. hook[u].kept \in Seq(Notices)
    BY <1>1 DEF ActiveHooks, Hooks
  <2> QED BY <2>1 DEF Commit, JujuTypes
<1>6. requested' \in BOOLEAN
  BY <1>1 DEF Commit, JujuTypes, ActiveHooks, Hooks
<1> QED BY <1>2, <1>3, <1>4, <1>5, <1>6 DEF Commit, CharmTypes

LEMMA EndTypes ==
    ASSUME CharmTypes, JujuTypes, NEW u \in Units, EndHook(u) \/ EndStop(u)
    PROVE  CharmTypes' /\ JujuTypes'
<1>1. CASE EndHook(u)
  BY <1>1, CommitTypes DEF EndHook, CharmTypes, JujuTypes
<1>2. CASE EndStop(u)
  <2>1. hook[u].main # None /\ {"config_changed", "start"} \in SUBSET Kinds
    BY <1>2, KindsOfEndpoints, DataAssumption DEF EndStop
  <2> QED BY <1>2, <2>1, CommitTypes DEF EndStop, CharmTypes, JujuTypes
<1> QED BY <1>1, <1>2

LEMMA AgedType ==
    ASSUME NEW s \in Seq(Notices), NEW e
    PROVE  Aged(s, e) \in Seq(Notices)
<1>1. \A i \in 1..Len(s) : s[i] \in Notices
  OBVIOUS
<1>2. \A i \in 1..Len(s) :
        [s[i] EXCEPT !.old = @ \/ s[i].kind \in StaleKinds(e) \cup {Broken(e)}] \in Notices
  BY <1>1 DEF Notices
<1> QED BY <1>2 DEF Aged

LEMMA GoneTypes ==
    ASSUME CharmTypes, JujuTypes, NEW e \in Endpoints, Gone(e)
    PROVE  /\ CharmTypes' /\ JujuTypes'
           /\ \A u \in Units : hook'[u].wrote = hook[u].wrote /\ hook'[u].main = hook[u].main
<1> DEFINE aged(u) == [hook[u] EXCEPT !.todo = Aged(@, e), !.kept = Aged(@, e)]
<1>1. ASSUME NEW u \in Units
      PROVE  /\ aged(u) \in Hooks
             /\ hook[u] \in IdleHooks => aged(u) \in IdleHooks
             /\ hook[u] \in ActiveHooks => aged(u) \in ActiveHooks
             /\ aged(u).wrote = hook[u].wrote /\ aged(u).main = hook[u].main
  <2> DEFINE todo == Aged(hook[u].todo, e)
             kept == Aged(hook[u].kept, e)
  <2>1. hook[u] \in Hooks
    BY DEF CharmTypes
  <2>2. todo \in Seq(Notices) /\ kept \in Seq(Notices)
    BY <2>1, AgedType DEF Hooks
  <2>3. aged(u) = [hook[u] EXCEPT !.todo = todo, !.kept = kept]
    BY <2>1 DEF Hooks
  <2>4. Aged(<<>>, e) = <<>>
    BY DEF Aged
  <2>5. hook[u].todo = <<>> => todo = <<>>
    BY <2>4
  <2> HIDE DEF todo, kept
  <2> QED BY <2>1, <2>2, <2>3, <2>5 DEF Hooks, ActiveHooks, IdleHooks
<1>2. hook' = [u \in Units |-> aged(u)]
  BY DEF Gone
<1> HIDE DEF aged
<1>3. hook' \in [Units -> Hooks]
  BY <1>1, <1>2
<1>4. HookInv'
  BY <1>1, <1>2 DEF HookInv, CharmTypes
<1>5. deferred' \in [Units -> Seq(Notices)]
  BY AgedType DEF Gone, JujuTypes
<1>6. rel' \in [AllEndpoints -> RelationData]
  BY DEF Gone, JujuTypes, RelationData
<1> QED BY <1>1, <1>2, <1>3, <1>4, <1>5, <1>6 DEF Gone, CharmTypes, JujuTypes, jujuVars

(* No handler runs: the hooks, the notices and the statuses stay. *)
LEMMA WorldTypes ==
    ASSUME CharmTypes, JujuTypes,
           \/ PeerRelationCreated
           \/ \E u \in Units, c \in {"livepatch", "schema"} : ContainerUp(u, c) \/ ContainerDown(u, c)
           \/ \E u \in Units : PodStop(u) \/ ElectLeader(u) \/ Resolve(u)
           \/ ChangeConfig
           \/ ChangeLinks
           \/ \E e \in Endpoints : Integrate(e) \/ Publish(e) \/ Remove(e)
    PROVE  CharmTypes' /\ JujuTypes' /\ hook' = hook
<1> USE KindsOfEndpoints, EndpointsAssumption
<1>1. CASE PeerRelationCreated
  <2>1. "other" \in Kinds
    BY DEF Kinds
  <2> QED BY <1>1, <2>1 DEF PeerRelationCreated, Notify, CharmTypes, JujuTypes, HookInv, charmVars, worldVars
<1>2. ASSUME NEW u \in Units, NEW c \in {"livepatch", "schema"}, ContainerUp(u, c)
      PROVE  CharmTypes' /\ JujuTypes' /\ hook' = hook
  <2>1. {"other", "livepatch_pebble_ready"} \subseteq Kinds
    BY DEF Kinds, ReconcilingKinds
  <2> QED BY <1>2, <2>1 DEF ContainerUp, Notify, CharmTypes, JujuTypes, HookInv, charmVars
<1>3. ASSUME NEW u \in Units, NEW c \in {"livepatch", "schema"}, ContainerDown(u, c)
      PROVE  CharmTypes' /\ JujuTypes' /\ hook' = hook
  <2>1. spent' \in 0..MaxDisturbances
    BY <1>3, DisturbTypes DEF ContainerDown, CharmTypes
  <2> QED BY <1>3, <2>1 DEF ContainerDown, CharmTypes, JujuTypes, HookInv, jujuVars
<1>4. ASSUME NEW u \in Units, PodStop(u) PROVE CharmTypes' /\ JujuTypes' /\ hook' = hook
  <2>1. "stop" \in Kinds
    BY DEF Kinds
  <2>2. spent' \in 0..MaxDisturbances
    BY <1>4, DisturbTypes DEF PodStop, CharmTypes
  <2> QED BY <1>4, <2>1, <2>2 DEF PodStop, Notify, CharmTypes, JujuTypes, HookInv, charmVars
<1>5. ASSUME NEW u \in Units, ElectLeader(u) PROVE CharmTypes' /\ JujuTypes' /\ hook' = hook
  <2>1. "leader_elected" \in Kinds
    BY DEF Kinds, ReconcilingKinds
  <2>2. spent' \in 0..MaxDisturbances
    BY <1>5, DisturbTypes DEF ElectLeader, CharmTypes
  <2> QED BY <1>5, <2>1, <2>2 DEF ElectLeader, CharmTypes, JujuTypes, HookInv, charmVars
<1>6. ASSUME NEW u \in Units, Resolve(u) PROVE CharmTypes' /\ JujuTypes' /\ hook' = hook
  <2>1. spent' \in 0..MaxDisturbances
    BY <1>6, DisturbTypes DEF Resolve, CharmTypes
  <2> QED BY <1>6, <2>1 DEF Resolve, CharmTypes, JujuTypes, HookInv, charmVars
<1>7. CASE ChangeConfig
  <2>1. "config_changed" \in Kinds
    BY DEF Kinds, ReconcilingKinds
  <2>2. spent' \in 0..MaxDisturbances
    BY <1>7, DisturbTypes DEF ChangeConfig, CharmTypes
  <2> QED BY <1>7, <2>1, <2>2 DEF ChangeConfig, Notify, CharmTypes, JujuTypes, HookInv, charmVars
<1>8. CASE ChangeLinks
  <2>1. "integration_changed" \in Kinds
    BY DEF Kinds, ReconcilingKinds
  <2>2. spent' \in 0..MaxDisturbances
    BY <1>8, DisturbTypes DEF ChangeLinks, CharmTypes
  <2> QED BY <1>8, <2>1, <2>2 DEF ChangeLinks, Notify, CharmTypes, JujuTypes, HookInv, charmVars
<1>9. ASSUME NEW e \in Endpoints, Integrate(e) PROVE CharmTypes' /\ JujuTypes' /\ hook' = hook
  <2>1. spent' \in 0..MaxDisturbances
    BY <1>9, DisturbTypes DEF Integrate, CharmTypes
  <2> QED BY <1>9, <2>1 DEF Integrate, Notify, CharmTypes, JujuTypes, HookInv, charmVars, RelationData
<1>10. ASSUME NEW e \in Endpoints, Publish(e) PROVE CharmTypes' /\ JujuTypes' /\ hook' = hook
  <2>1. spent' \in 0..MaxDisturbances
    BY <1>10, DisturbTypes DEF Publish, CharmTypes
  <2> QED BY <1>10, <2>1 DEF Publish, Notify, CharmTypes, JujuTypes, HookInv, charmVars, RelationData
<1>11. ASSUME NEW e \in Endpoints, Remove(e) PROVE CharmTypes' /\ JujuTypes' /\ hook' = hook
  <2>1. spent' \in 0..MaxDisturbances
    BY <1>11, DisturbTypes DEF Remove, CharmTypes
  <2> QED BY <1>11, <2>1 DEF Remove, CharmTypes, JujuTypes, HookInv, charmVars
<1> QED BY <1>1, <1>2, <1>3, <1>4, <1>5, <1>6, <1>7, <1>8, <1>9, <1>10, <1>11

(* A hook that raises in the middle of a handler.                             *)
LEMMA CutFields ==
    ASSUME CharmTypes, NEW u \in Units, CutShort(u)
    PROVE  /\ svc' = [svc EXCEPT ![u] = Stopped] /\ svc'[u] = Stopped
           /\ status' \in [Units -> Statuses]
           /\ \A v \in Units \ {u} : svc'[v] = svc[v] /\ status'[v] = status[v]
           /\ status'[u] = "active" => status[u] = "active" \/ Running(u)
<1>1. svc' = [svc EXCEPT ![u] = Stopped]
  BY DEF CutShort
<1>2. \E s \in {status[u], "waiting"} \cup RunningStatus(u) : status' = [status EXCEPT ![u] = s]
  BY DEF CutShort
<1>3. PICK s \in {status[u], "waiting"} \cup RunningStatus(u) : status' = [status EXCEPT ![u] = s]
  BY <1>2
<1>4. status \in [Units -> Statuses] /\ {"waiting", "active"} \subseteq Statuses
  BY DEF CharmTypes, Statuses
<1>5. s \in {status[u], "waiting", "active"} /\ (s = "active" => status[u] = "active" \/ Running(u))
  BY <1>3 DEF RunningStatus
<1> QED BY <1>1, <1>3, <1>4, <1>5 DEF CharmTypes

LEMMA CrashTypes ==
    ASSUME CharmTypes, JujuTypes, NEW u \in Units, Crash(u)
    PROVE  CharmTypes' /\ JujuTypes'
<1>1. hook[u].main # None
  BY DEF Crash, Idle
<1>2. spent' \in 0..MaxDisturbances
  BY DisturbTypes DEF Crash, CharmTypes
<1>3. svc' \in [Units -> Environments \cup {NoPlan, Stopped}] /\ status' \in [Units -> Statuses]
  <2>1. CASE UNCHANGED <<svc, status>>
    BY <2>1 DEF CharmTypes
  <2>2. CASE CutShort(u)
    BY <2>2, CutFields DEF CharmTypes
  <2> QED BY <2>1, <2>2 DEF Crash
<1> QED BY <1>1, <1>2, <1>3, RaiseTypes DEF Crash, CharmTypes, JujuTypes

(* What the boot leaves to a unit that has no connection yet. *)
LEMMA BootNoticesType ==
    ASSUME NEW u \in Units
    PROVE  BootNotices(u) \in Seq(Notices)
<1> DEFINE kinds == <<"config_changed", "start", "livepatch_pebble_ready">>
           all == IF u = leader THEN <<"leader_elected">> \o kinds
                  ELSE Append(kinds, "livepatch_relation_changed")
<1>1. /\ kinds \in Seq(Kinds) /\ <<"leader_elected">> \in Seq(Kinds)
      /\ "livepatch_relation_changed" \in Kinds
  BY DEF Kinds, ReconcilingKinds
<1> HIDE DEF kinds
<1>2. all \in Seq(Kinds)
  BY <1>1
<1> HIDE DEF all
<1>3. [i \in 1..Len(all) |-> Notice(all[i])] \in Seq(Notices)
  BY <1>2 DEF Notice, Notices
<1> QED BY <1>3 DEF BootNotices, all, kinds

LEMMA InitTypes == Init \/ Deployed => TypeInv
<1> SUFFICES ASSUME Init \/ Deployed PROVE CharmTypes /\ JujuTypes
  BY TypeInvParts
<1> USE DEF CharmTypes, JujuTypes
<1>1. IdleHook \in Hooks /\ IdleHook \in IdleHooks
  BY IdleHookType DEF IdleHooks
<1>2. [k \in Keys |-> None] \in Databag
  BY DEF Databag, Keys
<1>3. {"config_changed", "start", "leader_elected"} \subseteq Kinds
  BY DEF Kinds, ReconcilingKinds
<1>4. 0 \in 0..MaxDisturbances
  BY BoundAssumption
<1>5. CASE Init
  <2>1. JujuTypes
    <3>1. pending \in [Units -> SUBSET Kinds]
      BY <1>3, <1>5 DEF Init
    <3>2. <<>> \in Seq(Notices)
      OBVIOUS
    <3>3. deferred \in [Units -> Seq(Notices)]
      BY <1>5, <3>2 DEF Init
    <3>4. rel \in [AllEndpoints -> RelationData] /\ failed \in [Units -> Kinds \cup {None}]
      BY <1>5 DEF Init, RelationData
    <3> QED BY <1>2, <1>5, <3>1, <3>3, <3>4 DEF Init
  <2>2. hook \in [Units -> Hooks] /\ HookInv
    BY <1>1, <1>5 DEF Init, HookInv
  <2>3. /\ conn \in [Units -> SUBSET {"livepatch", "schema"}]
        /\ svc \in [Units -> Environments \cup {NoPlan, Stopped}]
    BY <1>5 DEF Init
  <2>4. status \in [Units -> Statuses] /\ spent \in 0..MaxDisturbances
    BY <1>4, <1>5 DEF Init, Statuses
  <2> QED BY <2>1, <2>2, <2>3, <2>4
<1>6. ASSUME Deployed,
             rel \in [AllEndpoints -> RelationData], requested \in BOOLEAN, peer \in Databag,
             deferred \in [Units -> Seq(Notices)],
             svc \in [Units -> Environments \cup {NoPlan, Stopped}],
             status \in [Units -> Statuses]
      PROVE  CharmTypes /\ JujuTypes
  <2>1. hook \in [Units -> Hooks] /\ HookInv
    BY <1>1, <1>6 DEF Deployed, HookInv
  <2>2. pending \in [Units -> SUBSET Kinds] /\ failed \in [Units -> Kinds \cup {None}]
    BY <1>6 DEF Deployed
  <2>3. conn \in [Units -> SUBSET {"livepatch", "schema"}] /\ spent \in 0..MaxDisturbances
    BY <1>4, <1>6 DEF Deployed
  <2> QED BY <1>6, <2>1, <2>2, <2>3 DEF Deployed
<1>7. ASSUME Deployed, Unintegrated PROVE CharmTypes /\ JujuTypes
  <2>1. deferred \in [Units -> Seq(Notices)]
    BY <1>7, BootNoticesType DEF Unintegrated
  <2> QED BY <1>2, <1>6, <1>7, <2>1 DEF Unintegrated, RelationData, Statuses
<1>8. ASSUME Deployed, Serving PROVE CharmTypes /\ JujuTypes
  <2>1. PICK c \in Creds, token \in Tokens \cup {None}, e \in Endpoints :
            /\ rel = [f \in AllEndpoints |-> IF f = e THEN c ELSE "absent"]
            /\ requested = (e = "database_legacy")
            /\ peer = [k \in Keys |->
                  CASE k = "dsn" -> c [] k = "dsn_metrics" -> None [] k = "resource_token" -> token]
            /\ deferred = [u \in Units |-> <<>>]
            /\ svc = [u \in Units |->
                        [dsn |-> c, dsn_metrics |-> None, is_leader |-> u = leader]]
            /\ status = [u \in Units |-> "active"]
    BY <1>8, ZenonT(30) DEF Serving
  <2>2. peer \in Databag
    BY <2>1 DEF Databag, Keys
  <2>3. svc \in [Units -> Environments \cup {NoPlan, Stopped}]
    BY <2>1 DEF Environments
  <2>4. rel \in [AllEndpoints -> RelationData] /\ requested \in BOOLEAN
    BY <2>1 DEF RelationData
  <2>5. status \in [Units -> Statuses]
    BY <2>1 DEF Statuses
  <2>6. <<>> \in Seq(Notices)
    OBVIOUS
  <2>7. deferred \in [Units -> Seq(Notices)]
    BY <2>1, <2>6
  <2> QED BY <1>6, <1>8, <2>2, <2>3, <2>4, <2>5, <2>7
<1> QED BY <1>5, <1>7, <1>8 DEF Deployed

LEMMA NextTypes == TypeInv /\ [Next]_vars => TypeInv'
<1> SUFFICES ASSUME CharmTypes, JujuTypes, [Next]_vars PROVE CharmTypes' /\ JujuTypes'
  BY TypeInvParts, TypeInvPartsNext
<1>1. ASSUME NEW u \in Units, UnitStep(u) \/ StartUpdateStatus(u)
      PROVE  CharmTypes' /\ JujuTypes'
  BY <1>1, StartTypes, HandleTypes, EndTypes DEF UnitStep
<1>2. CASE World
  BY <1>2, StartTypes, CrashTypes, WorldTypes DEF World
<1>3. ASSUME NEW e \in Endpoints, Gone(e) PROVE CharmTypes' /\ JujuTypes'
  BY <1>3, GoneTypes
<1>4. CASE PeerRelationCreated \/ \E u \in Units, c \in {"livepatch", "schema"} : ContainerUp(u, c)
  BY <1>4, WorldTypes
<1>5. CASE UNCHANGED vars
  BY <1>5 DEF vars, charmVars, jujuVars, worldVars, CharmTypes, JujuTypes, HookInv
<1> QED BY <1>1, <1>2, <1>3, <1>4, <1>5 DEF Next

(* Every reachable state of a charm deployed from nothing is well typed: in   *)
(* particular no service is ever started without a connection string, and no *)
(* databag key ever holds a value of another key.                            *)
THEOREM TypeCorrect == Spec => []TypeOK
<1>1. Init => TypeInv
  BY InitTypes
<1>2. TypeInv => TypeOK
  BY DEF TypeInv
<1> QED BY <1>1, <1>2, NextTypes, PTL DEF Spec

(* The same from the deployed states that the larger instances start from.   *)
THEOREM DeployedTypeCorrect == DeployedSpec => []TypeOK
<1>1. Deployed => TypeInv
  BY InitTypes
<1>2. TypeInv => TypeOK
  BY DEF TypeInv
<1> QED BY <1>1, <1>2, NextTypes, PTL DEF DeployedSpec

-----------------------------------------------------------------------------
(* Only the leader writes the databag. The reason: a hook that has written a  *)
(* key still holds the lease, because the lease only moves between hooks.    *)
WriterLeads == \A u \in Units : hook[u].wrote # {} => leader = u

(* What a handler may do to the hook it runs in.                             *)
WritesAsLeader(u) ==
    /\ hook'[u].wrote = hook[u].wrote \/ leader = u \/ hook'[u].wrote = {}
    /\ \A v \in Units \ {u} : hook'[v] = hook[v]
    /\ leader' = leader
    /\ peer' = peer

LEMMA SkipWrites ==
    ASSUME CharmTypes, NEW u \in Units, NEW d \in BOOLEAN, hook[u].todo # <<>>, Skip(u, d),
           UNCHANGED Uncommitted
    PROVE  WritesAsLeader(u)
<1>1. Consume(hook[u], d).wrote = hook[u].wrote
  BY HandlesActive, ConsumeType
<1>2. hook' = [hook EXCEPT ![u] = Consume(hook[u], d)]
  BY DEF Skip, CharmTypes
<1> QED BY <1>1, <1>2 DEF WritesAsLeader, CharmTypes, Uncommitted, jujuVars

LEMMA ReconfigureWrites ==
    ASSUME CharmTypes, NEW u \in Units, NEW h \in ActiveHooks, h.todo # <<>>,
           h.wrote = hook[u].wrote \/ leader = u,
           NEW before, Reconfigure(u, h, before), UNCHANGED Uncommitted
    PROVE  WritesAsLeader(u)
<1>1. PICK d \in BOOLEAN : hook' = [hook EXCEPT ![u] = Consume(h, d)]
  <2> DEFINE deferring == Defers(Outcome(InputsOf(u, h)))
  <2>1. deferring \in BOOLEAN
    BY DEF Defers
  <2>2. \/ hook' = [hook EXCEPT ![u] = Consume(h, deferring)]
        \/ hook' = [hook EXCEPT ![u] = Consume(h, FALSE)]
    BY DEF Reconfigure
  <2> QED BY <2>1, <2>2
<1>2. Consume(h, d).wrote = h.wrote
  BY ConsumeType
<1> QED BY <1>1, <1>2 DEF WritesAsLeader, CharmTypes, Uncommitted, jujuVars

LEMMA RaiseWrites ==
    ASSUME CharmTypes, NEW u \in Units, Raise(u), leader' = leader, peer' = peer
    PROVE  WritesAsLeader(u)
BY DEF Raise, WritesAsLeader, CharmTypes, IdleHook

(* Every handler writes as the leader or not at all. *)
LEMMA HandleWrites ==
    ASSUME CharmTypes, JujuTypes, NEW u \in Units, Handle(u)
    PROVE  WritesAsLeader(u)
<1> DEFINE h == hook[u]
<1>1. h \in ActiveHooks /\ h.todo # <<>>
  BY HandlesActive DEF Handle, HandleReconciling, HandlePeerChanged, HandleUpdateStatus,
     HandleStop, HandleDatabaseChanged, HandleLegacyJoined, HandleMasterChanged,
     HandleDatabaseBroken, HandleMetricsBroken, HandleRestartAction, HandleTokenAction, Handles
<1>2. (~h.seen.ready) \in BOOLEAN /\ (~h.seen.requested) \in BOOLEAN
  OBVIOUS
<1>3. CASE HandleReconciling(u) \/ HandlePeerChanged(u) \/ HandleRestartAction(u)
  BY <1>1, <1>3, SkipWrites, ReconfigureWrites
     DEF HandleReconciling, HandlePeerChanged, HandleRestartAction
<1>4. CASE HandleUpdateStatus(u) \/ HandleStop(u)
  <2>1. hook' = [hook EXCEPT ![u] = Consume(h, FALSE)]
    BY <1>4 DEF HandleUpdateStatus, HandleStop, CharmTypes
  <2>2. Consume(h, FALSE).wrote = h.wrote
    BY <1>1, ConsumeType
  <2> QED BY <1>4, <2>1, <2>2
       DEF HandleUpdateStatus, HandleStop, WritesAsLeader, CharmTypes, Uncommitted, jujuVars
<1>5. ASSUME NEW e \in {"database", "metrics_db"}, HandleDatabaseChanged(u, e)
      PROVE  WritesAsLeader(u)
  <2> DEFINE key == IF e = "metrics_db" THEN "dsn_metrics" ELSE "dsn"
             g == Write(h, key, h.seen.rel[e])
  <2>1. CASE leader = u /\ Raise(u) /\ UNCHANGED <<leader, peer>>
    BY <2>1, RaiseWrites
  <2>2. CASE (Skip(u, FALSE) \/ Skip(u, TRUE)) /\ UNCHANGED Uncommitted
    BY <1>1, <2>2, SkipWrites
  <2>3. CASE leader = u /\ h.seen.rel[e] \in Creds /\ Reconfigure(u, g, svc[u]) /\ UNCHANGED Uncommitted
    <3>1. g \in ActiveHooks /\ g.todo # <<>>
      BY <1>1, <2>3, WriteType DEF Keys
    <3> HIDE DEF g
    <3> QED BY <2>3, <3>1, ReconfigureWrites
  <2> QED BY <1>5, <2>1, <2>2, <2>3 DEF HandleDatabaseChanged
<1>6. CASE HandleLegacyJoined(u)
  <2> DEFINE asked == h.seen.rel["database_legacy"] # "absent"
  <2>1. CASE Raise(u) /\ UNCHANGED <<leader, peer>>
    BY <2>1, RaiseWrites
  <2>2. CASE UNCHANGED Uncommitted /\ \E d \in BOOLEAN : Skip(u, d)
    BY <1>1, <2>2, SkipWrites
  <2>3. CASE /\ leader = u
             /\ hook' = [hook EXCEPT ![u] = [Consume(h, FALSE) EXCEPT !.request = asked]]
             /\ UNCHANGED Uncommitted
    BY <2>3 DEF WritesAsLeader, CharmTypes, Uncommitted, jujuVars
  <2> QED BY <1>2, <1>6, <2>1, <2>2, <2>3 DEF HandleLegacyJoined
<1>7. CASE HandleMasterChanged(u)
  <2> DEFINE master == h.seen.rel["database_legacy"]
             g == IF leader = u /\ master \in Creds THEN Write(h, "dsn", master) ELSE h
  <2>1. g \in ActiveHooks /\ g.todo # <<>> /\ (g.wrote = h.wrote \/ leader = u)
    BY <1>1, WriteType DEF Keys
  <2>2. Skip(u, ~h.seen.ready) \/ Reconfigure(u, g, svc[u])
    BY <1>7 DEF HandleMasterChanged
  <2>3. UNCHANGED Uncommitted
    BY <1>7 DEF HandleMasterChanged
  <2> HIDE DEF g
  <2> QED BY <1>1, <1>2, <2>1, <2>2, <2>3, SkipWrites, ReconfigureWrites
<1>8. ASSUME NEW e, HandleDatabaseBroken(u, e) PROVE WritesAsLeader(u)
  <2> DEFINE g == Cleared(u, h)
  <2>1. g \in ActiveHooks /\ g.todo # <<>> /\ (g.wrote = h.wrote \/ leader = u)
    BY <1>1, ClearedType DEF Cleared
  <2>2. hook' = [hook EXCEPT ![u] = Consume(g, FALSE)] /\ UNCHANGED Uncommitted
    BY <1>8 DEF HandleDatabaseBroken
  <2> HIDE DEF g
  <2>3. Consume(g, FALSE).wrote = g.wrote
    BY <2>1, ConsumeType
  <2> QED BY <2>1, <2>2, <2>3 DEF WritesAsLeader, CharmTypes, Uncommitted, jujuVars
<1>9. CASE HandleMetricsBroken(u)
  <2> DEFINE g == IF leader = u /\ h.seen.ready THEN Write(h, "dsn_metrics", None) ELSE h
  <2>1. g \in ActiveHooks /\ g.todo # <<>> /\ (g.wrote = h.wrote \/ leader = u)
    BY <1>1, WriteType DEF Keys
  <2>2. Reconfigure(u, g, svc[u]) /\ UNCHANGED Uncommitted
    BY <1>9 DEF HandleMetricsBroken
  <2> HIDE DEF g
  <2> QED BY <2>1, <2>2, ReconfigureWrites
<1>10. CASE HandleTokenAction(u)
  <2>1. ASSUME leader = u, NEW token \in Tokens \cup {None},
               Reconfigure(u, Write(h, "resource_token", token), svc[u]),
               UNCHANGED Uncommitted
        PROVE  WritesAsLeader(u)
    <3> DEFINE g == Write(h, "resource_token", token)
    <3>1. g \in ActiveHooks /\ g.todo # <<>>
      BY <1>1, WriteType DEF Keys
    <3> HIDE DEF g
    <3> QED BY <2>1, <3>1, ReconfigureWrites DEF g
  <2> QED BY <1>1, <1>10, <2>1, SkipWrites DEF HandleTokenAction
<1> QED BY <1>3, <1>4, <1>5, <1>6, <1>7, <1>8, <1>9, <1>10 DEF Handle

LEMMA WriterLeadsNext == TypeInv /\ WriterLeads /\ [Next]_vars => WriterLeads'
<1> SUFFICES ASSUME CharmTypes, JujuTypes, WriterLeads, [Next]_vars PROVE WriterLeads'
  BY TypeInvParts
<1>1. ASSUME NEW u \in Units, WritesAsLeader(u) PROVE WriterLeads'
  BY <1>1 DEF WriterLeads, WritesAsLeader
<1>2. ASSUME NEW u \in Units, NEW k \in Kinds, Begin(u, k), leader' = leader PROVE WriterLeads'
  BY <1>2, BeginTypes DEF WriterLeads
<1>3. ASSUME NEW u \in Units, StartUpdateStatus(u) \/ \E k \in Kinds : StartHook(u, k)
      PROVE  WriterLeads'
  <2>1. "update_status" \in Kinds
    BY DEF Kinds
  <2> QED BY <1>2, <1>3, <2>1 DEF StartUpdateStatus, StartHook, jujuVars
<1>4. ASSUME NEW u \in Units, EndHook(u) \/ EndStop(u) PROVE WriterLeads'
  BY <1>4 DEF EndHook, EndStop, Commit, IdleHook, WriterLeads, CharmTypes
<1>5. ASSUME NEW u \in Units, NEW a \in Actions, StartAction(u, a) PROVE WriterLeads'
  <2>1. a \in Kinds
    BY DEF Kinds
  <2> QED BY <1>2, <1>5, <2>1 DEF StartAction, jujuVars
<1>6. ASSUME NEW u \in Units, Crash(u) PROVE WriterLeads'
  BY <1>6 DEF Crash, Raise, IdleHook, WriterLeads, CharmTypes
<1>7. ASSUME NEW u \in Units, ElectLeader(u) PROVE WriterLeads'
  <2>1. hook[leader] \in IdleHooks
    BY <1>7 DEF ElectLeader, Idle, CharmTypes, HookInv, ActiveHooks, JujuTypes
  <2>2. hook[leader].wrote = {}
    BY <2>1 DEF IdleHooks
  <2>3. \A v \in Units : hook[v].wrote = {}
    BY <2>2 DEF WriterLeads
  <2> QED BY <1>7, <2>3 DEF ElectLeader, WriterLeads, charmVars
<1>8. ASSUME NEW u \in Units, PodStop(u) \/ Resolve(u) PROVE WriterLeads'
  BY <1>8 DEF PodStop, Resolve, WriterLeads, charmVars
<1>9. ASSUME NEW u \in Units, NEW c, ContainerUp(u, c) \/ ContainerDown(u, c) PROVE WriterLeads'
  BY <1>9 DEF ContainerUp, ContainerDown, WriterLeads, charmVars, jujuVars
<1>10. CASE PeerRelationCreated \/ ChangeConfig \/ ChangeLinks
  BY <1>10 DEF PeerRelationCreated, ChangeConfig, ChangeLinks, WriterLeads, charmVars
<1>11. ASSUME NEW e \in Endpoints, Integrate(e) \/ Publish(e) \/ Remove(e) PROVE WriterLeads'
  BY <1>11 DEF Integrate, Publish, Remove, WriterLeads, charmVars
<1>12. ASSUME NEW e \in Endpoints, Gone(e) PROVE WriterLeads'
  BY <1>12, GoneTypes DEF WriterLeads, Gone, jujuVars
<1>13. CASE UNCHANGED vars
  BY <1>13 DEF vars, charmVars, jujuVars, WriterLeads
<1> QED BY <1>1, <1>3, <1>4, <1>5, <1>6, <1>7, <1>8, <1>9, <1>10, <1>11, <1>12, <1>13, HandleWrites
     DEF Next, UnitStep, World

(* The action that OnlyLeaderWrites asks of every step. *)
LeaderWrites ==
    peer' # peer => /\ ~Idle(leader)
                    /\ Idle(leader)'
                    /\ \A u \in Units \ {leader} : hook'[u] = hook[u]

LEMMA CommitWrites ==
    ASSUME CharmTypes, JujuTypes, WriterLeads, NEW u \in Units, hook[u].main # None,
           NEW again \in SUBSET Kinds, Commit(u, again), leader' = leader
    PROVE  LeaderWrites
<1>1. peer' # peer => hook[u].wrote # {}
  BY DEF Commit, JujuTypes, Databag
<1>2. peer' # peer => leader = u
  BY <1>1 DEF WriterLeads
<1>3. hook'[u] = IdleHook /\ \A v \in Units \ {u} : hook'[v] = hook[v]
  BY CommitTypes
<1> QED BY <1>2, <1>3 DEF LeaderWrites, Idle, IdleHook

LEMMA LeaderWritesNext == TypeInv /\ WriterLeads /\ [Next]_vars => LeaderWrites
<1> SUFFICES ASSUME CharmTypes, JujuTypes, WriterLeads, [Next]_vars PROVE LeaderWrites
  BY TypeInvParts
<1>1. CASE peer' = peer
  BY <1>1 DEF LeaderWrites
<1>2. ASSUME NEW u \in Units, EndHook(u) \/ EndStop(u) PROVE LeaderWrites
  <2>1. hook[u].main # None /\ {"config_changed", "start"} \in SUBSET Kinds
    BY <1>2, KindsOfEndpoints, DataAssumption DEF EndHook, EndStop
  <2> QED BY <1>2, <2>1, CommitWrites DEF EndHook, EndStop
<1>3. ASSUME NEW u \in Units, Handle(u) PROVE peer' = peer
  BY <1>3, HandleWrites DEF WritesAsLeader
<1>4. ASSUME NEW u \in Units, StartUpdateStatus(u) \/ \E k \in Kinds : StartHook(u, k)
      PROVE  peer' = peer
  BY <1>4 DEF StartUpdateStatus, StartHook
<1>5. CASE World
  BY <1>5 DEF World, StartAction, ContainerDown, PodStop, ElectLeader, Crash, Resolve,
     ChangeConfig, ChangeLinks, Integrate, Publish, Remove, LeaderWrites
<1>6. ASSUME NEW u \in Units, NEW c, ContainerUp(u, c) PROVE peer' = peer
  BY <1>6 DEF ContainerUp
<1>7. CASE PeerRelationCreated \/ (\E e \in Endpoints : Gone(e)) \/ UNCHANGED vars
  BY <1>7 DEF PeerRelationCreated, Gone, vars, LeaderWrites
<1> QED BY <1>1, <1>2, <1>3, <1>4, <1>5, <1>6, <1>7 DEF Next, UnitStep

LEMMA WriterLeadsInit == Init \/ Deployed => WriterLeads
BY DEF Init, Deployed, WriterLeads, IdleHook

(* The databag changes only when a hook of the unit that holds the lease     *)
(* commits, whichever unit handled the database's event and however the      *)
(* leadership moves.                                                         *)
THEOREM OnlyLeader == Spec => OnlyLeaderWrites
<1>1. Init => TypeInv /\ WriterLeads
  BY InitTypes, WriterLeadsInit
<1>2. TypeInv /\ WriterLeads /\ [Next]_vars => (TypeInv /\ WriterLeads)' /\ [LeaderWrites]_vars
  BY NextTypes, WriterLeadsNext, LeaderWritesNext
<1>3. Spec => [][LeaderWrites]_vars
  BY <1>1, <1>2, PTL DEF Spec
<1> QED BY <1>3 DEF OnlyLeaderWrites, LeaderWrites

(* The same from the deployed states.                                        *)
THEOREM DeployedOnlyLeader == DeployedSpec => OnlyLeaderWrites
<1>1. Deployed => TypeInv /\ WriterLeads
  BY InitTypes, WriterLeadsInit
<1>2. TypeInv /\ WriterLeads /\ [Next]_vars => (TypeInv /\ WriterLeads)' /\ [LeaderWrites]_vars
  BY NextTypes, WriterLeadsNext, LeaderWritesNext
<1>3. DeployedSpec => [][LeaderWrites]_vars
  BY <1>1, <1>2, PTL DEF DeployedSpec
<1> QED BY <1>3 DEF OnlyLeaderWrites, LeaderWrites
=============================================================================
