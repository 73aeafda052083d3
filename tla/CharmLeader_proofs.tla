------------------------- MODULE CharmLeader_proofs -------------------------
(***************************************************************************)
(* No wake-up of the leader is lost, for every set of units, of connections *)
(* and of settings, however the lease moves and whatever fails: a leader    *)
(* with nothing left to run serves from the databag if it can. A wake-up is *)
(* followed from the hook that is pending, through the notices of the hook  *)
(* that runs, to the service or back to a stored notice.                    *)
(***************************************************************************)
EXTENDS CharmService_proofs

(* The events whose handler, in the leader, reconciles or defers. The legacy *)
(* database's is one of them once that database was asked for.               *)
Waking ==
    ReconcilingKinds
        \cup {Broken("metrics_db"), Changed("database"), Changed("metrics_db")}
        \cup (IF requested /\ "database_legacy" \notin dying THEN {"master_changed"} ELSE {})

Woken(notices) == \E k \in Waking : HasKind(k, notices)

(* A hook that reconciles, or one after which there is nothing to serve, is  *)
(* still to run.                                                             *)
WakePending(u) ==
    \/ Lasting \cap pending[u] # {}
    \/ Idle(u) /\ failed[u] \in Waking \cup Lasting

(* The gates but for the schema container, which defers the event.           *)
Opens(u, view, options, others) ==
    Outcome([ready |-> TRUE, workload |-> "livepatch" \in conn[u], schema |-> TRUE,
             dsn |-> view["dsn"] # None, token |-> view["resource_token"] # None,
             config |-> options, links |-> others]) = "started"

Open(u) == Opens(u, peer, config, links)

OpenInHook(u) == Opens(u, hook[u].view, hook[u].seen.config, hook[u].seen.links)

Matches(u, view) ==
    /\ Running(u)
    /\ svc[u].dsn = view["dsn"]
    /\ svc[u].dsn_metrics = view["dsn_metrics"]
    /\ svc[u].is_leader

(* What a hook of the leader has read still holds, but for its own writes.   *)
Fresh(u) ==
    /\ hook[u].seen.config = config /\ hook[u].seen.links = links
    /\ \A k \in Keys \ hook[u].wrote : hook[u].view[k] = peer[k]
    /\ requested /\ "database_legacy" \notin dying => hook[u].seen.requested

(* If the hook ends, the unit serves from what it commits, or will.          *)
EndsWell(u) ==
    \/ hook[u].main = "stop"
    \/ hook[u].main \in MainBroken /\ hook[u].todo # <<>>
    \/ Woken(hook[u].todo)
    \/ Woken(hook[u].kept)
    \/ OpenInHook(u) => Matches(u, hook[u].view)

(* If the hook raises, the unit serves from the old databag, or will.        *)
RaisesWell(u) ==
    \/ Woken(deferred[u])
    \/ hook[u].main \in Waking \cup Lasting
    \/ /\ \/ hook[u].wrote = {}
          \/ hook[u].main = "get_resource_token_action" /\ hook[u].wrote \subseteq {"resource_token"}
       /\ Open(u) => Matches(u, peer)

Converges(u) ==
    \/ WakePending(u)
    \/ Idle(u) /\ (Woken(deferred[u]) \/ (Open(u) => Matches(u, peer)))
    \/ ~Idle(u) /\ Fresh(u) /\ EndsWell(u) /\ RaisesWell(u)

-----------------------------------------------------------------------------
(* What the argument needs to know of the notices and of the snapshots.      *)

(* The legacy database is handed out on request, and only the leader asks.   *)
LegacyInv ==
    /\ requested => rel["database_legacy"] # "absent"
    /\ rel["database_legacy"] \in Creds => requested
    /\ \A u \in Units :
          ~Idle(u) =>
              LET seen == hook[u].seen IN
              /\ seen.rel["database_legacy"] # "absent" =>
                    /\ rel["database_legacy"] # "absent"
                    /\ "database_legacy" \in dying => Broken("database_legacy") \in pending[u]
              /\ seen.requested => requested /\ seen.rel["database_legacy"] # "absent"
              /\ seen.rel["database_legacy"] \in Creds => seen.requested
              /\ hook[u].request => seen.rel["database_legacy"] # "absent" /\ leader = u

(* No connection is stored before the peer relation exists.                  *)
DsnInv ==
    /\ peer["dsn"] # None => ready
    /\ \A u \in Units : ~Idle(u) /\ hook[u].view["dsn"] # None => hook[u].seen.ready

HookFacts == NeverStored /\ Origin /\ FailedInv /\ LegacyInv /\ DsnInv

LeaderInv == UnitInv /\ WriterLeads /\ HookFacts /\ Converges(leader)

(* An action whose event, being none, nothing can defer is handled while the *)
(* schema container does not answer.                                         *)
ActionUnheard ==
    /\ "schema" \notin conn[leader]
    /\ HandleRestartAction(leader) \/ HandleTokenAction(leader)

(* juju resolved --no-retry of a hook of the leader that would reconcile.    *)
RetryGivenUp ==
    /\ failed[leader] \in Waking \cup Lasting
    /\ failed'[leader] = None
    /\ hook'[leader] = hook[leader]

-----------------------------------------------------------------------------
LEMMA WakingKinds ==
    /\ ReconcilingKinds \cup {"database_relation_changed", "metrics_db_relation_changed",
                              "metrics_db_relation_broken"} \subseteq Waking
    /\ Waking \subseteq ReconcilingKinds \cup {"database_relation_changed",
            "metrics_db_relation_changed", "metrics_db_relation_broken", "master_changed"}
    /\ "master_changed" \in Waking <=> requested /\ "database_legacy" \notin dying
    /\ Lasting = ReconcilingKinds \cup {"stop", "database_relation_broken",
            "database_legacy_relation_broken", "metrics_db_relation_broken"}
    /\ Waking \cup Lasting \subseteq Kinds
    /\ None \notin Waking \cup Lasting
    /\ (Waking \cup Lasting) \cap Actions = {}
<1>2. /\ ReconcilingKinds \cup {"database_relation_changed", "metrics_db_relation_changed",
                                "metrics_db_relation_broken"} \subseteq Waking
      /\ Waking \subseteq ReconcilingKinds \cup {"database_relation_changed",
            "metrics_db_relation_changed", "metrics_db_relation_broken", "master_changed"}
      /\ "master_changed" \in Waking <=> requested /\ "database_legacy" \notin dying
  BY EventKinds DEF Waking, ReconcilingKinds
<1>4. {"database_relation_changed", "metrics_db_relation_changed", "master_changed",
       "metrics_db_relation_broken"} \subseteq Kinds
  <2>1. \A e \in AllEndpoints : Changed(e) \in Kinds /\ Broken(e) \in Kinds
    BY KindsOfEndpoints
  <2> QED
    BY <2>1, EventKinds DEF AllEndpoints
<1>6. ReconcilingKinds \subseteq Kinds
  BY DEF Kinds
<1>7. Waking \cup Lasting \subseteq Kinds
  BY <1>2, <1>4, <1>6, LastingKinds
<1>8. (Waking \cup Lasting) \cap Actions = {}
  BY <1>2, LastingKinds DEF ReconcilingKinds, Actions
<1> QED
  BY <1>2, <1>7, <1>8, LastingKinds, DataAssumption

LEMMA OpensWhen ==
    ASSUME NEW u, NEW h, h.view["dsn"] # None => h.seen.ready
    PROVE  /\ Outcome(InputsOf(u, h)) = "started" => Opens(u, h.view, h.seen.config, h.seen.links)
           /\ Opens(u, h.view, h.seen.config, h.seen.links) =>
                 /\ Outcome(InputsOf(u, h)) \in {"started", "no_schema"}
                 /\ Outcome(InputsOf(u, h)) = "no_schema" => "schema" \notin conn[u]
           /\ Outcome(InputsOf(u, h)) = "no_schema" => Defers(Outcome(InputsOf(u, h)))
BY DEF Opens, InputsOf, Outcome, SchemaUpgradeDefers, MissingToken, MissingOtlp, Defers,
   DeferringOutcomes

LEMMA OpensNeeds ==
    ASSUME NEW u, NEW view, NEW options, NEW others, Opens(u, view, options, others)
    PROVE  "livepatch" \in conn[u] /\ view["dsn"] # None
BY DEF Opens, Outcome, SchemaUpgradeDefers

LEMMA OpensSame ==
    ASSUME NEW u, NEW view, NEW other, NEW options, NEW others,
           view["dsn"] = other["dsn"], view["resource_token"] = other["resource_token"]
    PROVE  Opens(u, view, options, others) <=> Opens(u, other, options, others)
BY DEF Opens

LEMMA ConsumeRest ==
    ASSUME NEW h \in ActiveHooks, NEW d \in BOOLEAN
    PROVE  /\ Consume(h, d).main = h.main /\ Consume(h, d).seen = h.seen
           /\ Consume(h, d).view = h.view /\ Consume(h, d).wrote = h.wrote
           /\ Consume(h, d).request = h.request
BY DEF Consume, ActiveHooks, Hooks

-----------------------------------------------------------------------------
(* What a handler that does not raise does to the leader's service and to    *)
(* what its hook will commit.                                                *)

(* It leaves everything as it was, and a waking notice is stored again.      *)
Passes(u) ==
    /\ hook'[u].view = hook[u].view /\ hook'[u].wrote = hook[u].wrote
    /\ svc'[u] = svc[u] /\ conn'[u] = conn[u]
    /\ HeadKind(u) \notin MainBroken
    /\ HeadKind(u) \in Waking => HasKind(HeadKind(u), hook'[u].kept)

Reconciles(u) ==
    \/ Passes(u)
    \/ OpenInHook(u)' => Matches(u, hook[u].view)'
    \/ HeadKind(u) \in Waking /\ HasKind(HeadKind(u), hook'[u].kept)
    \/ HeadKind(u) = "stop"

(* The handlers of the other events write no more than the resource token,   *)
(* and leave a service that has the connections of the databag.              *)
Harmless(u) ==
    HeadKind(u) \notin Waking \cup Lasting =>
        /\ \/ hook'[u].wrote = hook[u].wrote
           \/ /\ HeadKind(u) = "get_resource_token_action"
              /\ hook'[u].wrote = hook[u].wrote \cup {"resource_token"}
        /\ \/ svc'[u] = svc[u] /\ conn'[u] = conn[u]
           \/ "livepatch" \notin conn'[u]
           \/ conn'[u] = conn[u] /\ Matches(u, hook[u].view)'
           \/ conn'[u] = conn[u] /\ HeadKind(u) = "restart_action" /\ ~OpenInHook(u)

(* The leader, with no wake-up pending, handles a notice it can defer.       *)
Attentive(u) ==
    /\ leader = u
    /\ Fresh(u)
    /\ Lasting \cap pending[u] = {}
    /\ HeadKind(u) \in Actions => "schema" \in conn[u]

Effect(u) ==
    /\ hook'[u].view["dsn"] # None => hook[u].seen.ready
    /\ hook'[u].request =>
          \/ hook[u].request
          \/ leader = u /\ hook[u].seen.rel["database_legacy"] # "absent"
    /\ hook[u].wrote \subseteq hook'[u].wrote
    /\ \A k \in Keys \ hook'[u].wrote : hook'[u].view[k] = hook[u].view[k]
    /\ Attentive(u) => Reconciles(u) /\ Harmless(u)

LEMMA ReconfigureEffect ==
    ASSUME UnitInv, NEW u \in Units, hook[u].todo # <<>>,
           NEW h \in ActiveHooks, h.main = hook[u].main, h.seen = hook[u].seen,
           h.todo = hook[u].todo, h.kept = hook[u].kept,
           h.view["dsn"] # None => h.seen.ready,
           NEW before, Reconfigure(u, h, before)
    PROVE  /\ hook'[u].view = h.view /\ hook'[u].wrote = h.wrote /\ hook'[u].request = h.request
           /\ hook'[u].seen = hook[u].seen
           /\ Attentive(u) =>
                 \/ "livepatch" \notin conn'[u]
                 \/ conn'[u] = conn[u] /\ Matches(u, hook[u].view)'
                 \/ /\ conn'[u] = conn[u] /\ svc'[u] = before
                    /\ \/ ~Opens(u, h.view, h.seen.config, h.seen.links)
                       \/ HeadKind(u) \notin Actions /\ HasKind(HeadKind(u), hook'[u].kept)
<1> DEFINE outcome == Outcome(InputsOf(u, h))
           deferring == Defers(outcome)
<1>1. CharmTypes /\ hook[u] \in ActiveHooks
  BY HandlesActive, TypeInvParts DEF UnitInv
<1>2. deferring \in BOOLEAN /\ FALSE \in BOOLEAN
  BY DEF Defers
<1>3. \/ /\ hook'[u] = Consume(h, deferring)
         /\ svc'[u] = IF outcome = "started" THEN EnvironmentOf(u, h) ELSE before
         /\ conn' = conn
      \/ /\ hook'[u] = Consume(h, FALSE)
         /\ conn'[u] = conn[u] \ {"livepatch"}
  BY <1>1 DEF Reconfigure, CharmTypes
<1>4. /\ outcome = "started" => Opens(u, h.view, h.seen.config, h.seen.links)
      /\ Opens(u, h.view, h.seen.config, h.seen.links) =>
            outcome \in {"started", "no_schema"} /\ (outcome = "no_schema" => "schema" \notin conn[u])
      /\ outcome = "no_schema" => deferring
  BY OpensWhen
<1>6. outcome = "started" => EnvironmentOf(u, h) \in Environments
  BY EnvironmentType
<1>7. /\ EnvironmentOf(u, h).dsn = h.view["dsn"]
      /\ EnvironmentOf(u, h).dsn_metrics = h.view["dsn_metrics"]
      /\ EnvironmentOf(u, h).is_leader = (leader = u)
  BY DEF EnvironmentOf
<1>8. deferring /\ HeadKind(u) \notin Actions => HasKind(HeadKind(u), Consume(h, deferring).kept)
  BY <1>2, ConsumeKinds DEF HeadKind
<1> HIDE DEF deferring, outcome
<1>5. /\ hook'[u].view = h.view /\ hook'[u].wrote = h.wrote /\ hook'[u].request = h.request
      /\ hook'[u].seen = hook[u].seen
  <2>1. CASE hook'[u] = Consume(h, deferring)
    BY <1>2, <2>1, ConsumeRest
  <2>2. CASE hook'[u] = Consume(h, FALSE)
    <3>1. /\ Consume(h, FALSE).view = h.view /\ Consume(h, FALSE).wrote = h.wrote
          /\ Consume(h, FALSE).request = h.request /\ Consume(h, FALSE).seen = h.seen
      BY <1>2, ConsumeRest
    <3> QED
      BY <2>2, <3>1
  <2> QED
    BY <1>3, <2>1, <2>2
<1>9. ASSUME Attentive(u), outcome = "started", svc'[u] = EnvironmentOf(u, h), conn' = conn
      PROVE  conn'[u] = conn[u] /\ Matches(u, hook[u].view)'
  BY <1>5, <1>6, <1>7, <1>9, DataAssumption DEF Matches, Running, Attentive
<1>10. ASSUME Attentive(u), outcome # "started", svc'[u] = before, conn' = conn,
              hook'[u] = Consume(h, deferring)
       PROVE  /\ conn'[u] = conn[u] /\ svc'[u] = before
              /\ \/ ~Opens(u, h.view, h.seen.config, h.seen.links)
                 \/ HeadKind(u) \notin Actions /\ HasKind(HeadKind(u), hook'[u].kept)
  BY <1>4, <1>8, <1>10 DEF Attentive
<1> QED
  BY <1>3, <1>5, <1>9, <1>10

(* A handler that reconciles for its event: a waking one, or one that does   *)
(* not write.                                                                *)
LEMMA ReconfigureDoes ==
    ASSUME UnitInv, NEW u \in Units, hook[u].todo # <<>>,
           NEW h \in ActiveHooks, h.main = hook[u].main, h.seen = hook[u].seen,
           h.todo = hook[u].todo, h.kept = hook[u].kept, h.request = hook[u].request,
           h.view["dsn"] # None => h.seen.ready,
           hook[u].wrote \subseteq h.wrote,
           \A k \in Keys \ h.wrote : h.view[k] = hook[u].view[k],
           Attentive(u) /\ HeadKind(u) \notin Waking => h = hook[u],
           HeadKind(u) \notin Actions \cup MainBroken,
           Reconfigure(u, h, svc[u])
    PROVE  Effect(u)
<1>1. /\ hook'[u].view = h.view /\ hook'[u].wrote = h.wrote /\ hook'[u].request = h.request
      /\ hook'[u].seen = hook[u].seen
      /\ Attentive(u) =>
            \/ "livepatch" \notin conn'[u]
            \/ conn'[u] = conn[u] /\ Matches(u, hook[u].view)'
            \/ /\ conn'[u] = conn[u] /\ svc'[u] = svc[u]
               /\ \/ ~Opens(u, h.view, h.seen.config, h.seen.links)
                  \/ HasKind(HeadKind(u), hook'[u].kept)
  BY ReconfigureEffect
<1>2. "livepatch" \notin conn'[u] => ~OpenInHook(u)'
  BY DEF OpenInHook, Opens, Outcome
<1>3. conn'[u] = conn[u] /\ ~Opens(u, h.view, h.seen.config, h.seen.links) => ~OpenInHook(u)'
  BY <1>1 DEF OpenInHook, Opens
<1>4. Attentive(u) => Reconciles(u)
  BY <1>1, <1>2, <1>3 DEF Reconciles, Passes
<1>5. Attentive(u) => Harmless(u)
  BY <1>1 DEF Harmless
<1> QED
  BY <1>1, <1>4, <1>5 DEF Effect

LEMMA SkipDoes ==
    ASSUME UnitInv, DsnInv, NEW u \in Units, hook[u].todo # <<>>, NEW d \in BOOLEAN, Skip(u, d),
           HeadKind(u) \notin MainBroken,
           Attentive(u) /\ HeadKind(u) \in Waking => d
    PROVE  Effect(u)
<1>1. CharmTypes /\ hook[u] \in ActiveHooks
  BY HandlesActive, TypeInvParts DEF UnitInv
<1>2. hook'[u] = Consume(hook[u], d) /\ UNCHANGED <<svc, conn>>
  BY <1>1 DEF Skip, CharmTypes
<1>3. hook'[u].view = hook[u].view /\ hook'[u].wrote = hook[u].wrote
      /\ hook'[u].request = hook[u].request
  BY <1>1, <1>2, ConsumeRest
<1>4. d /\ HeadKind(u) \notin Actions => HasKind(HeadKind(u), hook'[u].kept)
  BY <1>1, <1>2, ConsumeKinds DEF HeadKind
<1>5. hook[u].view["dsn"] # None => hook[u].seen.ready
  BY <1>1 DEF DsnInv, Idle, ActiveHooks
<1>6. Attentive(u) => Reconciles(u) /\ Harmless(u)
  BY <1>2, <1>3, <1>4, WakingKinds DEF Reconciles, Passes, Harmless
<1> QED
  BY <1>3, <1>5, <1>6 DEF Effect

LEMMA WriteView ==
    ASSUME NEW h \in ActiveHooks, NEW key \in Keys, NEW v
    PROVE  /\ Write(h, key, v).request = h.request
           /\ Write(h, key, v).wrote = h.wrote \cup {key}
           /\ Write(h, key, v).view[key] = v
           /\ \A k \in Keys \ {key} : Write(h, key, v).view[k] = h.view[k]
<1>1. /\ Write(h, key, v).request = h.request
      /\ Write(h, key, v).wrote = h.wrote \cup {key}
      /\ Write(h, key, v).view = [h.view EXCEPT ![key] = v]
  BY DEF Write, ActiveHooks, Hooks
<1>2. h.view \in [Keys -> Creds \cup Tokens \cup {None}]
  BY DEF ActiveHooks, Databag
<1> QED
  BY <1>1, <1>2

Writable(u, key, v) ==
    /\ key \in Keys
    /\ key \in {"dsn", "dsn_metrics"} => v \in Creds \cup {None}
    /\ key = "resource_token" => v \in Tokens \cup {None}
    /\ hook[u].seen.ready \/ v = None \/ key # "dsn"

(* A hook that differs from the one that runs at most in a key it writes.    *)
Rewrites(g, h, key) ==
    /\ g \in ActiveHooks /\ g.main = h.main /\ g.seen = h.seen
    /\ g.todo = h.todo /\ g.kept = h.kept /\ g.request = h.request
    /\ g.view["dsn"] # None => g.seen.ready
    /\ g.wrote = h.wrote \cup {key} /\ h.wrote \subseteq g.wrote
    /\ \A k \in Keys \ g.wrote : g.view[k] = h.view[k]

LEMMA WrittenHook ==
    ASSUME CharmTypes, DsnInv, NEW u \in Units, hook[u] \in ActiveHooks,
           NEW key, NEW v, Writable(u, key, v), NEW g, g = Write(hook[u], key, v)
    PROVE  Rewrites(g, hook[u], key)
<1>1. /\ g \in ActiveHooks /\ g.main = hook[u].main /\ g.seen = hook[u].seen
      /\ g.todo = hook[u].todo /\ g.kept = hook[u].kept
  BY WriteType, WriteFields DEF Writable
<1>2. /\ g.request = hook[u].request /\ g.wrote = hook[u].wrote \cup {key}
      /\ g.view[key] = v
      /\ \A k \in Keys \ {key} : g.view[k] = hook[u].view[k]
  <2> DEFINE w == Write(hook[u], key, v)
  <2>1. /\ w.request = hook[u].request /\ w.wrote = hook[u].wrote \cup {key}
        /\ w.view[key] = v
        /\ \A k \in Keys \ {key} : w.view[k] = hook[u].view[k]
    BY WriteView DEF Writable
  <2>2. g = w
    OBVIOUS
  <2> HIDE DEF w
  <2> QED
    BY <2>1, <2>2
<1>3. hook[u].view["dsn"] # None => hook[u].seen.ready
  BY DEF DsnInv, Idle, ActiveHooks
<1>4. "dsn" \in Keys
  BY DEF Keys
<1> QED
  BY <1>1, <1>2, <1>3, <1>4 DEF Writable, Rewrites

(* A legacy credential that the leader sees was asked for, and wakes it.     *)
LEMMA LegacySeen ==
    ASSUME LegacyInv, NEW u \in Units, ~Idle(u), Attentive(u)
    PROVE  /\ hook[u].seen.rel["database_legacy"] \in Creds => "master_changed" \in Waking
           /\ "master_changed" \in Waking => hook[u].seen.requested
<1>1. ASSUME hook[u].seen.rel["database_legacy"] \in Creds PROVE "master_changed" \in Waking
  <2>1. requested /\ hook[u].seen.rel["database_legacy"] # "absent"
    BY <1>1 DEF LegacyInv
  <2>2. "database_legacy" \in dying => Broken("database_legacy") \in pending[u]
    BY <2>1 DEF LegacyInv
  <2>3. Broken("database_legacy") \in Lasting
    BY DEF Lasting, AllEndpoints
  <2> QED
    BY <2>1, <2>2, <2>3, WakingKinds DEF Attentive
<1> QED
  BY <1>1, WakingKinds DEF Attentive, Fresh

LEMMA HandlersEffect ==
    ASSUME UnitInv, DsnInv, LegacyInv, NEW u \in Units, Handle(u)
    PROVE  HandlerRaises(u) \/ Effect(u)
<1> DEFINE h == hook[u]
<1>1. h.todo # <<>> /\ h \in ActiveHooks
  BY HandlersDo
<1>2. CharmTypes /\ JujuTypes
  BY TypeInvParts DEF UnitInv
<1>3. \A k : Handles(u, k) => HeadKind(u) = k
  BY DEF Handles, HeadKind
<1>4. ~Idle(u) /\ (h.view["dsn"] # None => h.seen.ready)
  BY <1>1 DEF DsnInv, Idle, ActiveHooks
<1>5. TRUE \in BOOLEAN /\ FALSE \in BOOLEAN /\ (~h.seen.ready) \in BOOLEAN
      /\ (~h.seen.requested) \in BOOLEAN
  OBVIOUS
<1>6. CASE HandleReconciling(u)
  <2>1. HeadKind(u) \in Waking /\ HeadKind(u) \notin Actions \cup MainBroken
    BY <1>3, <1>6, EventKinds, WakingKinds DEF HandleReconciling, ReconcilingKinds, Actions
  <2>2. Reconfigure(u, h, svc[u])
    BY <1>6 DEF HandleReconciling
  <2> QED
    BY <1>1, <1>4, <2>1, <2>2, ReconfigureDoes
<1>7. CASE HandlePeerChanged(u)
  <2>1. HeadKind(u) = "livepatch_relation_changed"
    BY <1>3, <1>7 DEF HandlePeerChanged
  <2>2. HeadKind(u) \notin Actions \cup MainBroken \cup Waking
    BY <2>1, EventKinds, WakingKinds DEF Actions, ReconcilingKinds
  <2>3. CASE Skip(u, FALSE)
    BY <1>1, <1>5, <2>2, <2>3, SkipDoes
  <2>4. CASE Reconfigure(u, h, svc[u])
    BY <1>1, <1>4, <2>2, <2>4, ReconfigureDoes
  <2> QED
    BY <1>7, <2>3, <2>4 DEF HandlePeerChanged
<1>8. ASSUME hook' = [hook EXCEPT ![u] = Consume(h, FALSE)], UNCHANGED conn,
             HeadKind(u) \in {"update_status", "stop"}, HeadKind(u) # "stop" => svc' = svc
      PROVE  Effect(u)
  <2>1. hook'[u] = Consume(h, FALSE)
    BY <1>2, <1>8 DEF CharmTypes
  <2>2. hook'[u].view = h.view /\ hook'[u].wrote = h.wrote /\ hook'[u].request = h.request
    BY <1>1, <1>5, <2>1, ConsumeRest
  <2>3. HeadKind(u) \notin Waking \cup MainBroken
    BY <1>8, EventKinds, WakingKinds DEF ReconcilingKinds
  <2>4. HeadKind(u) = "stop" => HeadKind(u) \in Lasting
    BY WakingKinds
  <2> QED
    BY <1>4, <1>8, <2>2, <2>3, <2>4 DEF Effect, Reconciles, Passes, Harmless
<1>9. CASE HandleUpdateStatus(u) \/ HandleStop(u)
  <2>1. /\ HeadKind(u) \in {"update_status", "stop"} /\ UNCHANGED conn
        /\ HeadKind(u) # "stop" => svc' = svc
    BY <1>3, <1>9 DEF HandleUpdateStatus, HandleStop
  <2>2. hook' = [hook EXCEPT ![u] = Consume(h, FALSE)]
    BY <1>2, <1>9 DEF HandleUpdateStatus, HandleStop, CharmTypes
  <2> QED
    BY <1>8, <2>1, <2>2
<1>10. ASSUME NEW e \in {"database", "metrics_db"}, HandleDatabaseChanged(u, e)
       PROVE  HandlerRaises(u) \/ Effect(u)
  <2> DEFINE key == IF e = "metrics_db" THEN "dsn_metrics" ELSE "dsn"
             g == Write(h, key, h.seen.rel[e])
  <2>1. HeadKind(u) \in {"database_relation_changed", "metrics_db_relation_changed"}
    BY <1>3, <1>10, EventKinds DEF HandleDatabaseChanged
  <2>2. HeadKind(u) \in Waking /\ HeadKind(u) \notin MainBroken \cup Actions
    BY <2>1, EventKinds, WakingKinds DEF Actions
  <2>3. \/ HandlerRaises(u)
        \/ leader # u /\ Skip(u, FALSE)
        \/ Skip(u, TRUE)
        \/ h.seen.ready /\ h.seen.rel[e] \in Creds /\ Reconfigure(u, g, svc[u])
    BY <1>10 DEF HandleDatabaseChanged, HandlerRaises
  <2>4. CASE leader # u /\ Skip(u, FALSE)
    BY <1>1, <1>5, <2>2, <2>4, SkipDoes DEF Attentive
  <2>5. CASE Skip(u, TRUE)
    BY <1>1, <1>5, <2>2, <2>5, SkipDoes
  <2>6. CASE h.seen.ready /\ h.seen.rel[e] \in Creds /\ Reconfigure(u, g, svc[u])
    <3>1. Writable(u, key, h.seen.rel[e])
      BY <2>6 DEF Keys, Writable
    <3> HIDE DEF key
    <3>2. g = Write(h, key, h.seen.rel[e])
      OBVIOUS
    <3> HIDE DEF g
    <3>3. Rewrites(g, h, key)
      BY <1>1, <1>2, <3>1, <3>2, WrittenHook
    <3> QED
      BY <1>1, <2>2, <2>6, <3>3, ReconfigureDoes DEF Rewrites
  <2> QED
    BY <2>3, <2>4, <2>5, <2>6
<1>11. CASE HandleLegacyJoined(u)
  <2>1. HeadKind(u) = "database_relation_joined"
    BY <1>3, <1>11 DEF HandleLegacyJoined, LegacyJoined
  <2>2. HeadKind(u) \notin Waking \cup MainBroken
    BY <2>1, EventKinds, WakingKinds DEF ReconcilingKinds
  <2> DEFINE asked == h.seen.rel["database_legacy"] # "absent"
  <2>3. \/ HandlerRaises(u)
        \/ \E d \in BOOLEAN : Skip(u, d)
        \/ /\ leader = u
           /\ hook' = [hook EXCEPT ![u] = [Consume(h, FALSE) EXCEPT !.request = asked]]
           /\ UNCHANGED <<svc, conn>>
    BY <1>5, <1>11 DEF HandleLegacyJoined, HandlerRaises
  <2>4. ASSUME NEW d \in BOOLEAN, Skip(u, d) PROVE Effect(u)
    BY <1>1, <2>2, <2>4, SkipDoes
  <2>5. CASE /\ leader = u
             /\ hook' = [hook EXCEPT ![u] = [Consume(h, FALSE) EXCEPT !.request = asked]]
             /\ UNCHANGED <<svc, conn>>
    <3>1. hook'[u] = [Consume(h, FALSE) EXCEPT !.request = asked]
      BY <1>2, <2>5 DEF CharmTypes
    <3>2. Consume(h, FALSE) \in ActiveHooks /\ Consume(h, FALSE).view = h.view
          /\ Consume(h, FALSE).wrote = h.wrote
      BY <1>1, <1>5, ConsumeType, ConsumeRest
    <3>3. hook'[u].view = h.view /\ hook'[u].wrote = h.wrote /\ hook'[u].request = asked
      BY <3>1, <3>2 DEF ActiveHooks, Hooks
    <3> QED
      BY <1>4, <2>2, <2>5, <3>3 DEF Effect, Reconciles, Passes, Harmless
  <2> QED
    BY <2>3, <2>4, <2>5
<1>12. CASE HandleMasterChanged(u)
  <2> DEFINE master == h.seen.rel["database_legacy"]
             g == IF leader = u /\ master \in Creds THEN Write(h, "dsn", master) ELSE h
  <2>1. HeadKind(u) = "master_changed"
    BY <1>3, <1>12 DEF HandleMasterChanged
  <2>2. HeadKind(u) \notin MainBroken \cup Actions
    BY <2>1, EventKinds DEF Actions
  <2>3. \/ ~h.seen.ready /\ Skip(u, TRUE)
        \/ ~h.seen.requested /\ Skip(u, FALSE)
        \/ h.seen.ready /\ Reconfigure(u, g, svc[u])
    BY <1>12 DEF HandleMasterChanged
  <2>4. Attentive(u) => (master \in Creds => "master_changed" \in Waking)
                        /\ ("master_changed" \in Waking => h.seen.requested)
    BY <1>4, LegacySeen
  <2>5. CASE ~h.seen.ready /\ Skip(u, TRUE)
    BY <1>1, <1>5, <2>2, <2>5, SkipDoes
  <2>6. CASE ~h.seen.requested /\ Skip(u, FALSE)
    BY <1>1, <1>5, <2>1, <2>2, <2>4, <2>6, SkipDoes
  <2>7. CASE h.seen.ready /\ Reconfigure(u, g, svc[u])
    <3>1. "dsn" \in Keys
      BY DEF Keys
    <3>2. CASE leader = u /\ master \in Creds
      <4>1. g = Write(h, "dsn", master) /\ Writable(u, "dsn", master)
        BY <2>7, <3>1, <3>2 DEF Writable
      <4> HIDE DEF g
      <4>2. Rewrites(g, h, "dsn")
        BY <1>1, <1>2, <4>1, WrittenHook
      <4>3. Attentive(u) => HeadKind(u) \in Waking
        BY <2>1, <2>4, <3>2
      <4> QED
        BY <1>1, <2>2, <2>7, <4>2, <4>3, ReconfigureDoes DEF Rewrites
    <3>3. CASE ~(leader = u /\ master \in Creds)
      <4>1. g = h
        BY <3>3
      <4> HIDE DEF g
      <4> QED
        BY <1>1, <1>4, <2>2, <2>7, <4>1, ReconfigureDoes
    <3> QED
      BY <3>2, <3>3
  <2> QED
    BY <2>3, <2>5, <2>6, <2>7
<1>13. ASSUME NEW e \in MainEndpoints, HandleDatabaseBroken(u, e) PROVE Effect(u)
  <2> DEFINE g == Cleared(u, h)
  <2>1. HeadKind(u) \in Lasting
    <3>1. HeadKind(u) = Broken(e)
      BY <1>3, <1>13 DEF HandleDatabaseBroken
    <3> QED
      BY <3>1 DEF Lasting, MainEndpoints, AllEndpoints
  <2>2. hook'[u] = Consume(g, FALSE) /\ conn' = conn
    BY <1>2, <1>13 DEF HandleDatabaseBroken, CharmTypes
  <2>3. /\ g \in ActiveHooks /\ g.request = h.request /\ h.wrote \subseteq g.wrote
        /\ g.view["dsn"] # None => h.seen.ready
        /\ \A k \in Keys \ g.wrote : g.view[k] = h.view[k]
        /\ leader = u => g.view["dsn"] = None
    <3>1. CASE leader = u /\ h.seen.ready
      <4>1. g = Write(h, "dsn", None) /\ "dsn" \in Keys /\ Writable(u, "dsn", None)
        BY <3>1 DEF Cleared, Keys, Writable
      <4> HIDE DEF g
      <4>2. Rewrites(g, h, "dsn")
        BY <1>1, <1>2, <4>1, WrittenHook
      <4>3. g.view["dsn"] = None
        BY <1>1, <4>1, WriteView
      <4> QED
        BY <4>2, <4>3 DEF Rewrites
    <3>2. CASE ~(leader = u /\ h.seen.ready)
      <4>1. g = h
        BY <3>2 DEF Cleared
      <4> QED
        BY <1>1, <1>4, <3>2, <4>1
    <3> QED
      BY <3>1, <3>2
  <2> HIDE DEF g
  <2>4. hook'[u].view = g.view /\ hook'[u].wrote = g.wrote /\ hook'[u].request = g.request
    BY <1>5, <2>2, <2>3, ConsumeRest
  <2>5. leader = u => ~OpenInHook(u)'
    BY <2>3, <2>4, OpensNeeds DEF OpenInHook, Opens, Outcome, SchemaUpgradeDefers
  <2> QED
    BY <2>1, <2>3, <2>4, <2>5 DEF Effect, Reconciles, Harmless, Attentive
<1>14. CASE HandleMetricsBroken(u)
  <2> DEFINE g == IF leader = u /\ h.seen.ready THEN Write(h, "dsn_metrics", None) ELSE h
  <2>1. HeadKind(u) = "metrics_db_relation_broken"
    BY <1>3, <1>14, EventKinds DEF HandleMetricsBroken
  <2>2. HeadKind(u) \in Waking /\ HeadKind(u) \notin Actions \cup MainBroken
    BY <2>1, EventKinds, WakingKinds DEF Actions
  <2>3. Reconfigure(u, g, svc[u])
    BY <1>14 DEF HandleMetricsBroken
  <2>4. /\ g \in ActiveHooks /\ g.main = h.main /\ g.seen = h.seen
        /\ g.todo = h.todo /\ g.kept = h.kept /\ g.request = h.request
        /\ g.view["dsn"] # None => g.seen.ready
        /\ h.wrote \subseteq g.wrote
        /\ \A k \in Keys \ g.wrote : g.view[k] = h.view[k]
    <3>1. CASE leader = u /\ h.seen.ready
      <4>1. g = Write(h, "dsn_metrics", None) /\ Writable(u, "dsn_metrics", None)
        BY <3>1 DEF Keys, Writable
      <4> HIDE DEF g
      <4>2. Rewrites(g, h, "dsn_metrics")
        BY <1>1, <1>2, <4>1, WrittenHook
      <4> QED
        BY <4>2 DEF Rewrites
    <3>2. CASE ~(leader = u /\ h.seen.ready)
      BY <1>1, <1>4, <3>2
    <3> QED
      BY <3>1, <3>2
  <2> HIDE DEF g
  <2> QED
    BY <1>1, <2>2, <2>3, <2>4, ReconfigureDoes
<1>15. CASE HandleRestartAction(u)
  <2>1. HeadKind(u) = "restart_action" /\ Reconfigure(u, h, StoppedService(u))
    BY <1>3, <1>15 DEF HandleRestartAction
  <2>2. HeadKind(u) \in Actions /\ HeadKind(u) # "stop" /\ HeadKind(u) \notin MainBroken
    BY <2>1, EventKinds DEF Actions
  <2>3. /\ hook'[u].view = h.view /\ hook'[u].wrote = h.wrote /\ hook'[u].request = h.request
        /\ hook'[u].seen = h.seen
        /\ Attentive(u) =>
              \/ "livepatch" \notin conn'[u]
              \/ conn'[u] = conn[u] /\ Matches(u, hook[u].view)'
              \/ conn'[u] = conn[u] /\ ~Opens(u, h.view, h.seen.config, h.seen.links)
    BY <1>1, <1>4, <2>1, <2>2, ReconfigureEffect
  <2>4. "livepatch" \notin conn'[u] => ~OpenInHook(u)'
    BY DEF OpenInHook, Opens, Outcome
  <2>5. conn'[u] = conn[u] /\ ~Opens(u, h.view, h.seen.config, h.seen.links)
            => ~OpenInHook(u)' /\ ~OpenInHook(u)
    BY <2>3 DEF OpenInHook, Opens
  <2>6. Attentive(u) => Reconciles(u)
    BY <2>3, <2>4, <2>5 DEF Reconciles
  <2>7. Attentive(u) => Harmless(u)
    BY <2>1, <2>3, <2>5 DEF Harmless
  <2> QED
    BY <1>4, <2>3, <2>6, <2>7 DEF Effect
<1>16. CASE HandleTokenAction(u)
  <2>1. HeadKind(u) = "get_resource_token_action"
    BY <1>3, <1>16 DEF HandleTokenAction
  <2>2. HeadKind(u) \in Actions /\ HeadKind(u) \notin MainBroken
    BY <2>1, EventKinds DEF Actions
  <2>3. HeadKind(u) \notin Waking
    BY <2>2, WakingKinds
  <2>4. CASE Skip(u, FALSE)
    BY <1>1, <1>5, <2>2, <2>3, <2>4, SkipDoes
  <2>5. ASSUME NEW token \in Tokens \cup {None},
               Reconfigure(u, Write(h, "resource_token", token), svc[u])
        PROVE  Effect(u)
    <3> DEFINE g == Write(h, "resource_token", token)
    <3>1. /\ g = Write(h, "resource_token", token)
          /\ Writable(u, "resource_token", token)
      BY DEF Keys, Writable
    <3>3. Reconfigure(u, g, svc[u])
      BY <2>5
    <3> HIDE DEF g
    <3>5. Rewrites(g, h, "resource_token")
      BY <1>1, <1>2, <3>1, WrittenHook
    <3>2. /\ g \in ActiveHooks /\ g.main = h.main /\ g.seen = h.seen
          /\ g.todo = h.todo /\ g.kept = h.kept /\ g.request = h.request
          /\ g.view["dsn"] # None => g.seen.ready
          /\ g.wrote = h.wrote \cup {"resource_token"}
          /\ \A k \in Keys \ g.wrote : g.view[k] = h.view[k]
      BY <3>5 DEF Rewrites
    <3>4. /\ hook'[u].view = g.view /\ hook'[u].wrote = g.wrote /\ hook'[u].request = g.request
          /\ hook'[u].seen = h.seen
          /\ Attentive(u) =>
                \/ "livepatch" \notin conn'[u]
                \/ conn'[u] = conn[u] /\ Matches(u, hook[u].view)'
                \/ /\ conn'[u] = conn[u] /\ svc'[u] = svc[u]
                   /\ ~Opens(u, g.view, g.seen.config, g.seen.links)
      BY <1>1, <2>2, <3>2, <3>3, ReconfigureEffect
    <3>6. "livepatch" \notin conn'[u] => ~OpenInHook(u)'
      BY DEF OpenInHook, Opens, Outcome
    <3>7. conn'[u] = conn[u] /\ ~Opens(u, g.view, g.seen.config, g.seen.links) => ~OpenInHook(u)'
      BY <3>2, <3>4 DEF OpenInHook, Opens
    <3>8. Attentive(u) => Reconciles(u)
      BY <3>4, <3>6, <3>7 DEF Reconciles
    <3>9. Attentive(u) => Harmless(u)
      BY <2>1, <3>2, <3>4 DEF Harmless
    <3> QED
      BY <3>2, <3>4, <3>8, <3>9 DEF Effect
  <2> QED
    BY <1>16, <2>4, <2>5 DEF HandleTokenAction
<1> QED
  BY <1>6, <1>7, <1>9, <1>10, <1>11, <1>12, <1>13, <1>14, <1>15, <1>16 DEF Handle, MainEndpoints

-----------------------------------------------------------------------------
(* HookFacts, conjunct by conjunct.                                          *)
LEMMA DsnInvNext == UnitInv /\ DsnInv /\ LegacyInv /\ [Next]_vars => DsnInv'
<1> SUFFICES ASSUME UnitInv, DsnInv, LegacyInv, [Next]_vars PROVE DsnInv'
  OBVIOUS
<1> DEFINE Viewed(u) == ~Idle(u) /\ hook[u].view["dsn"] # None => hook[u].seen.ready
<1>1. (peer["dsn"] # None => ready) /\ \A u \in Units : Viewed(u)
  BY DEF DsnInv
<1>0. "dsn" \in Keys
  BY DEF Keys
<1>2. ASSUME NEW u \in Units, HandlerRaises(u) \/ Crash(u) PROVE DsnInv'
  <2>1. Raise(u) /\ UNCHANGED <<peer, ready>>
    BY <1>2 DEF HandlerRaises, Crash
  <2> QED
    BY <1>1, <2>1, RaiseClears DEF DsnInv, Idle
<1>3. ASSUME NEW u \in Units, Handle(u) PROVE DsnInv'
  <2>1. CASE Moves(u) /\ Effect(u)
    <3>1. /\ UNCHANGED <<peer, ready>>
          /\ hook'[u].seen = hook[u].seen
          /\ hook'[u].view["dsn"] # None => hook[u].seen.ready
          /\ \A v \in Units \ {u} : hook'[v] = hook[v]
      BY <2>1 DEF Moves, Effect, Uncommitted, jujuVars
    <3> QED
      BY <1>1, <3>1 DEF DsnInv, Idle
  <2> QED
    BY <1>2, <1>3, <2>1, HandlersMove, HandlersEffect
<1>4. ASSUME NEW u \in Units, NEW k \in Kinds, Starts(u, k) PROVE DsnInv'
  <2>1. Begin(u, k) /\ UNCHANGED <<ready, peer>>
    BY <1>4, StepBegins DEF Starts, StartHook, StartUpdateStatus, StartAction
  <2>2. hook'[u].seen.ready = ready /\ hook'[u].view = peer /\ \A v \in Units \ {u} : hook'[v] = hook[v]
    <3>1. /\ hook'[u].seen = Snapshot(u, k) /\ hook'[u].view = peer
          /\ \A v \in Units \ {u} : hook'[v] = hook[v]
      BY <2>1, BeginHolds
    <3>2. Snapshot(u, k).ready = ready
      BY DEF Snapshot
    <3> QED
      BY <3>1, <3>2
  <2> QED
    BY <1>1, <2>1, <2>2 DEF DsnInv, Idle
<1>5. ASSUME NEW u \in Units, EndHook(u) \/ EndStop(u) PROVE DsnInv'
  <2>1. PICK again : Commit(u, again)
    BY <1>5 DEF EndHook, EndStop
  <2>2. /\ UNCHANGED ready /\ Idle(u)'
        /\ \A v \in Units \ {u} : hook'[v] = hook[v]
        /\ peer'["dsn"] \in {hook[u].view["dsn"], peer["dsn"]}
        /\ ~Idle(u)
    BY <1>0, <1>5, <2>1, EndsCommit, CommitHolds DEF Idle
  <2>3. hook[u].seen.ready => ready
    BY <2>2 DEF UnitInv, ReadyInv
  <2> QED
    BY <1>1, <2>2, <2>3 DEF DsnInv, Idle
<1>6. ASSUME NEW e \in Endpoints, Gone(e) PROVE DsnInv'
  <2>1. TypeInv /\ UNCHANGED <<ready, peer>>
    BY <1>6 DEF UnitInv, Gone, jujuVars
  <2>2. ASSUME NEW u \in Units
        PROVE  hook'[u].main = hook[u].main /\ hook'[u].seen = hook[u].seen /\ hook'[u].view = hook[u].view
    <3>1. hook[u] \in Hooks
      BY TypeInvParts DEF UnitInv, CharmTypes
    <3> QED
      BY <1>6, <3>1 DEF Gone, Hooks
  <2> QED
    BY <1>1, <2>1, <2>2 DEF DsnInv, Idle
<1>7. CASE QuietStep
  <2>1. UNCHANGED <<hook, peer>> /\ (ready => ready')
    BY <1>7, QuietHolds, QuietFrames DEF QuietFrame
  <2> QED
    BY <1>1, <2>1 DEF DsnInv, Idle
<1>8. CASE UNCHANGED vars
  BY <1>1, <1>8 DEF vars, charmVars, jujuVars, Idle, DsnInv
<1> QED
  BY <1>2, <1>3, <1>4, <1>5, <1>6, <1>7, <1>8, StepCases

(* The legacy database, as the hook of a unit sees it.                       *)
LegacyKept(u) ==
    LET seen == hook[u].seen IN
    /\ seen.rel["database_legacy"] # "absent" =>
          /\ rel["database_legacy"] # "absent"
          /\ "database_legacy" \in dying => Broken("database_legacy") \in pending[u]
    /\ seen.requested => requested /\ seen.rel["database_legacy"] # "absent"
    /\ seen.rel["database_legacy"] \in Creds => seen.requested
    /\ hook[u].request => seen.rel["database_legacy"] # "absent" /\ leader = u

LEMMA LegacyParts ==
    LegacyInv <=>
        /\ requested => rel["database_legacy"] # "absent"
        /\ rel["database_legacy"] \in Creds => requested
        /\ \A u \in Units : ~Idle(u) => LegacyKept(u)
BY DEF LegacyInv, LegacyKept

LEMMA LegacyPartsNext ==
    LegacyInv' <=>
        /\ requested' => rel'["database_legacy"] # "absent"
        /\ rel'["database_legacy"] \in Creds => requested'
        /\ \A u \in Units : ~Idle(u)' => LegacyKept(u)'
BY DEF LegacyInv, LegacyKept

(* Steps that run no hook.                                                   *)
LEMMA LegacyQuiet ==
    ASSUME UnitInv, LegacyInv, FailedInv, QuietStep
    PROVE  LegacyInv'
<1> DEFINE broken == "database_legacy_relation_broken"
<1>0. Broken("database_legacy") = broken
  BY DEF Broken
<1>1. JujuTypes /\ CharmTypes /\ UNCHANGED hook
  BY TypeInvParts, QuietHolds DEF UnitInv
<1>2. /\ requested => rel["database_legacy"] # "absent"
      /\ rel["database_legacy"] \in Creds => requested
      /\ \A u \in Units : ~Idle(u) => LegacyKept(u)
  BY LegacyParts
<1>3. "absent" \notin Creds /\ "nodata" \notin Creds
  BY DataAssumption
<1>4. ASSUME UNCHANGED <<rel, dying, requested>>,
             NEW u \in Units, ~Idle(u),
             broken \in pending[u] => broken \in pending'[u],
             leader = u => leader' = u
      PROVE  LegacyKept(u)'
  BY <1>0, <1>1, <1>2, <1>4 DEF LegacyKept
<1>5. ASSUME UNCHANGED <<rel, dying, requested>>,
             \A u \in Units : ~Idle(u) =>
                /\ broken \in pending[u] => broken \in pending'[u]
                /\ leader = u => leader' = u
      PROVE  LegacyInv'
  BY <1>1, <1>2, <1>4, <1>5, LegacyPartsNext DEF Idle
<1>6. CASE PeerRelationCreated
  BY <1>5, <1>6 DEF PeerRelationCreated, Notify, worldVars
<1>7. ASSUME NEW u \in Units, NEW c \in {"livepatch", "schema"}, ContainerUp(u, c) \/ ContainerDown(u, c)
      PROVE  LegacyInv'
  BY <1>5, <1>7 DEF ContainerUp, ContainerDown, Notify, jujuVars
<1>8. ASSUME NEW u \in Units, PodStop(u) PROVE LegacyInv'
  BY <1>5, <1>8 DEF PodStop, Notify
<1>9. ASSUME NEW u \in Units, ElectLeader(u) PROVE LegacyInv'
  <2>1. Idle(leader) /\ UNCHANGED <<rel, dying, requested>>
    BY <1>9 DEF ElectLeader
  <2>2. \A v \in Units : broken \in pending[v] => broken \in pending'[v]
    BY <1>9 DEF ElectLeader
  <2> QED
    BY <1>5, <2>1, <2>2
<1>10. ASSUME NEW u \in Units, Resolve(u) PROVE LegacyInv'
  <2>1. Idle(u) /\ UNCHANGED <<rel, dying, requested, leader>>
    BY <1>10 DEF Resolve, FailedInv
  <2>2. \A v \in Units \ {u} : pending'[v] = pending[v]
    BY <1>1, <1>10 DEF Resolve, JujuTypes
  <2> QED
    BY <1>5, <2>1, <2>2
<1>11. CASE ChangeConfig \/ ChangeLinks
  BY <1>5, <1>11 DEF ChangeConfig, ChangeLinks, Notify
<1>12. ASSUME NEW e \in Endpoints, Integrate(e) \/ Publish(e) PROVE LegacyInv'
  <2>1. /\ UNCHANGED <<dying, requested, leader>>
        /\ \A v \in Units : pending[v] \subseteq pending'[v]
    BY <1>12 DEF Integrate, Publish, Notify
  <2>2. /\ requested' => rel'["database_legacy"] # "absent"
        /\ rel'["database_legacy"] \in Creds => requested'
        /\ rel["database_legacy"] # "absent" => rel'["database_legacy"] # "absent"
    <3>1. PICK v : /\ rel' = [rel EXCEPT ![e] = v] /\ v # "absent"
                   /\ v \in Creds /\ e = "database_legacy" => requested
      BY <1>3, <1>12 DEF Integrate, Publish
    <3>2. rel'["database_legacy"] = IF e = "database_legacy" THEN v ELSE rel["database_legacy"]
      BY <1>1, <3>1 DEF JujuTypes, AllEndpoints
    <3> QED
      BY <1>2, <2>1, <3>1, <3>2
  <2>3. \A u \in Units : ~Idle(u)' => LegacyKept(u)'
    BY <1>1, <1>2, <2>1, <2>2 DEF LegacyKept, Idle
  <2> QED
    BY <2>2, <2>3, LegacyPartsNext
<1>13. ASSUME NEW e \in Endpoints, Remove(e) PROVE LegacyInv'
  <2>1. /\ UNCHANGED <<rel, requested, leader>> /\ dying' = dying \cup {e}
        /\ \A v \in Units : Broken(e) \in pending'[v]
        /\ \A v \in Units : \A k : k \in pending[v] /\ k \notin StaleKinds(e) => k \in pending'[v]
    BY <1>13 DEF Remove
  <2>2. broken \notin StaleKinds(e)
    BY EndpointsAssumption, EventKinds DEF StaleKinds, LegacyJoined, AllEndpoints
  <2>3. ASSUME NEW u \in Units, ~Idle(u) PROVE LegacyKept(u)'
    <3>1. LegacyKept(u)
      BY <1>2, <2>3
    <3>2. "database_legacy" \in dying' => "database_legacy" \in dying \/ e = "database_legacy"
      BY <2>1
    <3>3. ASSUME hook[u].seen.rel["database_legacy"] # "absent", "database_legacy" \in dying'
          PROVE  broken \in pending'[u]
      BY <1>0, <2>1, <2>2, <3>1, <3>2, <3>3 DEF LegacyKept
    <3> QED
      BY <1>0, <1>1, <2>1, <3>1, <3>3 DEF LegacyKept
  <2> QED
    BY <1>1, <1>2, <2>1, <2>3, LegacyPartsNext DEF Idle
<1> QED
  BY <1>6, <1>7, <1>8, <1>9, <1>10, <1>11, <1>12, <1>13 DEF QuietStep

LEMMA LegacyInvNext == UnitInv /\ HookFacts /\ [Next]_vars => LegacyInv'
<1> SUFFICES ASSUME UnitInv, HookFacts, [Next]_vars PROVE LegacyInv'
  OBVIOUS
<1>0. DsnInv /\ LegacyInv /\ FailedInv
  BY DEF HookFacts
<1>1. JujuTypes /\ CharmTypes
  BY TypeInvParts DEF UnitInv
<1>2. /\ requested => rel["database_legacy"] # "absent"
      /\ rel["database_legacy"] \in Creds => requested
      /\ \A u \in Units : ~Idle(u) => LegacyKept(u)
  BY <1>0, LegacyParts
<1>3. "absent" \notin Creds
  BY DataAssumption
(* The hook of u changes, and nothing it saw of the legacy database.         *)
<1>4. ASSUME NEW u \in Units, UNCHANGED <<leader, rel, dying, requested>>,
             \A v \in Units : Broken("database_legacy") \in pending[v]
                                => Broken("database_legacy") \in pending'[v],
             \A v \in Units \ {u} : hook'[v] = hook[v],
             ~Idle(u)' => LegacyKept(u)'
      PROVE  LegacyInv'
  <2>1. ASSUME NEW v \in Units \ {u}, ~Idle(v)' PROVE LegacyKept(v)'
    BY <1>2, <1>4, <2>1 DEF LegacyKept, Idle
  <2> QED
    BY <1>2, <1>4, <2>1, LegacyPartsNext
<1>5. ASSUME NEW u \in Units, HandlerRaises(u) \/ Crash(u) PROVE LegacyInv'
  <2>1. Raise(u) /\ UNCHANGED <<leader, rel, dying, requested>>
    BY <1>5 DEF HandlerRaises, Crash, worldVars
  <2>2. Idle(u)' /\ \A v \in Units \ {u} : hook'[v] = hook[v] /\ pending'[v] = pending[v]
    BY <2>1, RaiseClears
  <2>3. pending[u] \subseteq pending'[u]
    BY <1>1, <2>1 DEF Raise, JujuTypes
  <2> QED
    BY <1>4, <2>1, <2>2, <2>3
<1>6. ASSUME NEW u \in Units, Handle(u) PROVE LegacyInv'
  <2>1. CASE Moves(u) /\ Effect(u)
    <3>1. /\ UNCHANGED <<leader, pending, rel, dying, requested>>
          /\ \A v \in Units \ {u} : hook'[v] = hook[v]
          /\ hook'[u].seen = hook[u].seen /\ hook'[u].main = hook[u].main
          /\ hook'[u].request =>
                \/ hook[u].request
                \/ leader = u /\ hook[u].seen.rel["database_legacy"] # "absent"
      BY <2>1 DEF Moves, Effect, Uncommitted, jujuVars
    <3>2. ~Idle(u)' => LegacyKept(u)'
      BY <1>2, <3>1 DEF LegacyKept, Idle
    <3> QED
      BY <1>4, <3>1, <3>2
  <2> QED
    BY <1>0, <1>5, <1>6, <2>1, HandlersMove, HandlersEffect
<1>7. ASSUME NEW u \in Units, NEW k \in Kinds, Starts(u, k) PROVE LegacyInv'
  <2>1. Begin(u, k) /\ UNCHANGED <<leader, rel, dying, requested>>
    BY <1>7, StepBegins DEF Starts, StartHook, StartUpdateStatus, StartAction, jujuVars, worldVars
  <2>2. Idle(u) /\ \A v \in Units : v # u => pending'[v] = pending[v]
    BY <1>1, <1>7, StepBegins DEF Starts, StartHook, StartUpdateStatus, StartAction, jujuVars, JujuTypes
  <2>3. \A j : j \in pending[u] /\ j # k => j \in pending'[u]
    BY <1>1, <1>7 DEF Starts, StartHook, StartUpdateStatus, StartAction, jujuVars, JujuTypes
  <2>4. /\ hook'[u].seen = Snapshot(u, k) /\ hook'[u].request = FALSE
        /\ \A v \in Units \ {u} : hook'[v] = hook[v]
    BY <2>1, BeginHolds
  <2>5. LegacyKept(u)'
    <3>1. /\ Snapshot(u, k).requested = (requested /\ Sees(u, k, "database_legacy"))
          /\ Snapshot(u, k).rel["database_legacy"] =
                IF Sees(u, k, "database_legacy") THEN rel["database_legacy"] ELSE "absent"
      BY DEF Snapshot, AllEndpoints
    <3>2. CASE Sees(u, k, "database_legacy")
      <4>1. /\ rel["database_legacy"] # "absent"
            /\ "database_legacy" \in dying => Broken("database_legacy") \in pending'[u]
        BY <2>3, <3>2 DEF Sees
      <4> QED
        BY <1>2, <2>1, <2>4, <3>1, <3>2, <4>1 DEF LegacyKept
    <3>3. CASE ~Sees(u, k, "database_legacy")
      BY <1>3, <2>4, <3>1, <3>3 DEF LegacyKept
    <3> QED
      BY <3>2, <3>3
  <2>6. ASSUME NEW v \in Units \ {u}, ~Idle(v)' PROVE LegacyKept(v)'
    BY <1>2, <2>1, <2>2, <2>4, <2>6 DEF LegacyKept, Idle
  <2> QED
    BY <1>2, <2>1, <2>5, <2>6, LegacyPartsNext
<1>8. ASSUME NEW u \in Units, EndHook(u) \/ EndStop(u) PROVE LegacyInv'
  <2>1. PICK again : Commit(u, again)
    BY <1>8 DEF EndHook, EndStop
  <2>2. ~Idle(u) /\ UNCHANGED <<leader, rel, dying>>
    BY <1>8, EndsCommit DEF Idle
  <2>3. /\ Idle(u)' /\ requested' = (requested \/ hook[u].request)
        /\ \A v \in Units \ {u} : hook'[v] = hook[v]
        /\ \A v \in Units : pending[v] \subseteq pending'[v]
    BY <2>1, CommitHolds
  <2>4. hook[u].request => rel["database_legacy"] # "absent"
    BY <1>2, <2>2 DEF LegacyKept
  <2>5. ASSUME NEW v \in Units, ~Idle(v)' PROVE LegacyKept(v)'
    BY <1>2, <2>2, <2>3, <2>5 DEF LegacyKept, Idle
  <2> QED
    BY <1>2, <2>2, <2>3, <2>4, <2>5, LegacyPartsNext
<1>9. ASSUME NEW e \in Endpoints, Gone(e) PROVE LegacyInv'
  <2>1. /\ UNCHANGED <<leader, pending>> /\ e \in dying
        /\ requested' = (requested /\ e # "database_legacy")
        /\ dying' = dying \ {e}
        /\ rel'["database_legacy"] = IF e = "database_legacy" THEN "absent" ELSE rel["database_legacy"]
        /\ \A v \in Units : Broken(e) \notin pending[v]
    BY <1>1, <1>9 DEF Gone, jujuVars, JujuTypes, AllEndpoints
  <2>2. ASSUME NEW v \in Units
        PROVE  /\ hook'[v].main = hook[v].main /\ hook'[v].seen = hook[v].seen
               /\ hook'[v].request = hook[v].request
    BY <1>1, <1>9 DEF Gone, CharmTypes, Hooks
  <2>3. ASSUME NEW v \in Units, ~Idle(v) PROVE LegacyKept(v)'
    <3>1. LegacyKept(v)
      BY <1>2, <2>3
    <3>2. CASE e = "database_legacy"
      BY <1>3, <2>1, <2>2, <3>1, <3>2 DEF LegacyKept
    <3>3. CASE e # "database_legacy"
      BY <2>1, <2>2, <3>1, <3>3 DEF LegacyKept
    <3> QED
      BY <3>2, <3>3
  <2> QED
    BY <1>2, <1>3, <2>1, <2>2, <2>3, LegacyPartsNext DEF Idle
<1>10. CASE UNCHANGED vars
  <2>1. UNCHANGED <<leader, rel, dying, requested, pending, hook>>
    BY <1>10 DEF vars, charmVars, jujuVars, worldVars
  <2> QED
    BY <1>2, <2>1, LegacyPartsNext DEF LegacyKept, Idle
<1> QED
  BY <1>0, <1>5, <1>6, <1>7, <1>8, <1>9, <1>10, LegacyQuiet, StepCases

LEMMA HookFactsNext == UnitInv /\ HookFacts /\ [Next]_vars => HookFacts'
BY NoticeFactsNext, FailedInvNext, LegacyInvNext, DsnInvNext DEF HookFacts, NoticeFacts

-----------------------------------------------------------------------------
(* Converges is inductive: one lemma per way in which a step treats the hook *)
(* of the leader.                                                            *)
LEMMA WakingStays ==
    /\ UNCHANGED <<requested, dying>> => Waking' = Waking
    /\ (requested => requested') /\ dying' = dying => Waking \subseteq Waking'
BY DEF Waking

LEMMA OpenNeeds ==
    ASSUME NEW u
    PROVE  /\ Open(u) => "livepatch" \in conn[u] /\ peer["dsn"] # None
           /\ OpenInHook(u) => "livepatch" \in conn[u]
BY OpensNeeds DEF Open, OpenInHook

(* The step leaves the unit alone, or takes its container away.              *)
LEMMA ConvergesKept ==
    ASSUME NEW u \in Units, Converges(u), Waking \subseteq Waking', UNCHANGED <<config, links>>,
           requested' /\ "database_legacy" \notin dying' => requested /\ "database_legacy" \notin dying,
           \A k \in Keys : peer'[k] = peer[k],
           hook'[u].main = hook[u].main, hook'[u].seen = hook[u].seen,
           hook'[u].view = hook[u].view, hook'[u].wrote = hook[u].wrote,
           hook'[u].todo = <<>> => hook[u].todo = <<>>,
           \A k : /\ HasKind(k, hook[u].todo) => HasKind(k, hook'[u].todo)
                  /\ HasKind(k, hook[u].kept) => HasKind(k, hook'[u].kept)
                  /\ HasKind(k, deferred[u]) => HasKind(k, deferred'[u]),
           Lasting \cap pending[u] \subseteq pending'[u],
           failed[u] \in Waking \cup Lasting => failed'[u] = failed[u],
           \/ "livepatch" \notin conn'[u]
           \/ svc'[u] = svc[u] /\ ("livepatch" \in conn'[u] => "livepatch" \in conn[u])
    PROVE  Converges(u)'
<1>1. Lasting' = Lasting
  BY DEF Lasting
<1>2. WakePending(u) => WakePending(u)'
  BY <1>1 DEF WakePending, Idle
<1>3. /\ Woken(deferred[u]) => Woken(deferred[u])'
      /\ Woken(hook[u].todo) => Woken(hook[u].todo)'
      /\ Woken(hook[u].kept) => Woken(hook[u].kept)'
  BY DEF Woken
<1>4. {"dsn", "dsn_metrics", "resource_token"} = Keys
  BY DEF Keys
<1>5. (Open(u) => Matches(u, peer)) => (Open(u)' => Matches(u, peer)')
  <2>1. Open(u)' => "livepatch" \in conn'[u]
    <3>1. ASSUME NEW view, NEW options, NEW others, Opens(u, view, options, others)'
          PROVE  "livepatch" \in conn'[u]
      BY <3>1 DEF Opens, Outcome
    <3> QED
      BY <3>1 DEF Open
  <2>2. CASE svc'[u] = svc[u] /\ ("livepatch" \in conn'[u] => "livepatch" \in conn[u])
    <3>1. Open(u)' => Open(u)
      <4>1. peer'["dsn"] = peer["dsn"] /\ peer'["resource_token"] = peer["resource_token"]
        BY <1>4
      <4>2. CASE ("livepatch" \in conn'[u]) = ("livepatch" \in conn[u])
        BY <4>1, <4>2 DEF Open, Opens
      <4>3. CASE "livepatch" \notin conn'[u]
        BY <2>1, <4>3
      <4> QED
        BY <2>2, <4>2, <4>3
    <3>2. Matches(u, peer) => Matches(u, peer)'
      BY <1>4, <2>2 DEF Matches, Running
    <3> QED
      BY <3>1, <3>2
  <2> QED
    BY <2>1, <2>2
<1>6. (OpenInHook(u) => Matches(u, hook[u].view)) => (OpenInHook(u)' => Matches(u, hook[u].view)')
  <2>1. OpenInHook(u)' => "livepatch" \in conn'[u]
    BY DEF OpenInHook, Opens, Outcome
  <2>2. CASE svc'[u] = svc[u] /\ ("livepatch" \in conn'[u] => "livepatch" \in conn[u])
    <3>1. OpenInHook(u)' => OpenInHook(u)
      <4>1. CASE ("livepatch" \in conn'[u]) = ("livepatch" \in conn[u])
        BY <4>1 DEF OpenInHook, Opens
      <4>2. CASE "livepatch" \notin conn'[u]
        BY <2>1, <4>2
      <4> QED
        BY <2>2, <4>1, <4>2
    <3>2. Matches(u, hook[u].view) => Matches(u, hook[u].view)'
      BY <2>2 DEF Matches, Running
    <3> QED
      BY <3>1, <3>2
  <2> QED
    BY <2>1, <2>2
<1>7. Fresh(u) => Fresh(u)'
  BY DEF Fresh
<1>8. EndsWell(u) => EndsWell(u)'
  BY <1>3, <1>6 DEF EndsWell, MainBroken
<1>9. RaisesWell(u) => RaisesWell(u)'
  <2>1. hook[u].main \in Waking \cup Lasting => hook'[u].main \in Waking' \cup Lasting'
    BY <1>1
  <2> QED
    BY <1>3, <1>5, <2>1 DEF RaisesWell
<1>10. Idle(u)' <=> Idle(u)
  BY DEF Idle
<1> QED
  BY <1>2, <1>3, <1>5, <1>7, <1>8, <1>9, <1>10 DEF Converges

(* The same, for a step that touches neither the hook nor the databag.       *)
LEMMA ConvergesAside ==
    ASSUME NEW u \in Units, Converges(u), UNCHANGED <<requested, dying, config, links>>,
           \A k \in Keys : peer'[k] = peer[k],
           hook'[u] = hook[u], deferred'[u] = deferred[u],
           Lasting \cap pending[u] \subseteq pending'[u],
           failed[u] \in Waking \cup Lasting => failed'[u] = failed[u],
           \/ "livepatch" \notin conn'[u]
           \/ svc'[u] = svc[u] /\ ("livepatch" \in conn'[u] => "livepatch" \in conn[u])
    PROVE  Converges(u)'
BY ConvergesKept, WakingStays

LEMMA LeaderHandles ==
    ASSUME UnitInv, HookFacts, NEW u \in Units, leader = u, Converges(u), Handle(u),
           ~ActionUnheard, Moves(u), Effect(u)
    PROVE  Converges(u)'
<1> DEFINE h == hook[u]
           k == HeadKind(u)
<1>1. h.todo # <<>> /\ h \in ActiveHooks /\ ~Idle(u)
  BY HandlersDo DEF ActiveHooks, Idle
<1>2. /\ UNCHANGED <<leader, pending, failed, config, links, dying, requested, peer, deferred>>
      /\ h.main = hook'[u].main /\ hook'[u].seen = h.seen
  BY DEF Moves, Uncommitted, jujuVars
<1>3. Waking' = Waking /\ Lasting' = Lasting /\ (Idle(u)' <=> Idle(u))
  BY <1>2, WakingStays DEF Lasting, Idle
<1>4. SUFFICES ASSUME Lasting \cap pending[u] = {}
               PROVE  Fresh(u)' /\ EndsWell(u)' /\ RaisesWell(u)'
  BY <1>1, <1>2, <1>3 DEF Converges, WakePending
<1>5. Fresh(u) /\ EndsWell(u) /\ RaisesWell(u)
  BY <1>1, <1>4 DEF Converges, WakePending
<1>6. Attentive(u)
  <2>1. k \in Actions => HandleRestartAction(u) \/ HandleTokenAction(u)
    BY EventKinds DEF Handle, HandleReconciling, HandlePeerChanged, HandleUpdateStatus, HandleStop,
       HandleDatabaseChanged, HandleLegacyJoined, HandleMasterChanged, HandleDatabaseBroken,
       HandleMetricsBroken, Handles, HeadKind, Actions, ReconcilingKinds, LegacyJoined,
       MainBroken, MainEndpoints
  <2> QED
    BY <1>4, <1>5, <2>1 DEF ActionUnheard, Attentive
<1>7. /\ Reconciles(u) /\ Harmless(u) /\ h.wrote \subseteq hook'[u].wrote
      /\ \A j \in Keys \ hook'[u].wrote : hook'[u].view[j] = h.view[j]
  BY <1>6 DEF Effect
<1>8. Fresh(u)'
  BY <1>2, <1>5, <1>7 DEF Fresh
<1>9. k \in Kinds /\ HasKind(k, h.todo)
  <2>1. Head(h.todo) \in Notices
    BY <1>1 DEF ActiveHooks, Hooks
  <2> QED
    BY <2>1 DEF Notices, HeadKind, Moves
<1>10. k = h.main \/ (HasKind(k, deferred[u]) /\ k \notin OwnEvents)
  BY <1>9 DEF HookFacts, Origin, NeverStored
<1>11. EndsWell(u)'
  <2>1. CASE k = "stop"
    BY <1>2, <1>10, <2>1 DEF OwnEvents, EndsWell
  <2>2. CASE OpenInHook(u)' => Matches(u, hook[u].view)'
    BY <2>2 DEF EndsWell
  <2>3. CASE k \in Waking /\ HasKind(k, hook'[u].kept)
    BY <1>3, <2>3 DEF EndsWell, Woken
  <2>4. CASE Passes(u)
    <3>1. CASE h.main = "stop"
      BY <1>2, <3>1 DEF EndsWell
    <3>2. CASE h.main \in MainBroken
      <4>1. HasKind(h.main, h.todo)
        <5>1. h.todo[Len(h.todo)].kind = h.main
          BY <1>1, <3>2 DEF UnitInv, BrokenLast
        <5>2. h.todo \in Seq(Notices)
          BY <1>1 DEF ActiveHooks, Hooks
        <5>3. Len(h.todo) \in 1..Len(h.todo)
          BY <1>1, <5>2
        <5> QED
          BY <5>1, <5>3 DEF HasKind
      <4>2. h.main # k /\ ~HasKind(h.main, h.kept)
        BY <2>4, <3>2 DEF Passes, HookFacts, NeverStored, OwnEvents
      <4>3. HasKind(h.main, hook'[u].todo)
        BY <4>1, <4>2 DEF Moves
      <4>4. hook'[u].todo # <<>>
        BY <4>3, NoKind
      <4> QED
        BY <1>2, <3>2, <4>4 DEF EndsWell
    <3>3. CASE Woken(h.todo)
      <4>1. PICK j \in Waking : HasKind(j, h.todo)
        BY <3>3 DEF Woken
      <4>2. HasKind(j, hook'[u].todo) \/ HasKind(j, hook'[u].kept)
        BY <2>4, <4>1 DEF Passes, Moves
      <4> QED
        BY <1>3, <4>1, <4>2 DEF EndsWell, Woken
    <3>4. CASE Woken(h.kept)
      BY <1>3, <3>4 DEF EndsWell, Woken, Moves
    <3>5. CASE OpenInHook(u) => Matches(u, h.view)
      <4>1. (OpenInHook(u)' <=> OpenInHook(u)) /\ (Matches(u, h.view)' <=> Matches(u, h.view))
        BY <1>2, <2>4 DEF Passes, OpenInHook, Opens, Matches, Running
      <4> QED
        BY <3>5, <4>1 DEF EndsWell
    <3> QED
      BY <1>5, <3>1, <3>2, <3>3, <3>4, <3>5 DEF EndsWell
  <2> QED
    BY <1>7, <2>1, <2>2, <2>3, <2>4 DEF Reconciles
<1>12. RaisesWell(u)'
  <2>1. CASE Woken(deferred[u]) \/ h.main \in Waking \cup Lasting
    BY <1>2, <1>3, <2>1 DEF RaisesWell, Woken
  <2>2. CASE ~Woken(deferred[u]) /\ h.main \notin Waking \cup Lasting
    <3>1. k \notin Waking \cup Lasting
      <4>1. CASE k = h.main
        BY <2>2, <4>1
      <4>2. CASE HasKind(k, deferred[u]) /\ k \notin OwnEvents
        <5>1. k \notin Waking /\ k \notin MainBroken \cup {"stop"}
          BY <2>2, <4>2 DEF Woken, OwnEvents
        <5> QED
          BY <5>1, WakingKinds, EventKinds
      <4> QED
        BY <1>10, <4>1, <4>2
    <3>2. /\ \/ h.wrote = {}
             \/ h.main = "get_resource_token_action" /\ h.wrote \subseteq {"resource_token"}
          /\ Open(u) => Matches(u, peer)
      BY <1>5, <2>2 DEF RaisesWell
    <3>3. k \in Actions => k = h.main
      BY <1>10 DEF OwnEvents
    <3>4. \/ hook'[u].wrote = {}
          \/ h.main = "get_resource_token_action" /\ hook'[u].wrote \subseteq {"resource_token"}
      BY <1>7, <3>1, <3>2, <3>3 DEF Harmless, Actions
    <3>5. Open(u)' => Matches(u, peer)'
      <4>1. CASE svc'[u] = svc[u] /\ conn'[u] = conn[u]
        BY <1>2, <3>2, <4>1 DEF Open, Opens, Matches, Running
      <4>2. CASE "livepatch" \notin conn'[u]
        BY <4>2 DEF Open, Opens, Outcome
      <4>3. CASE Matches(u, hook[u].view)'
        <5>1. {"dsn", "dsn_metrics"} \subseteq Keys \ hook'[u].wrote
          BY <3>4 DEF Keys
        <5>2. hook'[u].view["dsn"] = peer'["dsn"] /\ hook'[u].view["dsn_metrics"] = peer'["dsn_metrics"]
          BY <1>8, <5>1 DEF Fresh
        <5> QED
          BY <4>3, <5>2 DEF Matches
      <4>4. CASE conn'[u] = conn[u] /\ k = "restart_action" /\ ~OpenInHook(u)
        <5>1. h.wrote = {}
          BY <3>2, <3>3, <4>4 DEF Actions
        <5>2. /\ h.view["dsn"] = peer["dsn"] /\ h.view["resource_token"] = peer["resource_token"]
              /\ h.seen.config = config /\ h.seen.links = links
          BY <1>5, <5>1 DEF Fresh, Keys
        <5>3. ~Open(u)
          BY <4>4, <5>2 DEF OpenInHook, Open, Opens
        <5> QED
          BY <1>2, <4>4, <5>3 DEF Open, Opens
      <4> QED
        BY <1>7, <3>1, <4>1, <4>2, <4>3, <4>4 DEF Harmless
    <3> QED
      BY <1>2, <3>4, <3>5 DEF RaisesWell
  <2> QED
    BY <2>1, <2>2
<1> QED
  BY <1>8, <1>11, <1>12

(* A handler of the leader that has stopped the service and raises had an    *)
(* event that the leader handles again.                                      *)
LEMMA LeaderCut ==
    ASSUME UnitInv, HookFacts, NEW u \in Units, leader = u, Crash(u), CutShort(u),
           svc'[u] # svc[u], ~CutForGood(u)
    PROVE  \/ Lasting \cap pending[u] # {}
           \/ Woken(deferred[u])
           \/ hook[u].main \in Waking \cup Lasting
<1> DEFINE k == HeadKind(u)
<1>1. ~Idle(u) /\ hook[u].main \notin Actions /\ ~(Handles(u, "master_changed") /\ ~hook[u].seen.requested)
  BY DEF Crash, CutForGood
<1>2. hook[u].todo # <<>> /\ (k \in Actions \/ Resumes(u, k))
  BY <1>1, CutHead
<1>3. k \in Kinds /\ HasKind(k, hook[u].todo)
  <2>1. CharmTypes
    BY TypeInvParts DEF UnitInv
  <2>2. hook[u].todo \in Seq(Notices)
    BY <1>1, <2>1 DEF CharmTypes, Hooks, Idle
  <2>3. 1 \in 1..Len(hook[u].todo) /\ Head(hook[u].todo) = hook[u].todo[1]
        /\ hook[u].todo[1] \in Notices
    BY <1>2, <2>2
  <2> QED
    BY <2>2, <2>3 DEF HasKind, HeadKind, Notices
<1>4. k = hook[u].main \/ (HasKind(k, deferred[u]) /\ k \notin OwnEvents)
  BY <1>3 DEF HookFacts, Origin, NeverStored
<1>5. Resumes(u, k)
  BY <1>1, <1>2, <1>4 DEF OwnEvents
<1>6. k \in Waking \cup Lasting \/ Lasting \cap pending[u] # {}
  <2>1. CASE k \in Lasting
    BY <2>1
  <2>2. CASE \E e \in {"database", "metrics_db"} : k = Changed(e)
    BY <2>2, EventKinds, WakingKinds
  <2>3. CASE k = "master_changed" /\ hook[u].seen.requested
    <3>1. requested /\ ("database_legacy" \in dying => Broken("database_legacy") \in pending[u])
      BY <1>1, <2>3 DEF HookFacts, LegacyInv
    <3>2. Broken("database_legacy") \in Lasting
      BY DEF Lasting, AllEndpoints
    <3> QED
      BY <2>3, <3>1, <3>2, WakingKinds
  <2> QED
    BY <1>5, <2>1, <2>2, <2>3 DEF Resumes
<1>7. k \in Lasting /\ k \notin OwnEvents => k \in Waking
  BY EventKinds, WakingKinds DEF OwnEvents
<1> QED
  BY <1>4, <1>6, <1>7 DEF Woken

LEMMA LeaderRaises ==
    ASSUME UnitInv, HookFacts, NEW u \in Units, leader = u, Converges(u), ~Idle(u), Raise(u),
           UNCHANGED <<requested, dying, config, links, peer, deferred, conn>>,
           svc'[u] = svc[u] \/ (Crash(u) /\ CutShort(u) /\ ~CutForGood(u))
    PROVE  Converges(u)'
<1>1. /\ Idle(u)' /\ pending[u] \subseteq pending'[u]
      /\ hook[u].main \notin Actions => failed'[u] = hook[u].main
  <2>1. hook[u].main \in Actions \/ hook[u].main \notin Actions
    OBVIOUS
  <2> QED
    BY <2>1, RaiseClears
<1>2. Waking' = Waking /\ Lasting' = Lasting
  BY WakingStays DEF Lasting
<1>3. CASE Lasting \cap pending[u] # {}
  BY <1>1, <1>2, <1>3 DEF Converges, WakePending
<1>4. CASE Woken(deferred[u])
  BY <1>1, <1>2, <1>4 DEF Converges, Woken
<1>5. CASE hook[u].main \in Waking \cup Lasting
  BY <1>1, <1>2, <1>5, WakingKinds DEF Converges, WakePending
<1>6. CASE svc'[u] = svc[u] /\ (Open(u) => Matches(u, peer))
  <2>1. (Open(u)' <=> Open(u)) /\ (Matches(u, peer)' <=> Matches(u, peer))
    BY <1>6 DEF Open, Opens, Matches, Running
  <2> QED
    BY <1>1, <1>6, <2>1 DEF Converges
<1>7. CASE svc'[u] # svc[u]
  BY <1>3, <1>4, <1>5, <1>7, LeaderCut
<1> QED
  BY <1>3, <1>4, <1>5, <1>6, <1>7 DEF Converges, WakePending, RaisesWell

LEMMA LeaderStarts ==
    ASSUME UnitInv, HookFacts, NEW u \in Units, Converges(u), NEW k \in Kinds, Starts(u, k)
    PROVE  Converges(u)'
<1>1. /\ Idle(u) /\ Begin(u, k)
      /\ UNCHANGED <<config, links, rel, dying, requested, peer, deferred, conn, svc>>
  BY StepBegins DEF Starts, StartHook, StartUpdateStatus, StartAction, worldVars
<1>2. /\ hook'[u].main = k /\ hook'[u].seen = Snapshot(u, k) /\ hook'[u].view = peer
      /\ hook'[u].wrote = {} /\ ~Idle(u)'
      /\ \A j : HasKind(j, deferred[u]) => HasKind(j, hook'[u].todo)
      /\ k # "other" => HasKind(k, hook'[u].todo)
  BY <1>1, BeginHolds
<1>3. Waking' = Waking /\ Lasting' = Lasting
  BY <1>1, WakingStays DEF Lasting
<1>4. Fresh(u)'
  <2>1. /\ Snapshot(u, k).config = config /\ Snapshot(u, k).links = links
        /\ Snapshot(u, k).requested = (requested /\ Sees(u, k, "database_legacy"))
    BY DEF Snapshot
  <2>2. requested /\ "database_legacy" \notin dying => Sees(u, k, "database_legacy")
    BY DEF Sees, HookFacts, LegacyInv
  <2> QED
    BY <1>1, <1>2, <2>1, <2>2 DEF Fresh
<1>5. CASE k \in Waking \cup Lasting
  <2>1. k # "other"
    BY <1>5, WakingKinds, EventKinds DEF ReconcilingKinds
  <2>2. EndsWell(u)'
    <3>1. CASE k \in Waking
      BY <1>2, <1>3, <2>1, <3>1 DEF EndsWell, Woken
    <3>2. CASE k \in Lasting \ Waking
      <4>1. k = "stop" \/ k \in MainBroken
        BY <3>2, WakingKinds, EventKinds
      <4>2. hook'[u].todo # <<>>
        BY <1>2, <2>1, NoKind
      <4> QED
        BY <1>2, <4>1, <4>2 DEF EndsWell
    <3> QED
      BY <1>5, <3>1, <3>2
  <2>3. RaisesWell(u)'
    BY <1>2, <1>3, <1>5 DEF RaisesWell
  <2> QED
    BY <1>2, <1>4, <2>2, <2>3 DEF Converges
<1>6. CASE Woken(deferred[u])
  <2>1. Woken(deferred[u])' /\ Woken(hook[u].todo)'
    BY <1>1, <1>2, <1>3, <1>6 DEF Woken
  <2> QED
    BY <1>2, <1>4, <2>1 DEF Converges, EndsWell, RaisesWell
<1>7. CASE Open(u) => Matches(u, peer)
  <2>1. (Open(u)' <=> Open(u)) /\ (Matches(u, peer)' <=> Matches(u, peer))
    BY <1>1 DEF Open, Opens, Matches, Running
  <2>2. OpenInHook(u)' <=> Open(u)'
    BY <1>1, <1>2, <1>4 DEF OpenInHook, Open, Fresh, Opens
  <2>3. Matches(u, hook[u].view)' <=> Matches(u, peer)'
    BY <1>1, <1>2 DEF Matches
  <2> QED
    BY <1>2, <1>4, <1>7, <2>1, <2>2, <2>3 DEF Converges, EndsWell, RaisesWell
<1>8. CASE WakePending(u) /\ k \notin Waking \cup Lasting
  <2>1. CharmTypes /\ JujuTypes
    BY TypeInvParts DEF UnitInv
  <2>2. failed[u] # None => failed[u] \in pending[u]
    BY DEF HookFacts, FailedInv
  <2>3. failed[u] \notin Waking \cup Lasting
    <3>1. failed[u] \in Waking \cup Lasting => failed[u] # None
      BY WakingKinds
    <3> QED
      BY <1>8, <2>2, <3>1 DEF Starts, StartHook, StartUpdateStatus, StartAction
  <2>4. PICK j \in Lasting : j \in pending[u]
    BY <1>8, <2>3 DEF WakePending
  <2>5. j \in pending'[u]
    BY <1>8, <2>1, <2>4 DEF Starts, StartHook, StartUpdateStatus, StartAction, jujuVars, JujuTypes
  <2> QED
    BY <1>3, <2>4, <2>5 DEF Converges, WakePending
<1> QED
  BY <1>1, <1>5, <1>6, <1>7, <1>8 DEF Converges

LEMMA LeaderEnds ==
    ASSUME UnitInv, NEW u \in Units, Converges(u), EndHook(u) \/ EndStop(u)
    PROVE  Converges(u)'
<1>1. /\ ~Idle(u) /\ hook[u].todo = <<>> /\ UNCHANGED <<config, links, dying>>
      /\ \/ hook[u].main # "stop" /\ Commit(u, {}) /\ UNCHANGED <<conn, svc>>
         \/ hook[u].main = "stop" /\ Commit(u, {"config_changed", "start"})
  BY EndsCommit DEF Idle
<1>2. PICK again : Commit(u, again) /\ (hook[u].main = "stop" => "config_changed" \in again)
  BY <1>1
<1>3. /\ Idle(u)' /\ deferred'[u] = hook[u].kept
      /\ pending[u] \subseteq pending'[u] /\ again \subseteq pending'[u]
      /\ requested => requested'
      /\ \A k \in Keys : peer'[k] = IF k \in hook[u].wrote THEN hook[u].view[k] ELSE peer[k]
  BY <1>2, CommitHolds
<1>4. Waking \subseteq Waking' /\ Lasting' = Lasting /\ "config_changed" \in Lasting
  BY <1>1, <1>3, WakingStays DEF Lasting, ReconcilingKinds
<1>5. CASE Lasting \cap pending[u] # {} \/ hook[u].main = "stop"
  BY <1>2, <1>3, <1>4, <1>5 DEF Converges, WakePending
<1>6. CASE Woken(hook[u].kept)
  BY <1>3, <1>4, <1>6 DEF Converges, Woken
<1>7. CASE /\ hook[u].main # "stop" /\ Fresh(u)
           /\ OpenInHook(u) => Matches(u, hook[u].view)
  <2>1. \A k \in Keys : peer'[k] = hook[u].view[k]
    BY <1>3, <1>7 DEF Fresh
  <2>2. UNCHANGED <<conn, svc>>
    BY <1>1, <1>7
  <2>3. /\ peer'["dsn"] = hook[u].view["dsn"]
        /\ peer'["dsn_metrics"] = hook[u].view["dsn_metrics"]
        /\ peer'["resource_token"] = hook[u].view["resource_token"]
    BY <2>1 DEF Keys
  <2>4. Open(u)' <=> OpenInHook(u)
    BY <1>1, <1>7, <2>2, <2>3 DEF Open, OpenInHook, Opens, Fresh
  <2>5. Matches(u, peer)' <=> Matches(u, hook[u].view)
    BY <2>2, <2>3 DEF Matches, Running
  <2> QED
    BY <1>3, <1>7, <2>4, <2>5 DEF Converges
<1>8. ~Woken(hook[u].todo)
  BY <1>1, NoKind DEF Woken
<1> QED
  BY <1>1, <1>5, <1>6, <1>7, <1>8 DEF Converges, WakePending, EndsWell

LEMMA GoneConverges ==
    ASSUME UnitInv, NEW u \in Units, Converges(u), NEW e \in Endpoints, Gone(e)
    PROVE  Converges(u)'
<1>1. /\ UNCHANGED <<pending, failed, config, links, conn, svc, peer>> /\ e \in dying
      /\ requested' = (requested /\ e # "database_legacy") /\ dying' = dying \ {e}
      /\ TypeInv /\ CharmTypes
  BY TypeInvParts DEF Gone, jujuVars, UnitInv
<1>2. Waking' = Waking
  BY <1>1 DEF Waking
<1>3. requested' /\ "database_legacy" \notin dying' => requested /\ "database_legacy" \notin dying
  BY <1>1
<1>4. /\ hook'[u].main = hook[u].main /\ hook'[u].seen = hook[u].seen
      /\ hook'[u].view = hook[u].view /\ hook'[u].wrote = hook[u].wrote
  BY <1>1 DEF Gone, CharmTypes, Hooks
<1>5. hook'[u].todo = <<>> => hook[u].todo = <<>>
  <2>1. hook'[u].todo = Aged(hook[u].todo, e) /\ hook[u].todo \in Seq(Notices)
    BY <1>1, GoneFields
  <2>2. Len(hook'[u].todo) = Len(hook[u].todo)
    BY <2>1, AgedKinds
  <2>3. Len(<<>>) = 0
    OBVIOUS
  <2> QED
    BY <2>1, <2>2, <2>3
<1>6. \A k : /\ HasKind(k, hook[u].todo) => HasKind(k, hook'[u].todo)
             /\ HasKind(k, hook[u].kept) => HasKind(k, hook'[u].kept)
             /\ HasKind(k, deferred[u]) => HasKind(k, deferred'[u])
  BY <1>1, GoneFields, AgedKind
<1> QED
  BY <1>1, <1>2, <1>3, <1>4, <1>5, <1>6, ConvergesKept

LEMMA SameLeaderConverges ==
    ASSUME NEW u \in Units, leader' = u, Converges(u)'
    PROVE  Converges(leader)'
BY DEF Converges, WakePending, Idle, Fresh, EndsWell, RaisesWell, Open, OpenInHook, Matches,
   Opens, Running

LEMMA QuietConverges ==
    ASSUME UnitInv, HookFacts, Converges(leader), QuietStep, ~RetryGivenUp
    PROVE  Converges(leader)'
<1> DEFINE u == leader
<1>0. CharmTypes /\ JujuTypes /\ u \in Units
  BY TypeInvParts DEF UnitInv, JujuTypes
<1>1. UNCHANGED <<hook, deferred, peer>>
  BY QuietHolds
<1>2. Lasting' = Lasting /\ {"config_changed", "leader_elected", "livepatch_pebble_ready",
                             "integration_changed"} \subseteq Lasting
  BY DEF Lasting, ReconcilingKinds
<1>3. ASSUME leader' = leader, UNCHANGED <<requested, dying, config, links>>,
             Lasting \cap pending[u] \subseteq pending'[u],
             failed[u] \in Waking \cup Lasting => failed'[u] = failed[u],
             \/ "livepatch" \notin conn'[u]
             \/ svc'[u] = svc[u] /\ ("livepatch" \in conn'[u] => "livepatch" \in conn[u])
      PROVE  Converges(leader)'
  <2>1. Converges(u) /\ (\A k \in Keys : peer'[k] = peer[k])
        /\ hook'[u] = hook[u] /\ deferred'[u] = deferred[u]
    BY <1>1
  <2>2. \A v \in Units : leader' = v /\ Converges(v)' => Converges(leader)'
    BY SameLeaderConverges
  <2> QED
    BY <1>0, <1>3, <2>1, <2>2, ConvergesAside
<1>4. ASSUME NEW v \in Units, leader' = v, Lasting \cap pending'[v] # {}
      PROVE  Converges(leader)'
  BY <1>2, <1>4 DEF Converges, WakePending
<1>5. CASE PeerRelationCreated
  BY <1>0, <1>3, <1>5 DEF PeerRelationCreated, Notify, charmVars, worldVars
<1>6. ASSUME NEW v \in Units, NEW c \in {"livepatch", "schema"}, ContainerUp(v, c)
      PROVE  Converges(leader)'
  <2>1. CASE v = u /\ c = "livepatch"
    <3>1. "livepatch_pebble_ready" \in pending'[u] /\ leader' = u
      BY <1>0, <1>6, <2>1 DEF ContainerUp, Notify
    <3> QED
      BY <1>0, <1>2, <1>4, <3>1
  <2>2. CASE ~(v = u /\ c = "livepatch")
    <3>1. "livepatch" \in conn'[u] => "livepatch" \in conn[u]
      BY <1>0, <1>6, <2>2 DEF ContainerUp, CharmTypes
    <3> QED
      BY <1>0, <1>3, <1>6, <3>1 DEF ContainerUp, Notify, charmVars
  <2> QED
    BY <2>1, <2>2
<1>7. ASSUME NEW v \in Units, NEW c \in {"livepatch", "schema"}, ContainerDown(v, c)
      PROVE  Converges(leader)'
  <2>1. \/ "livepatch" \notin conn'[u]
        \/ svc'[u] = svc[u] /\ ("livepatch" \in conn'[u] => "livepatch" \in conn[u])
    BY <1>0, <1>7 DEF ContainerDown, CharmTypes
  <2> QED
    BY <1>3, <1>7, <2>1 DEF ContainerDown, jujuVars
<1>8. ASSUME NEW v \in Units, PodStop(v) PROVE Converges(leader)'
  BY <1>0, <1>3, <1>8 DEF PodStop, Notify, charmVars
<1>9. ASSUME NEW v \in Units, ElectLeader(v) PROVE Converges(leader)'
  BY <1>2, <1>4, <1>9 DEF ElectLeader
<1>10. ASSUME NEW v \in Units, Resolve(v) PROVE Converges(leader)'
  <2>1. UNCHANGED <<leader, requested, dying, config, links, conn, svc>>
    BY <1>10 DEF Resolve, charmVars
  <2>2. CASE v = u
    <3>1. failed'[u] = None /\ pending'[u] = pending[u] \ {failed[u]}
      BY <1>0, <1>10, <2>2 DEF Resolve, JujuTypes
    <3>2. failed[u] \notin Waking \cup Lasting
      BY <1>1, <3>1 DEF RetryGivenUp
    <3> QED
      BY <1>3, <2>1, <3>1, <3>2
  <2>3. CASE v # u
    <3>1. failed'[u] = failed[u] /\ pending'[u] = pending[u]
      BY <1>0, <1>10, <2>3 DEF Resolve, JujuTypes
    <3> QED
      BY <1>3, <2>1, <3>1
  <2> QED
    BY <2>2, <2>3
<1>11. CASE ChangeConfig \/ ChangeLinks
  <2>1. leader' = u /\ ("config_changed" \in pending'[u] \/ "integration_changed" \in pending'[u])
    BY <1>0, <1>11 DEF ChangeConfig, ChangeLinks, Notify
  <2> QED
    BY <1>0, <1>2, <1>4, <2>1
<1>12. ASSUME NEW e \in Endpoints, Integrate(e) \/ Publish(e) PROVE Converges(leader)'
  BY <1>0, <1>3, <1>12 DEF Integrate, Publish, Notify, charmVars
<1>13. ASSUME NEW e \in Endpoints, Remove(e) PROVE Converges(leader)'
  <2>1. leader' = u /\ Broken(e) \in pending'[u] /\ Broken(e) \in Lasting
    BY <1>0, <1>13, EndpointsAssumption DEF Remove, Lasting
  <2> QED
    BY <1>0, <1>4, <2>1
<1> QED
  BY <1>5, <1>6, <1>7, <1>8, <1>9, <1>10, <1>11, <1>12, <1>13 DEF QuietStep

Heeded == ~ActionUnheard /\ ~RetryGivenUp /\ ~CutForGood(leader)

LEMMA ConvergesNext == LeaderInv /\ [Next]_vars /\ [Heeded]_vars => Converges(leader)'
<1> SUFFICES ASSUME LeaderInv, [Next]_vars, [Heeded]_vars PROVE Converges(leader)'
  OBVIOUS
<1>1. CharmTypes /\ JujuTypes /\ leader \in Units
  BY TypeInvParts DEF LeaderInv, UnitInv, JujuTypes
<1>13. PICK u \in Units : u = leader
  BY <1>1
<1>0. /\ UnitInv /\ HookFacts /\ WriterLeads /\ DsnInv /\ LegacyInv
      /\ leader = u /\ Converges(u)
  BY <1>13 DEF LeaderInv, HookFacts
<1>2. CASE UNCHANGED vars
  <2>1. leader' = u
    BY <1>0, <1>2 DEF vars, jujuVars
  <2>2. Converges(u)'
    BY <1>0, <1>1, <1>2, ConvergesAside DEF vars, charmVars, jujuVars, worldVars
  <2> QED
    BY <2>1, <2>2, SameLeaderConverges
<1>3. SUFFICES ASSUME ~UNCHANGED vars PROVE Converges(leader)'
  BY <1>2
<1>4. ~ActionUnheard /\ ~RetryGivenUp /\ ~CutForGood(u)
  BY <1>0, <1>3 DEF Heeded
(* The hook of another unit.                                                 *)
<1>5. ASSUME UNCHANGED <<leader, requested, dying, config, links>>,
             \A k \in Keys : peer'[k] = peer[k],
             hook'[u] = hook[u], deferred'[u] = deferred[u], svc'[u] = svc[u], conn'[u] = conn[u],
             pending[u] \subseteq pending'[u], failed'[u] = failed[u]
      PROVE  Converges(leader)'
  <2>1. Converges(u)'
    BY <1>0, <1>1, <1>5, ConvergesAside
  <2> QED
    BY <1>0, <1>5, <2>1, SameLeaderConverges
<1>6. ASSUME NEW w \in Units, ~Idle(w), HandlerRaises(w) \/ Crash(w) PROVE Converges(leader)'
  <2>1. /\ Raise(w)
        /\ UNCHANGED <<leader, requested, dying, config, links, peer, deferred, conn>>
        /\ svc' = svc \/ (Crash(w) /\ CutShort(w))
    BY <1>6 DEF HandlerRaises, Crash, worldVars
  <2>2. CASE w = u
    <3>1. Converges(u)'
      BY <1>0, <1>1, <1>4, <1>6, <2>1, <2>2, LeaderRaises
    <3> QED
      BY <1>0, <2>1, <3>1, SameLeaderConverges
  <2>3. CASE w # u
    <3>1. hook'[u] = hook[u] /\ pending'[u] = pending[u] /\ failed'[u] = failed[u]
      BY <1>0, <1>1, <2>1, <2>3, RaiseClears
    <3>2. svc'[u] = svc[u]
      BY <1>1, <2>1, <2>3, CutFields
    <3> QED
      BY <1>5, <2>1, <3>1, <3>2
  <2> QED
    BY <2>2, <2>3
<1>7. ASSUME NEW w \in Units, Handle(w) PROVE Converges(leader)'
  <2>1. CASE HandlerRaises(w)
    <3>1. ~Idle(w)
      BY <1>0, <1>7, HandlersDo DEF ActiveHooks, Idle
    <3> QED
      BY <1>6, <2>1, <3>1
  <2>2. CASE Moves(w) /\ Effect(w)
    <3>1. UNCHANGED <<leader, pending, failed, config, links, dying, requested, peer, deferred>>
      BY <2>2 DEF Moves, Uncommitted, jujuVars
    <3>2. CASE w = u
      <4>1. Converges(u)'
        BY <1>0, <1>1, <1>4, <1>7, <2>2, <3>2, LeaderHandles
      <4> QED
        BY <1>0, <3>1, <4>1, SameLeaderConverges
    <3>3. CASE w # u
      <4>1. hook'[u] = hook[u] /\ svc'[u] = svc[u] /\ conn'[u] = conn[u]
        BY <1>1, <2>2, <3>3 DEF Moves
      <4> QED
        BY <1>5, <3>1, <4>1
    <3> QED
      BY <3>2, <3>3
  <2> QED
    BY <1>0, <1>7, <2>1, <2>2, HandlersMove, HandlersEffect
<1>8. ASSUME NEW w \in Units, NEW k \in Kinds, Starts(w, k) PROVE Converges(leader)'
  <2>1. /\ Begin(w, k)
        /\ UNCHANGED <<leader, config, links, dying, requested, peer, deferred, conn, svc>>
    BY <1>0, <1>8, StepBegins DEF Starts, StartHook, StartUpdateStatus, StartAction, jujuVars, worldVars
  <2>2. CASE w = u
    <3>1. Converges(u)'
      BY <1>0, <1>1, <1>8, <2>2, LeaderStarts
    <3> QED
      BY <1>0, <2>1, <3>1, SameLeaderConverges
  <2>3. CASE w # u
    <3>1. hook'[u] = hook[u]
      <4>1. \A v \in Units \ {w} : hook'[v] = hook[v]
        BY <1>0, <2>1, BeginHolds
      <4> QED
        BY <2>3, <4>1
    <3>2. pending'[u] = pending[u] /\ failed'[u] = failed[u]
      BY <1>1, <1>8, <2>3 DEF Starts, StartHook, StartUpdateStatus, StartAction, jujuVars, JujuTypes
    <3> QED
      BY <1>5, <2>1, <3>1, <3>2
  <2> QED
    BY <2>2, <2>3
<1>9. ASSUME NEW w \in Units, EndHook(w) \/ EndStop(w) PROVE Converges(leader)'
  <2>1. ~Idle(w) /\ UNCHANGED <<leader, failed, config, links, dying>>
    BY <1>9, EndsCommit DEF Idle
  <2>2. CASE w = u
    <3>1. Converges(u)'
      BY <1>0, <1>1, <1>9, <2>2, LeaderEnds
    <3> QED
      BY <1>0, <2>1, <3>1, SameLeaderConverges
  <2>3. CASE w # u
    <3>1. PICK again : Commit(w, again)
      BY <1>9 DEF EndHook, EndStop
    <3>2. hook[w].wrote = {} /\ ~hook[w].request
      BY <1>0, <2>1, <2>3 DEF WriterLeads, LegacyInv
    <3>3. /\ hook'[u] = hook[u] /\ deferred'[u] = deferred[u] /\ pending[u] \subseteq pending'[u]
          /\ requested' = (requested \/ hook[w].request)
          /\ \A k \in Keys : peer'[k] = peer[k]
      BY <1>0, <1>1, <2>3, <3>1, <3>2, CommitHolds
    <3>4. requested' = requested
      BY <1>1, <3>2, <3>3 DEF JujuTypes
    <3>5. svc'[u] = svc[u] /\ conn'[u] = conn[u]
      BY <1>1, <1>9, <2>3 DEF EndHook, EndStop, CharmTypes
    <3> QED
      BY <1>5, <2>1, <3>3, <3>4, <3>5
  <2> QED
    BY <2>2, <2>3
<1>10. ASSUME NEW w \in Units, Crash(w) PROVE Converges(leader)'
  BY <1>6, <1>10 DEF Crash
<1>11. ASSUME NEW e \in Endpoints, Gone(e) PROVE Converges(leader)'
  <2>1. Converges(u)' /\ leader' = u
    BY <1>0, <1>1, <1>11, GoneConverges DEF Gone, jujuVars
  <2> QED
    BY <1>1, <2>1, SameLeaderConverges
<1>12. CASE QuietStep
  BY <1>0, <1>4, <1>12, QuietConverges
<1> QED
  BY <1>3, <1>7, <1>8, <1>9, <1>10, <1>11, <1>12, StepCases

LEMMA LeaderInvNext == LeaderInv /\ [Next]_vars /\ [Heeded]_vars => LeaderInv'
BY UnitInvNext, WriterLeadsNext, HookFactsNext, ConvergesNext DEF LeaderInv, UnitInv

LEMMA LeaderInvInit == Init \/ Deployed => LeaderInv
<1> SUFFICES ASSUME Init \/ Deployed PROVE HookFacts /\ Converges(leader)
  BY UnitInvInit, WriterLeadsInit DEF LeaderInv
<1>1. leader \in Units /\ \A u \in Units : hook[u] = IdleHook /\ failed[u] = None /\ Idle(u)
  <2>1. leader \in Units /\ \A u \in Units : hook[u] = IdleHook /\ failed[u] = None
    BY DEF Init, Deployed
  <2>2. IdleHook.main = None
    BY DEF IdleHook
  <2> QED
    BY <2>1, <2>2 DEF Idle
<1>5. NeverStored /\ Origin /\ FailedInv
  BY NoticesInit DEF NoticeFacts
<1>6. "absent" \notin Creds /\ None \notin Creds /\ "dsn" \in Keys /\ "dsn_metrics" \in Keys
      /\ "database_legacy" \in AllEndpoints
  BY DataAssumption DEF Keys, AllEndpoints
<1>7. CASE Init \/ (Deployed /\ Unintegrated)
  <2>1. /\ rel["database_legacy"] = "absent" /\ requested = FALSE /\ peer["dsn"] = None
    BY <1>6, <1>7 DEF Init, Unintegrated
  <2>2. LegacyInv /\ DsnInv
    BY <1>1, <1>6, <2>1 DEF LegacyInv, DsnInv
  <2>3. ~Open(leader)
    BY <2>1, OpenNeeds
  <2> QED
    BY <1>1, <1>5, <2>2, <2>3 DEF HookFacts, Converges
<1>8. CASE Deployed /\ Serving
  <2>1. PICK c \in Creds, token \in Tokens \cup {None}, e \in Endpoints \ {"metrics_db"} :
            /\ rel = [f \in AllEndpoints |-> IF f = e THEN c ELSE "absent"]
            /\ requested = (e = "database_legacy")
            /\ peer = [k \in Keys |->
                 CASE k = "dsn" -> c [] k = "dsn_metrics" -> None [] k = "resource_token" -> token]
            /\ Outcome([ready |-> TRUE, workload |-> TRUE, schema |-> TRUE, dsn |-> TRUE,
                        token |-> token # None, config |-> config, links |-> links]) = "started"
            /\ deferred = [u \in Units |-> <<>>]
            /\ svc = [u \in Units |-> [dsn |-> c, dsn_metrics |-> None, is_leader |-> u = leader]]
            /\ status = [u \in Units |-> "active"]
    BY <1>8, Zenon DEF Serving
  <2>2. /\ requested => rel["database_legacy"] # "absent"
        /\ rel["database_legacy"] \in Creds => requested
    BY <1>6, <2>1
  <2>3. LegacyInv /\ DsnInv
    BY <1>1, <1>8, <2>2 DEF LegacyInv, DsnInv, Deployed
  <2>4. peer["dsn"] = c /\ peer["dsn_metrics"] = None
    BY <1>6, <2>1
  <2>5. svc[leader] = [dsn |-> c, dsn_metrics |-> None, is_leader |-> TRUE]
    BY <1>1, <2>1
  <2>6. svc[leader] \in Environments
    BY <2>5 DEF Environments
  <2>7. Running(leader)
    BY <2>6, DataAssumption DEF Running
  <2>8. /\ svc[leader].dsn = c /\ svc[leader].dsn_metrics = None /\ svc[leader].is_leader
    BY <2>5
  <2>9. Matches(leader, peer)
    BY <2>4, <2>7, <2>8 DEF Matches
  <2> QED
    BY <1>1, <1>5, <2>3, <2>9 DEF HookFacts, Converges
<1> QED
  BY <1>7, <1>8 DEF Deployed

LEMMA LeaderInvServes == LeaderInv => LeaderServesDatabag
<1> SUFFICES ASSUME LeaderInv, Done(leader), Verdict(leader) = "started"
             PROVE  ServesDatabag(leader) /\ svc[leader].is_leader
  BY DEF LeaderServesDatabag
<1>1. leader \in Units /\ UnitInv /\ HookFacts /\ Converges(leader)
  BY TypeInvParts DEF LeaderInv, UnitInv, JujuTypes
<1>2. Idle(leader) /\ pending[leader] = {} /\ deferred[leader] = <<>>
  BY <1>1 DEF Done, Settled
<1>3. failed[leader] = None
  BY <1>1, <1>2 DEF HookFacts, FailedInv
<1>4. ~WakePending(leader)
  BY <1>2, <1>3, WakingKinds DEF WakePending
<1>5. ~Woken(deferred[leader])
  BY <1>2, NoKind DEF Woken
<1>6. Open(leader)
  BY DEF Verdict, Open, Opens, Outcome, SchemaUpgradeDefers, MissingToken, MissingOtlp
<1> QED
  BY <1>1, <1>2, <1>4, <1>5, <1>6 DEF Converges, Matches, ServesDatabag

(* However the lease moves and whatever fails, a leader that has nothing left *)
(* to run and no stored notice serves, if it can, with the connections of the *)
(* databag, and its service knows that it leads: unless an action of the      *)
(* leader, whose event cannot be deferred, meets a schema container that does *)
(* not answer; a handler of the leader stops the service and raises, in a     *)
(* hook that Juju does not retry or that does not come back to it; or the     *)
(* operator gives up the retry of a reconciling hook.                         *)
THEOREM LeaderServes == Spec /\ [][Heeded]_vars => []LeaderServesDatabag
<1>1. Init => LeaderInv
  BY LeaderInvInit
<1>2. LeaderInv /\ [Next]_vars /\ [Heeded]_vars => LeaderInv'
  BY LeaderInvNext
<1>3. LeaderInv => LeaderServesDatabag
  BY LeaderInvServes
<1> QED
  BY <1>1, <1>2, <1>3, PTL DEF Spec

(* The same from the deployed states.                                        *)
THEOREM DeployedLeaderServes == DeployedSpec /\ [][Heeded]_vars => []LeaderServesDatabag
<1>1. Deployed => LeaderInv
  BY LeaderInvInit
<1>2. LeaderInv /\ [Next]_vars /\ [Heeded]_vars => LeaderInv'
  BY LeaderInvNext
<1>3. LeaderInv => LeaderServesDatabag
  BY LeaderInvServes
<1> QED
  BY <1>1, <1>2, <1>3, PTL DEF DeployedSpec
=============================================================================
