--------------------------- MODULE LivepatchCharm ---------------------------
(***************************************************************************)
(* The Livepatch charm running in every unit of one application: hooks that *)
(* Juju runs one at a time per unit but concurrently across units, the      *)
(* notices the charm defers, the peer databag its leader writes, and the    *)
(* workload container each unit configures from it.                         *)
(*                                                                         *)
(* A hook is a transaction. StartHook takes the snapshot of the relation    *)
(* data and of the options that the hook reads; each handler is one action; *)
(* EndHook commits the databag writes and the deferred notices. A hook that *)
(* raises commits nothing, but what it told Pebble and its status stay,     *)
(* also when it raises in the middle of a handler.                          *)
(***************************************************************************)
EXTENDS Naturals, Sequences, Reconcile

CONSTANTS
    Units,              \* the units of the application
    Creds,              \* connection strings a database can hand out
    Tokens,             \* resource tokens the contracts server can issue
    Endpoints,          \* the database endpoints integrated in this instance
    Configs,            \* the configurations the operator chooses from
    Links,              \* the states of the other integrations
    Disturbances,       \* the kinds of operator actions and faults that occur
    MaxDisturbances,    \* bound: how many of them occur
    None,               \* no connection string, no token, no hook
    NoPlan, Stopped     \* the service before a layer is added, and while stopped

AllEndpoints == {"database", "database_legacy", "metrics_db"}

Keys == {"dsn", "dsn_metrics", "resource_token"}

(* The event kinds, named after the observers registered in __init__.       *)
(* "other" is any event nothing observes: it only re-emits the notices.     *)
Changed(e) == CASE e = "database" -> "database_relation_changed"
                [] e = "database_legacy" -> "master_changed"
                [] e = "metrics_db" -> "metrics_db_relation_changed"

Broken(e) == CASE e = "database" -> "database_relation_broken"
               [] e = "database_legacy" -> "database_legacy_relation_broken"
               [] e = "metrics_db" -> "metrics_db_relation_broken"

LegacyJoined == "database_relation_joined"

ReconcilingKinds ==
    {"start", "config_changed", "leader_elected", "livepatch_pebble_ready",
     "integration_changed"}

Actions == {"restart_action", "get_resource_token_action"}

RelationKinds ==
    {Changed(e) : e \in AllEndpoints} \cup {Broken(e) : e \in AllEndpoints} \cup {LegacyJoined}

Kinds ==
    ReconcilingKinds \cup Actions \cup RelationKinds
        \cup {"livepatch_relation_changed", "update_status", "stop", "other"}

(* Hooks a starting unit runs before any other. *)
BootKinds == {"leader_elected", "config_changed", "start", "stop"}

VARIABLES
    leader,     \* the unit holding the leadership lease
    ready,      \* the peer relation exists
    config,     \* the configuration options
    links,      \* the other integrations
    rel,        \* what each database endpoint publishes
    dying,      \* endpoints being removed
    requested,  \* the leader has asked the legacy endpoint for its database
    peer,       \* the application databag of the peer relation
    pending,    \* per unit, the hooks Juju has still to run
    failed,     \* per unit, the hook that raised and must be retried, or None
    hook,       \* per unit, the hook being run
    deferred,   \* per unit, the stored notices
    conn,       \* per unit, the containers whose Pebble answers
    svc,        \* per unit, the livepatch service
    status,     \* per unit, the status shown by juju
    spent       \* disturbances so far

charmVars == <<hook, deferred, svc, status>>
jujuVars == <<leader, ready, pending, failed>>
worldVars == <<config, links, rel, dying, requested, conn, spent>>
vars == <<charmVars, jujuVars, worldVars, peer>>

Databag ==
    {b \in [Keys -> Creds \cup Tokens \cup {None}] :
        /\ b["dsn"] \in Creds \cup {None}
        /\ b["dsn_metrics"] \in Creds \cup {None}
        /\ b["resource_token"] \in Tokens \cup {None}}

RelationData == {"absent", "nodata"} \cup Creds

(* The part of the layer's environment the properties are about. *)
Environments == [dsn: Creds, dsn_metrics: Creds \cup {None}, is_leader: BOOLEAN]

Snapshots ==
    [ready: BOOLEAN, config: ConfigRecords, links: LinkRecords, requested: BOOLEAN,
     rel: [AllEndpoints -> RelationData]]

(* A stored notice is an event of one relation: `old` says that the relation *)
(* is gone, so that no new event is the same.                                *)
Notices == [kind: Kinds, old: BOOLEAN]

Notice(k) == [kind |-> k, old |-> FALSE]

Hooks ==
    [main: Kinds \cup {None}, todo: Seq(Notices), kept: Seq(Notices),
     seen: Snapshots \cup {None}, view: Databag \cup {None},
     wrote: SUBSET Keys, request: BOOLEAN]

IdleHook ==
    [main |-> None, todo |-> <<>>, kept |-> <<>>, seen |-> None, view |-> None,
     wrote |-> {}, request |-> FALSE]

ASSUME UnitsAssumption == Units # {}
ASSUME EndpointsAssumption == Endpoints \subseteq AllEndpoints
ASSUME SettingsAssumption == Configs \subseteq ConfigRecords /\ Links \subseteq LinkRecords
ASSUME BoundAssumption == MaxDisturbances \in Nat
ASSUME DataAssumption ==
    /\ {"absent", "nodata", None} \cap (Creds \cup Tokens) = {}
    /\ None \notin Kinds
    /\ NoPlan # Stopped /\ {NoPlan, Stopped} \cap Environments = {}

Idle(u) == hook[u].main = None

Running(u) == svc[u] \notin {NoPlan, Stopped}

-----------------------------------------------------------------------------
Init ==
    /\ leader \in Units
    /\ ready = FALSE
    /\ config \in Configs
    /\ links \in Links
    /\ rel = [e \in AllEndpoints |-> "absent"]
    /\ dying = {}
    /\ requested = FALSE
    /\ peer = [k \in Keys |-> None]
    /\ pending = [u \in Units |->
                    {"config_changed", "start"} \cup (IF u = leader THEN {"leader_elected"} ELSE {})]
    /\ failed = [u \in Units |-> None]
    /\ hook = [u \in Units |-> IdleHook]
    /\ deferred = [u \in Units |-> <<>>]
    /\ conn = [u \in Units |-> {}]
    /\ svc = [u \in Units |-> NoPlan]
    /\ status = [u \in Units |-> "maintenance"]
    /\ spent = 0

(* The events a booting unit stores until there is a database. *)
BootNotices(u) ==
    LET kinds == <<"config_changed", "start", "livepatch_pebble_ready">>
        all == IF u = leader THEN <<"leader_elected">> \o kinds
               ELSE Append(kinds, "livepatch_relation_changed")
    IN  [i \in 1..Len(all) |-> Notice(all[i])]

(* An application whose units all run, before a database is integrated.      *)
Unintegrated ==
    /\ rel = [e \in AllEndpoints |-> "absent"]
    /\ requested = FALSE
    /\ peer = [k \in Keys |-> None]
    /\ deferred = [u \in Units |-> BootNotices(u)]
    /\ svc = [u \in Units |-> NoPlan]
    /\ status = [u \in Units |-> "blocked"]

(* An application that serves from an integrated database. *)
Serving ==
    \E c \in Creds, token \in Tokens \cup {None}, e \in Endpoints \ {"metrics_db"} :
        /\ rel = [f \in AllEndpoints |-> IF f = e THEN c ELSE "absent"]
        /\ requested = (e = "database_legacy")
        /\ peer = [k \in Keys |->
                    CASE k = "dsn" -> c [] k = "dsn_metrics" -> None [] k = "resource_token" -> token]
        /\ Outcome([ready |-> TRUE, workload |-> TRUE, schema |-> TRUE, dsn |-> TRUE,
                    token |-> token # None, config |-> config, links |-> links]) = "started"
        /\ deferred = [u \in Units |-> <<>>]
        /\ svc = [u \in Units |-> [dsn |-> c, dsn_metrics |-> None, is_leader |-> u = leader]]
        /\ status = [u \in Units |-> "active"]

(* A shortcut past the boot: reachable from Init, without its interleavings. *)
Deployed ==
    /\ leader \in Units
    /\ ready = TRUE
    /\ config \in Configs
    /\ links \in Links
    /\ dying = {}
    /\ pending = [u \in Units |-> {}]
    /\ failed = [u \in Units |-> None]
    /\ hook = [u \in Units |-> IdleHook]
    /\ conn = [u \in Units |-> {"livepatch", "schema"}]
    /\ spent = 0
    /\ Unintegrated \/ Serving

-----------------------------------------------------------------------------
(* Running a hook.                                                          *)

(* A unit sees a relation until it has run the relation's broken hook, and  *)
(* no longer during it.                                                     *)
Sees(u, k, e) ==
    /\ rel[e] # "absent"
    /\ e \in dying => Broken(e) \in pending[u] /\ k # Broken(e)

Snapshot(u, k) ==
    [ready |-> ready, config |-> config, links |-> links,
     requested |-> requested /\ Sees(u, k, "database_legacy"),
     rel |-> [e \in AllEndpoints |-> IF Sees(u, k, e) THEN rel[e] ELSE "absent"]]

(* ops re-emits the stored notices, oldest first, and then the hook's event *)
Begin(u, k) ==
    hook' = [hook EXCEPT ![u] =
        [main |-> k,
         todo |-> IF k = "other" THEN deferred[u] ELSE Append(deferred[u], Notice(k)),
         kept |-> <<>>, seen |-> Snapshot(u, k), view |-> peer,
         wrote |-> {}, request |-> FALSE]]

(* A hook that failed is retried before anything else; leader_elected comes  *)
(* before the relations' hooks, and the boot before both, with start last.   *)
StartHook(u, k) ==
    /\ Idle(u)
    /\ k \in pending[u]
    /\ failed[u] \in {None, k}
    /\ failed[u] = None =>
          /\ "start" \in pending[u] => k \in BootKinds
          /\ "leader_elected" \in pending[u] => k = "leader_elected"
          /\ k = "start" => "config_changed" \notin pending[u]
    /\ Begin(u, k)
    /\ pending' = [pending EXCEPT ![u] = @ \ {k}]
    /\ failed' = [failed EXCEPT ![u] = None]
    /\ UNCHANGED <<leader, ready, worldVars, peer, deferred, svc, status>>

(* Juju runs update-status when a unit has nothing else to run. *)
StartUpdateStatus(u) ==
    /\ Idle(u)
    /\ pending[u] = {}
    /\ Begin(u, "update_status")
    /\ UNCHANGED <<jujuVars, worldVars, peer, deferred, svc, status>>

Disturb(d) ==
    /\ d \in Disturbances
    /\ spent < MaxDisturbances
    /\ spent' = spent + 1

StartAction(u, a) ==
    /\ Disturb(a)
    /\ Idle(u)
    /\ failed[u] = None
    /\ "start" \notin pending[u]
    /\ Begin(u, a)
    /\ UNCHANGED <<jujuVars, config, links, rel, dying, requested, conn, peer,
                   deferred, svc, status>>

(* What a successful hook commits: the stored notices, the databag keys it  *)
(* wrote (every other unit is told when one of them changed) and the        *)
(* database it asked the legacy endpoint for. `again` is what the unit has  *)
(* to run next.                                                             *)
Commit(u, again) ==
    LET h == hook[u]
        told == IF \E k \in h.wrote : h.view[k] # peer[k] THEN Units \ {u} ELSE {}
    IN  /\ h.todo = <<>>
        /\ peer' = [k \in Keys |-> IF k \in h.wrote THEN h.view[k] ELSE peer[k]]
        /\ pending' = [v \in Units |-> pending[v]
                            \cup (IF v = u THEN again ELSE {})
                            \cup (IF v \in told THEN {"livepatch_relation_changed"} ELSE {})]
        /\ deferred' = [deferred EXCEPT ![u] = h.kept]
        /\ requested' = (requested \/ h.request)
        /\ hook' = [hook EXCEPT ![u] = IdleHook]

EndHook(u) ==
    /\ hook[u].main \notin {None, "stop"}
    /\ Commit(u, {})
    /\ UNCHANGED <<leader, ready, failed, config, links, rel, dying, conn, spent, svc, status>>

(* A unit that has run its stop hook comes back in a new pod. *)
EndStop(u) ==
    /\ hook[u].main = "stop"
    /\ Commit(u, {"config_changed", "start"})
    /\ conn' = [conn EXCEPT ![u] = {}]
    /\ svc' = [svc EXCEPT ![u] = NoPlan]
    /\ UNCHANGED <<leader, ready, failed, config, links, rel, dying, spent, status>>

(* A handler raised: nothing is committed and Juju retries the hook. An      *)
(* action is reported as failed and not retried.                             *)
Raise(u) ==
    LET retried == hook[u].main \notin Actions IN
    /\ hook' = [hook EXCEPT ![u] = IdleHook]
    /\ failed' = [failed EXCEPT ![u] = IF retried THEN hook[u].main ELSE None]
    /\ pending' = [pending EXCEPT ![u] = IF retried THEN @ \cup {hook[u].main} ELSE @]

-----------------------------------------------------------------------------
(* The handlers. Each handles the notice at the head of the hook's `todo`.   *)

Handles(u, k) ==
    /\ hook[u].todo # <<>>
    /\ Head(hook[u].todo).kind = k

Stored(n, notices) == \E i \in 1..Len(notices) : notices[i] = n

(* The hook after its head notice is handled, and kept if it was deferred.   *)
(* An action's event is None, which _defer ignores. ops does not emit the    *)
(* hook's own event when the same notice is still stored.                    *)
Consume(h, defer) ==
    LET keep == defer /\ Head(h.todo).kind \notin Actions
        kept == IF keep THEN Append(h.kept, Head(h.todo)) ELSE h.kept
        rest == Tail(h.todo)
        emitted == Len(rest) = 1 => ~Stored(Head(rest), kept)
    IN  [h EXCEPT !.todo = IF emitted THEN rest ELSE <<>>, !.kept = kept]

(* A fault: the value is set in the charm's copy and never sent to Juju. *)
WriteUnsent(h, key, value) == [h EXCEPT !.view[key] = value]

(* State.__setattr__ and __delattr__ in the hook h. *)
Write(h, key, value) == [h EXCEPT !.view[key] = value, !.wrote = @ \cup {key}]

InputsOf(u, h) ==
    [ready |-> h.seen.ready, workload |-> "livepatch" \in conn[u],
     schema |-> "schema" \in conn[u], dsn |-> h.view["dsn"] # None,
     token |-> h.view["resource_token"] # None,
     config |-> h.seen.config, links |-> h.seen.links]

(* get_env_vars: `dsn` and `dsn_metrics` come from the databag as the hook   *)
(* sees it, LP_SERVER_IS_LEADER from the lease at this instant.              *)
EnvironmentOf(u, h) ==
    [dsn |-> h.view["dsn"], dsn_metrics |-> h.view["dsn_metrics"],
     is_leader |-> leader = u]

(* _update_workload_container_config(event) for the hook h, the service      *)
(* being `before` until then. If Pebble stops answering after the layer is   *)
(* added, _ready fails: the unit waits and nothing is deferred.              *)
Reconfigure(u, h, before) ==
    LET outcome == Outcome(InputsOf(u, h)) IN
    \/ /\ hook' = [hook EXCEPT ![u] = Consume(h, Defers(outcome))]
       /\ svc' = [svc EXCEPT ![u] =
                    IF outcome = "started" THEN EnvironmentOf(u, h) ELSE before]
       /\ status' = [status EXCEPT ![u] = StatusAfter(outcome, @)]
       /\ UNCHANGED <<conn, spent>>
    \/ /\ outcome = "started"
       /\ Disturb("container")
       /\ hook' = [hook EXCEPT ![u] = Consume(h, FALSE)]
       /\ conn' = [conn EXCEPT ![u] = @ \ {"livepatch"}]
       /\ svc' = [svc EXCEPT ![u] = NoPlan]
       /\ status' = [status EXCEPT ![u] = "waiting"]

(* What a handler never touches: only commits, raises and Juju do. *)
Uncommitted == <<jujuVars, config, links, rel, dying, requested, peer, deferred>>

(* A handler that only drops or defers its event. *)
Skip(u, defer) ==
    /\ hook' = [hook EXCEPT ![u] = Consume(@, defer)]
    /\ UNCHANGED <<svc, status, conn, spent>>

(* A fault: the handlers of the integrations only publish, as the one of      *)
(* send-otlp-relation-created does.                                          *)
HandleReconcilingPublishOnly(u) ==
    /\ \E k \in ReconcilingKinds : Handles(u, k)
    /\ IF Handles(u, "integration_changed")
       THEN Skip(u, FALSE)
       ELSE Reconfigure(u, hook[u], svc[u])
    /\ UNCHANGED Uncommitted

(* A fault: the new leader trusts its earlier configuration. *)
HandleReconcilingUnlessElected(u) ==
    /\ \E k \in ReconcilingKinds : Handles(u, k)
    /\ IF Handles(u, "leader_elected")
       THEN Skip(u, FALSE)
       ELSE Reconfigure(u, hook[u], svc[u])
    /\ UNCHANGED Uncommitted

(* on_start, on_config_changed, on_leader_elected, on_pebble_ready and the   *)
(* handlers of the pro-airgapped-server, cve-catalog, tracing and send-otlp  *)
(* relations: the event goes straight to the reconciliation.                 *)
HandleReconciling(u) ==
    /\ \E k \in ReconcilingKinds : Handles(u, k)
    /\ Reconfigure(u, hook[u], svc[u])
    /\ UNCHANGED Uncommitted

(* A fault: only the leader follows the databag. *)
HandlePeerChangedOnLeader(u) ==
    /\ Handles(u, "livepatch_relation_changed")
    /\ IF leader # u \/ ~hook[u].seen.ready
       THEN Skip(u, FALSE)
       ELSE Reconfigure(u, hook[u], svc[u])
    /\ UNCHANGED Uncommitted

(* on_peer_relation_changed. *)
HandlePeerChanged(u) ==
    /\ Handles(u, "livepatch_relation_changed")
    /\ IF leader = u \/ ~hook[u].seen.ready
       THEN Skip(u, FALSE)
       ELSE Reconfigure(u, hook[u], svc[u])
    /\ UNCHANGED Uncommitted

(* A fault: the unit is active as soon as its Pebble answers. *)
HandleUpdateStatusConnected(u) ==
    /\ Handles(u, "update_status")
    /\ hook' = [hook EXCEPT ![u] = Consume(@, FALSE)]
    /\ status' = [status EXCEPT ![u] = IF "livepatch" \in conn[u] THEN "active" ELSE @]
    /\ UNCHANGED <<svc, conn, spent, Uncommitted>>

(* on_update_status and _ready: a running service makes the unit active. *)
HandleUpdateStatus(u) ==
    /\ Handles(u, "update_status")
    /\ hook' = [hook EXCEPT ![u] = Consume(@, FALSE)]
    /\ status' = [status EXCEPT ![u] =
            IF "livepatch" \in conn[u] /\ Running(u) THEN "active" ELSE @]
    /\ UNCHANGED <<svc, conn, spent, Uncommitted>>

(* A fault: the service is asked for and not stopped. *)
StillRunning(u) == svc[u]

(* _stop_service: nothing happens when the container cannot be reached. *)
StoppedService(u) ==
    IF "livepatch" \in conn[u] /\ svc[u] # NoPlan THEN Stopped ELSE svc[u]

HandleStop(u) ==
    /\ Handles(u, "stop")
    /\ hook' = [hook EXCEPT ![u] = Consume(@, FALSE)]
    /\ svc' = [svc EXCEPT ![u] = StoppedService(u)]
    /\ status' = [status EXCEPT ![u] =
            IF "livepatch" \in conn[u] /\ svc[u] # NoPlan THEN "waiting" ELSE @]
    /\ UNCHANGED <<conn, spent, Uncommitted>>

(* A fault: both endpoints are accepted. *)
NeverRefused(h, e) == FALSE

(* The main endpoint refuses to share with the legacy one. *)
Refused(h, e) == e = "database" /\ h.seen.rel["database_legacy"] # "absent"

(* _on_database_event and _on_metrics_db_event. Only the leader handles the  *)
(* event, and raises when the main endpoint refuses it.                       *)
HandleDatabaseChanged(u, e) ==
    LET h == hook[u]
        key == IF e = "metrics_db" THEN "dsn_metrics" ELSE "dsn"
        refused == Refused(h, e)
    IN  /\ e # "database_legacy"
        /\ Handles(u, Changed(e))
        /\ \/ /\ leader # u
              /\ Skip(u, FALSE)
              /\ UNCHANGED Uncommitted
           \/ /\ leader = u
              /\ \/ ~h.seen.ready
                 \/ ~refused /\ h.seen.rel[e] \notin Creds
              /\ Skip(u, TRUE)
              /\ UNCHANGED Uncommitted
           \/ /\ leader = u
              /\ h.seen.ready
              /\ refused
              /\ Raise(u)
              /\ UNCHANGED <<leader, ready, worldVars, peer, deferred, svc, status>>
           \/ /\ leader = u
              /\ h.seen.ready
              /\ ~refused
              /\ h.seen.rel[e] \in Creds
              /\ Reconfigure(u, Write(h, key, h.seen.rel[e]), svc[u])
              /\ UNCHANGED Uncommitted

(* _on_legacy_db_relation_joined: the leader asks for the database, or       *)
(* raises when the main endpoint is integrated; the others wait for it.      *)
HandleLegacyJoined(u) ==
    LET h == hook[u] IN
    /\ Handles(u, LegacyJoined)
    /\ \/ /\ ~h.seen.ready
          /\ Skip(u, TRUE)
          /\ UNCHANGED Uncommitted
       \/ /\ h.seen.ready
          /\ leader = u
          /\ h.seen.rel["database"] # "absent"
          /\ Raise(u)
          /\ UNCHANGED <<leader, ready, worldVars, peer, deferred, svc, status>>
       \/ /\ h.seen.ready
          /\ leader = u
          /\ h.seen.rel["database"] = "absent"
          /\ hook' = [hook EXCEPT ![u] =
                [Consume(h, FALSE) EXCEPT !.request = h.seen.rel["database_legacy"] # "absent"]]
          /\ UNCHANGED <<svc, status, conn, spent, Uncommitted>>
       \/ /\ h.seen.ready
          /\ leader # u
          /\ Skip(u, ~h.seen.requested)
          /\ UNCHANGED Uncommitted

(* _on_legacy_db_master_changed. *)
HandleMasterChanged(u) ==
    LET h == hook[u]
        master == h.seen.rel["database_legacy"]
    IN  /\ Handles(u, "master_changed")
        /\ IF ~h.seen.ready \/ ~(h.seen.requested \/ h.request)
           THEN Skip(u, ~h.seen.ready)
           ELSE Reconfigure(u,
                    IF leader = u /\ master \in Creds THEN Write(h, "dsn", master) ELSE h,
                    svc[u])
        /\ UNCHANGED Uncommitted

(* Two faults: nothing is cleared, and every unit clears. *)
NotCleared(u, h) == h
ClearedByAnyUnit(u, h) == IF h.seen.ready THEN Write(h, "dsn", None) ELSE h

(* _clear_db_connection. *)
Cleared(u, h) == IF leader = u /\ h.seen.ready THEN Write(h, "dsn", None) ELSE h

(* _on_database_relation_broken and _on_database_legacy_relation_broken:     *)
(* every unit stops its service, the leader also clears the connection.      *)
HandleDatabaseBroken(u, e) ==
    /\ e # "metrics_db"
    /\ Handles(u, Broken(e))
    /\ svc' = [svc EXCEPT ![u] = StoppedService(u)]
    /\ hook' = [hook EXCEPT ![u] = Consume(Cleared(u, hook[u]), FALSE)]
    /\ status' = [status EXCEPT ![u] = "blocked"]
    /\ UNCHANGED <<conn, spent, Uncommitted>>

(* A fault: the connection is deleted and the service left as it is. *)
HandleMetricsBrokenNoRestart(u) ==
    LET h == hook[u] IN
    /\ Handles(u, Broken("metrics_db"))
    /\ hook' = [hook EXCEPT ![u] = Consume(
            IF leader = u /\ h.seen.ready THEN Write(h, "dsn_metrics", None) ELSE h, FALSE)]
    /\ UNCHANGED <<svc, status, conn, spent, Uncommitted>>

(* _on_metrics_db_relation_broken. *)
HandleMetricsBroken(u) ==
    LET h == hook[u] IN
    /\ Handles(u, Broken("metrics_db"))
    /\ Reconfigure(u,
            IF leader = u /\ h.seen.ready THEN Write(h, "dsn_metrics", None) ELSE h,
            svc[u])
    /\ UNCHANGED Uncommitted

(* restart_action: stop a running service, then reconcile without an event.  *)
HandleRestartAction(u) ==
    /\ Handles(u, "restart_action")
    /\ Reconfigure(u, hook[u], StoppedService(u))
    /\ UNCHANGED Uncommitted

(* A fault: every unit may fetch the token. *)
HandleTokenActionAnywhere(u) ==
    LET h == hook[u] IN
    /\ Handles(u, "get_resource_token_action")
    /\ \/ Skip(u, FALSE)
       \/ /\ h.seen.ready
          /\ ~h.seen.config.sync_token
          /\ ~h.seen.links.airgapped
          /\ \E token \in Tokens \cup {None} :
                Reconfigure(u, Write(h, "resource_token", token), svc[u])
    /\ UNCHANGED Uncommitted

(* get_resource_token_action. `token` is what utils.get_resource_token       *)
(* returns, None when the request fails; the first disjunct also covers a    *)
(* missing parameter and a failed request for the machine token.             *)
HandleTokenAction(u) ==
    LET h == hook[u] IN
    /\ Handles(u, "get_resource_token_action")
    /\ \/ Skip(u, FALSE)
       \/ /\ leader = u
          /\ h.seen.ready
          /\ ~h.seen.config.sync_token
          /\ ~h.seen.links.airgapped
          /\ \E token \in Tokens \cup {None} :
                Reconfigure(u, Write(h, "resource_token", token), svc[u])
    /\ UNCHANGED Uncommitted

Handle(u) ==
    \/ HandleReconciling(u)
    \/ HandlePeerChanged(u)
    \/ HandleUpdateStatus(u)
    \/ HandleStop(u)
    \/ \E e \in {"database", "metrics_db"} : HandleDatabaseChanged(u, e)
    \/ HandleLegacyJoined(u)
    \/ HandleMasterChanged(u)
    \/ \E e \in {"database", "database_legacy"} : HandleDatabaseBroken(u, e)
    \/ HandleMetricsBroken(u)
    \/ HandleRestartAction(u)
    \/ HandleTokenAction(u)

-----------------------------------------------------------------------------
(* What Juju, the operator, the databases and Kubernetes do.                 *)

Notify(us, kinds) ==
    pending' = [u \in Units |-> IF u \in us THEN pending[u] \cup kinds ELSE pending[u]]

PeerRelationCreated ==
    /\ ~ready
    /\ ready' = TRUE
    /\ Notify(Units, {"other"} \cup (IF Units = {leader} THEN {} ELSE {"livepatch_relation_changed"}))
    /\ UNCHANGED <<leader, failed, charmVars, worldVars, peer>>

ContainerUp(u, c) ==
    /\ c \notin conn[u]
    /\ conn' = [conn EXCEPT ![u] = @ \cup {c}]
    /\ Notify({u}, {IF c = "livepatch" THEN "livepatch_pebble_ready" ELSE "other"})
    /\ UNCHANGED <<leader, ready, failed, config, links, rel, dying, requested, spent,
                   charmVars, peer>>

ContainerDown(u, c) ==
    /\ Disturb("container")
    /\ c \in conn[u]
    /\ conn' = [conn EXCEPT ![u] = @ \ {c}]
    /\ svc' = [svc EXCEPT ![u] = IF c = "livepatch" THEN NoPlan ELSE @]
    /\ UNCHANGED <<jujuVars, config, links, rel, dying, requested, hook, deferred, status, peer>>

PodStop(u) ==
    /\ Disturb("pod")
    /\ Notify({u}, {"stop"})
    /\ UNCHANGED <<leader, ready, failed, config, links, rel, dying, requested, conn,
                   charmVars, peer>>

(* A lease is renewed while the charm runs, so it moves between hooks. The   *)
(* unit that lost it no longer starts a leader_elected hook.                 *)
ElectLeader(u) ==
    /\ Disturb("leader")
    /\ u # leader
    /\ Idle(leader)
    /\ leader' = u
    /\ pending' = [v \in Units |->
            IF v = u THEN pending[v] \cup {"leader_elected"}
            ELSE IF failed[v] = "leader_elected" THEN pending[v]
                 ELSE pending[v] \ {"leader_elected"}]
    /\ UNCHANGED <<ready, failed, config, links, rel, dying, requested, conn, charmVars, peer>>

(* The handler of the head notice reconciles and gets through every gate. *)
ReachesStart(u) ==
    LET h == hook[u]
        master == h.seen.rel["database_legacy"]
        Starts(g) == Outcome(InputsOf(u, g)) = "started"
    IN  \/ /\ \E k \in ReconcilingKinds \cup {"restart_action", Broken("metrics_db")} : Handles(u, k)
           /\ Starts(h)
        \/ /\ Handles(u, "livepatch_relation_changed")
           /\ leader # u
           /\ Starts(h)
        \/ \E e \in {"database", "metrics_db"} :
              /\ Handles(u, Changed(e))
              /\ leader = u
              /\ ~Refused(h, e)
              /\ h.seen.rel[e] \in Creds
              /\ Starts(IF e = "database" THEN Write(h, "dsn", h.seen.rel[e]) ELSE h)
        \/ /\ Handles(u, "master_changed")
           /\ h.seen.requested \/ h.request
           /\ Starts(IF leader = u /\ master \in Creds THEN Write(h, "dsn", master) ELSE h)
        \/ /\ Handles(u, "get_resource_token_action")
           /\ leader = u
           /\ ~h.seen.config.sync_token
           /\ ~h.seen.links.airgapped
           /\ \E token \in Tokens \cup {None} : Starts(Write(h, "resource_token", token))

(* _ready shows a service that runs as active before it is restarted. *)
RunningStatus(u) == IF Running(u) /\ ~Handles(u, "restart_action") THEN {"active"} ELSE {}

Stopping == {"stop", "restart_action", Broken("database"), Broken("database_legacy")}

(* The handler of the head notice raises between two calls: it has stopped    *)
(* the service and not come further, or has added the layer and stopped the  *)
(* old service, and the new one does not start. The status is the old one    *)
(* or one of those set on the way.                                           *)
CutShort(u) ==
    /\ svc' = [svc EXCEPT ![u] = Stopped]
    /\ \/ /\ \E k \in Stopping : Handles(u, k)
          /\ StoppedService(u) = Stopped
          /\ \E s \in {status[u], "waiting"} : status' = [status EXCEPT ![u] = s]
       \/ /\ ReachesStart(u)
          /\ \E s \in {status[u], "waiting"} \cup RunningStatus(u) : status' = [status EXCEPT ![u] = s]

(* The charm process dies, or Pebble refuses a call or cannot start the      *)
(* service: the hook raises, before, between or in its handlers. That an     *)
(* action fails so is a disturbance of its own, as nothing retries it.       *)
Crash(u) ==
    /\ ~Idle(u)
    /\ Disturb(IF hook[u].main \in Actions THEN "failed_action" ELSE "crash")
    /\ Raise(u)
    /\ UNCHANGED <<svc, status>> \/ CutShort(u)
    /\ UNCHANGED <<leader, ready, config, links, rel, dying, requested, conn, peer, deferred>>

(* juju resolved --no-retry: the failed hook is given up. *)
Resolve(u) ==
    /\ Disturb("resolve")
    /\ failed[u] # None
    /\ failed' = [failed EXCEPT ![u] = None]
    /\ pending' = [pending EXCEPT ![u] = @ \ {failed[u]}]
    /\ UNCHANGED <<leader, ready, config, links, rel, dying, requested, conn, charmVars, peer>>

ChangeConfig ==
    /\ Disturb("config")
    /\ config' \in Configs \ {config}
    /\ Notify(Units, {"config_changed"})
    /\ UNCHANGED <<leader, ready, failed, links, rel, dying, requested, conn, charmVars, peer>>

ChangeLinks ==
    /\ Disturb("links")
    /\ links' \in Links \ {links}
    /\ Notify(Units, {"integration_changed"})
    /\ UNCHANGED <<leader, ready, failed, config, rel, dying, requested, conn, charmVars, peer>>

Integrate(e) ==
    /\ Disturb("integrate")
    /\ rel[e] = "absent"
    /\ rel' = [rel EXCEPT ![e] = "nodata"]
    /\ Notify(Units, {IF e = "database_legacy" THEN LegacyJoined ELSE Changed(e)})
    /\ UNCHANGED <<leader, ready, failed, config, links, dying, requested, conn, charmVars, peer>>

(* The database hands out (new) credentials; the legacy one only on request. *)
Publish(e) ==
    /\ rel[e] # "absent"
    /\ e \notin dying
    /\ e = "database_legacy" => requested
    /\ IF rel[e] = "nodata" THEN spent' = spent ELSE Disturb("rotate")
    /\ \E c \in Creds \ {rel[e]} : rel' = [rel EXCEPT ![e] = c]
    /\ Notify(Units, {Changed(e)})
    /\ UNCHANGED <<leader, ready, failed, config, links, dying, requested, conn, charmVars, peer>>

(* Hooks a dying relation no longer causes, unless one is being retried. *)
StaleKinds(e) ==
    {Changed(e)} \cup (IF e = "database_legacy" THEN {LegacyJoined} ELSE {})

(* The operator removes a relation: every unit still sees its broken hook.   *)
Remove(e) ==
    /\ Disturb("remove")
    /\ rel[e] # "absent"
    /\ e \notin dying
    /\ dying' = dying \cup {e}
    /\ pending' = [u \in Units |->
            {Broken(e)}
                \cup {k \in pending[u] : k \in StaleKinds(e) => k = failed[u]}]
    /\ UNCHANGED <<leader, ready, failed, config, links, rel, requested, conn, charmVars, peer>>

Aged(notices, e) ==
    [i \in 1..Len(notices) |->
        [notices[i] EXCEPT !.old = @ \/ notices[i].kind \in StaleKinds(e) \cup {Broken(e)}]]

(* The relation is gone once every unit has run its broken hook; the notices *)
(* stored for it stay.                                                       *)
Gone(e) ==
    /\ e \in dying
    /\ \A u \in Units : Broken(e) \notin pending[u] /\ hook[u].main # Broken(e)
    /\ rel' = [rel EXCEPT ![e] = "absent"]
    /\ dying' = dying \ {e}
    /\ requested' = (requested /\ e # "database_legacy")
    /\ deferred' = [u \in Units |-> Aged(deferred[u], e)]
    /\ hook' = [u \in Units |->
            [hook[u] EXCEPT !.todo = Aged(@, e), !.kept = Aged(@, e)]]
    /\ UNCHANGED <<jujuVars, config, links, conn, spent, svc, status, peer>>

-----------------------------------------------------------------------------
UnitStep(u) ==
    \/ \E k \in Kinds : StartHook(u, k)
    \/ Handle(u)
    \/ EndHook(u)
    \/ EndStop(u)

World ==
    \/ \E u \in Units, a \in Actions : StartAction(u, a)
    \/ \E u \in Units, c \in {"livepatch", "schema"} : ContainerDown(u, c)
    \/ \E u \in Units : PodStop(u) \/ ElectLeader(u) \/ Crash(u) \/ Resolve(u)
    \/ ChangeConfig
    \/ ChangeLinks
    \/ \E e \in Endpoints : Integrate(e) \/ Publish(e) \/ Remove(e)

Next ==
    \/ \E u \in Units : UnitStep(u) \/ StartUpdateStatus(u)
    \/ PeerRelationCreated
    \/ \E u \in Units, c \in {"livepatch", "schema"} : ContainerUp(u, c)
    \/ \E e \in Endpoints : Gone(e)
    \/ World

Spec == Init /\ [][Next]_vars

DeployedSpec == Deployed /\ [][Next]_vars

(* Juju runs the hooks a unit has pending and Kubernetes restores its        *)
(* containers; nothing obliges the operator or a fault.                      *)
Fairness ==
    /\ \A u \in Units : WF_vars(UnitStep(u) \/ StartUpdateStatus(u))
    /\ \A u \in Units, c \in {"livepatch", "schema"} : WF_vars(ContainerUp(u, c))
    /\ WF_vars(PeerRelationCreated)
    /\ \A e \in Endpoints : WF_vars(Gone(e))

FairSpec == Spec /\ Fairness

FairDeployedSpec == DeployedSpec /\ Fairness

-----------------------------------------------------------------------------
(* Every variable stays in its domain. In particular a service whose layer    *)
(* was added has a connection string: get_env_vars never meets a None dsn.   *)
TypeOK ==
    /\ leader \in Units
    /\ ready \in BOOLEAN
    /\ config \in Configs
    /\ links \in Links
    /\ rel \in [AllEndpoints -> RelationData]
    /\ dying \subseteq AllEndpoints
    /\ requested \in BOOLEAN
    /\ peer \in Databag
    /\ pending \in [Units -> SUBSET Kinds]
    /\ failed \in [Units -> Kinds \cup {None}]
    /\ hook \in [Units -> Hooks]
    /\ deferred \in [Units -> Seq(Notices)]
    /\ conn \in [Units -> SUBSET {"livepatch", "schema"}]
    /\ svc \in [Units -> Environments \cup {NoPlan, Stopped}]
    /\ status \in [Units -> Statuses]
    /\ spent \in 0..MaxDisturbances

(* Nothing is left to run: the application stays so until disturbed, but for *)
(* the update-status hooks.                                                  *)
Settled == dying = {} /\ \A u \in Units : Idle(u) /\ pending[u] = {}

(* A settled unit that has no stored notice to retry. *)
Done(u) == Settled /\ deferred[u] = <<>>

(* What a reconciliation started now on the unit would decide. *)
Verdict(u) ==
    Outcome([ready |-> ready, workload |-> "livepatch" \in conn[u],
             schema |-> "schema" \in conn[u], dsn |-> peer["dsn"] # None,
             token |-> peer["resource_token"] # None, config |-> config, links |-> links])

ServesDatabag(u) ==
    /\ Running(u)
    /\ svc[u].dsn = peer["dsn"]
    /\ svc[u].dsn_metrics = peer["dsn_metrics"]

(* No wake-up is lost: a unit with no hook and no stored notice left serves, *)
(* if it can, with the connections of the databag.                           *)
QuiescentServing ==
    \A u \in Units : Done(u) /\ Verdict(u) = "started" => ServesDatabag(u)

(* However often the leadership moves, the unit that ends up with it serves   *)
(* from the databag, and its service is told that it is the leader.          *)
LeaderServesDatabag ==
    Done(leader) /\ Verdict(leader) = "started"
        => ServesDatabag(leader) /\ svc[leader].is_leader

Published(e) == IF rel[e] \in Creds THEN rel[e] ELSE None

(* The databag holds what the integrated databases publish, nothing else. *)
QuiescentDatabag ==
    LET main == {Published("database"), Published("database_legacy")} IN
    Settled =>
        /\ peer["dsn"] \in IF main = {None} THEN main ELSE main \ {None}
        /\ peer["dsn_metrics"] = Published("metrics_db")

(* An active unit that is not in error, and not about to configure a new     *)
(* container, runs the service: a handler that has stopped it and raises is  *)
(* retried until it starts it again or takes the status back.                *)
ActiveIsServing ==
    \A u \in Units :
        /\ status[u] = "active"
        /\ "livepatch" \in conn[u]
        /\ Idle(u)
        /\ failed[u] = None
        /\ {"start", "livepatch_pebble_ready"} \cap pending[u] = {}
        /\ ~Stored(Notice("start"), deferred[u])
        /\ ~Stored(Notice("livepatch_pebble_ready"), deferred[u])
        => Running(u)

(* Only a hook of the leader changes the databag, when it commits. *)
OnlyLeaderWrites ==
    [][peer' # peer => /\ ~Idle(leader)
                       /\ Idle(leader)'
                       /\ \A u \in Units \ {leader} : hook'[u] = hook[u]]_vars

(* No unit serves when it has finished the hook of a removed main database,  *)
(* whatever the notices re-emitted in that hook did.                         *)
BrokenHookStops ==
    [][\A u \in Units, e \in {"database", "database_legacy"} :
          hook[u].main = Broken(e) /\ hook'[u].main = None /\ failed'[u] = None
            => svc'[u] \in {NoPlan, Stopped}]_vars

(* "Verify workload health and refresh unit status" (on_update_status): a     *)
(* unit that is active when its update-status hook has ended runs the        *)
(* service, if its container answers.                                        *)
HealthVerified ==
    [][\A u \in Units :
          /\ hook[u].main = "update_status" /\ hook'[u].main = None /\ failed'[u] = None
          /\ "livepatch" \in conn[u]
          /\ status[u] = "active"
          => Running(u)]_vars

(* Integrating both database endpoints ends in an error: the units do not     *)
(* settle on a main database that was handed out beside a legacy one.        *)
EndpointsExclusive ==
    Settled => rel["database"] \notin Creds \/ rel["database_legacy"] = "absent"

(* With the databases and the containers in place, all units end up serving. *)
EventuallyServing ==
    <>[](\A u \in Units : Verdict(u) = "started")
        => <>[](\A u \in Units : ServesDatabag(u))

(* The credentials a database publishes for good reach the databag. *)
EventuallyStored ==
    <>[](ready /\ rel["database"] \in Creds /\ "database" \notin dying)
        => <>[](peer["dsn"] = rel["database"])

=============================================================================
