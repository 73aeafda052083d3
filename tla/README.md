# TLA+ models of the Livepatch K8s operator

This directory holds the formal models of the charm: what every unit of the application does with the
events Juju sends it, how the units share one database connection through the peer relation, what each
of them tells its workload container, and what the integration libraries under `lib/charms/` that the
charm ships publish and read in the same hooks. TLC checks small instances; TLAPS proves the statements
of section 7 for every number of units, connections and faults.

Modules are parsed with SANY, runs are started with `tlc -config <run>.cfg <module>.tla` (the module of
each run is in `PROJECT.json`), and proofs are checked with `tlapm <module>_proofs.tla`.

## 1. Inventory: the system

| Part | State it keeps | Operations | Talks to |
|---|---|---|---|
| Workload reconciliation (`_update_workload_container_config`, `_start_or_restart_service`, `_ready`, `_stop_service`) | the Pebble plan and the service of the unit, the unit status | one convergence method called by nearly every handler; stop | Pebble of two containers, peer state, every integration |
| Peer state (`state.py`) | `dsn`, `dsn_metrics`, `resource_token`, JSON in the application databag of the peer relation | get, set, delete, `is_ready` | Juju; only the leader may write |
| Lifecycle handlers | none | start, stop, config-changed, leader-elected, update-status, pebble-ready, peer relation-changed, upgrade-charm | reconciliation |
| `database` endpoint | none (the connection goes to peer state) | relation-changed, database-created, endpoints-changed, relation-broken | `DatabaseRequires` |
| `database-legacy` endpoint | the requested database (held by ops-lib-pgsql) | relation-joined, master-changed, standby-changed, relation-broken | `pgsql` (external) |
| `metrics-db` endpoint | none | as `database` | `DatabaseRequires` |
| `DatabaseRequires` (`data_interfaces.py`) | the databag seen last, under `data` in the unit's own databag | request in relation-joined, diff and events in relation-changed | the database charm |
| Exclusion of the two main endpoints | none | a RuntimeError raised by the leader's handler | Juju retries the hook |
| pro-airgapped-server, cve-catalog, send-traces, send-otlp | none | relation-changed, -departed, -broken | addresses enter the layer's environment and two of the gates |
| Actions | none | restart, get-resource-token, schema-upgrade, schema-version, emit-updated-config | Pebble, contracts server |
| Schema upgrade | the schema of two databases | check and upgrade through the second container | the databases |
| Layer environment (`get_env_vars`, `map_config_to_env_vars`) | the merged Pebble layer | a function of options, peer state, relations and the lease | |
| Ingress selection and the two ingress libraries | `_configured_ingress`, per process; the requirer's databags; `current_url` in stored state | construct one of two libraries in every hook; publish, store and revoke the URL | Traefik, nginx ingress integrator |
| `MetricsEndpointProvider` | jobs in the application's databag, addresses in the units' | publish in relation-joined and config-changed | Prometheus |
| `GrafanaDashboardProvider` | dashboards of the revision in stored state and in the databag | refresh, publish | Grafana |
| `TracingEndpointRequirer` | requested protocols in the databag | request, look up | tracing backend |
| `LogForwarder`, `LogProxyConsumer` | log targets in the plans of all containers; promtail's binary, configuration and service | follow the Loki units | Loki, Pebble |
| Legacy configuration conversion | none | a pure function | |
| Log redaction, topology library, alert rule files | | not part of the charm's control | |

How they interact. Juju runs the hooks of one unit one at a time, and those of different units
concurrently. At the start of a hook `ops` re-emits the notices the unit has stored (deferred
events), oldest first, and then emits the hook's own event. Every handler reads relation data and
options as they were when the hook began, asks for the lease at the moment of the question, tells
Pebble at once, and has its databag writes and stored notices committed when the hook ends. A
hook that raises loses these and is retried; what it told Pebble stays told.

What is hard about it:

* Every unit handles every relation event, at its own time, and only *the leader of that moment* acts
  on it. Nothing makes the units agree on who that was.
* The leader tells the followers through the peer relation; each of them configures its service from
  a snapshot that may be out of date by then.
* A closed gate either defers the event, so that something retries, or drops it and counts on a later
  event. Whether such an event comes is a question about all the handlers together.
* Containers restart between and inside handlers, pods are replaced, processes die, hooks are given up.
* The two main endpoints write the same key.
* A library reacts to the hooks it observes and to no others: what it published before an election, a
  refresh, a pod's new address or a change of an option is repaired only if one of its hooks comes later.
* What was merged into a Pebble plan, or kept in stored state, outlives the integration it came from.

What makes each part correct:

* Reconciliation: no wake-up is lost (a unit that can serve and has nothing left to run does serve,
  with the current connections); `active` means that the service runs.
* Peer state: only the leader writes; in quiet times it holds exactly what is published.
* Database endpoints: credentials published for good are stored and served; removal stops the service,
  whatever is re-emitted in the same hook.
* Exclusion: the units do not settle on two main databases.
* Actions: an action that fails half-way leaves a unit that recovers, and reports what it did.
* Schema upgrade: after a refresh both databases have the schema of the revision that runs.
* Environment: the layer holds what there is, and nothing of an integration that is gone.
* Libraries: in quiet times the remote application has what the charm has, and the other way round.

`PROJECT.json` lists the components with their status, and under `hazards` each place where this is
hard to test with the properties that watch it.

## 2. Plan

Done:

1. `Reconcile`, `LivepatchCharm`, `MCLivepatchCharm`: the charm's own control, with five runs and three
   that exhibit a departure.
2. `DatabaseClient` and its abstract specification `PublishedConnection`: the database library, shown
   to implement the promise in a run and by a theorem.
3. `CharmHooks` with `Ingress`, `MetricsEndpoint`, `Dashboards`, `Tracing` and `Workload`, composed by
   `Integrations`: every library and the workload's environment, schemas and alert rules under one
   model of Juju's hooks.
4. `LokiRelations` with `LogForwarder` and `LogProxy`, composed by `Logging`.
5. `LivepatchCharm_proofs`, `CharmService_proofs`, `CharmEndpoints_proofs`, `CharmLeader_proofs`,
   `CharmQuiescence_proofs`, `DatabaseClient_proofs`, `Integrations_proofs`, `Logging_proofs`.

Left: the unit status with ingress selection, update-status and the gates as its writers; what
followers may still promise under elections in `LivepatchCharm`.

## 3. The modules

### `Reconcile`

`Outcome(in)` follows `_update_workload_container_config` gate by gate: peer relation, workload
container, the two of `handle_schema_upgrade`, the token of an on-premises server, the required
options, `send-otlp`. `Defers` says which outcomes end in `_defer(event)`, `StatusAfter` what status is
left. Waiting and blocked statuses are kept apart; their texts are not.

### `LivepatchCharm`

| Variable | In the code |
|---|---|
| `leader` | the lease that `unit.is_leader()` asks for |
| `ready` | the peer relation exists, `State.is_ready()` |
| `config`, `links` | the options and the other integrations the gates read |
| `rel`, `dying`, `requested` | what each database endpoint publishes, whether it is being removed, and whether the leader has set `event.database` on the legacy one |
| `peer` | the application databag of the peer relation |
| `pending`, `failed` | hooks Juju has still to run, and the one it retries |
| `hook` | the hook being run: its event, the notices still to be emitted (`todo`) and those deferred again (`kept`), the snapshot (`seen`), its view of the databag, the keys it has written, and whether it has asked for the legacy database |
| `deferred` | notices stored by `ops` (`use_juju_for_storage=True`: in Juju's own state, committed with the hook) |
| `conn`, `svc` | containers whose Pebble answers; no layer, stopped, or running with an environment |
| `status` | the unit status |
| `spent` | operator actions and faults so far, a bound |

Each handler of the charm is one action, `HandleX(u)`, and includes every call it makes:
`_update_workload_container_config` is the operator `Reconfigure`, used by the handlers that end in
it; `_stop_service` is `StoppedService`; `_clear_db_connection` is `Cleared`. `StartHook`, `Commit`,
`EndHook`, `EndStop` and `Raise` are Juju's transaction around them; the section on the world holds
what Juju, Kubernetes, the databases and the operator do. Those are modelled from how the charm uses
them and from `ops` 3.5.0, which `charmcraft.yaml` pins, and are marked external in the map.

What is abstracted, and why it is sound for the properties:

* A handler is one step. While a hook runs no other hook of the unit does, and what a handler reads
  is in its snapshot, except the lease, which the charm process keeps while it runs, and the
  containers. A container that fails *inside* a handler is a disjunct of `Reconfigure` (after
  `add_layer`, before `_ready`) or, where Pebble refuses a call, a `Crash`.
* A handler that completes is one step, but it may raise, or its process die, between any two of its
  calls. Of what Pebble was told there, one state is neither the one before the handler nor the one
  after it: the service is stopped, and not started. `CutShort`, a disjunct of `Crash`, leaves it behind.
  A handler that stops the service (`Stopping`: stop, restart action, the two broken events of a main
  database) gets there by its stop; one that gets through all the gates (`ReachesStart`) by `add_layer`
  on a container without a plan, by a restart whose start fails, or by a start that fails. The status is
  then the one the unit had, a waiting one that was set on the way, or the active one that `_ready` sets
  before the restart (`RunningStatus`). Databag and notices are rolled back as after any raise. Juju
  retries the hook, but not an action, so a raise in an action is a disturbance of its own
  (`failed_action`) beside `crash`.
* The events of `DatabaseRequires` (database-created, endpoints-changed) are emitted inside the
  relation-changed hook and lead to the same handler; one event stands for them here, and
  `DatabaseClient` has them one by one.
* standby-changed and the actions that change no charm state are left out; upgrade-charm and the
  schema-upgrade action are in `Workload`.
* All integrations but the databases send the one event `integration_changed`, because their handlers
  are the same call. `relation-created` of send-otlp only publishes rules: `other`.
* Writing `null` over an absent key is no change in the model, while Juju sends a needless event.
* A failing migration is swallowed by `handle_schema_upgrade` and leaves no state.
* A stored notice of a removed relation differs from a new one of the same endpoint (`old`), because
  `ops` compares the relation's number when it drops a duplicate.
* The domain of `pending` is a set: Juju collapses changes of one relation into one hook.

Beside some operators stands a second version whose comment begins with "A fault". It is the code
with one mistake a maintainer might make, is used in no action, and serves to see that the properties
notice the mistake (`mutants` in `PROJECT.json`).

### `DatabaseClient`, `PublishedConnection`

One integration of the `postgresql_client` interface, `database` or `metrics-db`, from both sides.

| Variable | In the code |
|---|---|
| `leader`, `moves`, `ready`, `phase` | the lease, the peer relation, the integration's life |
| `request`, `asked` | `database` in the requirer's databag; the provider's `database_requested` |
| `log` | the contents of the provider's databag, newest last; each key is the publication it comes from |
| `known` | the databag recorded under `data`, per unit, against which `diff` compares |
| `pending`, `failed`, `hook`, `deferred` | hooks to run, the one retried, the one running with the databag it sees, stored notices |
| `announced` | what became of the `database_created` events of this relation, per unit: emitted in a hook that was undone, in one that was committed, or once more after that |
| `dsn` | the connection in the peer databag |

`RelationJoined`, `RelationChanged`, `RelationBroken`, `OtherHook` are the hooks; each commits as a
whole, after the stored notices were handled. `Emitted` is `_on_relation_changed_event`,
`OnDatabaseEvents` the charm's handlers of all events of one hook, `RaiseWithoutEndpoints` the
AttributeError of `_get_db_info` when the endpoints are missing. A databag is named by its position in
`log`, so that a stored connection shows which publications its parts come from. The library emits
`database_created`, and the charm handles it, before the hook may raise: `Raise` keeps that in
`announced` although the record under `data` is undone, so that the retry announces the database again.
A notice that `ops` re-emits is the announcement that was stored, not a further one. `Provision` answers
the request in one hook of the database or in two, in either order; `Rotate` changes any one key.

`PublishedConnection` is the promise: what is stored is one of the connections published as a whole, or
nothing. `DatabaseClient` implements it with `published` the connections a databag of `log` gave
(`EverPublished`) and `stored` the variable `dsn`.

### `CharmHooks`, `Integrations` and the modules between

`CharmHooks` is Juju for the libraries: per unit a set of hooks to run (`hooks`), the one that is
retried (`failed`), the integrations that exist (`related`) or are being removed (`dying`), the lease,
the addresses (`ip`) and revisions (`revision`, `running`) of pods, and the option `method`. `Visible`
is what a hook sees in `model.relations`. A hook is one action, `RunHook(u, k)` of `Integrations`: the
charm object is constructed anew, and every library's reaction to hook `k` is a conjunct of it. Each
reaction is the library's set of observed events, its guards (`is_leader`, visible relations) and its
writes.

| Module | Variables, and what they are in the code |
|---|---|
| `Ingress` | `ingressApp`, `ingressUnit`: the requirer's databags; `ingressUrl`, `nextUrl`, `ingressHosts`: the provider's databag and its last `data_provided`; `currentUrl`: `_stored.current_url`; `routeData`, `routeAvailable`: the nginx-route databag and the provider's event; `switched`: the option changed during the integration |
| `MetricsEndpoint` | `scrapeJobs`, `scrapeUnit`: the databags; `targets`, `stale`: what Prometheus scrapes and whether it has read the last change; `leaderMissed`: the lease moved before the jobs were published |
| `Dashboards` | `templates`: `_stored.dashboard_templates`; `dashboards`: the application's databag; `rendered`, `rendering`: Grafana's peer databag and whether it has read the last change |
| `Tracing` | `requested`, `receivers`: the two databags; `traceEnv`: `LP_TRACING_*` in the plan |
| `Workload` | `options`, `resourceToken`, `published`: what the gates and `get_env_vars` read; `layer`: the merged plan; `retry`: a stored notice; `schema`, `unmigrated`: the schemas and whether the last attempt failed; `alertRules`, `rulesMissed`: the published rules and whether the lease moved in between |

`Workload` refines the one step `Reconfigure` of `LivepatchCharm` in another direction: the databases
are integrated and the containers answer, so that the gates left are the token's and send-otlp's, and
the environment has ten keys instead of three. `Merged` is Pebble's `combine` with `override: merge`:
a variable that the new layer does not have keeps its value. The libraries do not touch each other's
state, so an instance uses the endpoints of one scenario (`inUse`); the hooks they share
(config-changed, leader-elected, upgrade-charm) run the reactions of all of them.

### `LokiRelations`, `LogForwarder`, `LogProxy`, `Logging`

One Livepatch unit, because neither library looks at the lease, with several Loki units. `LokiRelations`
is Juju for them (`members`: the Loki units of an integration; `seen`: those that have joined from the
unit's point of view, `relation.units`), the Loki provider's databags (`endpoint`, `binaryUrl`) and the
containers. `LogForwarder` adds `target`, the log targets in each container's plan; `LogProxy` adds
`attached`, `cached`, `binary`, `plan`, `clients`, `running`, promtail from the resource to the process.
Promtail's container calls take effect even if the hook raises afterwards (`ProxyRaises`).

### `MCLivepatchCharm`, `MCDatabaseClient`, `MCIntegrations`, `MCLogging`, and the proofs

The MC modules define the values of the instances. The theorems are in `LivepatchCharm_proofs`, extended
by `CharmService_proofs`, that by `CharmEndpoints_proofs` and `CharmLeader_proofs`, and these two by
`CharmQuiescence_proofs`; in `DatabaseClient_proofs`; `Integrations_proofs`; `Logging_proofs`.

Beside some operators of all modules stands a second version whose comment begins with "A fault", used
as described for `LivepatchCharm`.

## 4. The runs that pass

Charm runs have two units and two connections unless noted; `Disturbances` names the kinds of operator
actions and faults that may occur, in any order, and `MaxDisturbances` how many. Publication of first
credentials, hooks, elections' hooks and container starts are not counted.

| Run | Start | Disturbances (bound) | Properties |
|---|---|---|---|
| `boot` | before the first hook, on-premises or hosted, one unit, one connection, fair | integrate, remove, container, pod, crash (2) | `TypeOK`, `EventuallyServing`, `EventuallyStored` |
| `one_database` | deployed, fair | integrate, remove, rotate, config, crash (2) | `QuiescentDatabag`, `EventuallyServing`, `EventuallyStored` |
| `elections` | deployed, both main endpoints, `SteadySpec` | integrate, remove, leader (3) | `LeaderServesDatabag`, `EndpointsExclusive`, `OnlyLeaderWrites`, `BrokenHookStops` |
| `two_databases` | deployed, legacy and metrics | integrate, remove, rotate, container (2) | `QuiescentServing`, `QuiescentDatabag`, `ActiveIsServing` |
| `actions` | deployed, token needed, send-otlp perhaps, one connection | integrate, links, leader, token action, restart action, crash, resolve (2) | `QuiescentServing`, `ActiveIsServing`, `LeaderServesDatabag`, `OnlyLeaderWrites` |
| `database_client` | nothing integrated, two units, fair | remove, elect, crash, scale (1); two rotations | `TypeOK`, `SettledStored`, `ToldAsRecorded`, `StoresPublished`, `ForwardOnly`, `EventuallyConnected` |
| `integrations` | nothing integrated, two units, one library's endpoint, fair | remove, configure, refresh, pod, wipe, receivers (1); one election | `TypeOK`, `SettledIngress`, `SettledRoute`, `RevokedUrlForgotten`, `SettledScraped`, `SettledDashboards`, `SettledTracing`, `EventuallyServed` |
| `workload` | serving, two units, one of three links, three sets of options | remove, refresh, pod, options (1); one election | `SettledLayer`, `SettledSchema`, `SettledRules` |
| `logging` | nothing integrated; two Loki applications over logging or one over log-proxy, two Loki units each, two URLs, fair | leave, move, remove, container (1); units added up to three | `TypeOK`, `SettledForwarding`, `SettledPromtail`, `PromtailStops`, `EventuallyLogged` |

In `elections` the lease stays while a legacy database is integrated (`SteadySpec`): without that its two
invariants are false (section 6). In `actions` the bound leaves room for one crash and giving up its hook: that
is a hook pending at the start or update-status. What follows from giving up any other hook is in section 6.

What the properties say. Of the charm:

* `QuiescentServing`: a unit with no hook to run and no stored notice serves from the databag's
  connections whenever the gates would let it. This is the absence of lost wake-ups.
* `QuiescentDatabag`: when nothing is left to run, the databag holds what is published and nothing else.
* `ActiveIsServing`: a unit shown as active runs the service, unless Juju shows it in error (the failed
  hook will be retried), or its container has just come back and its event is still to be handled. A
  handler that stopped the service and raised must therefore, when it is retried, start it or take the
  status back.
* `LeaderServesDatabag`: under any movement of the lease the last leader serves, as the leader.
* `OnlyLeaderWrites`: the databag changes only when a hook of the unit holding the lease commits.
* `BrokenHookStops`: no unit serves when the hook of a removed main database ends, although notices
  re-emitted in that hook may have started the service.
* `EndpointsExclusive`: the units do not settle on a main database handed out beside a legacy one.
* `EventuallyServing`, `EventuallyStored`: if the conditions for serving hold from some time on, every
  unit serves from some time on; credentials published for good are stored for good.

Of the database library:

* `StoresPublished`: the refinement. Nothing stored mixes two publications.
* `SettledStored`: while the lease stays, nothing published is missed: not a rotated password, for which
  the library has no event, and not endpoints that follow the credentials.
* `ForwardOnly`: while the lease stays, no older connection replaces a newer one.
* `ToldAsRecorded`: a unit whose committed record has the credentials was told of them by
  `database_created` in a hook that was committed, and is not told again, not even by a hook that is
  undone later. Before that, a hook that raises after the event leaves no record, and its retry emits the
  event again: the charm is told at least once, and exactly once by hooks that are committed.
* `EventuallyConnected`: an integration that stays is requested, answered and stored.

Of the other libraries, each `Settled` property speaks of states in which every hook has run and the
refresh is rolled out (for logging: the containers answer), and compares the two ends: Traefik's hosts
and the units' URL (`SettledIngress`), the nginx service (`SettledRoute`), Prometheus' targets
(`SettledScraped`), Grafana's dashboards (`SettledDashboards`), the protocol traces are exported with
(`SettledTracing`), the environment (`SettledLayer`), the schemas (`SettledSchema`), the alert rules
(`SettledRules`), the log targets of all containers (`SettledForwarding`) and promtail's clients
(`SettledPromtail`). `RevokedUrlForgotten` and `PromtailStops` speak of what outlives an integration.
`EventuallyServed` and `EventuallyLogged` add that the settled state is reached and kept.

Hypotheses in them name what the code does not repair, and section 6 describes each: an option changed
during an integration (`switched`), an election before the leader's only publishing hook
(`leaderMissed`, `rulesMissed`), a failed migration (`unmigrated`), a binary that could not be downloaded.

Why the bounds are enough. Every hazard listed needs at most two units (a leader and a follower), two
connections (an old and a new one) and two or three disturbances in the charm; in a library, one
disturbance between two hooks, with an election beside it, in all interleavings of the hooks of two
units. Bounds one larger were checked while the model was written for `one_database` (without
liveness), the elections of one database, with rotations and crashes, both main endpoints without elections,
`two_databases` without containers (3), one database with containers (3) and `actions` without elections and
hooks given up, with the same result. (`QuiescentDatabag` fails in the next larger instance of
`two_databases`: section 5.) Three Loki
units over two integrations make one integration partly ready while the other one is. In the liveness
runs the bound is also what makes faults stop: no charm converges under endless restarts. The runs
of `LivepatchCharm` check for deadlock (an idle unit always has its update-status); the others do not,
because a settled system whose faults are spent may stop there.

The deployed start (`Deployed`) skips the boot, which `boot` explores alone: all units run, and
either no database was integrated yet, with the events of the boot stored (config-changed, start and
pebble-ready on every unit, leader-elected on the leader, the peer relation-changed on a follower), or
one is served. In `boot` the peer relation may appear at any point of the boot, as the unit tests
that find the state not ready assume.

Fairness. Everywhere: weak fairness of each unit's hooks (Juju runs the hooks a unit has pending and
retries a failed one) and nothing about operators, elections or faults. In `LivepatchCharm` also of
update-status when there is nothing else, which re-emits the stored notices, of the container starts
(Kubernetes), of the peer relation's creation and of the disappearance of a removed relation (Juju's
controller). In `DatabaseClient` also of the database's own hooks, `DatabaseRequested` and `Provision`
(it answers a request, in full), but not of `Rotate`. In `Integrations` also of the roll-out of a
refresh and of the remote charms' relation-changed hooks; Traefik publishes the URL of an integration
whose data it was given, as its library's `data_provided` asks. In `Logging` also of the Loki units'
first publications and of the container starts.

## 5. Where the code departs from what it says

* `databag_after_election`: both units handle a database event while the other one leads. The old
  connection stays, or the new one is not stored, and `on_leader_elected` does not look again. TLC's
  counterexample is quoted in `findings` of `PROJECT.json`.
* `metrics_integrated_again`: the metrics database is removed while there is no main database, so that the
  reconciliation defers the broken event. Integrated again, its connection is stored, and then deleted by
  the stored event, which every later hook re-emits (`src/charm.py:823`). One unit and four operator steps
  are enough; with two (`two_databases`) the property holds.
* `restart_cut_short`: the restart action stops the service (`src/charm.py:964`) and raises before it is
  started again, because Pebble refuses a call or the process dies. An action is not retried and nothing
  is stored. The unit stays active, and update-status, which says it verifies the workload's health
  (`src/charm.py:274`), sets a status only if the service runs (`src/charm.py:595`). The property checked,
  `HealthVerified`, is the docstring: a unit that is active when its update-status hook ends runs the service.

## 6. What the code does not repair

Met while modelling; the properties exclude each case by name or the instance does not contain it.

In the charm:

* A follower that reconciles between its own broken hook and the commit of the leader's serves the
  removed database, and the gate that finds no connection does not stop a service (`src/charm.py:312`).
* The restart action stops the service and, if the schema container does not answer just then, leaves
  nothing that starts it again: no action can be deferred, and nothing observes that container's
  pebble-ready (`src/charm.py:967`). `actions` keeps the containers up. get-resource-token loses its
  reconciliation in the same way (`src/charm.py:1195`).
* An action that raises after the service was stopped leaves an active unit without a service until
  another event reconciles (`restart_cut_short`); get-resource-token does so when its restart of the
  service fails (`src/charm.py:574`). `actions` has crashes of hooks, not of actions, and the theorems
  exclude the failed action by name (`CutForGood`).
* So does any other hook that stopped the service and raised, if its retry does nothing: it was given up
  with `juju resolved --no-retry` (`GivenUp`); its handler acts only in the leader, and the lease moved
  before the retry (`LeaseMissed`, `src/charm.py:724`; a unit that got the lease is repaired by its
  leader-elected); or its event is of a legacy database that has been removed since (`src/charm.py:645`).
* `juju resolved --no-retry` of a start or pebble-ready hook that failed on a new container leaves a unit
  that is active and has no service, until another event reconciles (`src/charm.py:266`); of any other
  reconciling hook, one that keeps serving the old connection. `ActiveIsServing` and `QuiescentServing`
  are not claimed for hooks that are given up.
* Removing either main endpoint clears the one connection string, including the one the other endpoint
  stored: a legacy relation removed before it was joined takes the main database's with it
  (`src/charm.py:705`). Migrating from one to the other, a follower that runs the legacy broken hook late
  stops the service it has started.
* With elections between the units' events both main endpoints are accepted (`src/charm.py:724`), and a
  follower elected during its peer event ignores it and keeps the old connection if the lease moves on at
  once (`src/charm.py:240`). `EndpointsExclusive` and the followers' part of `QuiescentServing` are
  claimed only while the leader stays.
* get-resource-token stores None, over a stored token, when the second request fails, and reports
  success (`src/charm.py:1192`).
* update-status turns a unit blocked by `otel-metrics.enabled` active (`src/charm.py:596`), and an
  invalid `ingress-interface` blocks the unit only until the reconciliation in the same handler
  (`src/charm.py:260`). The schema-upgrade action leaves the unit waiting until the next update-status.
* A variable that is not among `explicit_keys` keeps its value in the merged plan when `get_env_vars` no
  longer returns it: the contracts switch after the airgapped server is gone, the sync token and
  identifier, the storage connection, the proxies (`src/charm.py:408`). `SettledLayer` claims removal for
  the explicit keys only, and the CVE address of a unit that lost the lease stays.
* Alert rules over send-otlp are published in created, changed and upgrade-charm by the leader of that
  moment; an election in between publishes nothing (`src/charm.py:255`).

In the libraries, as the charm uses them:

* While a tracing backend serves only HTTP, every reconciling hook of a follower raises: `get_endpoint`
  reads the application's databag, which a follower may not (`tracing.py:937-951`); the docstring says a
  guard by `is_ready` prevents this, and `_get_tracing_endpoint` has the guard.
* Changing `ingress-interface` leaves the databag of the other interface published, and selecting
  `ingress` publishes nothing before its next relation event, election or upgrade.
* The scrape jobs are published by the leader in relation-joined and config-changed: if the lease moves
  between the units' joined hooks, Prometheus scrapes nothing until the next configuration change.
* LogForwarder does nothing while no Loki unit is ready, so the targets of the last Loki are never
  disabled (`loki_push_api.py:2581` says they are), and one Loki unit without endpoint suspends the whole
  integration.
* After promtail's download failed, relation-changed restarts a service without binary and raises; only
  pebble-ready, a new integration or the resource downloads again. A Loki unit that departs before
  promtail was set up makes the hook raise. `LogProxyEvents` lacks the `alert_rule_status_changed` the
  library emits.
* Grafana's consumer keeps a dashboard's error for as long as the integration exists.

## 7. What is proved

`LivepatchCharm_proofs` proves, for all constants that satisfy the named assumptions of
`LivepatchCharm` (there are units, endpoints and settings are among the known ones, the bound is a
number, and the special values differ from connections, tokens, kinds and environments):

* `TypeCorrect`, `DeployedTypeCorrect`: `[]TypeOK` of `Spec` and of `DeployedSpec`.
* `OnlyLeader`, `DeployedOnlyLeader`: `OnlyLeaderWrites` of both.

`TypeOK` alone is not inductive: the handlers read the snapshot and the view of the hook they run in,
which are `None` in an idle hook. `TypeInv` adds `HookInv`: a hook is either running, with a snapshot and
a view, or idle, with nothing to emit and nothing written. Handlers need a notice to emit, so they run
only in the first kind. That a started service has a connection, although `get_env_vars` reads it
without a check, follows from the gates (`OutcomeIsOutcome`, `EnvironmentType`). The proof has one
lemma per handler over the lemmas of the operators they share (`ConsumeType`, `WriteType`,
`ReconfigureTypes`), split into what handlers change (`CharmTypes`) and what they never touch
(`JujuTypes`).

`OnlyLeaderWrites` needs `WriterLeads`: a hook that has written a key belongs to the leader. Handlers
write only after `is_leader()` (`HandleWrites`), and the lease moves only between hooks of its holder.
The commit is then the only step that changes the databag, and it is the leader's.

`DatabaseClient_proofs` proves, for all sets of units and database units, all bounds, and a `None` that is
neither a hook nor a connection:

* `TypeCorrect`: `[]TypeOK`. A stored connection never lacks a part, although endpoints may be missing
  when the credentials are there.
* `ToldExactly`: `[]ToldAsRecorded`.
* `KeepsPromise`: `StoresPublished`, the refinement of `PublishedConnection`.
* `NeverBack`: `ForwardOnly`.
* `NothingMissed`: `[]SettledStored`.

None of these is inductive either. `IInv` adds to `TypeOK`:

* `HookOrder`: outside the life of the integration, and in a unit whose broken hook is over, there is no
  hook of it to run or to retry; and a hook sees a databag at least as new as the one the unit recorded.
* `Recorded`: within one integration credentials are never withdrawn, and a unit was told of the database
  by a hook that was committed exactly if it has recorded a databag that has them. So the diff of a later
  hook cannot find them added again, while that of a hook that retries an undone announcement does.

`KeepsPromise` shows each step to be `Publish`, `Store`, `Clear` or a stutter of the promise: `log` only
grows, so that `EverPublished` only grows, and the one action that stores reads a position of `log`.
`NeverBack` needs two more invariants: the values of a key rise along `log` (`Rising`), and what is
stored comes from a position of `log` not after the one the leader's present hook sees (`Latest`), which is
where the lease must not move. `NothingMissed` needs `Stored`: while the relation lasts, the leader has a hook
to run that announces the newest databag or runs one that sees it, or it has stored the event, or the
connection is the published one; when it is over, the broken hook is still to end, or nothing is stored
and the unit sees no relation. All the invariants were checked with TLC before they were proved.

`CharmService_proofs` proves, with the assumptions of `LivepatchCharm` only:

* `BrokenStops`, `DeployedBrokenStops`: `BrokenHookStops`.
* `ActiveServes`, `DeployedActiveServes`: `[]ActiveIsServing`, if a handler that stopped the service and
  raised is sure to be repeated (`[][Repeated]_vars`). `Repeated` excludes three kinds of step, each
  a case of section 6 in which the statement is false: an action, or the handler of an event of an earlier
  legacy database, stops the service and raises (`CutForGood`); the operator gives up a failed hook of a unit
  that is active without a service (`GivenUp`); the lease moves from or to such a unit (`LeaseMissed`). Every
  behaviour of `two_databases` satisfies it, and every one of `actions` that gives up no hook and elects no
  leader.

Both are about notices. For the first, the broken event of a main database is never deferred
(`BrokenNeverStored`) and is the last its hook handles (`BrokenLast`): whatever an earlier notice started,
the last one stops, and `Consume` cannot drop it as a duplicate. For the second, `ActiveInv`: a unit that is
active runs the service; or its container was lost, and it is `Owed` one of the two wake-ups of a new
container once that answers: it is pending, stored, or in the hook that runs and comes back if that hook
raises; or a handler stopped its service and raised, and it `Recovers`: the retry of that hook, to come
(`ToRetry`) or under way (`Retrying`), still has an event whose handler will start the service or take the status
back, whatever was integrated or removed in between. For that, `SeenInv` relates the credentials and the request
a hook has seen to those there are: they can go only after the unit has run the broken hook, and then that hook is
the one that makes up for it. The lemma
`HandlersDo` says what any handler does to the notices, to the service and to the status, so that the
eleven handlers are looked at once for both theorems.

`CharmEndpoints_proofs` proves `DeployedExclusive`: `[]EndpointsExclusive` of `DeployedSpec`, while the
lease stays and a refused hook of the leader is not given up (`[][SameLeader]_vars`). With elections it
is false (section 6). The invariant `RefusalOwed`: when both main endpoints are integrated to stay, the leader
has a hook pending that will refuse one of them, or runs one that has seen the other endpoint; and that hook
still has its own event to handle (`RefusedLast`), so it can only end by raising, after which it is pending
again.

`CharmLeader_proofs` proves `LeaderServes` and `DeployedLeaderServes`: `[]LeaderServesDatabag` of `Spec` and
of `DeployedSpec`, under any elections, crashes (in the middle of a handler, too), lost containers, rotations and
removals, with three exceptions (`[][Heeded]_vars`): no action of the leader is handled while the schema container
does not answer (`ActionUnheard`, the second item of section 6), the operator does not give up a failed hook of the
leader that would have reconciled (`RetryGivenUp`), and no action of the leader, nor its handler of an event of an
earlier legacy database, stops the service and raises (`CutForGood(leader)`). Without them the property is
false. `elections` has none of these steps, so the theorem covers all of its runs from the deployed start.

The invariant `Converges(leader)` follows each wake-up to where it ends. It says of the leader that

* a hook that reconciles is pending, or will be retried (`WakePending`); or
* the unit is idle, and a notice that reconciles is stored, or the service already matches the databag, or a
  gate is closed; or
* a hook runs, what it has read still holds but for its own writes (`Fresh`), and both of its ends are good:
  if it ends, what it commits is served or a notice is left (`EndsWell`), and if it raises, what was there
  before is, or the hook comes back (`RaisesWell`). `LeaderCut` is the lemma for a raise that
  leaves the service stopped: the event that was handled then is one that the leader handles again.

Both ends are needed because Pebble keeps what a hook did although the databag and the notices are rolled back.
`Fresh` is where a unit could serve from a stale databag: every step that changes what a hook has
read leaves the leader a hook to run, and a newly elected leader has leader-elected pending. The rest is
about notices (`HookFacts`): the broken, stop and action events are never stored (`NeverStored`); a hook
handles only what was stored and its own event (`Origin`); a failed hook is still pending (`FailedInv`); the
legacy database hands out nothing before the leader asked, and who asked has seen it (`LegacyInv`); no
connection is stored before the peer relation exists (`DsnInv`). `HandlersEffect` and `HandlersMove`
state what any handler does, so that the invariants are shown once for all handlers. TLC found no violation of the
invariant on four instances before it was proved.

`CharmQuiescence_proofs` proves the two properties of a charm with nothing left to run.

`DeployedDatabagSettles` and `DatabagSettled`: `[]QuiescentDatabag` of `DeployedSpec`, and of `Spec` once
the peer relation exists (before that the credentials wait in deferred notices). `UnitsServe` and
`DeployedUnitsServe`: `[]QuiescentServing` of both. All are for any number of units, any connections,
crashes, lost containers and pods, rotations and removals. The hypotheses are, but for the last, the cases of sections 5
and 6 in which the property is false:

| Hypothesis | of | Without it |
|---|---|---|
| the leader stays (`LeaseKept`, `Attended`) | both | `databag_after_election`; an elected follower ignores its peer event |
| `OneMain`: a main database is removed before the other is integrated | both | the broken hook of one clears the connection of the other, a follower's late one stops the service |
| `MetricsClean`: no broken event of an earlier metrics database waits while one is integrated | databag | `metrics_integrated_again` |
| no failed hook is given up: none of the leader's (`LeaseKept`); none that reconciles, or that removes or stops (`Attended`) | databag; serving | the connection is not stored, or not followed |
| no action is handled while the schema container does not answer (`Attended`) | serving | the restart action leaves the service stopped |
| no action, and no handler of an event of an earlier legacy database, stops the service and raises (`CutForGood`) | serving | `restart_cut_short` |
| no handler of master-changed of a follower stops the service and raises (`CutAside`) | serving | no case is known: the retry, or the broken hook that replaces it, reconciles, which the invariant does not follow |

Every behaviour of `one_database` and `two_databases` satisfies them (a metrics database is not integrated
twice within the bound), so the theorems cover all of these runs. They cover the behaviours of `actions` that elect
no leader and give up no hook; in the others the run finds no violation within its bound.

The invariant of the databag, `DatabagInv`, follows each endpoint between what it publishes and what the
leader stores.

* `Reads`: what the leader's hook has not written, it reads from the databag, because nobody else commits.
* `Withdrawn`: a dying endpoint whose broken hook the leader has run has no connection in the databag, nor
  in the view of a hook; `Clears` says the same of the broken hook itself, before its event (still to be
  handled) and after it. `RemovalInv` is what keeps the connection from coming back: a hook that sees the
  endpoint began before its broken hook.
* `StoredInv`: a published connection is in the databag, or the leader has a changed hook pending, or runs a
  hook that has it, will store it, or keeps the event; and if that hook raises, it comes back. A stored
  event needs a later hook to be emitted in (`LateReady`: the peer relation brings one).
* `Empty`: of an endpoint that publishes nothing, nothing is stored.
* `Unspoiled`: no stored broken event deletes the connection. This is the part that `MetricsClean` supplies,
  and that the main endpoints have by themselves, as their broken events are never stored.

The invariant of the units, `ServingInv`, is `LeaderInv` for the leader and `Follows` for every other unit.
A follower either has a hook pending that makes up for what it missed (`Restoring`); or is idle and has a
stored notice that reconciles or is `Good`; or runs a hook whose reading is up to date (`UpToDate`) and
whose two ends are good (`FollowsEnd`, `FollowsRaise`). `Good` is where a removal is subtle: between the
follower's own broken hook, which stops its service, and the commit of the leader's, the databag still has
the connection and the follower does not serve, or serves again. `Clearing` says that the leader's part is
still to come, and `ClearingNext` that it ends in a databag without connection. `HooksElsewhere` is what one
unit's hooks do to another: whatever they change in the databag leaves it a peer event. `FollowerAnswers`
states for all handlers of a follower at once what they do about the wake-ups they consume, and `FollowerCut`
that a handler which stopped the service and raised has left one of them.

TLC found no violation of either invariant on nine instances before they were proved; `Unspoiled` was
strengthened on the way and checked again.

`Integrations_proofs` proves, for all units, scenarios, faults and bounds, type correctness of the
composed module (`TypeCorrect`) and each of its settled invariants: `RouteSettles`, `IngressSettles`,
`RevokedIsForgotten`, `ScrapingSettles`, `DashboardsSettle`, `TracingSettles`, `SchemaSettles`,
`RulesSettle`, `LayerSettles`. Beside the assumptions of the modules (`None` and the special values differ
from the data) there is no hypothesis. What makes them inductive:

* `HookOrder`: hooks belong to integrations that exist, and a dying one has its broken hook to run; a hook
  that raised is still to be run.
* `PodsBound`, `UrlsBound`: addresses and URLs are counted by the faults, which makes the types inductive.
* One invariant per promise of the form "kept, or this hook is still to run": for example each ingress
  databag is published or the created, leader-elected or upgrade hook that publishes it is pending
  (`PublishedIngress`).
* `LayerInv`: every explicit key of the layer is what it would be in a reconciliation at this moment
  (`UpToDate`), or a hook that reconciles is pending, or its notice is stored.

`JujuStep` gives the effect of any hook and of any step of Juju on its own variables; `Beside` says that no
library touches another's variables. The proof of each invariant then has one step per reaction of its library.

`Logging_proofs` proves type correctness of `Logging`, `ForwardingSettles`, `PromtailSettles` and
`PromtailIsStopped`, for any number of integrations, Loki units, containers and URLs. `HooksInv` is what
Juju owes the unit: a joined hook exactly for the members it has not seen, a departed hook exactly for those
it has seen and that left, a broken hook exactly for a dying integration. `ForwardingInv` and `ConfiguredInv`
say that each container's targets, and promtail's clients, are those of the units seen now, or that a hook
that makes them so is pending. TLC found no violation of any of these invariants before they were proved;
on the larger instances its search was bounded by time.

Only model-checked: all liveness (`EventuallyServing`, `EventuallyStored`, `EventuallyConnected`,
`EventuallyServed`, `EventuallyLogged`), which the prover does not reach.

## 8. What is not modelled

* Log redaction: string patterns with unit tests of their own.
* The conversion of the old configuration: a table of names applied to the parameter of an action
  that reads and changes nothing.
* The contents of dashboards and alert rules, and what the libraries do to them (variables, templates,
  PromQL and LogQL transformations, the check of rules by cos-tool).
* Parts of the vendored libraries the charm does not construct: aggregators, dynamic scrape jobs, syslog,
  TLS and headers of the ingress, the Kafka and Redis clients beside the database client, alert rules over
  metrics-endpoint and logging (the charm passes a path of its own and publishes its rules over send-otlp).
* The text of addresses, tokens, layers and statuses, except where a missing part matters.
* ops-lib-pgsql and the OTLP library, which are not in the repository.
