---------------------------- MODULE LokiRelations ----------------------------
(***************************************************************************)
(* One Livepatch unit and its integrations with Loki, over "logging" (any   *)
(* number of them) and "log-proxy" (at most one): the hooks of the unit,    *)
(* its containers, and the databags that LokiPushApiProvider writes. What   *)
(* the unit does in its hooks is in LogForwarder and LogProxy.              *)
(***************************************************************************)
EXTENDS Naturals, FiniteSets

CONSTANTS
    LoggingRelations,   \* the "logging" integrations
    Proxy,          \* the "log-proxy" integration
    Scenarios,      \* sets of integrations; an instance uses those of one
    LokiUnits,      \* the units a Loki application can have
    Urls,           \* the push URLs of Loki units
    FirstUrl,       \* the one they start with
    Containers,     \* the containers of the charm
    Workload,       \* the one that writes the log file
    Faults,         \* the disturbances that occur
    MaxFaults,      \* bound: how many
    MaxLokiUnits,   \* bound: a unit is added while there are fewer over "logging"
    None            \* not published, nothing

Relations == LoggingRelations \cup {Proxy}

ASSUME ProxyAssumption == Proxy \notin LoggingRelations
ASSUME ScenariosAssumption == Scenarios \subseteq SUBSET Relations
ASSUME UrlsAssumption == FirstUrl \in Urls /\ None \notin Urls
ASSUME ContainersAssumption == Workload \in Containers /\ Containers \cap Relations = {}
ASSUME BoundsAssumption == MaxFaults \in Nat /\ MaxLokiUnits \in Nat

Created(r) == <<r, "created">>
Joined(r, l) == <<r, "joined", l>>
Changed(r) == <<r, "changed">>
Departed(r, l) == <<r, "departed", l>>
Broken(r) == <<r, "broken">>
PebbleReady(c) == <<c, "pebble-ready">>

HookKinds ==
    ({PebbleReady(c) : c \in Containers}
        \cup (Relations \X {"created", "changed", "broken"}))
        \cup (Relations \X {"joined", "departed"} \X LokiUnits)

VARIABLES
    inUse,          \* the integrations of this instance
    related,        \* those that exist, dying ones included
    dying,          \* those being removed
    members,        \* per integration, the Loki units in it
    seen,           \* those the Livepatch unit has joined: relation.units
    endpoint,       \* per integration and Loki unit, the URL in its databag, or None
    binaryUrl,      \* per integration, promtail_binary_zip_url is published
    hooks,          \* the hooks to run
    failed,         \* the hook that raised and is retried first, or None
    connected,      \* the containers that can be connected to
    faults          \* disturbances so far

relationVars == <<inUse, related, dying, members, seen>>
lokiVars == <<endpoint, binaryUrl>>
jujuVars == <<relationVars, lokiVars, hooks, failed, connected, faults>>

LokiInit ==
    /\ inUse \in Scenarios
    /\ related = {} /\ dying = {}
    /\ members = [r \in Relations |-> {}]
    /\ seen = [r \in Relations |-> {}]
    /\ endpoint = [r \in Relations |-> [l \in LokiUnits |-> None]]
    /\ binaryUrl = [r \in Relations |-> FALSE]
    /\ hooks = {}
    /\ failed = None
    /\ connected = Containers
    /\ faults = 0

LokiTypeOK ==
    /\ inUse \in Scenarios
    /\ related \subseteq inUse /\ dying \subseteq related
    /\ members \in [Relations -> SUBSET LokiUnits]
    /\ seen \in [Relations -> SUBSET LokiUnits]
    /\ endpoint \in [Relations -> [LokiUnits -> Urls \cup {None}]]
    /\ binaryUrl \in [Relations -> BOOLEAN]
    /\ hooks \subseteq HookKinds
    /\ failed \in hooks \cup {None}
    /\ connected \subseteq Containers
    /\ faults \in 0..MaxFaults

-----------------------------------------------------------------------------
(* The Livepatch unit's hooks.                                               *)

(* relation.units during hook k. *)
SeenIn(k) ==
    [r \in Relations |->
        CASE k \in {Joined(r, l) : l \in LokiUnits} -> seen[r] \cup {k[3]}
          [] k \in {Departed(r, l) : l \in LokiUnits} -> seen[r] \ {k[3]}
          [] OTHER -> seen[r]]

(* model.relations during hook k. *)
VisibleIn(k) == related \ {r \in related : k = Broken(r)}

(* relation-created is the first hook of an integration, and broken the last *)
(* one; pebble-ready runs while the container is reachable.                  *)
Runs(k) ==
    /\ k \in hooks
    /\ failed \in {None, k}
    /\ \A r \in Relations :
          /\ Created(r) \in hooks => k = Created(r) \/ k[1] # r
          /\ k = Broken(r) => hooks \cap {h \in HookKinds : h[1] = r} = {k}
    /\ \A c \in Containers : k = PebbleReady(c) => c \in connected

Dequeue(k) ==
    /\ Runs(k)
    /\ seen' = SeenIn(k)
    /\ hooks' = (hooks \ {k}) \cup
          {Changed(r) : r \in {r \in Relations : \E l \in LokiUnits : k = Joined(r, l)}}
    /\ failed' = None
    /\ related' = VisibleIn(k)
    /\ dying' = dying \cap related'
    /\ UNCHANGED <<inUse, members, lokiVars, connected, faults>>

(* Hook k raises: Juju sees nothing of it, and retries it before any other. *)
Raise(k) ==
    /\ Runs(k)
    /\ failed' = k
    /\ UNCHANGED <<relationVars, lokiVars, hooks, connected, faults>>

-----------------------------------------------------------------------------
(* LokiPushApiProvider: hooks of the Loki units.                             *)

Alive(r) == r \in related \ dying

Publish(r) == hooks' = hooks \cup (IF seen[r] # {} THEN {Changed(r)} ELSE {})

(* _on_logging_relation_joined, in Loki's leader: the binaries' URLs. *)
PublishBinaryUrl(r) ==
    /\ Alive(r) /\ ~binaryUrl[r]
    /\ binaryUrl' = [binaryUrl EXCEPT ![r] = TRUE]
    /\ Publish(r)
    /\ UNCHANGED <<relationVars, endpoint, failed, connected, faults>>

(* _process_logging_relation_changed and update_endpoint in unit l. Units    *)
(* behind one ingress publish the same URL; a later one may be another.      *)
PublishEndpoint(r, l, url) ==
    /\ Alive(r) /\ l \in members[r]
    /\ url # endpoint[r][l]
    /\ endpoint' = [endpoint EXCEPT ![r][l] = url]
    /\ Publish(r)
    /\ UNCHANGED <<relationVars, binaryUrl, failed, connected>>

FirstEndpoint(r, l) ==
    endpoint[r][l] = None /\ PublishEndpoint(r, l, FirstUrl) /\ UNCHANGED faults

-----------------------------------------------------------------------------
(* Juju, Kubernetes and the operator.                                        *)

Fault(f) ==
    /\ f \in Faults
    /\ faults < MaxFaults
    /\ faults' = faults + 1

MoveEndpoint(r, l) ==
    /\ Fault("move")
    /\ endpoint[r][l] # None
    /\ \E url \in Urls : PublishEndpoint(r, l, url)

Integrate(r, l) ==
    /\ r \in inUse \ related
    /\ related' = related \cup {r}
    /\ members' = [members EXCEPT ![r] = {l}]
    /\ seen' = [seen EXCEPT ![r] = {}]
    /\ endpoint' = [endpoint EXCEPT ![r] = [m \in LokiUnits |-> None]]
    /\ binaryUrl' = [binaryUrl EXCEPT ![r] = FALSE]
    /\ hooks' = hooks \cup {Created(r), Joined(r, l)}
    /\ UNCHANGED <<inUse, dying, failed, connected, faults>>

AddLokiUnit(r, l) ==
    /\ Alive(r) /\ l \notin members[r] \cup seen[r]
    /\ Cardinality({m \in LoggingRelations \X LokiUnits : m[2] \in members[m[1]]}) < MaxLokiUnits
    /\ members' = [members EXCEPT ![r] = @ \cup {l}]
    /\ endpoint' = [endpoint EXCEPT ![r][l] = None]
    /\ hooks' = hooks \cup {Joined(r, l)}
    /\ UNCHANGED <<inUse, related, dying, seen, binaryUrl, failed, connected, faults>>

(* Units that leave: a pending joined hook, which never raises, is dropped;  *)
(* a unit that was joined departs.                                           *)
Leaving(r, ls) ==
    (hooks \ {Joined(r, l) : l \in ls}) \cup {Departed(r, l) : l \in ls \cap seen[r]}

(* A fault: a hook that failed is dropped with the integration. *)
DyingForgotten(r) == (Leaving(r, members[r]) \ {Changed(r)}) \cup {Broken(r)}

(* The hooks left of an integration that is removed. *)
Dying(r) == (Leaving(r, members[r]) \ ({Changed(r)} \ {failed})) \cup {Broken(r)}

RemoveLokiUnit(r, l) ==
    /\ Fault("leave")
    /\ Alive(r) /\ l \in members[r] /\ members[r] # {l}
    /\ members' = [members EXCEPT ![r] = @ \ {l}]
    /\ hooks' = Leaving(r, {l})
    /\ UNCHANGED <<inUse, related, dying, seen, lokiVars, failed, connected>>

Remove(r) ==
    /\ Fault("remove")
    /\ Alive(r)
    /\ dying' = dying \cup {r}
    /\ members' = [members EXCEPT ![r] = {}]
    /\ hooks' = Dying(r)
    /\ UNCHANGED <<inUse, related, seen, lokiVars, failed, connected>>

LoseContainer(c) ==
    /\ Fault("container")
    /\ c \in connected
    /\ connected' = connected \ {c}
    /\ UNCHANGED <<relationVars, lokiVars, hooks, failed>>

StartContainer(c) ==
    /\ c \notin connected
    /\ connected' = connected \cup {c}
    /\ hooks' = hooks \cup {PebbleReady(c)}
    /\ UNCHANGED <<relationVars, lokiVars, failed, faults>>

Settled == hooks = {} /\ connected = Containers
=============================================================================
