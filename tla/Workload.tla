------------------------------ MODULE Workload ------------------------------
(***************************************************************************)
(* What a reconciliation of the workload leaves behind, in more detail than *)
(* LivepatchCharm: the environment get_env_vars builds, merged into the     *)
(* Pebble plan of the unit, the schemas of the databases, and the alert     *)
(* rules sent over send-otlp. The databases are integrated, the containers  *)
(* answer, server.url-template is set, and the server is not hosted.        *)
(***************************************************************************)
EXTENDS CharmHooks

CONSTANT OptionSets     \* the configurations of an instance

Links == {"pro-airgapped-server", "cve-catalog", "send-otlp"}

OptionNames == {"token", "sync", "postgres", "proxy", "otel"}

ASSUME OptionsAssumption == OptionSets # {} /\ OptionSets \subseteq SUBSET OptionNames

Targets == {"livepatchdb", "timescaledb"}

VARIABLES
    options,        \* the options set: patch-sync.token, patch-sync.enabled,
                    \* patch-storage.type = postgres, http_proxy, otel-metrics.enabled
    resourceToken,  \* the databag holds a resource token
    published,      \* the links whose remote side has published its address
    layer,          \* per unit, the environment in the Pebble plan, or None
    retry,          \* per unit, a deferred event is stored
    schema,         \* per database, the revision its schema was migrated to
    unmigrated,     \* a migration failed in the last reconciliation of this revision
    alertRules,     \* the revision of the alert rules in the databag, or None
    rulesMissed     \* the leadership moved before the rules were published

workloadVars ==
    <<options, resourceToken, published, layer, retry, schema, unmigrated, alertRules, rulesMissed>>

(* An instance that uses no link leaves the workload out. *)
InPlay == inUse \cap Links # {}

Keys ==
    {"contracts_enabled", "contracts_url", "sync_enabled", "sync_token", "sync_id",
     "cve_url", "storage_dsn", "proxy", "otlp", "is_leader"}

Values == {"airgapped", "default", "config", "resource", "model", "catalog", "dsn", "proxy",
           "collector", "true", "false", "empty"}

ASSUME NoLayerAssumption == None \notin [Keys -> Values \cup {None}]

Flag(b) == IF b THEN "true" ELSE "false"

-----------------------------------------------------------------------------
(* The integrations as hook k of unit u sees them. A remote unit is in       *)
(* relation.units from its joined hook to its departed hook.                 *)
Airgapped(u, k) ==
    LET r == "pro-airgapped-server" IN
    /\ r \in related \cap published
    /\ <<r, "joined">> \notin hooks[u] \ {k}
    /\ r \in dying => <<r, "departed">> \in hooks[u] \ {k}

Cve(u, k) == "cve-catalog" \in published \cap Visible(u, k)

Otlp(u, k) == "send-otlp" \in published \cap Visible(u, k)

Optional(b, value) == IF b THEN value ELSE None

(* get_env_vars, without the keys that neither change nor can be empty:      *)
(* empty values are removed.                                                 *)
Env(u, k) ==
    LET airgapped == Airgapped(u, k)
        token == "token" \in options
        sync == "sync" \in options
    IN  [contracts_enabled |-> Optional(airgapped, "true"),
         contracts_url |-> IF airgapped THEN "airgapped" ELSE "default",
         sync_enabled |-> Flag(sync /\ (airgapped => token)),
         sync_token |-> IF token THEN "config"
                        ELSE Optional(~airgapped /\ resourceToken, "resource"),
         sync_id |-> Optional(~airgapped /\ sync, "model"),
         cve_url |-> Optional(u = leader /\ Cve(u, k), "catalog"),
         storage_dsn |-> Optional("postgres" \in options, "dsn"),
         proxy |-> Optional("proxy" \in options, "proxy"),
         otlp |-> Optional(Otlp(u, k), "collector"),
         is_leader |-> Flag(u = leader)]

(* explicit_keys. *)
ExplicitKeys == {"cve_url", "otlp"}

NoLayer == [key \in Keys |-> None]

(* A fault: nothing is set explicitly. *)
MergedImplicitly(old, env) ==
    [key \in Keys |-> IF env[key] # None THEN env[key] ELSE old[key]]

(* add_layer(combine=True) with "override: merge": a key that the new layer  *)
(* does not have keeps its value.                                            *)
Merged(old, env) ==
    [key \in Keys |->
        IF env[key] # None THEN env[key]
        ELSE IF key \in ExplicitKeys THEN "empty"
        ELSE old[key]]

(* The two gates that depend on what is modelled here. *)
TokenSet(u, k) == Airgapped(u, k) \/ resourceToken \/ "token" \in options
OtlpSet(u, k) == "otel" \in options => Otlp(u, k)

Reconciling ==
    {<<"pro-airgapped-server", "changed">>, <<"pro-airgapped-server", "departed">>,
     <<"cve-catalog", "changed">>, <<"cve-catalog", "broken">>,
     <<"send-otlp", "changed">>, <<"send-otlp", "broken">>,
     <<"config-changed">>, <<"leader-elected">>}

-----------------------------------------------------------------------------
Pending(u) == {t \in Targets : schema[t] < running[u]}

(* A fault: the schemas are upgraded once the later gates are open. *)
MigrateWhenOpen(u, k) ==
    IF ~(TokenSet(u, k) /\ OtlpSet(u, k)) THEN UNCHANGED <<schema, unmigrated>>
    ELSE \E done \in SUBSET Pending(u) :
        /\ schema' = [t \in Targets |-> IF t \in done THEN running[u] ELSE schema[t]]
        /\ unmigrated' = IF running[u] = revision THEN done # Pending(u) ELSE unmigrated

(* handle_schema_upgrade: each database whose check reports pending          *)
(* migrations is upgraded; a check or an upgrade that fails is logged.       *)
Migrate(u, k) ==
    \E done \in SUBSET Pending(u) :
        /\ schema' = [t \in Targets |-> IF t \in done THEN running[u] ELSE schema[t]]
        /\ unmigrated' = IF running[u] = revision THEN done # Pending(u) ELSE unmigrated

(* _update_workload_container_config: the schemas, the gates, the layer. *)
Reconcile(u, k) ==
    /\ Migrate(u, k)
    /\ retry' = [retry EXCEPT ![u] =
          TokenSet(u, k) /\ ~OtlpSet(u, k) /\ "send-otlp" \in Visible(u, k)]
    /\ IF TokenSet(u, k) /\ OtlpSet(u, k)
       THEN layer' = [layer EXCEPT ![u] =
                Merged(IF layer[u] = None THEN NoLayer ELSE layer[u], Env(u, k))]
       ELSE UNCHANGED layer

(* A fault: a refresh does not publish. *)
PublishingRulesOnce(k) == k \in {<<"send-otlp", "created">>, <<"send-otlp", "changed">>}

PublishingRules(k) ==
    k \in {<<"send-otlp", "created">>, <<"send-otlp", "changed">>, <<"upgrade-charm">>}

(* otel_metrics.publish(), which writes the application's databag. *)
PublishRules(u, k) ==
    IF PublishingRules(k) /\ u = leader /\ "send-otlp" \in Visible(u, k)
    THEN alertRules' = running[u] /\ rulesMissed' = FALSE
    ELSE UNCHANGED <<alertRules, rulesMissed>>

(* Hook k of unit u; a stored event is emitted again before it. *)
WorkloadHook(u, k) ==
    /\ IF InPlay /\ (k \in Reconciling \/ retry[u]) THEN Reconcile(u, k)
       ELSE UNCHANGED <<layer, retry, schema, unmigrated>>
    /\ PublishRules(u, k)
    /\ UNCHANGED <<options, resourceToken, published>>

-----------------------------------------------------------------------------
NoHook == <<>>

WorkloadInit ==
    /\ options \in IF InPlay THEN OptionSets ELSE {{}}
    /\ resourceToken \in {FALSE, InPlay}
    /\ published = {}
    /\ retry = [u \in Units |-> FALSE]
    /\ schema = [t \in Targets |-> 1]
    /\ unmigrated = FALSE
    /\ alertRules = None
    /\ rulesMissed = FALSE
    /\ layer = [u \in Units |->
          IF InPlay /\ TokenSet(u, NoHook) /\ OtlpSet(u, NoHook)
          THEN Merged(NoLayer, Env(u, NoHook)) ELSE None]

WorkloadTypeOK ==
    /\ options \in OptionSets \cup {{}}
    /\ resourceToken \in BOOLEAN
    /\ published \subseteq Links
    /\ layer \in [Units -> [Keys -> Values \cup {None}] \cup {None}]
    /\ retry \in [Units -> BOOLEAN]
    /\ schema \in [Targets -> 1..revision]
    /\ unmigrated \in BOOLEAN
    /\ alertRules \in 1..revision \cup {None}
    /\ rulesMissed \in BOOLEAN

(* The schema-upgrade action, which stops at the first upgrade that fails.   *)
(* The status it leaves on the unit is not modelled.                         *)
SchemaUpgradeAction(u) ==
    /\ InPlay
    /\ Pending(u) # {}
    /\ \E done \in {{"livepatchdb"}, Targets} :
          schema' = [t \in Targets |-> IF t \in done \cap Pending(u) THEN running[u] ELSE schema[t]]
    /\ UNCHANGED <<juju, options, resourceToken, published, layer, retry, unmigrated, alertRules,
                   rulesMissed>>

(* The remote side publishes its address. *)
PublishLink(e) ==
    /\ e \in Links \cap (related \ dying)
    /\ e \notin published
    /\ published' = published \cup {e}
    /\ hooks' = Changed(e)
    /\ UNCHANGED <<topology, failed, pods, method, faults>>
    /\ UNCHANGED <<options, resourceToken, layer, retry, schema, unmigrated, alertRules,
                   rulesMissed>>

SetOptions ==
    /\ Fault("options")
    /\ InPlay
    /\ options' \in OptionSets \ {options}
    /\ hooks' = Queue(Units, {<<"config-changed">>})
    /\ UNCHANGED <<topology, failed, pods, method>>
    /\ UNCHANGED <<resourceToken, published, layer, retry, schema, unmigrated, alertRules,
                   rulesMissed>>

NewLink(e) ==
    /\ published' = published \ {e}
    /\ IF e = "send-otlp" THEN alertRules' = None /\ rulesMissed' = FALSE
       ELSE UNCHANGED <<alertRules, rulesMissed>>
    /\ UNCHANGED <<options, resourceToken, layer, retry, schema, unmigrated>>

(* Nothing is published again when the leadership moves. *)
WorkloadElect ==
    /\ rulesMissed' = ("send-otlp" \in related /\ alertRules # revision)
    /\ UNCHANGED <<options, resourceToken, published, layer, retry, schema, unmigrated, alertRules>>

(* A new pod has no plan; its stored events survive. *)
WorkloadPod(u) ==
    /\ layer' = [layer EXCEPT ![u] = None]
    /\ UNCHANGED <<options, resourceToken, published, retry, schema, unmigrated, alertRules,
                   rulesMissed>>

-----------------------------------------------------------------------------
Open(u) == InPlay /\ TokenSet(u, NoHook) /\ OtlpSet(u, NoHook)

LeaderKeys == {"cve_url", "is_leader"}

(* The keys that must be as get_env_vars would build them now. A follower    *)
(* that was the leader may keep what only a leader is told.                  *)
Binding(u) == Keys \ IF u = leader THEN {} ELSE LeaderKeys

Current(u, key) ==
    IF Env(u, NoHook)[key] = None THEN layer[u][key] \in {None, "empty"}
    ELSE layer[u][key] = Env(u, NoHook)[key]

(* Whatever was integrated, removed, configured, elected or replaced, a unit *)
(* that can serve ends up with every value there is, and without those of    *)
(* an integration whose keys are explicit, a removed collector or CVE        *)
(* service (get_env_vars, add_layer).                                        *)
SettledLayer ==
    Settled => \A u \in Units : Open(u) =>
        /\ layer[u] # None
        /\ \A key \in Binding(u) :
              key \in ExplicitKeys \/ Env(u, NoHook)[key] # None => Current(u, key)

(* Unless its last attempt failed, the databases have the schema of the      *)
(* revision that runs once a refresh is rolled out, whether or not the units *)
(* can serve (handle_schema_upgrade comes before the later gates).           *)
SettledSchema ==
    Settled /\ InPlay /\ ~unmigrated =>
        \A t \in Targets : schema[t] = revision

(* A refresh sends the alert rules of the new revision, unless the           *)
(* leadership moved between the hooks that publish (_on_upgrade_charm).      *)
SettledRules ==
    Settled /\ "send-otlp" \in related \ dying /\ ~rulesMissed => alertRules = revision
=============================================================================
