----------------------------- MODULE Reconcile -----------------------------
(***************************************************************************)
(* LivepatchCharm._update_workload_container_config as a decision: the      *)
(* ordered gates the handler passes, what it does at the first closed one   *)
(* (defer the event or drop it, and the status it leaves) and whether it    *)
(* starts the workload. The inputs are everything the gates read:           *)
(*   ready      the peer relation exists (State.is_ready)                   *)
(*   workload   the livepatch container's Pebble answers                    *)
(*   schema     the schema-upgrade container's Pebble answers               *)
(*   dsn        State.dsn is a non-empty string                             *)
(*   token      State.resource_token is set                                 *)
(*   config     hosted, sync_token, url, otel: the four options read        *)
(*   links      airgapped: an address is published on pro-airgapped-server; *)
(*              otlp: the send-otlp relation is absent, empty or filled     *)
(***************************************************************************)
EXTENDS Naturals

ConfigRecords == [hosted: BOOLEAN, sync_token: BOOLEAN, url: BOOLEAN, otel: BOOLEAN]

OtlpStates == {"absent", "nodata", "ready"}

LinkRecords == [airgapped: BOOLEAN, otlp: OtlpStates]

DeferringOutcomes == {"no_state", "no_workload", "no_database", "no_schema", "no_otlp_data"}

DroppingOutcomes == {"no_token", "no_setting", "no_otlp_relation"}

Outcomes == DeferringOutcomes \cup DroppingOutcomes \cup {"started"}

Statuses == {"maintenance", "waiting", "blocked", "active"}

(* A fault: the connection string is not awaited. *)
OnlySchemaDefers(in) == ~in.schema

(* handle_schema_upgrade: the two ways it raises DeferError. A failing      *)
(* migration is logged and swallowed, so it closes nothing.                 *)
SchemaUpgradeDefers(in) == ~in.dsn \/ ~in.schema

(* An on-premises server needs one source of patches. *)
MissingToken(in) ==
    /\ ~in.config.hosted
    /\ ~in.links.airgapped
    /\ ~in.token
    /\ ~in.config.sync_token

MissingOtlp(in) == in.config.otel /\ in.links.otlp # "ready"

Outcome(in) ==
    IF ~in.ready THEN "no_state"
    ELSE IF ~in.workload THEN "no_workload"
    ELSE IF SchemaUpgradeDefers(in) THEN IF ~in.dsn THEN "no_database" ELSE "no_schema"
    ELSE IF MissingToken(in) THEN "no_token"
    ELSE IF ~in.config.url THEN "no_setting"
    ELSE IF MissingOtlp(in)
         THEN IF in.links.otlp = "nodata" THEN "no_otlp_data" ELSE "no_otlp_relation"
    ELSE "started"

(* A fault: an unreachable schema container drops the event. *)
DefersUnlessSchema(outcome) == outcome \in DeferringOutcomes \ {"no_schema"}

(* The outcomes that end in _defer(event). *)
Defers(outcome) == outcome \in DeferringOutcomes

(* The status after an outcome, `old` being the status before it. *)
StatusAfter(outcome, old) ==
    CASE outcome = "no_state" -> old
      [] outcome \in {"no_workload", "no_schema", "no_otlp_data"} -> "waiting"
      [] outcome \in {"no_database", "no_token", "no_setting", "no_otlp_relation"} -> "blocked"
      [] outcome = "started" -> "active"
=============================================================================
