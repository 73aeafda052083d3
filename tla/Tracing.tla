------------------------------- MODULE Tracing -------------------------------
(***************************************************************************)
(* The send-traces integration: TracingEndpointRequirer, the receivers the  *)
(* tracing backend publishes, and the endpoint that get_env_vars writes     *)
(* into the Pebble layer of every unit. The workload passes the gates of    *)
(* _update_workload_container_config here, so a hook that reconciles        *)
(* reaches get_env_vars.                                                    *)
(***************************************************************************)
EXTENDS CharmHooks

CONSTANT Offers     \* the sets of protocols the tracing backend may serve

Protocols == {"otlp_grpc", "otlp_http"}

ASSUME OffersAssumption == Offers \subseteq SUBSET Protocols

VARIABLES
    requested,      \* the leader has written the protocols it asks for
    receivers,      \* the protocols the backend has published receivers for, or None
    traceEnv        \* per unit, the protocol in the layer, or None

tracingVars == <<requested, receivers, traceEnv>>

TracingInit ==
    /\ requested = FALSE
    /\ receivers = None
    /\ traceEnv = [u \in Units |-> None]

TracingTypeOK ==
    /\ requested \in BOOLEAN
    /\ receivers \in Offers \cup {None}
    /\ traceEnv \in [Units -> Protocols \cup {None}]

(* The hooks whose handlers reconcile the workload, for this charm's         *)
(* integrations: every relation-changed and the broken hook make the library *)
(* emit endpoint_changed or endpoint_removed.                                *)
Reconciles(k) ==
    k \in {<<"send-traces", "changed">>, <<"send-traces", "broken">>,
           <<"config-changed">>, <<"leader-elected">>}

(* _get_tracing_endpoint in a unit that can see the integration. *)
Endpoint ==
    IF receivers = None THEN None
    ELSE IF "otlp_grpc" \in receivers THEN "otlp_grpc"
    ELSE IF "otlp_http" \in receivers THEN "otlp_http"
    ELSE None

(* get_endpoint looks up, in the application's own databag, whether a        *)
(* protocol for which there is no receiver was requested. The leader finds   *)
(* what it requested when it was constructed; a follower may not read it.    *)
Denied(u, k) ==
    /\ Reconciles(k)
    /\ u # leader
    /\ "send-traces" \in Visible(u, k)
    /\ receivers # None /\ "otlp_grpc" \notin receivers

(* A fault: endpoint_removed is not observed. *)
TracingHookNotRemoved(u, k) ==
    /\ requested' = (requested \/ (u = leader /\ "send-traces" \in Visible(u, k)))
    /\ traceEnv' = IF Reconciles(k) /\ "send-traces" \in Visible(u, k)
                   THEN [traceEnv EXCEPT ![u] = Endpoint] ELSE traceEnv
    /\ UNCHANGED receivers

TracingHook(u, k) ==
    /\ requested' = (requested \/ (u = leader /\ "send-traces" \in Visible(u, k)))
    /\ traceEnv' =
          IF ~Reconciles(k) THEN traceEnv
          ELSE [traceEnv EXCEPT ![u] = IF "send-traces" \in Visible(u, k) THEN Endpoint ELSE None]
    /\ UNCHANGED receivers

(* publish_receivers, once the request is there; later the backend may gain  *)
(* or lose a protocol.                                                       *)
PublishReceivers(ps) ==
    /\ "send-traces" \in related \ dying
    /\ requested
    /\ ps # receivers
    /\ IF receivers = None THEN UNCHANGED faults ELSE Fault("receivers")
    /\ receivers' = ps
    /\ hooks' = Changed("send-traces")
    /\ UNCHANGED <<topology, pods, method, failed, requested, traceEnv>>

NewTracing(e) ==
    IF e = "send-traces" THEN
        /\ requested' = FALSE
        /\ receivers' = None
        /\ UNCHANGED traceEnv
    ELSE UNCHANGED tracingVars

(* A new pod has no Pebble layer. *)
TracingPod(u) ==
    /\ traceEnv' = [traceEnv EXCEPT ![u] = None]
    /\ UNCHANGED <<requested, receivers>>

-----------------------------------------------------------------------------
(* In the end every unit, follower or leader, new pod or old, exports traces *)
(* to what the backend serves now, and to nothing once it is gone            *)
(* (_get_tracing_endpoint, explicit_keys of get_env_vars).                   *)
SettledTracing ==
    Settled => \A u \in Units :
        traceEnv[u] = IF "send-traces" \in related \ dying THEN Endpoint ELSE None
=============================================================================
