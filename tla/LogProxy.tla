------------------------------ MODULE LogProxy ------------------------------
(***************************************************************************)
(* LogProxyConsumer: promtail in the workload container, which sends the    *)
(* log file to the Loki units of the "log-proxy" integration. Changes of    *)
(* the container take effect at once, also in a hook that raises later.     *)
(***************************************************************************)
EXTENDS LokiRelations

VARIABLES
    attached,       \* the promtail-bin resource is attached
    cached,         \* the binary is in the charm's directory, with the right digest
    binary,         \* it is in the workload container
    plan,           \* the Pebble plan has the promtail service
    clients,        \* the URLs in the configuration file, or None
    running         \* promtail is running

promtail == <<binary, plan, clients, running>>
proxyVars == <<attached, cached, promtail>>

ProxyInit ==
    /\ attached \in BOOLEAN /\ (attached => Proxy \in inUse)   \* else of no effect
    /\ cached = FALSE
    /\ binary = FALSE /\ plan = FALSE /\ clients = None /\ running = FALSE

ProxyTypeOK ==
    /\ attached \in BOOLEAN /\ cached \in BOOLEAN /\ binary \in BOOLEAN
    /\ plan \in BOOLEAN
    /\ clients \in (SUBSET Urls) \cup {None}
    /\ running \in BOOLEAN /\ (running => plan /\ binary)

(* loki_endpoints: the URLs published, without duplicates. *)
ClientsIn(k) ==
    IF Proxy \in VisibleIn(k) THEN {endpoint[Proxy][l] : l \in SeenIn(k)[Proxy]} \ {None} ELSE {}

-----------------------------------------------------------------------------
(* _ensure_promtail_binary: what is installed, then the resource, then the   *)
(* cached file, then a download, which may fail at any time.                 *)
EnsureBinary(gets) ==
    /\ binary' = (binary \/ attached \/ cached \/ gets)
    /\ cached' = (cached \/ (~binary /\ ~attached /\ gets))

(* _setup_promtail: nothing without the URLs; the layer is added even if     *)
(* there is no binary, and then the failing restart is caught.               *)
SetupPromtail(k) ==
    IF ~binaryUrl[Proxy] THEN UNCHANGED <<cached, promtail>>
    ELSE /\ \E gets \in BOOLEAN : EnsureBinary(gets)
         /\ clients' = ClientsIn(k)
         /\ plan' = TRUE
         /\ running' = IF ClientsIn(k) # {} THEN binary' ELSE running

(* A fault: promtail is restarted with the configuration it had. *)
RestartUnconfigured(k) ==
    /\ ClientsIn(k) # {} => plan /\ binary
    /\ running' = (ClientsIn(k) # {} \/ running)
    /\ UNCHANGED <<cached, binary, plan, clients>>

(* The part of relation-changed and relation-departed after the              *)
(* configuration is pushed.                                                  *)
Restart(k) ==
    /\ clients' = ClientsIn(k)
    /\ ClientsIn(k) # {} => plan /\ binary
    /\ running' = (ClientsIn(k) # {} \/ running)
    /\ UNCHANGED <<cached, binary, plan>>

(* A fault: promtail is left alone when the last Loki unit departs. *)
StopNever(k) ==
    /\ ClientsIn(k) = {}
    /\ clients' = {}
    /\ plan
    /\ UNCHANGED <<cached, binary, plan, running>>

Stop(k) ==
    /\ ClientsIn(k) = {}
    /\ clients' = {}
    /\ plan
    /\ running' = FALSE
    /\ UNCHANGED <<cached, binary, plan>>

ProxyUnchanged == UNCHANGED <<cached, promtail>>

IsDeparted(k) == \E l \in LokiUnits : k = Departed(Proxy, l)

(* Hook k, as LogProxyConsumer handles it when it does not raise. *)
ProxyHook(k) ==
    /\ CASE k \in {Created(Proxy), PebbleReady(Workload)} ->
              IF Workload \in connected /\ Proxy \in VisibleIn(k) THEN SetupPromtail(k)
              ELSE ProxyUnchanged
         [] k = Changed(Proxy) ->
              IF Workload \notin connected THEN ProxyUnchanged
              ELSE IF ~plan THEN SetupPromtail(k) ELSE Restart(k)
         [] IsDeparted(k) ->
              IF Workload \notin connected THEN ProxyUnchanged
              ELSE IF ClientsIn(k) = {} THEN Stop(k) ELSE Restart(k)
         [] OTHER -> ProxyUnchanged
    /\ UNCHANGED attached

(* Pebble refuses to restart a service without binary and to stop one that   *)
(* is not in the plan; neither exception is caught outside _setup_promtail.  *)
ProxyRaises(k) ==
    /\ Workload \in connected
    /\ \/ k = Changed(Proxy) /\ plan /\ ~binary /\ ClientsIn(k) # {}
       \/ IsDeparted(k) /\ (~plan \/ (~binary /\ ClientsIn(k) # {}))
    /\ clients' = ClientsIn(k)
    /\ running' = FALSE
    /\ UNCHANGED <<attached, cached, binary, plan>>

ProxyContainer(c) ==
    /\ IF c = Workload
       THEN binary' = FALSE /\ plan' = FALSE /\ clients' = None /\ running' = FALSE
       ELSE UNCHANGED promtail
    /\ UNCHANGED <<attached, cached>>

-----------------------------------------------------------------------------
Clients == {endpoint[Proxy][l] : l \in members[Proxy]} \ {None}

(* Once Loki has published its binaries, promtail ends up running with the   *)
(* URLs of exactly the units there are, after any change of the units and    *)
(* any restart of the container; unless the binary could not be downloaded    *)
(* (_on_relation_changed, _setup_promtail).                                  *)
SettledPromtail ==
    Settled /\ Alive(Proxy) /\ binaryUrl[Proxy] /\ (plan => binary) =>
        plan /\ clients = Clients /\ running = (Clients # {})

(* The library observes no relation-broken: it is relation-departed that     *)
(* stops promtail, whichever unit departs last and whatever ran in between   *)
(* (_on_relation_departed).                                                  *)
PromtailStops == Settled /\ Proxy \notin related => ~running
=============================================================================
