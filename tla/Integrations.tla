---------------------------- MODULE Integrations ----------------------------
(***************************************************************************)
(* The charm's ingress, observability and workload integrations together:   *)
(* one hook runs every library's reaction to it, and the remote             *)
(* applications react to the databags between hooks.                        *)
(***************************************************************************)
EXTENDS Ingress, MetricsEndpoint, Dashboards, Tracing, Workload

vars == <<juju, ingressVars, routeVars, metricsVars, dashboardVars, tracingVars, workloadVars>>

Init ==
    /\ JujuInit
    /\ IngressInit /\ MetricsInit /\ DashboardsInit /\ TracingInit /\ WorkloadInit

TypeOK ==
    /\ JujuTypeOK
    /\ IngressTypeOK /\ MetricsTypeOK /\ DashboardsTypeOK /\ TracingTypeOK /\ WorkloadTypeOK

-----------------------------------------------------------------------------
(* One hook: the charm object is constructed, every library handles it. *)
RunHook(u, k) ==
    /\ Dequeue(u, k)
    /\ ~Denied(u, k)
    /\ IngressHook(u, k)
    /\ RouteHook(u, k)
    /\ MetricsHook(u, k)
    /\ DashboardHook(u, k)
    /\ TracingHook(u, k)
    /\ WorkloadHook(u, k)

(* get_env_vars raises: the hook is run again. *)
HookRaises(u, k) ==
    /\ Denied(u, k)
    /\ Raise(u, k)
    /\ UNCHANGED <<ingressVars, routeVars, metricsVars, dashboardVars, tracingVars, workloadVars>>

IngressProvider ==
    /\ DataProvided \/ PublishUrl \/ WipeUrl
    /\ UNCHANGED <<routeVars, metricsVars, dashboardVars, tracingVars, workloadVars>>

RouteProvider ==
    /\ RouteAvailable
    /\ UNCHANGED <<ingressVars, metricsVars, dashboardVars, tracingVars, workloadVars>>

Prometheus ==
    /\ TargetsChanged
    /\ UNCHANGED <<ingressVars, routeVars, dashboardVars, tracingVars, workloadVars>>

Grafana ==
    /\ Render
    /\ UNCHANGED <<ingressVars, routeVars, metricsVars, tracingVars, workloadVars>>

TracingBackend ==
    /\ \E ps \in Offers : PublishReceivers(ps)
    /\ UNCHANGED <<ingressVars, routeVars, metricsVars, dashboardVars, workloadVars>>

(* Fresh databags. *)
NewIntegration(e) ==
    /\ Integrate(e)
    /\ NewIngress(e) /\ NewRoute(e) /\ NewMetrics(e) /\ NewDashboards(e) /\ NewTracing(e)
    /\ NewLink(e)

RemoveIntegration(e) ==
    /\ Remove(e)
    /\ UNCHANGED <<ingressVars, routeVars, metricsVars, dashboardVars, tracingVars, workloadVars>>

Elect(u) ==
    /\ ElectLeader(u)
    /\ MetricsElect /\ WorkloadElect
    /\ UNCHANGED <<ingressVars, routeVars, dashboardVars, tracingVars>>

SetMethod(m) ==
    /\ Configure(m)
    /\ SwitchIngress
    /\ UNCHANGED <<routeVars, metricsVars, dashboardVars, tracingVars, workloadVars>>

RefreshCharm ==
    /\ Refresh
    /\ UNCHANGED <<ingressVars, routeVars, metricsVars, dashboardVars, tracingVars, workloadVars>>

StartPod(u) ==
    /\ RollOut(u) \/ ReplacePod(u)
    /\ TracingPod(u) /\ WorkloadPod(u)
    /\ UNCHANGED <<ingressVars, routeVars, metricsVars, dashboardVars>>

(* The remote ends of the workload's links, and the operator. *)
WorkloadStep ==
    /\ \/ \E e \in Links : PublishLink(e)
       \/ \E u \in Units : SchemaUpgradeAction(u)
       \/ SetOptions
    /\ UNCHANGED <<ingressVars, routeVars, metricsVars, dashboardVars, tracingVars>>

Next ==
    \/ \E u \in Units, k \in HookKinds : RunHook(u, k) \/ HookRaises(u, k)
    \/ IngressProvider \/ RouteProvider \/ Prometheus \/ Grafana \/ TracingBackend
    \/ \E e \in Endpoints : NewIntegration(e) \/ RemoveIntegration(e)
    \/ \E u \in Units : Elect(u) \/ StartPod(u)
    \/ \E m \in Methods : SetMethod(m)
    \/ RefreshCharm \/ WorkloadStep

Spec == Init /\ [][Next]_vars

(* Juju runs the hooks and rolls a refresh out; the remote applications run  *)
(* theirs, and the ingress publishes a URL. Nothing else has to happen.      *)
Fairness ==
    /\ \A u \in Units : WF_vars(\E k \in hooks[u] : RunHook(u, k))
    /\ \A u \in Units : WF_vars(RollOut(u) /\ StartPod(u))
    /\ WF_vars(IngressProvider /\ faults' = faults)
    /\ WF_vars(RouteProvider)
    /\ WF_vars(Prometheus)
    /\ WF_vars(Grafana)

FairSpec == Spec /\ Fairness

-----------------------------------------------------------------------------
(* However the leadership moves and the pods are replaced while an           *)
(* integration is set up, each of the remote applications ends up with what  *)
(* it needs: Traefik routes to the present addresses and its URL is known,   *)
(* the nginx provider has the service, Prometheus the targets, Grafana the   *)
(* dashboards. An integration on which a library never retries would stay    *)
(* unserved.                                                                 *)
EventuallyServed ==
    /\ <>[](/\ Serving("ingress") /\ method = "ingress" /\ ~switched)
           => <>[](ingressHosts = ip /\ \A u \in Units : currentUrl[u] = ingressUrl)
    /\ <>[](Serving("nginx-route") /\ method = "legacy-nginx-route") => <>[]routeAvailable
    /\ <>[](Serving("metrics-endpoint") /\ ~leaderMissed)
           => <>[](targets = {<<u, ip[u]>> : u \in Units})
    /\ <>[]Serving("grafana-dashboard")
           => <>[](rendered = (FilesOf[revision] \ Unparsable) \X {revision})
=============================================================================
