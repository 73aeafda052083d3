------------------------------- MODULE Ingress -------------------------------
(***************************************************************************)
(* The two ways of exposing the Livepatch server: the ingress library       *)
(* (IngressPerAppRequirer and IngressPerAppProvider) and the nginx-route    *)
(* library, one of which _update_ingress_method constructs in every hook.   *)
(***************************************************************************)
EXTENDS CharmHooks

CONSTANT MaxUrl     \* bound: URLs the ingress publishes for one integration

ASSUME UrlAssumption == MaxUrl \in Nat

VARIABLES
    ingressApp,     \* the requirer's application data (model, name, port) is published
    ingressUnit,    \* per unit, the address in its databag, or None
    ingressUrl,     \* the URL in the provider's databag, or None
    nextUrl,        \* URLs the provider has published, over all integrations
    ingressHosts,   \* the hosts of the provider's last data_provided, or None
    currentUrl,     \* per unit, _stored.current_url, or None
    switched,       \* ingress-interface has changed during this integration
    routeData,      \* the service is in the requirer's nginx-route databag
    routeAvailable  \* the nginx provider has emitted nginx_route_available

ingressVars == <<ingressApp, ingressUnit, ingressUrl, nextUrl, ingressHosts, currentUrl, switched>>
routeVars == <<routeData, routeAvailable>>

IngressInit ==
    /\ ingressApp = FALSE
    /\ ingressUnit = [u \in Units |-> None]
    /\ ingressUrl = None
    /\ nextUrl = 0
    /\ ingressHosts = None
    /\ currentUrl = [u \in Units |-> None]
    /\ switched = FALSE
    /\ routeData = FALSE
    /\ routeAvailable = FALSE

Urls == 1..((MaxFaults + 1) * MaxUrl)

IngressTypeOK ==
    /\ ingressApp \in BOOLEAN
    /\ ingressUnit \in [Units -> Addresses \cup {None}]
    /\ ingressUrl \in Urls \cup {None}
    /\ nextUrl \in Urls \cup {0}
    /\ ingressHosts \in [Units -> Addresses] \cup {None}
    /\ currentUrl \in [Units -> Urls \cup {None}]
    /\ switched \in BOOLEAN
    /\ routeData \in BOOLEAN /\ routeAvailable \in BOOLEAN

-----------------------------------------------------------------------------
(* The ingress requirer.                                                     *)

(* A fault: an upgrade is not observed. *)
PublishingWithoutUpgrade(k) ==
    \/ k[1] = "ingress" /\ k[2] # "broken"
    \/ k = <<"leader-elected">>

(* The hooks in which the library publishes what it was constructed with. *)
Publishing(k) ==
    \/ k[1] = "ingress" /\ k[2] # "broken"
    \/ k \in {<<"leader-elected">>, <<"upgrade-charm">>}

(* _publish_auto_data: the leader publishes the application's data, each     *)
(* unit its own address as it is now.                                        *)
PublishAutoData(u) ==
    /\ ingressApp' = (ingressApp \/ u = leader)
    /\ ingressUnit' = [ingressUnit EXCEPT ![u] = ip[u]]

(* _handle_relation after that: a URL that is not the stored one is stored   *)
(* and announced; no URL leaves the stored one alone.                        *)
StoreUrl(u) ==
    currentUrl' = IF ingressUrl = None THEN currentUrl
                  ELSE [currentUrl EXCEPT ![u] = ingressUrl]

(* A fault: the end of the integration does not revoke the URL. *)
ForgetUrlNever(u) == UNCHANGED currentUrl

(* _handle_relation_broken. *)
ForgetUrl(u) == currentUrl' = [currentUrl EXCEPT ![u] = None]

(* Hook k of unit u, as IngressPerAppRequirer handles it when it is the      *)
(* interface that _update_ingress_method constructed.                        *)
IngressRequirer(u, k) ==
    /\ IF Publishing(k) /\ "ingress" \in Visible(u, k) THEN PublishAutoData(u)
       ELSE UNCHANGED <<ingressApp, ingressUnit>>
    /\ IF k = <<"ingress", "broken">> THEN ForgetUrl(u)
       ELSE IF k[1] = "ingress" THEN StoreUrl(u)
       ELSE UNCHANGED currentUrl

IngressHook(u, k) ==
    /\ IF method = "ingress" THEN IngressRequirer(u, k)
       ELSE UNCHANGED <<ingressApp, ingressUnit, currentUrl>>
    /\ UNCHANGED <<ingressUrl, nextUrl, ingressHosts, switched>>

-----------------------------------------------------------------------------
(* The nginx-route requirer: constructing it publishes, in the leader.       *)

(* A fault: only relation-changed publishes. *)
RouteHookChangedOnly(u, k) ==
    /\ routeData' = (\/ routeData
                     \/ /\ method = "legacy-nginx-route" /\ u = leader
                        /\ k = <<"nginx-route", "changed">>)
    /\ UNCHANGED routeAvailable

RouteHook(u, k) ==
    /\ routeData' = (\/ routeData
                     \/ /\ method = "legacy-nginx-route" /\ u = leader
                        /\ "nginx-route" \in Visible(u, k))
    /\ UNCHANGED routeAvailable

-----------------------------------------------------------------------------
(* The providers' side.                                                      *)

(* get_data: nothing until every databag validates. *)
RequirerData ==
    IF ingressApp /\ \A u \in Units : ingressUnit[u] # None THEN ingressUnit ELSE None

(* IngressPerAppProvider._handle_relation emits data_provided. *)
DataProvided ==
    /\ "ingress" \in related \ dying
    /\ RequirerData \notin {None, ingressHosts}
    /\ ingressHosts' = RequirerData
    /\ UNCHANGED <<juju, ingressApp, ingressUnit, ingressUrl, nextUrl, currentUrl, switched>>

(* publish_url: the first URL, or another. *)
PublishUrl ==
    /\ "ingress" \in related \ dying
    /\ ingressHosts # None
    /\ nextUrl < (faults + 1) * MaxUrl
    /\ nextUrl' = nextUrl + 1
    /\ ingressUrl' = nextUrl + 1
    /\ hooks' = Changed("ingress")
    /\ UNCHANGED <<topology, failed, pods, method, faults>>
    /\ UNCHANGED <<ingressApp, ingressUnit, ingressHosts, currentUrl, switched>>

(* wipe_ingress_data, or publish_url of an invalid URL. *)
WipeUrl ==
    /\ Fault("wipe")
    /\ "ingress" \in related \ dying
    /\ ingressUrl # None
    /\ ingressUrl' = None
    /\ hooks' = Changed("ingress")
    /\ UNCHANGED <<topology, failed, pods, method>>
    /\ UNCHANGED <<ingressApp, ingressUnit, nextUrl, ingressHosts, currentUrl, switched>>

(* _NginxRouteProvider._on_relation_changed. *)
RouteAvailable ==
    /\ "nginx-route" \in related \ dying
    /\ routeData /\ ~routeAvailable
    /\ routeAvailable' = TRUE
    /\ UNCHANGED <<juju, routeData>>

(* A new integration starts with empty databags; the provider of the old one *)
(* has emitted data_removed, or nginx_route_broken.                          *)
NewIngress(e) ==
    IF e = "ingress" THEN
        /\ ingressApp' = FALSE
        /\ ingressUnit' = [u \in Units |-> None]
        /\ ingressUrl' = None
        /\ ingressHosts' = None
        /\ switched' = FALSE
        /\ UNCHANGED <<nextUrl, currentUrl>>
    ELSE UNCHANGED ingressVars

NewRoute(e) ==
    IF e = "nginx-route" THEN routeData' = FALSE /\ routeAvailable' = FALSE
    ELSE UNCHANGED routeVars

(* A change of the option during an integration, or before the URL of the    *)
(* last one is forgotten.                                                    *)
SwitchIngress ==
    /\ switched' = (switched \/ "ingress" \in related \/ \E u \in Units : currentUrl[u] # None)
    /\ UNCHANGED <<ingressApp, ingressUnit, ingressUrl, nextUrl, ingressHosts, currentUrl>>

-----------------------------------------------------------------------------
Serving(e) == e \in related \ dying

(* Whatever the leadership and the pods did, once the hooks have run the     *)
(* ingress routes to the present address of every unit, and every unit knows *)
(* the URL it published last; unless the option was changed meanwhile        *)
(* (_handle_upgrade_or_leader, _handle_relation).                            *)
SettledIngress ==
    Settled /\ Serving("ingress") /\ method = "ingress" /\ ~switched =>
        /\ RequirerData = ip
        /\ ingressUrl # None => \A u \in Units : currentUrl[u] = ingressUrl

(* With the legacy interface selected, the service is requested from the     *)
(* nginx-route integration, even after the option was changed back and forth *)
(* or the leadership moved before the leader's hook ran                      *)
(* (NginxRouteRequirer.__init__).                                            *)
SettledRoute ==
    Settled /\ Serving("nginx-route") /\ method = "legacy-nginx-route" => routeData

(* No unit goes on announcing the URL of an integration that is gone, even   *)
(* if a URL was published while it was being removed                         *)
(* (_handle_relation_broken).                                                *)
RevokedUrlForgotten ==
    Settled /\ method = "ingress" /\ ~switched /\ "ingress" \notin related =>
        \A u \in Units : currentUrl[u] = None
=============================================================================
