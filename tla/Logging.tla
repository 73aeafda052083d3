------------------------------- MODULE Logging -------------------------------
(***************************************************************************)
(* The charm's two ways of sending logs to Loki: both libraries observe the *)
(* hooks of the same unit, and a hook that one of them fails is failed.     *)
(***************************************************************************)
EXTENDS LogForwarder, LogProxy

vars == <<jujuVars, target, proxyVars>>

Init == LokiInit /\ ForwarderInit /\ ProxyInit

TypeOK == LokiTypeOK /\ ForwarderTypeOK /\ ProxyTypeOK

RunHook(k) == Dequeue(k) /\ ProxyHook(k) /\ ForwarderHook(k)

HookRaises(k) == Raise(k) /\ ProxyRaises(k) /\ UNCHANGED target

(* Steps that change nothing in the Livepatch unit. *)
LokiStep ==
    /\ \E r \in Relations :
          \/ PublishBinaryUrl(r)
          \/ Remove(r)
          \/ \E l \in LokiUnits :
                \/ FirstEndpoint(r, l) \/ MoveEndpoint(r, l)
                \/ Integrate(r, l) \/ AddLokiUnit(r, l) \/ RemoveLokiUnit(r, l)
    /\ UNCHANGED <<target, proxyVars>>

ContainerStarts(c) == StartContainer(c) /\ UNCHANGED <<target, proxyVars>>

ContainerStops(c) == LoseContainer(c) /\ ForwarderContainer(c) /\ ProxyContainer(c)

Next ==
    \/ \E k \in HookKinds : RunHook(k) \/ HookRaises(k)
    \/ LokiStep
    \/ \E c \in Containers : ContainerStarts(c) \/ ContainerStops(c)

Spec == Init /\ [][Next]_vars

(* Hooks run, the Loki units run theirs, Kubernetes restarts containers. *)
Fairness ==
    /\ WF_vars(\E k \in HookKinds : RunHook(k))
    /\ WF_vars(\E c \in Containers : ContainerStarts(c))
    /\ WF_vars(LokiStep /\ \E r \in Relations :
                  PublishBinaryUrl(r) \/ \E l \in LokiUnits : FirstEndpoint(r, l))

FairSpec == Spec /\ Fairness

-----------------------------------------------------------------------------
(* An integration that stays is served in the end: every container forwards  *)
(* to Loki, and promtail runs, unless its hooks keep raising or its binary   *)
(* cannot be had. A URL published late, or while the container was away,     *)
(* must not be forgotten (_update_logging, _on_relation_changed).            *)
EventuallyLogged ==
    /\ \A r \in LoggingRelations :
          <>[]Alive(r) => <>[](\A c \in Containers, l \in members[r] :
                                  target[c][<<r, l>>] = endpoint[r][l])
    /\ (<>[](Alive(Proxy) /\ (plan => binary)) /\ []<>(failed = None))
          => <>[](running /\ clients = Clients)
=============================================================================
