------------------------- MODULE Integrations_proofs -------------------------
(* Theorems about Integrations, for every set of units, of scenarios and of   *)
(* faults, and every number of them. Each settled invariant becomes inductive *)
(* by saying which hook is still to run while its promise is not yet kept.    *)
EXTENDS Integrations, TLAPS

(* The hooks of an integration are those of one that exists; the broken hook  *)
(* is the last of one that is being removed; a hook that raised is kept.      *)
HookOrder ==
    /\ \A u \in Units, e \in Endpoints, event \in RelationEvents :
          <<e, event>> \in hooks[u] => e \in related
    /\ \A u \in Units, e \in dying, event \in RelationEvents :
          <<e, event>> \in hooks[u] => <<e, "broken">> \in hooks[u]
    /\ \A u \in Units, e \in Endpoints : <<e, "broken">> \in hooks[u] => e \in dying
    /\ \A u \in Units : failed[u] = None \/ failed[u] \in hooks[u]

(* A pod is replaced by a fault or by the roll-out of a revision. *)
PodsBound ==
    /\ \A u \in Units : ip[u] <= running[u] + faults
    /\ revision <= faults + 1

JujuInv == JujuTypeOK /\ HookOrder /\ PodsBound

UrlsBound == nextUrl <= (faults + 1) * MaxUrl

RendersSomething == rendering => dashboards # None

TypeInv == TypeOK /\ HookOrder /\ PodsBound /\ UrlsBound /\ RendersSomething

-----------------------------------------------------------------------------
RouteInv ==
    Serving("nginx-route") /\ method = "legacy-nginx-route" =>
        routeData \/ hooks[leader] # {}

(* While the interface is the ingress, each databag is published or the hook  *)
(* that publishes it is still to run.                                         *)
PublishedIngress ==
    Serving("ingress") /\ method = "ingress" /\ ~switched =>
        /\ \/ ingressApp
           \/ <<"ingress", "created">> \in hooks[leader] \/ <<"leader-elected">> \in hooks[leader]
        /\ \A u \in Units :
              \/ ingressUnit[u] = ip[u]
              \/ <<"ingress", "created">> \in hooks[u] \/ <<"upgrade-charm">> \in hooks[u]
        /\ \A u \in Units :
              ingressUrl = None \/ currentUrl[u] = ingressUrl \/ <<"ingress", "changed">> \in hooks[u]

RevokedInv ==
    method = "ingress" /\ ~switched /\ ~Serving("ingress") =>
        \A u \in Units :
            currentUrl[u] = None \/ ("ingress" \in dying /\ <<"ingress", "broken">> \in hooks[u])

ScrapedInv ==
    /\ Serving("metrics-endpoint") =>
          /\ leaderMissed \/ scrapeJobs \/ <<"metrics-endpoint", "joined">> \in hooks[leader]
          /\ \A u \in Units :
                \/ scrapeUnit[u] = ip[u]
                \/ <<"metrics-endpoint", "joined">> \in hooks[u] \/ <<"config-changed">> \in hooks[u]
    /\ stale \/ targets = Jobs

DashboardsInv ==
    /\ Serving("grafana-dashboard") =>
          \/ dashboards = FilesOf[revision] \X {revision}
          \/ running[leader] # revision
          \/ \E k \in {<<"grafana-dashboard", "created">>, <<"leader-elected">>, <<"upgrade-charm">>} :
                k \in hooks[leader]
    /\ rendering \/ dashboards = None \/ rendered = {t \in dashboards : t[1] \notin Unparsable}

TracingInv ==
    \A u \in Units :
        /\ "send-traces" \notin related => traceEnv[u] = None
        /\ "send-traces" \in dying => traceEnv[u] = None \/ <<"send-traces", "broken">> \in hooks[u]
        /\ Serving("send-traces") =>
              \/ traceEnv[u] = Endpoint
              \/ <<"send-traces", "changed">> \in hooks[u] \/ <<"config-changed">> \in hooks[u]

SchemaInv ==
    InPlay /\ ~unmigrated =>
        \/ \A t \in Targets : schema[t] = revision
        \/ \E u \in Units : running[u] # revision \/ <<"config-changed">> \in hooks[u]

RulesInv ==
    Serving("send-otlp") /\ ~rulesMissed =>
        \/ alertRules = revision
        \/ running[leader] # revision
        \/ <<"send-otlp", "created">> \in hooks[leader] \/ <<"upgrade-charm">> \in hooks[leader]

(* The keys of ks are as get_env_vars would build them now. *)
UpToDate(u, ks) ==
    /\ layer[u] # None
    /\ \A key \in ks : key \in ExplicitKeys \/ Env(u, NoHook)[key] # None => Current(u, key)

(* The leader's keys wait for leader-elected too. *)
LayerInv ==
    \A u \in Units : Open(u) =>
        /\ hooks[u] \cap Reconciling \subseteq {<<"leader-elected">>} =>
              UpToDate(u, Keys \ LeaderKeys)
        /\ u = leader /\ hooks[u] \cap Reconciling = {} => UpToDate(u, LeaderKeys)

-----------------------------------------------------------------------------
(* The steps of Juju.                                                        *)

(* Hook k of unit u has ended: what the components rely on. *)
Ran(u, k) ==
    /\ k \in hooks[u] /\ k \notin hooks'[u]
    /\ \A h \in HookKinds : h \in hooks[u] /\ h # k => h \in hooks'[u]
    /\ \A h \in hooks'[u] :
          h \in hooks[u] \/ \E e \in Endpoints : k = <<e, "joined">> /\ h = <<e, "changed">>
    /\ \A v \in Units \ {u} : hooks'[v] = hooks[v]
    /\ related' \subseteq related
    /\ dying' = dying \cap related'
    /\ related' \ dying' = related \ dying

LEMMA Kinds ==
    /\ \A e \in Endpoints, event \in RelationEvents :
          <<e, event>> \in HookKinds /\ <<e, event>> \notin CharmEvents
    /\ CharmEvents \subseteq HookKinds
    /\ \A k \in HookKinds : k \in CharmEvents \/ \E e \in Endpoints, event \in RelationEvents : k = <<e, event>>
BY DEF HookKinds, CharmEvents, Endpoints, RelationEvents

LEMMA DequeueRan ==
    ASSUME JujuTypeOK, NEW u \in Units, NEW k \in HookKinds, Dequeue(u, k)
    PROVE  Ran(u, k)
<1>1. hooks' = [hooks EXCEPT ![u] =
          (hooks[u] \ {k}) \cup {<<e, "changed">> : e \in {e \in Endpoints : k = <<e, "joined">>}}]
  BY DEF Dequeue
<1>2. k \in hooks[u]
  BY DEF Dequeue, Runs
<1>3. hooks \in [Units -> SUBSET HookKinds]
  BY DEF JujuTypeOK
<1>4. hooks'[u] = (hooks[u] \ {k}) \cup {<<e, "changed">> : e \in {e \in Endpoints : k = <<e, "joined">>}}
  BY <1>1, <1>3
<1>5. \A v \in Units \ {u} : hooks'[v] = hooks[v]
  BY <1>1, <1>3
<1>6. k \notin hooks'[u]
  BY <1>4
<1>7. related' \subseteq related /\ dying' = dying \cap related' /\ related' \ dying' = related \ dying
  BY DEF Dequeue, JujuTypeOK
<1> QED BY <1>2, <1>4, <1>5, <1>6, <1>7 DEF Ran

(* An integration or the configuration has changed. *)
Announces ==
    /\ \/ \E e \in related \ dying : hooks' = Changed(e)
       \/ hooks' = Queue(Units, {<<"config-changed">>})
    /\ faults' \in faults..MaxFaults
    /\ UNCHANGED <<topology, failed, pods>>
    /\ method' \in Methods

JujuStep ==
    \/ \E u \in Units, k \in HookKinds : Dequeue(u, k) \/ Raise(u, k)
    \/ \E e \in Endpoints : Integrate(e) \/ Remove(e)
    \/ \E u \in Units : ElectLeader(u) \/ RollOut(u) \/ ReplacePod(u)
    \/ Refresh
    \/ Announces
    \/ UNCHANGED juju

LEMMA QueueIs ==
    ASSUME JujuTypeOK, NEW us \in SUBSET Units, NEW kinds \in SUBSET HookKinds, hooks' = Queue(us, kinds)
    PROVE  /\ hooks' \in [Units -> SUBSET HookKinds]
           /\ \A v \in us : hooks'[v] = hooks[v] \cup kinds
           /\ \A v \in Units \ us : hooks'[v] = hooks[v]
BY DEF Queue, JujuTypeOK

LEMMA AnnouncesIs ==
    ASSUME JujuTypeOK, Announces
    PROVE  /\ hooks' \in [Units -> SUBSET HookKinds]
           /\ \/ \E e \in related \ dying : \A v \in Units : hooks'[v] = hooks[v] \cup {<<e, "changed">>}
              \/ \A v \in Units : hooks'[v] = hooks[v] \cup {<<"config-changed">>}
<1>1. ASSUME NEW e \in related \ dying, hooks' = Changed(e)
      PROVE  /\ hooks' \in [Units -> SUBSET HookKinds]
             /\ \A v \in Units : hooks'[v] = hooks[v] \cup {<<e, "changed">>}
  <2>1. e \in Endpoints
    BY ScenariosAssumption DEF JujuTypeOK
  <2>2. {<<e, "changed">>} \subseteq HookKinds
    BY <2>1, Kinds DEF RelationEvents
  <2> QED BY <1>1, <2>2, QueueIs DEF Changed
<1>2. CASE hooks' = Queue(Units, {<<"config-changed">>})
  <2> DEFINE ks == {<<"config-changed">>}
  <2>1. ks \subseteq HookKinds
    BY Kinds DEF CharmEvents
  <2>2. hooks' = Queue(Units, ks)
    BY <1>2
  <2> HIDE DEF ks
  <2>3. hooks' \in [Units -> SUBSET HookKinds] /\ \A v \in Units : hooks'[v] = hooks[v] \cup ks
    BY <2>1, <2>2, QueueIs
  <2> QED BY <2>3 DEF ks
<1> QED BY <1>1, <1>2 DEF Announces

(* What the type invariant and the bound say of the numbers. *)
LEMMA Numbers ==
    ASSUME JujuInv
    PROVE  /\ MaxFaults \in Nat /\ faults \in Nat /\ faults <= MaxFaults
           /\ revision \in Nat \ {0} /\ revision <= faults + 1
           /\ \A u \in Units :
                 /\ running[u] \in Nat \ {0} /\ running[u] <= revision
                 /\ ip[u] \in Nat \ {0} /\ ip[u] <= running[u] + faults
<1>1. MaxFaults \in Nat /\ faults \in Nat /\ faults <= MaxFaults
  BY BoundsAssumption DEF JujuInv, JujuTypeOK
<1>2. revision \in Nat \ {0}
  BY <1>1 DEF JujuInv, JujuTypeOK, Revisions
<1>3. revision <= faults + 1
  BY DEF JujuInv, PodsBound
<1>4. \A u \in Units : running[u] \in Nat \ {0} /\ running[u] <= revision
  BY <1>2 DEF JujuInv, JujuTypeOK
<1>5. \A u \in Units : ip[u] \in Nat \ {0}
  BY <1>1 DEF JujuInv, JujuTypeOK, Addresses
<1>6. \A u \in Units : ip[u] <= running[u] + faults
  BY DEF JujuInv, PodsBound
<1> QED BY <1>1, <1>2, <1>3, <1>4, <1>5, <1>6

LEMMA JujuTypesKept ==
    ASSUME JujuInv, JujuStep
    PROVE  JujuTypeOK' /\ PodsBound'
<1> USE BoundsAssumption DEF JujuInv
<1>1. ASSUME NEW u \in Units, NEW k \in HookKinds, Dequeue(u, k)
      PROVE  JujuTypeOK' /\ PodsBound'
  <2>1. {<<e, "changed">> : e \in {e \in Endpoints : k = <<e, "joined">>}} \subseteq HookKinds
    BY Kinds DEF RelationEvents
  <2>2. hooks' \in [Units -> SUBSET HookKinds]
    BY <1>1, <2>1 DEF Dequeue, JujuTypeOK
  <2>3. related' \subseteq related /\ dying' \subseteq related'
    BY <1>1, DequeueRan DEF Ran
  <2>4. failed' \in [Units -> HookKinds \cup {None}]
    BY <1>1 DEF Dequeue, JujuTypeOK
  <2>5. UNCHANGED <<inUse, leader, elections, pods, method, faults>>
    BY <1>1 DEF Dequeue
  <2> QED BY <2>2, <2>3, <2>4, <2>5 DEF JujuTypeOK, PodsBound, pods
<1>2. ASSUME NEW u \in Units, NEW k \in HookKinds, Raise(u, k)
      PROVE  JujuTypeOK' /\ PodsBound'
  BY <1>2 DEF Raise, JujuTypeOK, PodsBound, pods, topology
<1>3. ASSUME NEW e \in Endpoints, Integrate(e)
      PROVE  JujuTypeOK' /\ PodsBound'
  <2>1. {<<e, "created">>, <<e, "joined">>} \subseteq HookKinds
    BY Kinds DEF RelationEvents
  <2>2. hooks' \in [Units -> SUBSET HookKinds]
    BY <1>3, <2>1, QueueIs DEF Integrate
  <2> QED BY <1>3, <2>2 DEF Integrate, JujuTypeOK, PodsBound, pods
<1>4. ASSUME NEW e \in Endpoints, Remove(e)
      PROVE  JujuTypeOK' /\ PodsBound'
  <2>1. {<<e, "departed">>, <<e, "broken">>} \subseteq HookKinds
    BY Kinds DEF RelationEvents
  <2>2. hooks' \in [Units -> SUBSET HookKinds]
    BY <1>4, <2>1 DEF Remove, JujuTypeOK
  <2>3. JujuTypeOK'
    BY <1>4, <2>2 DEF Remove, Fault, JujuTypeOK, pods
  <2>4. PodsBound'
    BY <1>4 DEF Remove, Fault, JujuTypeOK, PodsBound, pods, Addresses, Revisions
  <2> QED BY <2>3, <2>4
<1>5. ASSUME NEW u \in Units, ElectLeader(u)
      PROVE  JujuTypeOK' /\ PodsBound'
  <2>1. <<"leader-elected">> \in HookKinds
    BY Kinds DEF CharmEvents
  <2>2. hooks' \in [Units -> SUBSET HookKinds]
    BY <1>5, <2>1 DEF ElectLeader, JujuTypeOK
  <2> QED BY <1>5, <2>2 DEF ElectLeader, JujuTypeOK, PodsBound, pods
<1>6. ASSUME NEW u \in Units, NewPod(u), faults' \in faults..MaxFaults,
             running[u] # revision \/ faults' = faults + 1
      PROVE  JujuTypeOK' /\ PodsBound'
  <2>1. {<<"upgrade-charm">>, <<"config-changed">>} \subseteq HookKinds
    BY Kinds DEF CharmEvents
  <2>2. hooks' \in [Units -> SUBSET HookKinds]
    BY <1>6, <2>1, QueueIs DEF NewPod
  <2>3. running' \in [Units -> 1..revision] /\ revision' = revision
    BY <1>6 DEF NewPod, JujuTypeOK, Revisions
  <2>4. \A v \in Units : ip'[v] \in Nat \ {0} /\ ip'[v] <= running'[v] + faults'
    BY <1>6 DEF NewPod, JujuTypeOK, Revisions, Addresses, PodsBound
  <2>5. \A v \in Units : ip'[v] \in Addresses
    <3> TAKE v \in Units
    <3>1. ip'[v] \in Nat \ {0} /\ ip'[v] <= running'[v] + faults'
      BY <2>4
    <3>2. running'[v] \in 1..revision /\ revision \in Nat /\ revision <= faults + 1
      BY <2>3 DEF PodsBound, JujuTypeOK, Revisions
    <3>3. faults' \in Nat /\ faults \in Nat /\ faults <= faults' /\ faults' <= MaxFaults
      BY <1>6 DEF JujuTypeOK
    <3> QED BY <3>1, <3>2, <3>3 DEF Addresses
  <2>6. ip' \in [Units -> Addresses]
    BY <1>6, <2>5 DEF NewPod, JujuTypeOK
  <2>7. faults' \in 0..MaxFaults /\ faults <= faults'
    BY <1>6 DEF JujuTypeOK
  <2>8. UNCHANGED <<topology, failed, revision, method>>
    BY <1>6 DEF NewPod
  <2>9. JujuTypeOK'
    BY <2>2, <2>3, <2>6, <2>7, <2>8 DEF topology, JujuTypeOK
  <2>10. revision' <= faults' + 1
    <3> HIDE DEF JujuInv
    <3> QED BY <1>6, <2>3, Numbers
  <2>11. PodsBound'
    BY <2>4, <2>10 DEF PodsBound
  <2> QED BY <2>9, <2>11
<1>7. CASE Refresh
  BY <1>7 DEF Refresh, Fault, JujuTypeOK, PodsBound, Revisions, Addresses, topology
<1>8. CASE Announces
  <2>1. hooks' \in [Units -> SUBSET HookKinds]
    BY <1>8, AnnouncesIs
  <2>2. UNCHANGED <<topology, failed, pods>> /\ faults' \in faults..MaxFaults /\ method' \in Methods
    BY <1>8 DEF Announces
  <2>3. JujuTypeOK'
    BY <2>1, <2>2 DEF JujuTypeOK, topology, pods
  <2>4. PodsBound'
    <3> HIDE DEF JujuInv
    <3> SUFFICES revision <= faults' + 1 /\ \A v \in Units : ip[v] <= running[v] + faults'
      BY <2>2 DEF PodsBound, pods
    <3> QED BY <2>2, Numbers
  <2> QED BY <2>3, <2>4
<1>9. CASE UNCHANGED juju
  BY <1>9 DEF juju, topology, pods, JujuTypeOK, PodsBound
<1>10. ASSUME NEW u \in Units, RollOut(u) \/ ReplacePod(u)
       PROVE  JujuTypeOK' /\ PodsBound'
  BY <1>6, <1>10 DEF RollOut, ReplacePod, Fault, JujuTypeOK
<1> QED BY <1>1, <1>2, <1>3, <1>4, <1>5, <1>7, <1>8, <1>9, <1>10 DEF JujuStep

(* Only an announcement of a live integration, or of none, and the hooks of   *)
(* the charm itself are queued, beside those of Integrate and Remove.         *)
LEMMA HookOrderKept ==
    ASSUME JujuInv, JujuStep
    PROVE  HookOrder'
<1> USE DEF JujuInv
<1>1. ASSUME NEW u \in Units, NEW k \in HookKinds, Dequeue(u, k)
      PROVE  HookOrder'
  <2>1. Ran(u, k)
    BY <1>1, DequeueRan
  <2>2. \A v \in Units, e \in Endpoints, event \in RelationEvents :
            <<e, event>> \in hooks'[v] =>
                <<e, event>> \in hooks[v] \/ (v = u /\ k = <<e, "joined">> /\ event = "changed" /\ k \in hooks[v])
    BY <2>1 DEF Ran
  <2>3. \A v \in Units, e \in dying, event \in RelationEvents :
            <<e, event>> \in hooks'[v] => <<e, "broken">> \in hooks'[v]
    <3> SUFFICES ASSUME NEW v \in Units, NEW e \in dying, NEW event \in RelationEvents,
                        <<e, event>> \in hooks'[v]
                 PROVE  <<e, "broken">> \in hooks'[v]
      OBVIOUS
    <3>1. e \in Endpoints
      BY ScenariosAssumption DEF JujuTypeOK
    <3>2. <<e, "broken">> \in hooks[v]
      BY <2>2, <3>1 DEF HookOrder, RelationEvents
    <3>3. CASE v # u
      BY <2>1, <3>2, <3>3 DEF Ran
    <3>4. CASE v = u /\ k # <<e, "broken">>
      BY <2>1, <3>1, <3>2, <3>4, Kinds DEF Ran, RelationEvents
    <3>5. CASE v = u /\ k = <<e, "broken">>
      <4>1. <<e, event>> \in hooks[u] /\ event # "broken"
        BY <2>1, <2>2, <3>1, <3>5 DEF Ran
      <4>2. Rank("broken") <= Rank(event)
        BY <1>1, <3>1, <3>5, <4>1 DEF Dequeue, Runs, RelationEvents
      <4>3. event \in {"created", "joined", "changed", "departed"}
        BY <4>1 DEF RelationEvents
      <4> QED BY <4>2, <4>3 DEF Rank
    <3> QED BY <3>3, <3>4, <3>5
  <2>4. \A v \in Units, e \in Endpoints, event \in RelationEvents :
            <<e, event>> \in hooks'[v] => e \in related'
    <3> SUFFICES ASSUME NEW v \in Units, NEW e \in Endpoints, NEW event \in RelationEvents,
                        <<e, event>> \in hooks'[v], e \notin related'
                 PROVE  FALSE
      OBVIOUS
    <3>1. e \in related
      BY <2>2 DEF HookOrder, RelationEvents
    <3>2. e \in dying /\ \A w \in Units : <<e, "broken">> \notin hooks'[w]
      BY <1>1, <3>1 DEF Dequeue
    <3> QED BY <2>3, <3>2
  <2>5. \A v \in Units, e \in Endpoints : <<e, "broken">> \in hooks'[v] => e \in dying'
    <3> SUFFICES ASSUME NEW v \in Units, NEW e \in Endpoints, <<e, "broken">> \in hooks'[v]
                 PROVE  e \in dying'
      OBVIOUS
    <3>1. e \in dying
      BY <2>2 DEF HookOrder, RelationEvents
    <3>2. e \in related'
      BY <2>4 DEF RelationEvents
    <3> QED BY <2>1, <3>1, <3>2 DEF Ran
  <2>6. \A v \in Units : failed'[v] = None \/ failed'[v] \in hooks'[v]
    BY <1>1, <2>1 DEF Dequeue, Ran, HookOrder, JujuTypeOK
  <2> QED BY <2>1, <2>3, <2>4, <2>5, <2>6 DEF HookOrder, Ran
<1>2. ASSUME NEW u \in Units, NEW k \in HookKinds, Raise(u, k)
      PROVE  HookOrder'
  BY <1>2 DEF Raise, Runs, HookOrder, JujuTypeOK, topology
<1>3. ASSUME NEW e \in Endpoints, Integrate(e)
      PROVE  HookOrder'
  <2>1. \A v \in Units : hooks'[v] = hooks[v] \cup {<<e, "created">>, <<e, "joined">>}
    BY <1>3 DEF Integrate, Queue
  <2>2. related' = related \cup {e} /\ dying' = dying /\ failed' = failed /\ e \notin related
    BY <1>3 DEF Integrate
  <2> QED BY <2>1, <2>2 DEF HookOrder, JujuTypeOK
<1>4. ASSUME NEW e \in Endpoints, Remove(e)
      PROVE  HookOrder'
  <2>1. \A v \in Units : hooks'[v] = (hooks[v] \ ({e} \X RelationEvents))
            \cup {<<e, "departed">>, <<e, "broken">>} \cup (hooks[v] \cap {failed[v]})
    BY <1>4 DEF Remove
  <2>2. related' = related /\ dying' = dying \cup {e} /\ failed' = failed /\ e \in related
    BY <1>4 DEF Remove
  <2>3. \A v \in Units, f \in Endpoints, event \in RelationEvents :
            <<f, event>> \in hooks'[v] => f = e \/ <<f, event>> \in hooks[v]
    BY <2>1
  <2>4. \A v \in Units, f \in Endpoints, event \in RelationEvents :
            <<f, event>> \in hooks[v] => f = e \/ <<f, event>> \in hooks'[v]
    BY <2>1
  <2>5. \A v \in Units : <<e, "broken">> \in hooks'[v]
    BY <2>1
  <2>6. \A v \in Units : failed'[v] = None \/ failed'[v] \in hooks'[v]
    BY <2>1, <2>2 DEF HookOrder
  <2>7. dying \subseteq Endpoints
    BY ScenariosAssumption DEF JujuTypeOK
  <2> QED BY <2>2, <2>3, <2>4, <2>5, <2>6, <2>7 DEF HookOrder, RelationEvents
<1>5. ASSUME NEW u \in Units, ElectLeader(u)
      PROVE  HookOrder'
  <2>1. /\ \A v \in Units : hooks'[v] = IF v = u THEN hooks[v] \cup {<<"leader-elected">>}
                                        ELSE hooks[v] \ ({<<"leader-elected">>} \ {failed[v]})
        /\ UNCHANGED <<related, dying, failed>>
    BY <1>5 DEF ElectLeader
  <2>2. \A v \in Units, e \in Endpoints, event \in RelationEvents :
            <<e, event>> \in hooks'[v] <=> <<e, event>> \in hooks[v]
    BY <2>1, Kinds DEF CharmEvents
  <2>3. \A v \in Units : failed'[v] = None \/ failed'[v] \in hooks'[v]
    BY <2>1 DEF HookOrder
  <2>4. dying \subseteq Endpoints
    BY ScenariosAssumption DEF JujuTypeOK
  <2> QED BY <2>1, <2>2, <2>3, <2>4 DEF HookOrder, RelationEvents
<1>6. ASSUME NEW u \in Units, NewPod(u)
      PROVE  HookOrder'
  <2>1. /\ \A v \in Units : hooks'[v] = hooks[v] \cup
                IF v = u THEN {<<"upgrade-charm">>, <<"config-changed">>} ELSE {}
        /\ UNCHANGED <<related, dying, failed>>
    BY <1>6 DEF NewPod, Queue, topology
  <2>2. \A v \in Units, e \in Endpoints, event \in RelationEvents :
            <<e, event>> \in hooks'[v] <=> <<e, event>> \in hooks[v]
    BY <2>1, Kinds DEF CharmEvents
  <2>3. \A v \in Units : failed'[v] = None \/ failed'[v] \in hooks'[v]
    BY <2>1 DEF HookOrder
  <2>4. dying \subseteq Endpoints
    BY ScenariosAssumption DEF JujuTypeOK
  <2> QED BY <2>1, <2>2, <2>3, <2>4 DEF HookOrder, RelationEvents
<1>7. CASE Announces
  <2>1. UNCHANGED <<related, dying, failed>>
    BY <1>7 DEF Announces, topology
  <2>2. ASSUME NEW e \in related \ dying, \A v \in Units : hooks'[v] = hooks[v] \cup {<<e, "changed">>}
        PROVE  HookOrder'
    BY <2>1, <2>2 DEF HookOrder, RelationEvents
  <2>3. ASSUME \A v \in Units : hooks'[v] = hooks[v] \cup {<<"config-changed">>}
        PROVE  HookOrder'
    <3>1. \A v \in Units, e \in Endpoints, event \in RelationEvents :
              <<e, event>> \in hooks'[v] <=> <<e, event>> \in hooks[v]
      BY <2>3, Kinds DEF CharmEvents
    <3>2. \A v \in Units : failed'[v] = None \/ failed'[v] \in hooks'[v]
      BY <2>1, <2>3 DEF HookOrder
    <3>3. dying \subseteq Endpoints
      BY ScenariosAssumption DEF JujuTypeOK
    <3> QED BY <2>1, <3>1, <3>2, <3>3 DEF HookOrder, RelationEvents
  <2> QED BY <1>7, <2>2, <2>3, AnnouncesIs
<1>8. CASE Refresh
  BY <1>8 DEF Refresh, HookOrder, topology
<1>9. CASE UNCHANGED juju
  BY <1>9 DEF juju, topology, HookOrder
<1>10. ASSUME NEW u \in Units, RollOut(u) \/ ReplacePod(u)
       PROVE  HookOrder'
  BY <1>6, <1>10 DEF RollOut, ReplacePod
<1> QED BY <1>1, <1>2, <1>3, <1>4, <1>5, <1>7, <1>8, <1>9, <1>10 DEF JujuStep

LEMMA JujuInvKept == JujuInv /\ JujuStep => JujuInv'
BY JujuTypesKept, HookOrderKept DEF JujuInv

-----------------------------------------------------------------------------
(* What the other steps of Juju mean for the components, in the terms of      *)
(* their invariants.                                                         *)

(* Neither the end of a hook nor a new integration, leader or pod. *)
Quiet ==
    \/ \E u \in Units, k \in HookKinds : Raise(u, k)
    \/ \E e \in Endpoints : Remove(e)
    \/ Refresh
    \/ Announces
    \/ UNCHANGED juju

(* No hook is lost but those of an integration that is being removed, whose   *)
(* broken hook is to run.                                                    *)
Kept ==
    /\ UNCHANGED <<inUse, leader, related, ip, running>>
    /\ dying \subseteq dying'
    /\ revision' = revision \/ revision' = revision + 1
    /\ method' = method \/ \A v \in Units : hooks'[v] # {}
    /\ \A v \in Units, h \in HookKinds :
          h \in hooks[v] => h \in hooks'[v] \/ \E e \in dying', event \in RelationEvents : h = <<e, event>>
    /\ \A v \in Units, e \in dying' : e \in dying \/ <<e, "broken">> \in hooks'[v]
    /\ \A v \in Units, e \in Endpoints : <<e, "broken">> \in hooks[v] => <<e, "broken">> \in hooks'[v]

(* The leadership moves to unit u. *)
Moved(u) ==
    /\ UNCHANGED <<inUse, related, dying, ip, running, revision, method, faults>>
    /\ leader' = u
    /\ <<"leader-elected">> \in hooks'[u]
    /\ \A v \in Units, h \in HookKinds : h # <<"leader-elected">> => (h \in hooks[v] <=> h \in hooks'[v])

(* Unit u has a new pod. *)
Replaced(u) ==
    /\ UNCHANGED <<inUse, leader, related, dying, revision, method>>
    /\ \A v \in Units \ {u} : ip'[v] = ip[v] /\ running'[v] = running[v] /\ hooks'[v] = hooks[v]
    /\ running'[u] = revision
    /\ {<<"upgrade-charm">>, <<"config-changed">>} \subseteq hooks'[u]
    /\ \A h \in HookKinds : h \in hooks[u] => h \in hooks'[u]

(* Endpoint e is integrated anew. *)
Fresh(e) ==
    /\ UNCHANGED <<inUse, leader, dying, ip, running, revision, method, faults>>
    /\ related' = related \cup {e} /\ e \notin related
    /\ \A v \in Units : hooks'[v] = hooks[v] \cup {<<e, "created">>, <<e, "joined">>}

LEMMA QuietKept ==
    ASSUME JujuInv, Quiet
    PROVE  Kept
<1> USE DEF JujuInv
<1>1. ASSUME NEW u \in Units, NEW k \in HookKinds, Raise(u, k)
      PROVE  Kept
  BY <1>1 DEF Raise, topology, pods, Kept
<1>2. ASSUME NEW e \in Endpoints, Remove(e)
      PROVE  Kept
  <2>1. \A v \in Units : hooks'[v] = (hooks[v] \ ({e} \X RelationEvents))
            \cup {<<e, "departed">>, <<e, "broken">>} \cup (hooks[v] \cap {failed[v]})
    BY <1>2 DEF Remove
  <2>2. UNCHANGED <<inUse, leader, related, pods, method>> /\ dying' = dying \cup {e}
    BY <1>2 DEF Remove
  <2> QED BY <2>1, <2>2 DEF Kept, pods
<1>3. CASE Refresh
  BY <1>3 DEF Refresh, topology, Kept
<1>4. CASE Announces
  BY <1>4, AnnouncesIs DEF Announces, topology, pods, Kept
<1>5. CASE UNCHANGED juju
  BY <1>5 DEF juju, topology, pods, Kept
<1> QED BY <1>1, <1>2, <1>3, <1>4, <1>5 DEF Quiet

LEMMA ElectMoved ==
    ASSUME JujuInv, NEW u \in Units, ElectLeader(u)
    PROVE  Moved(u)
<1>1. \A v \in Units : hooks'[v] = IF v = u THEN hooks[v] \cup {<<"leader-elected">>}
                                   ELSE hooks[v] \ ({<<"leader-elected">>} \ {failed[v]})
  BY DEF ElectLeader
<1> QED BY <1>1 DEF ElectLeader, Moved, pods

LEMMA PodReplaced ==
    ASSUME JujuInv, NEW u \in Units, RollOut(u) \/ ReplacePod(u)
    PROVE  Replaced(u)
<1>1. NewPod(u)
  BY DEF RollOut, ReplacePod
<1>2. \A v \in Units : hooks'[v] = hooks[v] \cup
          IF v = u THEN {<<"upgrade-charm">>, <<"config-changed">>} ELSE {}
  BY <1>1 DEF NewPod, Queue
<1>3. UNCHANGED <<inUse, leader, related, dying, revision, method>>
  BY <1>1 DEF NewPod, topology
<1>4. \A v \in Units \ {u} : ip'[v] = ip[v] /\ running'[v] = running[v]
  BY <1>1 DEF NewPod, JujuInv, JujuTypeOK
<1>5. running'[u] = revision
  BY <1>1 DEF NewPod, JujuInv, JujuTypeOK
<1> QED BY <1>2, <1>3, <1>4, <1>5, ZenonT(30) DEF Replaced

LEMMA IntegrateFresh ==
    ASSUME NEW e \in Endpoints, Integrate(e)
    PROVE  Fresh(e)
BY DEF Integrate, Queue, Fresh, pods

(* What one component sees of a step: a hook, a new integration, leader or    *)
(* pod, a step of its own, or a step that leaves it alone.                    *)
Beside ==
    /\ Quiet
    /\ IngressProvider \/ (\E m \in Methods : SetMethod(m)) \/ (UNCHANGED ingressVars /\ method' = method)
    /\ RouteProvider \/ UNCHANGED routeVars
    /\ Prometheus \/ UNCHANGED metricsVars
    /\ Grafana \/ UNCHANGED dashboardVars
    /\ TracingBackend \/ UNCHANGED tracingVars
    /\ WorkloadStep \/ UNCHANGED workloadVars

LEMMA NextParts ==
    ASSUME JujuTypeOK, [Next]_vars
    PROVE  \/ \E u \in Units, k \in HookKinds : RunHook(u, k)
           \/ \E e \in Endpoints : NewIntegration(e)
           \/ \E u \in Units : Elect(u) \/ StartPod(u)
           \/ Beside
<1>1. ASSUME NEW u \in Units, NEW k \in HookKinds, HookRaises(u, k)
      PROVE  Beside
  BY <1>1 DEF HookRaises, Raise, Quiet, Beside
<1>2. CASE IngressProvider
  <2>1. Quiet
    <3>1. CASE DataProvided
      BY <3>1 DEF DataProvided, Quiet
    <3>2. CASE PublishUrl
      BY <3>2 DEF PublishUrl, Quiet, Announces, JujuTypeOK
    <3>3. CASE WipeUrl
      BY <3>3, BoundsAssumption DEF WipeUrl, Fault, Quiet, Announces, JujuTypeOK
    <3> QED BY <1>2, <3>1, <3>2, <3>3 DEF IngressProvider
  <2> QED BY <1>2, <2>1 DEF IngressProvider, Beside
<1>3. CASE RouteProvider \/ Prometheus \/ Grafana
  <2>1. UNCHANGED juju
    BY <1>3 DEF RouteProvider, RouteAvailable, Prometheus, TargetsChanged, Grafana, Render
  <2> QED BY <1>3, <2>1 DEF RouteProvider, Prometheus, Grafana, Quiet, Beside, juju
<1>4. CASE TracingBackend
  <2>1. PICK ps \in Offers : PublishReceivers(ps)
    BY <1>4 DEF TracingBackend
  <2>2. faults' \in faults..MaxFaults
    BY <2>1, BoundsAssumption DEF PublishReceivers, Fault, JujuTypeOK
  <2>3. Quiet /\ method' = method
    BY <2>1, <2>2 DEF PublishReceivers, Announces, Quiet, JujuTypeOK
  <2> QED BY <1>4, <2>3 DEF TracingBackend, Beside
<1>5. ASSUME NEW e \in Endpoints, RemoveIntegration(e)
      PROVE  Beside
  BY <1>5 DEF RemoveIntegration, Remove, Quiet, Beside
<1>6. ASSUME NEW m \in Methods, SetMethod(m)
      PROVE  Beside
  <2>1. Quiet
    BY <1>6, BoundsAssumption DEF SetMethod, Configure, Fault, Quiet, Announces, JujuTypeOK
  <2> QED BY <1>6, <2>1 DEF SetMethod, Beside
<1>7. CASE RefreshCharm
  BY <1>7 DEF RefreshCharm, Refresh, Quiet, Beside
<1>8. CASE WorkloadStep
  <2>1. ASSUME NEW e \in Links, PublishLink(e)
        PROVE  Quiet /\ method' = method
    BY <2>1 DEF PublishLink, Quiet, Announces, JujuTypeOK
  <2>2. ASSUME NEW u \in Units, SchemaUpgradeAction(u)
        PROVE  Quiet /\ method' = method
    BY <2>2 DEF SchemaUpgradeAction, Quiet, juju
  <2>3. ASSUME SetOptions
        PROVE  Quiet /\ method' = method
    BY <2>3, BoundsAssumption DEF SetOptions, Fault, Quiet, Announces, JujuTypeOK
  <2>4. Quiet /\ method' = method
    BY <1>8, <2>1, <2>2, <2>3 DEF WorkloadStep
  <2> QED BY <1>8, <2>4 DEF WorkloadStep, Beside
<1>9. CASE UNCHANGED vars
  BY <1>9 DEF vars, juju, Quiet, Beside
<1> QED BY <1>1, <1>2, <1>3, <1>4, <1>5, <1>6, <1>7, <1>8, <1>9 DEF Next

(* So Juju's own steps are those of JujuStep. *)
LEMMA NextIsJujuStep ==
    ASSUME JujuTypeOK, [Next]_vars
    PROVE  JujuStep
<1>1. Quiet => JujuStep
  BY DEF Quiet, JujuStep
<1> QED BY <1>1, NextParts DEF Beside, RunHook, NewIntegration, Elect, StartPod, JujuStep

-----------------------------------------------------------------------------
(* Type correctness.                                                         *)

LEMMA MoreTimes ==
    ASSUME NEW a \in Nat, NEW b \in Nat, NEW m \in Nat, a <= b
    PROVE  (a + 1) * m \in Nat /\ (b + 1) * m \in Nat /\ (a + 1) * m <= (b + 1) * m
<1>1. PICK d \in Nat : b = a + d
  <2>1. b - a \in Nat /\ b = a + (b - a)
    OBVIOUS
  <2> QED BY <2>1
<1>2. d * m \in Nat /\ (a + 1) * m \in Nat /\ (b + 1) * m \in Nat
  OBVIOUS
<1>3. (b + 1) * m = (a + 1) * m + d * m
  BY <1>1
<1> QED BY <1>2, <1>3

LEMMA FaultsGrow ==
    ASSUME JujuTypeOK, JujuStep
    PROVE  faults <= faults'
<1>1. faults \in Nat
  BY BoundsAssumption DEF JujuTypeOK
<1>2. ASSUME NEW u \in Units, NEW k \in HookKinds, Dequeue(u, k) \/ Raise(u, k)
      PROVE  faults' = faults
  BY <1>2 DEF Dequeue, Raise
<1>3. ASSUME NEW e \in Endpoints, Integrate(e) \/ Remove(e)
      PROVE  faults' = faults \/ faults' = faults + 1
  BY <1>3 DEF Integrate, Remove, Fault
<1>4. ASSUME NEW u \in Units, ElectLeader(u) \/ RollOut(u) \/ ReplacePod(u)
      PROVE  faults' = faults \/ faults' = faults + 1
  BY <1>4 DEF ElectLeader, RollOut, ReplacePod, Fault
<1>5. CASE Refresh
  BY <1>1, <1>5 DEF Refresh, Fault
<1>6. CASE Announces
  BY <1>1, <1>6 DEF Announces
<1>7. CASE UNCHANGED juju
  BY <1>1, <1>7 DEF juju
<1> QED BY <1>1, <1>2, <1>3, <1>4, <1>5, <1>6, <1>7 DEF JujuStep

LEMMA IngressTypes ==
    ASSUME JujuInv, IngressTypeOK, UrlsBound, [Next]_vars
    PROVE  IngressTypeOK' /\ UrlsBound'
<1>1. JujuStep /\ JujuInv'
  BY NextIsJujuStep, JujuInvKept DEF JujuInv
<1>2. \A u \in Units : ip[u] \in Addresses
  BY DEF JujuInv, JujuTypeOK
<1>3. /\ MaxFaults \in Nat /\ MaxUrl \in Nat /\ faults \in Nat /\ faults' \in Nat
      /\ faults <= faults' /\ faults <= MaxFaults /\ faults' <= MaxFaults
  BY <1>1, FaultsGrow, BoundsAssumption, UrlAssumption DEF JujuInv, JujuTypeOK
<1>4. /\ (faults + 1) * MaxUrl \in Nat /\ (MaxFaults + 1) * MaxUrl \in Nat
      /\ (faults + 1) * MaxUrl <= (faults' + 1) * MaxUrl
      /\ (faults + 1) * MaxUrl <= (MaxFaults + 1) * MaxUrl
      /\ (faults' + 1) * MaxUrl \in Nat
  BY <1>3, MoreTimes
<1> DEFINE now == (faults + 1) * MaxUrl
           next == (faults' + 1) * MaxUrl
           most == (MaxFaults + 1) * MaxUrl
<1>5. now \in Nat /\ next \in Nat /\ most \in Nat /\ now <= next /\ now <= most
  BY <1>4
<1>6. nextUrl \in Nat /\ nextUrl <= now /\ Urls = 1..most /\ (UrlsBound' <=> nextUrl' <= next)
  BY <1>5 DEF IngressTypeOK, UrlsBound, Urls
<1> HIDE DEF now, next, most
<1>7. \/ nextUrl' = nextUrl
      \/ nextUrl < now /\ nextUrl' = nextUrl + 1
      => UrlsBound'
  BY <1>5, <1>6
<1>8. ASSUME NEW u \in Units, NEW k \in HookKinds, RunHook(u, k)
      PROVE  IngressTypeOK' /\ UrlsBound'
  <2>1. IngressHook(u, k)
    BY <1>8 DEF RunHook
  <2>2. UNCHANGED <<ingressUrl, nextUrl, ingressHosts, switched>>
    BY <2>1 DEF IngressHook
  <2>3. ingressApp' \in BOOLEAN /\ ingressUnit' \in [Units -> Addresses \cup {None}]
    BY <1>2, <2>1 DEF IngressHook, IngressRequirer, PublishAutoData, IngressTypeOK
  <2>4. currentUrl' \in [Units -> Urls \cup {None}]
    BY <2>1 DEF IngressHook, IngressRequirer, StoreUrl, ForgetUrl, IngressTypeOK
  <2>5. routeData' \in BOOLEAN /\ routeAvailable' \in BOOLEAN
    BY <1>8 DEF RunHook, RouteHook, IngressTypeOK
  <2> QED BY <1>7, <2>2, <2>3, <2>4, <2>5 DEF IngressTypeOK
<1>9. ASSUME NEW e \in Endpoints, NewIntegration(e)
      PROVE  IngressTypeOK' /\ UrlsBound'
  <2>1. nextUrl' = nextUrl
    BY <1>9 DEF NewIntegration, NewIngress, ingressVars
  <2> QED BY <1>7, <1>9, <2>1 DEF NewIntegration, NewIngress, NewRoute, ingressVars, routeVars, IngressTypeOK
<1>10. ASSUME NEW u \in Units, Elect(u) \/ StartPod(u)
       PROVE  IngressTypeOK' /\ UrlsBound'
  BY <1>7, <1>10 DEF Elect, StartPod, ingressVars, routeVars, IngressTypeOK
<1>11. CASE Beside
  <2>1. routeData' \in BOOLEAN /\ routeAvailable' \in BOOLEAN
    BY <1>11 DEF Beside, RouteProvider, RouteAvailable, routeVars, IngressTypeOK
  <2>2. CASE DataProvided
    BY <1>7, <2>1, <2>2 DEF DataProvided, RequirerData, IngressTypeOK
  <2>3. CASE PublishUrl
    <3>1. nextUrl < now /\ nextUrl' = nextUrl + 1 /\ ingressUrl' = nextUrl + 1
      BY <2>3 DEF PublishUrl, now
    <3>2. nextUrl + 1 \in Urls
      BY <1>5, <1>6, <3>1
    <3> QED BY <1>7, <2>1, <2>3, <3>1, <3>2 DEF PublishUrl, IngressTypeOK
  <2>4. CASE WipeUrl
    BY <1>7, <2>1, <2>4 DEF WipeUrl, IngressTypeOK
  <2>5. ASSUME NEW m \in Methods, SetMethod(m)
        PROVE  IngressTypeOK' /\ UrlsBound'
    BY <1>7, <2>1, <2>5 DEF SetMethod, SwitchIngress, IngressTypeOK
  <2>6. CASE UNCHANGED ingressVars
    BY <1>7, <2>1, <2>6 DEF ingressVars, IngressTypeOK
  <2> QED BY <1>11, <2>2, <2>3, <2>4, <2>5, <2>6 DEF Beside, IngressProvider
<1> QED BY <1>8, <1>9, <1>10, <1>11, NextParts DEF JujuInv

LEMMA JobsAre ==
    Jobs = IF scrapeJobs THEN {<<u, scrapeUnit[u]>> : u \in {v \in Units : scrapeUnit[v] # None}} ELSE {}
<1> DEFINE known == {v \in Units : scrapeUnit[v] # None}
<1>1. DOMAIN Hosts = known /\ \A u \in known : Hosts[u] = scrapeUnit[u]
  BY DEF Hosts
<1>2. Expanded(Hosts) = {<<u, scrapeUnit[u]>> : u \in known}
  BY <1>1 DEF Expanded
<1> QED BY <1>2 DEF Jobs

LEMMA MetricsTypes ==
    ASSUME JujuInv, MetricsTypeOK, [Next]_vars
    PROVE  MetricsTypeOK'
<1>1. \A u \in Units : ip[u] \in Addresses
  BY DEF JujuInv, JujuTypeOK
<1>2. ASSUME NEW u \in Units, NEW k \in HookKinds, RunHook(u, k)
      PROVE  MetricsTypeOK'
  <2>1. MetricsHook(u, k)
    BY <1>2 DEF RunHook
  <2>2. CASE SetScrapeJobSpec(u) /\ UNCHANGED targets
    BY <1>1, <2>2 DEF SetScrapeJobSpec, MetricsTypeOK
  <2>3. CASE UNCHANGED <<scrapeJobs, scrapeUnit, stale, leaderMissed, targets>>
    BY <2>3 DEF MetricsTypeOK
  <2> QED BY <2>1, <2>2, <2>3 DEF MetricsHook
<1>3. ASSUME NEW e \in Endpoints, NewIntegration(e)
      PROVE  MetricsTypeOK'
  BY <1>3 DEF NewIntegration, NewMetrics, metricsVars, MetricsTypeOK
<1>4. ASSUME NEW u \in Units, Elect(u) \/ StartPod(u)
      PROVE  MetricsTypeOK'
  BY <1>4 DEF Elect, StartPod, MetricsElect, metricsVars, MetricsTypeOK
<1>5. CASE Beside
  <2>1. CASE TargetsChanged
    <3>1. Jobs \subseteq Units \X Addresses
      BY JobsAre DEF MetricsTypeOK
    <3> QED BY <2>1, <3>1 DEF TargetsChanged, MetricsTypeOK
  <2>2. CASE UNCHANGED metricsVars
    BY <2>2 DEF metricsVars, MetricsTypeOK
  <2> QED BY <1>5, <2>1, <2>2 DEF Beside, Prometheus
<1> QED BY <1>2, <1>3, <1>4, <1>5, NextParts DEF JujuInv

LEMMA FromDirIsTemplates ==
    ASSUME JujuInv, NEW u \in Units
    PROVE  FromDir(u) \in SUBSET Templates
<1>1. running[u] \in Revisions
  BY Numbers DEF Revisions
<1>2. FilesOf[running[u]] \subseteq Files
  BY <1>1, FilesAssumption
<1> QED BY <1>1, <1>2 DEF FromDir, Templates

LEMMA DashboardsTypes ==
    ASSUME JujuInv, DashboardsTypeOK, RendersSomething, [Next]_vars
    PROVE  DashboardsTypeOK' /\ RendersSomething'
<1>1. ASSUME NEW u \in Units, NEW k \in HookKinds, RunHook(u, k)
      PROVE  DashboardsTypeOK' /\ RendersSomething'
  <2>1. DashboardHook(u, k)
    BY <1>1 DEF RunHook
  <2>2. templates' \in [Units -> SUBSET Templates] /\ rendered' = rendered
    BY <2>1, FromDirIsTemplates DEF DashboardHook, DashboardsTypeOK
  <2>3. CASE Upset(u)
    <3>1. dashboards' \in SUBSET Templates /\ rendering' = TRUE
      BY <2>2, <2>3 DEF Upset
    <3> QED BY <2>2, <3>1, NoDashboardsAssumption DEF DashboardsTypeOK, RendersSomething
  <2>4. CASE UNCHANGED <<dashboards, rendering>>
    BY <2>2, <2>4 DEF DashboardsTypeOK, RendersSomething
  <2> QED BY <2>1, <2>3, <2>4 DEF DashboardHook
<1>2. ASSUME NEW e \in Endpoints, NewIntegration(e)
      PROVE  DashboardsTypeOK' /\ RendersSomething'
  <2>1. CASE UNCHANGED dashboardVars
    BY <2>1 DEF dashboardVars, DashboardsTypeOK, RendersSomething
  <2>2. CASE UNCHANGED templates /\ dashboards' = None /\ rendered' = {} /\ rendering' = FALSE
    <3>1. RendersSomething'
      BY <2>2 DEF RendersSomething
    <3>2. rendered' \in SUBSET Templates /\ rendering' \in BOOLEAN
      BY <2>2
    <3> QED BY <2>2, <3>1, <3>2 DEF DashboardsTypeOK
  <2> QED BY <1>2, <2>1, <2>2 DEF NewIntegration, NewDashboards
<1>3. ASSUME NEW u \in Units, Elect(u) \/ StartPod(u)
      PROVE  DashboardsTypeOK' /\ RendersSomething'
  BY <1>3 DEF Elect, StartPod, dashboardVars, DashboardsTypeOK, RendersSomething
<1>4. CASE Beside
  <2>1. CASE Render
    <3>1. dashboards \in SUBSET Templates
      BY <2>1 DEF Render, DashboardsTypeOK, RendersSomething
    <3>2. rendered' \in SUBSET Templates
      BY <2>1, <3>1 DEF Render
    <3> QED BY <2>1, <3>2 DEF Render, DashboardsTypeOK, RendersSomething
  <2>2. CASE UNCHANGED dashboardVars
    BY <2>2 DEF dashboardVars, DashboardsTypeOK, RendersSomething
  <2> QED BY <1>4, <2>1, <2>2 DEF Beside, Grafana
<1> QED BY <1>1, <1>2, <1>3, <1>4, NextParts DEF JujuInv

LEMMA TracingTypes ==
    ASSUME JujuInv, TracingTypeOK, [Next]_vars
    PROVE  TracingTypeOK'
<1>1. ASSUME NEW u \in Units, NEW k \in HookKinds, RunHook(u, k)
      PROVE  TracingTypeOK'
  <2>1. Endpoint \in Protocols \cup {None}
    BY DEF Endpoint, Protocols
  <2> QED BY <1>1, <2>1 DEF RunHook, TracingHook, TracingTypeOK
<1>2. ASSUME NEW e \in Endpoints, NewIntegration(e)
      PROVE  TracingTypeOK'
  BY <1>2 DEF NewIntegration, NewTracing, tracingVars, TracingTypeOK
<1>3. ASSUME NEW u \in Units, Elect(u) \/ StartPod(u)
      PROVE  TracingTypeOK'
  BY <1>3 DEF Elect, StartPod, TracingPod, tracingVars, TracingTypeOK
<1>4. CASE Beside
  BY <1>4 DEF Beside, TracingBackend, PublishReceivers, tracingVars, TracingTypeOK
<1> QED BY <1>1, <1>2, <1>3, <1>4, NextParts DEF JujuInv

LEMMA LayerTypes ==
    /\ NoLayer \in [Keys -> Values \cup {None}]
    /\ \A u, k : Env(u, k) \in [Keys -> Values \cup {None}]
    /\ \A old, env \in [Keys -> Values \cup {None}] : Merged(old, env) \in [Keys -> Values \cup {None}]
<1>1. NoLayer \in [Keys -> Values \cup {None}]
  BY DEF NoLayer
<1>2. \A b, value : Optional(b, value) \in {value, None} /\ Flag(b) \in {"true", "false"}
  BY DEF Optional, Flag
<1>3. \A u, k : Env(u, k) \in [Keys -> Values \cup {None}]
  BY <1>2 DEF Env, Keys, Values
<1>4. \A old, env \in [Keys -> Values \cup {None}] : Merged(old, env) \in [Keys -> Values \cup {None}]
  BY DEF Merged, Values
<1> QED BY <1>1, <1>3, <1>4

LEMMA MigrateTypes ==
    ASSUME JujuInv, WorkloadTypeOK, NEW u \in Units, NEW k, Migrate(u, k)
    PROVE  schema' \in [Targets -> 1..revision] /\ unmigrated' \in BOOLEAN
<1>1. running[u] \in 1..revision
  BY Numbers
<1> QED BY <1>1 DEF Migrate, WorkloadTypeOK

LEMMA WorkloadTypes ==
    ASSUME JujuInv, WorkloadTypeOK, [Next]_vars
    PROVE  WorkloadTypeOK'
<1>1. revision \in Nat /\ \A u \in Units : running[u] \in 1..revision
  BY Numbers
<1>2. ASSUME NEW u \in Units, NEW k \in HookKinds, RunHook(u, k)
      PROVE  WorkloadTypeOK'
  <2>1. WorkloadHook(u, k) /\ revision' = revision
    BY <1>2 DEF RunHook, Dequeue, pods
  <2>2. UNCHANGED <<options, resourceToken, published>>
    BY <2>1 DEF WorkloadHook
  <2>3. alertRules' \in 1..revision \cup {None} /\ rulesMissed' \in BOOLEAN
    BY <1>1, <2>1 DEF WorkloadHook, PublishRules, WorkloadTypeOK
  <2>4. CASE Reconcile(u, k)
    <3>1. schema' \in [Targets -> 1..revision] /\ unmigrated' \in BOOLEAN
      BY <2>4, MigrateTypes DEF Reconcile
    <3>2. retry' \in [Units -> BOOLEAN]
      BY <2>4 DEF Reconcile, WorkloadTypeOK
    <3>3. layer' \in [Units -> [Keys -> Values \cup {None}] \cup {None}]
      <4>1. Merged(IF layer[u] = None THEN NoLayer ELSE layer[u], Env(u, k))
                \in [Keys -> Values \cup {None}]
        BY LayerTypes DEF WorkloadTypeOK
      <4> QED BY <2>4, <4>1 DEF Reconcile, WorkloadTypeOK
    <3> QED BY <2>1, <2>2, <2>3, <3>1, <3>2, <3>3 DEF WorkloadTypeOK
  <2>5. CASE UNCHANGED <<layer, retry, schema, unmigrated>>
    BY <2>1, <2>2, <2>3, <2>5 DEF WorkloadTypeOK
  <2> QED BY <2>1, <2>4, <2>5 DEF WorkloadHook
<1>3. ASSUME NEW e \in Endpoints, NewIntegration(e)
      PROVE  WorkloadTypeOK'
  <2>1. NewLink(e) /\ revision' = revision
    BY <1>3 DEF NewIntegration, Integrate, pods
  <2> QED BY <2>1 DEF NewLink, WorkloadTypeOK
<1>4. ASSUME NEW u \in Units, Elect(u) \/ StartPod(u)
      PROVE  WorkloadTypeOK'
  <2>1. (WorkloadElect \/ WorkloadPod(u)) /\ revision' = revision
    BY <1>4 DEF Elect, ElectLeader, StartPod, RollOut, ReplacePod, NewPod, pods
  <2> QED BY <2>1 DEF WorkloadElect, WorkloadPod, WorkloadTypeOK
<1>5. CASE Beside
  <2>1. revision' = revision \/ revision' = revision + 1
    BY <1>5, QuietKept DEF Beside, Kept
  <2>2. 1..revision \subseteq 1..revision'
    BY <1>1, <2>1
  <2>3. CASE UNCHANGED workloadVars
    BY <2>2, <2>3 DEF workloadVars, WorkloadTypeOK
  <2>4. ASSUME NEW e \in Links, PublishLink(e)
        PROVE  WorkloadTypeOK'
    BY <2>2, <2>4 DEF PublishLink, WorkloadTypeOK
  <2>5. ASSUME NEW u \in Units, SchemaUpgradeAction(u)
        PROVE  WorkloadTypeOK'
    BY <1>1, <2>5 DEF SchemaUpgradeAction, WorkloadTypeOK, juju, pods
  <2>6. CASE SetOptions
    BY <2>2, <2>6 DEF SetOptions, WorkloadTypeOK
  <2> QED BY <1>5, <2>3, <2>4, <2>5, <2>6 DEF Beside, WorkloadStep
<1> QED BY <1>2, <1>3, <1>4, <1>5, NextParts DEF JujuInv

LEMMA InitJuju == JujuInit => JujuInv
<1> SUFFICES ASSUME JujuInit PROVE JujuInv
  OBVIOUS
<1>1. JujuTypeOK
  BY BoundsAssumption DEF JujuInit, JujuTypeOK, Addresses, Revisions, Methods
<1>2. HookOrder /\ PodsBound
  BY DEF JujuInit, HookOrder, PodsBound
<1> QED BY <1>1, <1>2 DEF JujuInv

LEMMA InitTypes == Init => TypeInv
<1> SUFFICES ASSUME Init PROVE TypeInv
  OBVIOUS
<1>1. JujuInv
  BY InitJuju DEF Init
<1>2. IngressTypeOK /\ UrlsBound
  <2>1. IngressTypeOK
    BY DEF Init, IngressInit, IngressTypeOK
  <2>2. nextUrl = 0 /\ faults = 0
    BY DEF Init, IngressInit, JujuInit
  <2>3. 0 <= (0 + 1) * MaxUrl
    BY UrlAssumption
  <2> QED BY <2>1, <2>2, <2>3 DEF UrlsBound
<1>3. MetricsTypeOK
  BY DEF Init, MetricsInit, MetricsTypeOK
<1>4. DashboardsTypeOK /\ RendersSomething
  BY DEF Init, DashboardsInit, DashboardsTypeOK, RendersSomething
<1>5. TracingTypeOK
  BY DEF Init, TracingInit, TracingTypeOK
<1>6. WorkloadTypeOK
  <2>1. revision = 1
    BY DEF Init, JujuInit
  <2>2. layer \in [Units -> [Keys -> Values \cup {None}] \cup {None}]
    BY LayerTypes DEF Init, WorkloadInit
  <2>3. options \in OptionSets \cup {{}} /\ published \subseteq Links
    BY DEF Init, WorkloadInit
  <2>4. resourceToken \in BOOLEAN
    BY DEF Init, WorkloadInit, InPlay
  <2>5. schema \in [Targets -> 1..revision] /\ retry \in [Units -> BOOLEAN]
    BY <2>1 DEF Init, WorkloadInit
  <2>6. unmigrated \in BOOLEAN /\ rulesMissed \in BOOLEAN /\ alertRules = None
    BY DEF Init, WorkloadInit
  <2> QED BY <2>2, <2>3, <2>4, <2>5, <2>6 DEF WorkloadTypeOK
<1> QED BY <1>1, <1>2, <1>3, <1>4, <1>5, <1>6 DEF TypeInv, TypeOK, JujuInv

LEMMA TypesKept == TypeInv /\ [Next]_vars => TypeInv'
<1> SUFFICES ASSUME TypeInv, [Next]_vars PROVE TypeInv'
  OBVIOUS
<1>1. JujuInv
  BY DEF TypeInv, TypeOK, JujuInv
<1>2. JujuInv'
  BY <1>1, NextIsJujuStep, JujuInvKept DEF JujuInv
<1>3. IngressTypeOK' /\ UrlsBound'
  BY <1>1, IngressTypes DEF TypeInv, TypeOK
<1>4. MetricsTypeOK'
  BY <1>1, MetricsTypes DEF TypeInv, TypeOK
<1>5. DashboardsTypeOK' /\ RendersSomething'
  BY <1>1, DashboardsTypes DEF TypeInv, TypeOK
<1>6. TracingTypeOK'
  BY <1>1, TracingTypes DEF TypeInv, TypeOK
<1>7. WorkloadTypeOK'
  BY <1>1, WorkloadTypes DEF TypeInv, TypeOK
<1> QED BY <1>2, <1>3, <1>4, <1>5, <1>6, <1>7 DEF TypeInv, TypeOK, JujuInv

LEMMA Typed == Spec => []TypeInv
BY InitTypes, TypesKept, PTL DEF Spec

(* Every variable of the composition keeps its type, whatever the hooks, the  *)
(* pods and the remote applications do: the addresses and the URLs stay within *)
(* what their bounds allow, because each pod and each URL is counted against a *)
(* fault or a revision.                                                      *)
THEOREM TypeCorrect == Spec => []TypeOK
<1>1. TypeInv => TypeOK
  BY DEF TypeInv
<1> QED BY <1>1, Typed, PTL

-----------------------------------------------------------------------------
(* A hook that is pending stays so until its unit has run it. *)
LEMMA RunKeeps ==
    ASSUME JujuInv, NEW u \in Units, NEW k \in HookKinds, RunHook(u, k)
    PROVE  /\ Ran(u, k)
           /\ \A v \in Units, h \in HookKinds : h \in hooks[v] => h \in hooks'[v] \/ (v = u /\ h = k)
           /\ \A e \in Endpoints : Serving(e)' <=> Serving(e)
           /\ \A e \in Endpoints : Serving(e) => e \in Visible(u, k)
           /\ UNCHANGED <<inUse, leader, ip, running, revision, method, faults>>
<1>1. Ran(u, k)
  BY DequeueRan DEF RunHook, JujuInv
<1>2. UNCHANGED <<inUse, leader, ip, running, revision, method, faults>>
  BY DEF RunHook, Dequeue, pods
<1>3. \A e \in Endpoints : Serving(e)' <=> Serving(e)
  BY <1>1 DEF Ran, Serving
<1>4. \A e \in Endpoints : Serving(e) => e \in Visible(u, k)
  BY DEF Serving, Visible
<1>5. \A v \in Units, h \in HookKinds : h \in hooks[v] => h \in hooks'[v] \/ (v = u /\ h = k)
  BY <1>1 DEF Ran
<1> QED BY <1>1, <1>2, <1>3, <1>4, <1>5

(* A quiet step keeps the hooks of an integration that serves. *)
LEMMA QuietKeeps ==
    ASSUME JujuInv, Quiet
    PROVE  /\ \A e \in Endpoints : Serving(e)' => Serving(e)
           /\ \A v \in Units, e \in Endpoints, event \in RelationEvents :
                 Serving(e)' /\ <<e, event>> \in hooks[v] => <<e, event>> \in hooks'[v]
           /\ \A v \in Units, h \in CharmEvents : h \in hooks[v] => h \in hooks'[v]
           /\ \A v \in Units : hooks[v] # {} => hooks'[v] # {}
<1>1. Kept
  BY QuietKept
<1>2. dying \subseteq Endpoints /\ dying' \subseteq Endpoints
  BY <1>1, QuietKept, NextIsJujuStep, JujuTypesKept, ScenariosAssumption DEF JujuInv, JujuTypeOK, Quiet, JujuStep
<1>3. \A e \in Endpoints : Serving(e)' => Serving(e)
  BY <1>1 DEF Kept, Serving
<1>4. \A v \in Units, e \in Endpoints, event \in RelationEvents :
          Serving(e)' /\ <<e, event>> \in hooks[v] => <<e, event>> \in hooks'[v]
  BY <1>1, Kinds DEF Kept, Serving
<1>5. \A v \in Units, h \in CharmEvents : h \in hooks[v] => h \in hooks'[v]
  BY <1>1, <1>2, Kinds DEF Kept
<1>6. ASSUME NEW v \in Units, hooks[v] # {}
      PROVE  hooks'[v] # {}
  <2>1. PICK h \in HookKinds : h \in hooks[v]
    BY <1>6 DEF JujuInv, JujuTypeOK
  <2>2. CASE h \in hooks'[v]
    BY <2>2
  <2>3. ASSUME NEW e \in dying', NEW event \in RelationEvents, h = <<e, event>>
        PROVE  hooks'[v] # {}
    BY <1>1, <1>2, <2>1, <2>3 DEF Kept, JujuInv, HookOrder
  <2> QED BY <1>1, <2>1, <2>2, <2>3 DEF Kept
<1> QED BY <1>3, <1>4, <1>5, <1>6

-----------------------------------------------------------------------------
(* nginx-route.                                                              *)

LEMMA RouteKept ==
    ASSUME JujuInv, RouteInv, [Next]_vars
    PROVE  RouteInv'
<1>1. leader \in Units /\ leader' \in Units
  BY NextIsJujuStep, JujuTypesKept DEF JujuInv, JujuTypeOK
<1>2. "nginx-route" \in Endpoints
  BY DEF Endpoints
<1>3. ASSUME NEW u \in Units, NEW k \in HookKinds, RunHook(u, k)
      PROVE  RouteInv'
  <2> SUFFICES ASSUME Serving("nginx-route")', method' = "legacy-nginx-route"
               PROVE  routeData' \/ hooks'[leader'] # {}
    BY DEF RouteInv
  <2>1. Serving("nginx-route") /\ "nginx-route" \in Visible(u, k) /\ leader' = leader
        /\ method = "legacy-nginx-route"
    BY <1>2, <1>3, RunKeeps
  <2>2. routeData' = (routeData \/ u = leader)
    BY <1>3, <2>1 DEF RunHook, RouteHook
  <2>3. u # leader => hooks'[leader] = hooks[leader]
    BY <1>1, <1>3, RunKeeps DEF Ran
  <2> QED BY <2>1, <2>2, <2>3 DEF RouteInv
<1>4. ASSUME NEW e \in Endpoints, NewIntegration(e)
      PROVE  RouteInv'
  <2>1. Fresh(e) /\ NewRoute(e)
    BY <1>4, IntegrateFresh DEF NewIntegration
  <2> QED BY <1>1, <2>1 DEF Fresh, NewRoute, RouteInv, routeVars
<1>5. ASSUME NEW u \in Units, Elect(u)
      PROVE  RouteInv'
  BY <1>5, ElectMoved DEF Elect, Moved, RouteInv
<1>6. ASSUME NEW u \in Units, StartPod(u)
      PROVE  RouteInv'
  <2>1. Replaced(u) /\ UNCHANGED routeVars
    BY <1>6, PodReplaced DEF StartPod
  <2> QED BY <1>1, <2>1 DEF Replaced, routeVars, RouteInv, Serving
<1>7. CASE Beside
  <2>1. routeData' = routeData
    BY <1>7 DEF Beside, RouteProvider, RouteAvailable, routeVars
  <2> QED BY <1>1, <1>2, <1>7, <2>1, QuietKept, QuietKeeps DEF Beside, Kept, RouteInv
<1> QED BY <1>3, <1>4, <1>5, <1>6, <1>7, NextParts DEF JujuInv

LEMMA InitRoute == Init => RouteInv
BY DEF Init, JujuInit, RouteInv, Serving

(* The leader asks nginx for a route whenever it runs a hook, so an           *)
(* integration that was selected late, or whose leader moved, is served once  *)
(* the hooks are run.                                                        *)
THEOREM RouteSettles == Spec => []SettledRoute
<1>1. TypeInv => JujuInv
  BY DEF TypeInv, TypeOK, JujuInv
<1>2. TypeInv /\ RouteInv /\ [Next]_vars => RouteInv'
  BY <1>1, RouteKept
<1>3. TypeInv /\ RouteInv => SettledRoute
  BY DEF TypeInv, TypeOK, JujuTypeOK, RouteInv, SettledRoute, Settled
<1> QED BY <1>2, <1>3, InitRoute, Typed, PTL DEF Spec

-----------------------------------------------------------------------------
(* ingress.                                                                  *)

LEMMA PublishedKept ==
    ASSUME JujuInv, IngressTypeOK, PublishedIngress, [Next]_vars
    PROVE  PublishedIngress'
<1>1. leader \in Units /\ leader' \in Units
  BY NextIsJujuStep, JujuTypesKept DEF JujuInv, JujuTypeOK
<1>2. "ingress" \in Endpoints /\ {"created", "changed"} \subseteq RelationEvents
  BY DEF Endpoints, RelationEvents
<1>3. /\ <<"ingress", "created">> \in HookKinds /\ <<"ingress", "changed">> \in HookKinds
      /\ <<"leader-elected">> \in CharmEvents /\ <<"upgrade-charm">> \in CharmEvents
      /\ <<"leader-elected">> \in HookKinds /\ <<"upgrade-charm">> \in HookKinds
      /\ <<"leader-elected">> # <<"upgrade-charm">>
      /\ <<"ingress", "created">> # <<"leader-elected">>
      /\ <<"ingress", "changed">> # <<"leader-elected">>
  BY <1>2, Kinds DEF CharmEvents
<1>4. ASSUME NEW u \in Units, NEW k \in HookKinds, RunHook(u, k)
      PROVE  PublishedIngress'
  <2> SUFFICES ASSUME Serving("ingress")', method' = "ingress", ~switched'
               PROVE  PublishedIngress'
    BY DEF PublishedIngress
  <2>1. Serving("ingress") /\ "ingress" \in Visible(u, k) /\ UNCHANGED <<leader, ip, method>>
    BY <1>2, <1>4, RunKeeps
  <2>2. IngressRequirer(u, k) /\ UNCHANGED <<ingressUrl, switched>>
    BY <1>4, <2>1 DEF RunHook, IngressHook
  <2>3. Publishing(k) => PublishAutoData(u)
    BY <2>1, <2>2 DEF IngressRequirer
  <2>4. PublishAutoData(u) \/ UNCHANGED <<ingressApp, ingressUnit>>
    BY <2>2 DEF IngressRequirer
  <2>5. k \in hooks[u] /\ \A v \in Units, h \in HookKinds : h \in hooks[v] => h \in hooks'[v] \/ (v = u /\ h = k)
    BY <1>4, RunKeeps DEF Ran
  <2>6. \/ ingressApp'
        \/ <<"ingress", "created">> \in hooks'[leader'] \/ <<"leader-elected">> \in hooks'[leader']
    <3>1. CASE ingressApp
      BY <2>4, <3>1 DEF PublishAutoData
    <3>2. ASSUME NEW h \in {<<"ingress", "created">>, <<"leader-elected">>}, h \in hooks[leader]
          PROVE  ingressApp' \/ h \in hooks'[leader]
      <4>1. Publishing(h)
        BY DEF Publishing
      <4> QED BY <1>1, <1>3, <2>3, <2>5, <3>2, <4>1 DEF PublishAutoData
    <3> QED BY <2>1, <2>2, <3>1, <3>2 DEF PublishedIngress
  <2>7. ASSUME NEW v \in Units
        PROVE  \/ ingressUnit'[v] = ip'[v]
               \/ <<"ingress", "created">> \in hooks'[v] \/ <<"upgrade-charm">> \in hooks'[v]
    <3>1. PublishAutoData(u) => ingressUnit'[u] = ip[u] /\ (v # u => ingressUnit'[v] = ingressUnit[v])
      BY DEF PublishAutoData, IngressTypeOK
    <3>2. CASE ingressUnit[v] = ip[v]
      BY <2>1, <2>4, <3>1, <3>2
    <3>3. ASSUME NEW h \in {<<"ingress", "created">>, <<"upgrade-charm">>}, h \in hooks[v]
          PROVE  ingressUnit'[v] = ip[v] \/ h \in hooks'[v]
      <4>1. Publishing(h)
        BY DEF Publishing
      <4> QED BY <1>3, <2>3, <2>5, <3>1, <3>3, <4>1
    <3> QED BY <2>1, <2>2, <3>2, <3>3 DEF PublishedIngress
  <2>8. ASSUME NEW v \in Units
        PROVE  \/ ingressUrl' = None \/ currentUrl'[v] = ingressUrl'
               \/ <<"ingress", "changed">> \in hooks'[v]
    <3>1. k # <<"ingress", "broken">>
      BY <1>2, <2>1, <2>5 DEF JujuInv, HookOrder, Serving
    <3>2. StoreUrl(u) \/ UNCHANGED currentUrl
      BY <2>2, <3>1 DEF IngressRequirer
    <3>3. k = <<"ingress", "changed">> => StoreUrl(u)
      BY <2>2, <3>1 DEF IngressRequirer
    <3>4. StoreUrl(u) /\ ingressUrl # None =>
              currentUrl'[u] = ingressUrl /\ (v # u => currentUrl'[v] = currentUrl[v])
      BY DEF StoreUrl, IngressTypeOK
    <3>5. \/ ingressUrl = None \/ currentUrl[v] = ingressUrl \/ <<"ingress", "changed">> \in hooks[v]
      BY <2>1, <2>2 DEF PublishedIngress
    <3>6. <<"ingress", "changed">> \in hooks[v] =>
              <<"ingress", "changed">> \in hooks'[v] \/ (v = u /\ k = <<"ingress", "changed">>)
      BY <1>3, <2>5
    <3> QED BY <2>2, <3>2, <3>3, <3>4, <3>5, <3>6
  <2> QED BY <2>6, <2>7, <2>8 DEF PublishedIngress
<1>5. ASSUME NEW e \in Endpoints, NewIntegration(e)
      PROVE  PublishedIngress'
  <2>1. Fresh(e) /\ NewIngress(e)
    BY <1>5, IntegrateFresh DEF NewIntegration
  <2>2. CASE e = "ingress"
    BY <1>1, <2>1, <2>2 DEF Fresh, NewIngress, PublishedIngress
  <2>3. CASE e # "ingress"
    BY <1>1, <2>1, <2>3 DEF Fresh, NewIngress, PublishedIngress, Serving, ingressVars
  <2> QED BY <2>2, <2>3
<1>6. ASSUME NEW u \in Units, Elect(u)
      PROVE  PublishedIngress'
  <2>1. Moved(u) /\ UNCHANGED ingressVars
    BY <1>6, ElectMoved DEF Elect
  <2>2. \A v \in Units : /\ <<"ingress", "created">> \in hooks[v] => <<"ingress", "created">> \in hooks'[v]
                         /\ <<"ingress", "changed">> \in hooks[v] => <<"ingress", "changed">> \in hooks'[v]
                         /\ <<"upgrade-charm">> \in hooks[v] => <<"upgrade-charm">> \in hooks'[v]
    BY <1>3, <2>1 DEF Moved
  <2> QED BY <2>1, <2>2 DEF Moved, PublishedIngress, Serving, ingressVars
<1>7. ASSUME NEW u \in Units, StartPod(u)
      PROVE  PublishedIngress'
  <2>1. Replaced(u) /\ UNCHANGED ingressVars
    BY <1>7, PodReplaced DEF StartPod
  <2>2. \A v \in Units, h \in HookKinds : h \in hooks[v] => h \in hooks'[v]
    BY <2>1 DEF Replaced
  <2> QED BY <1>1, <1>3, <2>1, <2>2 DEF Replaced, PublishedIngress, Serving, ingressVars
<1>8. CASE Beside
  <2> SUFFICES ASSUME Serving("ingress")', method' = "ingress", ~switched'
               PROVE  PublishedIngress'
    BY DEF PublishedIngress
  <2>1. Kept /\ Serving("ingress")
    BY <1>2, <1>8, QuietKept, QuietKeeps DEF Beside
  <2>2. \A v \in Units : /\ <<"ingress", "created">> \in hooks[v] => <<"ingress", "created">> \in hooks'[v]
                         /\ <<"ingress", "changed">> \in hooks[v] => <<"ingress", "changed">> \in hooks'[v]
                         /\ <<"upgrade-charm">> \in hooks[v] => <<"upgrade-charm">> \in hooks'[v]
                         /\ <<"leader-elected">> \in hooks[v] => <<"leader-elected">> \in hooks'[v]
    BY <1>2, <1>3, <1>8, QuietKeeps DEF Beside
  <2>3. UNCHANGED <<leader, ip>>
    BY <2>1 DEF Kept
  <2>4. ASSUME NEW m \in Methods, SetMethod(m)
        PROVE  FALSE
    BY <2>1, <2>4 DEF SetMethod, SwitchIngress, Serving
  <2>5. CASE UNCHANGED ingressVars /\ method' = method
    BY <1>1, <2>1, <2>2, <2>3, <2>5 DEF PublishedIngress, ingressVars
  <2>6. CASE DataProvided
    BY <2>1, <2>2, <2>3, <2>6 DEF DataProvided, PublishedIngress, juju
  <2>7. CASE PublishUrl
    <3>1. \A v \in Units : <<"ingress", "changed">> \in hooks'[v]
      BY <2>7 DEF PublishUrl, Changed, Queue
    <3> QED BY <1>1, <2>1, <2>2, <2>3, <2>7, <3>1 DEF PublishUrl, PublishedIngress
  <2>8. CASE WipeUrl
    BY <1>1, <2>1, <2>2, <2>3, <2>8 DEF WipeUrl, PublishedIngress
  <2> QED BY <1>8, <2>4, <2>5, <2>6, <2>7, <2>8 DEF Beside, IngressProvider
<1> QED BY <1>4, <1>5, <1>6, <1>7, <1>8, NextParts DEF JujuInv

LEMMA RevokedKept ==
    ASSUME JujuInv, IngressTypeOK, RevokedInv, [Next]_vars
    PROVE  RevokedInv'
<1>1. "ingress" \in Endpoints /\ "broken" \in RelationEvents /\ <<"ingress", "broken">> \in HookKinds
  BY Kinds DEF Endpoints, RelationEvents
<1>2. <<"ingress", "broken">> # <<"leader-elected">>
  BY <1>1, Kinds DEF CharmEvents
<1>3. ASSUME NEW u \in Units, NEW k \in HookKinds, RunHook(u, k)
      PROVE  RevokedInv'
  <2> SUFFICES ASSUME method' = "ingress", ~switched', ~Serving("ingress")', NEW v \in Units,
                      currentUrl'[v] # None
               PROVE  "ingress" \in dying' /\ <<"ingress", "broken">> \in hooks'[v]
    BY DEF RevokedInv
  <2>1. ~Serving("ingress") /\ Ran(u, k) /\ method = "ingress"
    BY <1>1, <1>3, RunKeeps
  <2>2. IngressRequirer(u, k) /\ ~switched
    BY <1>3, <2>1 DEF RunHook, IngressHook
  <2>3. CASE v = u
    <3>1. k # <<"ingress", "broken">>
      BY <2>2, <2>3 DEF IngressRequirer, ForgetUrl, IngressTypeOK
    <3>2. currentUrl[u] # None \/ \E event \in RelationEvents : k = <<"ingress", event>>
      BY <2>2, <2>3, <3>1, Kinds DEF IngressRequirer, CharmEvents
    <3>3. "ingress" \in dying /\ <<"ingress", "broken">> \in hooks[u]
      BY <1>1, <2>1, <2>2, <3>2 DEF RevokedInv, Ran, JujuInv, HookOrder, Serving
    <3>4. <<"ingress", "broken">> \in hooks'[u]
      BY <1>1, <2>1, <3>1, <3>3 DEF Ran
    <3> QED BY <1>1, <1>3, <2>3, <3>3, <3>4, HookOrderKept, NextIsJujuStep DEF JujuInv, HookOrder
  <2>4. CASE v # u
    <3>1. currentUrl'[v] = currentUrl[v] /\ hooks'[v] = hooks[v]
      BY <2>1, <2>2, <2>4 DEF IngressRequirer, StoreUrl, ForgetUrl, IngressTypeOK, Ran
    <3>2. <<"ingress", "broken">> \in hooks'[v]
      BY <2>1, <2>2, <3>1 DEF RevokedInv
    <3> QED BY <1>1, <3>2, HookOrderKept, NextIsJujuStep DEF JujuInv, HookOrder
  <2> QED BY <2>3, <2>4
<1>4. ASSUME NEW e \in Endpoints, NewIntegration(e)
      PROVE  RevokedInv'
  <2>1. Fresh(e) /\ NewIngress(e)
    BY <1>4, IntegrateFresh DEF NewIntegration
  <2>2. CASE e = "ingress"
    BY <2>1, <2>2 DEF Fresh, RevokedInv, Serving, JujuInv, JujuTypeOK
  <2>3. CASE e # "ingress"
    BY <2>1, <2>3 DEF Fresh, NewIngress, RevokedInv, Serving, ingressVars
  <2> QED BY <2>2, <2>3
<1>5. ASSUME NEW u \in Units, Elect(u)
      PROVE  RevokedInv'
  <2>1. Moved(u) /\ UNCHANGED ingressVars
    BY <1>5, ElectMoved DEF Elect
  <2> QED BY <1>1, <1>2, <2>1 DEF Moved, RevokedInv, Serving, ingressVars
<1>6. ASSUME NEW u \in Units, StartPod(u)
      PROVE  RevokedInv'
  <2>1. Replaced(u) /\ UNCHANGED ingressVars
    BY <1>6, PodReplaced DEF StartPod
  <2> QED BY <1>1, <2>1 DEF Replaced, RevokedInv, Serving, ingressVars
<1>7. CASE Beside
  <2>1. Kept
    BY <1>7, QuietKept DEF Beside
  <2>2. \A v \in Units : <<"ingress", "broken">> \in hooks[v] => <<"ingress", "broken">> \in hooks'[v]
    BY <1>1, <2>1 DEF Kept
  <2>3. ASSUME UNCHANGED <<currentUrl, switched>>, method' = method
        PROVE  RevokedInv'
    BY <2>1, <2>2, <2>3 DEF Kept, RevokedInv, Serving
  <2>4. ASSUME NEW m \in Methods, SetMethod(m)
        PROVE  RevokedInv'
    BY <2>4 DEF SetMethod, SwitchIngress, RevokedInv
  <2>5. IngressProvider \/ (UNCHANGED ingressVars /\ method' = method) =>
            UNCHANGED <<currentUrl, switched>> /\ method' = method
    BY DEF IngressProvider, DataProvided, PublishUrl, WipeUrl, ingressVars, juju
  <2> QED BY <1>7, <2>3, <2>4, <2>5 DEF Beside
<1> QED BY <1>3, <1>4, <1>5, <1>6, <1>7, NextParts DEF JujuInv

LEMMA InitIngress == Init => PublishedIngress /\ RevokedInv
BY DEF Init, JujuInit, IngressInit, PublishedIngress, RevokedInv, Serving

(* However often the leadership moves and pods are replaced while the         *)
(* ingress is integrated, no databag and no URL is left behind: whatever is   *)
(* out of date has a hook that repairs it still to run.                       *)
THEOREM IngressSettles == Spec => []SettledIngress
<1>1. TypeInv => JujuInv /\ IngressTypeOK
  BY DEF TypeInv, TypeOK, JujuInv
<1>2. TypeInv /\ PublishedIngress /\ [Next]_vars => PublishedIngress'
  BY <1>1, PublishedKept
<1>3. TypeInv /\ PublishedIngress => SettledIngress
  <2> SUFFICES ASSUME TypeInv, PublishedIngress, Settled, Serving("ingress"), method = "ingress", ~switched
               PROVE  RequirerData = ip /\ (ingressUrl # None => \A u \in Units : currentUrl[u] = ingressUrl)
    BY DEF SettledIngress
  <2>1. leader \in Units /\ \A u \in Units : hooks[u] = {}
    BY DEF TypeInv, TypeOK, JujuTypeOK, Settled
  <2>2. ingressApp /\ \A u \in Units : ingressUnit[u] = ip[u]
    BY <2>1 DEF PublishedIngress
  <2>3. ingressUnit = ip
    BY <2>2 DEF TypeInv, TypeOK, JujuTypeOK, IngressTypeOK
  <2>4. \A u \in Units : ip[u] # None
    BY <1>1, Numbers, NoneAssumption
  <2>5. RequirerData = ip
    BY <2>2, <2>3, <2>4 DEF RequirerData
  <2> QED BY <2>1, <2>5 DEF PublishedIngress
<1> QED BY <1>2, <1>3, InitIngress, Typed, PTL DEF Spec

(* The URL of an integration that is gone is forgotten: a unit that still     *)
(* has it has the broken hook to run.                                        *)
THEOREM RevokedIsForgotten == Spec => []RevokedUrlForgotten
<1>1. TypeInv => JujuInv /\ IngressTypeOK
  BY DEF TypeInv, TypeOK, JujuInv
<1>2. TypeInv /\ RevokedInv /\ [Next]_vars => RevokedInv'
  BY <1>1, RevokedKept
<1>3. RevokedInv => RevokedUrlForgotten
  BY DEF RevokedInv, RevokedUrlForgotten, Settled, Serving
<1> QED BY <1>2, <1>3, InitIngress, Typed, PTL DEF Spec

-----------------------------------------------------------------------------
(* metrics-endpoint.                                                         *)

LEMMA ScrapedKept ==
    ASSUME JujuInv, MetricsTypeOK, ScrapedInv, [Next]_vars
    PROVE  ScrapedInv'
<1> DEFINE joined == <<"metrics-endpoint", "joined">>
           config == <<"config-changed">>
<1>1. leader \in Units /\ leader' \in Units
  BY NextIsJujuStep, JujuTypesKept DEF JujuInv, JujuTypeOK
<1>2. "metrics-endpoint" \in Endpoints /\ "joined" \in RelationEvents
  BY DEF Endpoints, RelationEvents
<1>3. joined \in HookKinds /\ config \in HookKinds /\ config \in CharmEvents
      /\ joined # <<"leader-elected">> /\ config # <<"leader-elected">>
  BY <1>2, Kinds DEF CharmEvents
<1>4. UNCHANGED <<scrapeJobs, scrapeUnit, targets, stale>> => UNCHANGED Jobs
  BY DEF Jobs, Hosts, Expanded
<1> HIDE DEF joined, config
<1>5. ScrapedInv <=>
          /\ Serving("metrics-endpoint") =>
                /\ leaderMissed \/ scrapeJobs \/ joined \in hooks[leader]
                /\ \A u \in Units : scrapeUnit[u] = ip[u] \/ joined \in hooks[u] \/ config \in hooks[u]
          /\ stale \/ targets = Jobs
  BY DEF ScrapedInv, joined, config
<1>6. ScrapedInv' <=>
          /\ Serving("metrics-endpoint")' =>
                /\ leaderMissed' \/ scrapeJobs' \/ joined \in hooks'[leader']
                /\ \A u \in Units : scrapeUnit'[u] = ip'[u] \/ joined \in hooks'[u] \/ config \in hooks'[u]
          /\ stale' \/ targets' = Jobs'
  BY DEF ScrapedInv, joined, config
<1>7. ASSUME NEW u \in Units, NEW k \in HookKinds, RunHook(u, k)
      PROVE  ScrapedInv'
  <2>1. MetricsHook(u, k) /\ targets' = targets
    BY <1>7 DEF RunHook, MetricsHook
  <2>2. SetScrapeJobSpec(u) \/ UNCHANGED <<scrapeJobs, scrapeUnit, stale, leaderMissed>>
    BY <2>1 DEF MetricsHook
  <2>3. stale' \/ targets' = Jobs'
    <3>1. CASE SetScrapeJobSpec(u)
      <4>1. ~stale' => UNCHANGED <<scrapeJobs, scrapeUnit>> /\ ~stale
        BY <3>1 DEF SetScrapeJobSpec, MetricsTypeOK
      <4> QED BY <1>4, <1>5, <2>1, <4>1 DEF Jobs, Hosts, Expanded
    <3> QED BY <1>4, <1>5, <2>1, <2>2, <3>1
  <2>4. ASSUME Serving("metrics-endpoint")'
        PROVE  /\ leaderMissed' \/ scrapeJobs' \/ joined \in hooks'[leader']
               /\ \A v \in Units : scrapeUnit'[v] = ip'[v] \/ joined \in hooks'[v] \/ config \in hooks'[v]
    <3>1. Serving("metrics-endpoint") /\ "metrics-endpoint" \in Visible(u, k) /\ UNCHANGED <<leader, ip>>
      BY <1>2, <1>7, <2>4, RunKeeps
    <3>2. k \in {joined, config} => SetScrapeJobSpec(u)
      BY <2>1, <3>1 DEF MetricsHook, Refreshing, joined, config
    <3>3. \A v \in Units, h \in {joined, config} : h \in hooks[v] => h \in hooks'[v] \/ (v = u /\ h = k)
      BY <1>3, <1>7, RunKeeps
    <3>4. leaderMissed' \/ scrapeJobs' \/ joined \in hooks'[leader']
      BY <1>1, <1>5, <2>2, <3>1, <3>2, <3>3 DEF SetScrapeJobSpec
    <3>5. SetScrapeJobSpec(u) => \A v \in Units : scrapeUnit'[v] = IF v = u THEN ip[u] ELSE scrapeUnit[v]
      BY DEF SetScrapeJobSpec, MetricsTypeOK
    <3>6. \A v \in Units : scrapeUnit'[v] = ip'[v] \/ joined \in hooks'[v] \/ config \in hooks'[v]
      BY <1>5, <2>2, <3>1, <3>2, <3>3, <3>5
    <3> QED BY <3>4, <3>6
  <2> QED BY <1>6, <2>3, <2>4
<1>8. ASSUME NEW e \in Endpoints, NewIntegration(e)
      PROVE  ScrapedInv'
  <2>1. Fresh(e) /\ NewMetrics(e)
    BY <1>8, IntegrateFresh DEF NewIntegration
  <2>2. CASE e = "metrics-endpoint"
    <3>1. targets' = {} /\ Jobs' = {}
      BY <2>1, <2>2 DEF NewMetrics, Jobs
    <3>2. \A v \in Units : joined \in hooks'[v]
      BY <2>1, <2>2 DEF Fresh, joined
    <3> QED BY <1>1, <1>6, <3>1, <3>2
  <2>3. CASE e # "metrics-endpoint"
    <3>1. UNCHANGED <<scrapeJobs, scrapeUnit, targets, stale, leaderMissed>>
      BY <2>1, <2>3 DEF NewMetrics, metricsVars
    <3>2. /\ Serving("metrics-endpoint")' => Serving("metrics-endpoint")
          /\ UNCHANGED <<leader, ip>>
          /\ \A v \in Units : hooks[v] \subseteq hooks'[v]
      BY <2>1, <2>3 DEF Fresh, Serving
    <3> QED BY <1>1, <1>4, <1>5, <1>6, <3>1, <3>2
  <2> QED BY <2>2, <2>3
<1>9. ASSUME NEW u \in Units, Elect(u)
      PROVE  ScrapedInv'
  <2>1. Moved(u) /\ MetricsElect
    BY <1>9, ElectMoved DEF Elect
  <2>2. \A v \in Units : (joined \in hooks[v] => joined \in hooks'[v]) /\ (config \in hooks[v] => config \in hooks'[v])
    BY <1>3, <2>1 DEF Moved
  <2>3. Serving("metrics-endpoint")' => leaderMissed' \/ scrapeJobs'
    BY <2>1 DEF Moved, MetricsElect, Serving, MetricsTypeOK
  <2>4. UNCHANGED <<scrapeJobs, scrapeUnit, targets, stale, Jobs>>
    BY <1>4, <2>1 DEF MetricsElect
  <2>5. Serving("metrics-endpoint")' => Serving("metrics-endpoint")
    BY <2>1 DEF Moved, Serving
  <2>6. ip' = ip
    BY <2>1 DEF Moved
  <2> QED BY <1>5, <1>6, <2>2, <2>3, <2>4, <2>5, <2>6
<1>10. ASSUME NEW u \in Units, StartPod(u)
       PROVE  ScrapedInv'
  <2>1. Replaced(u) /\ UNCHANGED metricsVars
    BY <1>10, PodReplaced DEF StartPod
  <2>2. \A v \in Units, h \in {joined, config} : h \in hooks[v] => h \in hooks'[v]
    BY <1>3, <2>1 DEF Replaced
  <2>3. /\ Serving("metrics-endpoint")' => Serving("metrics-endpoint")
        /\ leader' = leader
        /\ \A v \in Units : ip'[v] = ip[v] \/ config \in hooks'[v]
    BY <2>1 DEF Replaced, Serving, config
  <2> QED BY <1>1, <1>4, <1>5, <1>6, <2>1, <2>2, <2>3 DEF metricsVars
<1>11. CASE Beside
  <2>1. Kept /\ (Serving("metrics-endpoint")' => Serving("metrics-endpoint"))
    BY <1>2, <1>11, QuietKept, QuietKeeps DEF Beside
  <2>2. ASSUME NEW v \in Units, Serving("metrics-endpoint")'
        PROVE  (joined \in hooks[v] => joined \in hooks'[v]) /\ (config \in hooks[v] => config \in hooks'[v])
    BY <1>2, <1>3, <1>11, <2>2, QuietKeeps DEF Beside, joined
  <2>3. UNCHANGED <<leader, ip>>
    BY <2>1 DEF Kept
  <2>4. CASE TargetsChanged
    <3>1. UNCHANGED <<scrapeJobs, scrapeUnit, leaderMissed>> /\ targets' = Jobs /\ stale' = FALSE
      BY <2>4 DEF TargetsChanged
    <3>2. Jobs' = Jobs
      BY <3>1 DEF Jobs, Hosts, Expanded
    <3> QED BY <1>1, <1>5, <1>6, <2>1, <2>2, <2>3, <3>1, <3>2
  <2>5. CASE UNCHANGED metricsVars
    BY <1>1, <1>4, <1>5, <1>6, <2>1, <2>2, <2>3, <2>5 DEF metricsVars
  <2> QED BY <1>11, <2>4, <2>5 DEF Beside, Prometheus
<1> QED BY <1>7, <1>8, <1>9, <1>10, <1>11, NextParts DEF JujuInv

LEMMA InitScraped == Init => ScrapedInv
BY DEF Init, JujuInit, MetricsInit, ScrapedInv, Serving, Jobs

(* Prometheus ends up with the present address of every unit, unless the      *)
(* leader that had to publish the job lost its leadership before it did.      *)
THEOREM ScrapingSettles == Spec => []SettledScraped
<1>1. TypeInv => JujuInv /\ MetricsTypeOK
  BY DEF TypeInv, TypeOK, JujuInv
<1>2. TypeInv /\ ScrapedInv /\ [Next]_vars => ScrapedInv'
  BY <1>1, ScrapedKept
<1>3. TypeInv /\ ScrapedInv => SettledScraped
  <2> SUFFICES ASSUME TypeInv, ScrapedInv, Settled, Serving("metrics-endpoint"), ~stale, ~leaderMissed
               PROVE  targets = {<<u, ip[u]>> : u \in Units}
    BY DEF SettledScraped, Serving
  <2>1. leader \in Units /\ \A u \in Units : hooks[u] = {}
    BY DEF TypeInv, TypeOK, JujuTypeOK, Settled
  <2>2. scrapeJobs /\ (\A u \in Units : scrapeUnit[u] = ip[u]) /\ targets = Jobs
    BY <2>1 DEF ScrapedInv
  <2>3. \A u \in Units : ip[u] # None
    BY <1>1, Numbers, NoneAssumption
  <2>4. Jobs = {<<u, scrapeUnit[u]>> : u \in Units}
    BY <2>2, <2>3, JobsAre
  <2> QED BY <2>2, <2>4
<1> QED BY <1>2, <1>3, InitScraped, Typed, PTL DEF Spec

-----------------------------------------------------------------------------
(* grafana-dashboard.                                                        *)

(* The hooks in which the leader reads the dashboards and publishes them. *)
Readings == {<<"grafana-dashboard", "created">>, <<"leader-elected">>, <<"upgrade-charm">>}

LEMMA DashboardsKept ==
    ASSUME JujuInv, DashboardsTypeOK, RendersSomething, DashboardsInv, [Next]_vars
    PROVE  DashboardsInv'
<1>1. leader \in Units /\ leader' \in Units
  BY NextIsJujuStep, JujuTypesKept DEF JujuInv, JujuTypeOK
<1>2. "grafana-dashboard" \in Endpoints /\ "created" \in RelationEvents
  BY DEF Endpoints, RelationEvents
<1>3. Readings \subseteq HookKinds
  BY <1>2, Kinds DEF Readings, CharmEvents
<1>4. DashboardsInv <=>
          /\ Serving("grafana-dashboard") =>
                \/ dashboards = FilesOf[revision] \X {revision}
                \/ running[leader] # revision
                \/ \E k \in Readings : k \in hooks[leader]
          /\ rendering \/ dashboards = None \/ rendered = {t \in dashboards : t[1] \notin Unparsable}
  BY DEF DashboardsInv, Readings
<1>5. DashboardsInv' <=>
          /\ Serving("grafana-dashboard")' =>
                \/ dashboards' = FilesOf[revision'] \X {revision'}
                \/ running'[leader'] # revision'
                \/ \E k \in Readings : k \in hooks'[leader']
          /\ rendering' \/ dashboards' = None \/ rendered' = {t \in dashboards' : t[1] \notin Unparsable}
  BY DEF DashboardsInv, Readings
<1>6. ASSUME NEW u \in Units, NEW k \in HookKinds, RunHook(u, k)
      PROVE  DashboardsInv'
  <2>1. DashboardHook(u, k) /\ rendered' = rendered
    BY <1>6 DEF RunHook, DashboardHook
  <2>2. Upset(u) \/ UNCHANGED <<dashboards, rendering>>
    BY <2>1 DEF DashboardHook
  <2>3. rendering' \/ dashboards' = None \/ rendered' = {t \in dashboards' : t[1] \notin Unparsable}
    BY <1>4, <2>1, <2>2 DEF Upset
  <2>4. ASSUME Serving("grafana-dashboard")', running'[leader'] = revision',
               \A h \in Readings : h \notin hooks'[leader']
        PROVE  dashboards' = FilesOf[revision'] \X {revision'}
    <3>1. /\ Serving("grafana-dashboard") /\ "grafana-dashboard" \in Visible(u, k)
          /\ UNCHANGED <<leader, running, revision>>
      BY <1>2, <1>6, <2>4, RunKeeps
    <3>2. CASE u = leader /\ k \in Readings
      <4>1. Reading(u, k)
        BY <3>2 DEF Reading, Readings
      <4>2. Upset(u) /\ templates'[u] = FromDir(u)
        BY <2>1, <3>1, <3>2, <4>1 DEF DashboardHook, DashboardsTypeOK
      <4> QED BY <2>4, <3>1, <3>2, <4>2 DEF Upset, FromDir
    <3>3. CASE ~(u = leader /\ k \in Readings)
      <4>1. \A h \in Readings : h \notin hooks[leader]
        BY <1>1, <1>3, <1>6, <2>4, <3>1, <3>3, RunKeeps
      <4>2. ~(Reading(u, k) /\ u = leader)
        BY <3>3 DEF Reading, Readings
      <4>3. dashboards' = dashboards
        BY <2>1, <4>2 DEF DashboardHook
      <4> QED BY <1>4, <2>4, <3>1, <4>1, <4>3
    <3> QED BY <3>2, <3>3
  <2> QED BY <1>5, <2>3, <2>4
<1>7. ASSUME NEW e \in Endpoints, NewIntegration(e)
      PROVE  DashboardsInv'
  <2>1. Fresh(e) /\ NewDashboards(e)
    BY <1>7, IntegrateFresh DEF NewIntegration
  <2>2. CASE e = "grafana-dashboard"
    BY <1>1, <1>5, <2>1, <2>2 DEF Fresh, NewDashboards, Readings
  <2>3. CASE e # "grafana-dashboard"
    <3>1. UNCHANGED <<dashboards, rendered, rendering>>
      BY <2>1, <2>3 DEF NewDashboards, dashboardVars
    <3>2. /\ Serving("grafana-dashboard")' => Serving("grafana-dashboard")
          /\ UNCHANGED <<leader, running, revision>>
          /\ \A v \in Units : hooks[v] \subseteq hooks'[v]
      BY <2>1, <2>3 DEF Fresh, Serving
    <3> QED BY <1>1, <1>4, <1>5, <3>1, <3>2
  <2> QED BY <2>2, <2>3
<1>8. ASSUME NEW u \in Units, Elect(u)
      PROVE  DashboardsInv'
  <2>1. Moved(u) /\ UNCHANGED dashboardVars
    BY <1>8, ElectMoved DEF Elect
  <2> QED BY <1>4, <1>5, <2>1 DEF Moved, Readings, dashboardVars
<1>9. ASSUME NEW u \in Units, StartPod(u)
      PROVE  DashboardsInv'
  <2>1. Replaced(u) /\ UNCHANGED dashboardVars
    BY <1>9, PodReplaced DEF StartPod
  <2>2. \A v \in Units, h \in Readings : h \in hooks[v] => h \in hooks'[v]
    BY <1>3, <2>1 DEF Replaced
  <2>3. /\ Serving("grafana-dashboard")' => Serving("grafana-dashboard")
        /\ UNCHANGED <<leader, revision>>
        /\ \A v \in Units : running'[v] = running[v] \/ \E h \in Readings : h \in hooks'[v]
    BY <2>1 DEF Replaced, Serving, Readings
  <2> QED BY <1>1, <1>4, <1>5, <2>1, <2>2, <2>3 DEF dashboardVars
<1>10. CASE Beside
  <2>1. Kept /\ (Serving("grafana-dashboard")' => Serving("grafana-dashboard"))
    BY <1>2, <1>10, QuietKept, QuietKeeps DEF Beside
  <2>2. ASSUME NEW v \in Units, Serving("grafana-dashboard")', NEW h \in Readings, h \in hooks[v]
        PROVE  h \in hooks'[v]
    BY <1>2, <1>10, <2>2, QuietKeeps DEF Beside, Readings, CharmEvents
  <2>3. UNCHANGED <<leader, running>> /\ (revision' = revision \/ running'[leader] # revision')
    BY <1>1, <2>1, Numbers DEF Kept
  <2>4. CASE Render
    <3>1. dashboards' = dashboards /\ rendered' = {t \in dashboards : t[1] \notin Unparsable}
      BY <2>4 DEF Render
    <3> QED BY <1>1, <1>4, <1>5, <2>1, <2>2, <2>3, <3>1
  <2>5. CASE UNCHANGED dashboardVars
    BY <1>1, <1>4, <1>5, <2>1, <2>2, <2>3, <2>5 DEF dashboardVars
  <2> QED BY <1>10, <2>4, <2>5 DEF Beside, Grafana
<1> QED BY <1>6, <1>7, <1>8, <1>9, <1>10, NextParts DEF JujuInv

LEMMA InitDashboards == Init => DashboardsInv
BY DEF Init, JujuInit, DashboardsInit, DashboardsInv, Serving

(* What Grafana shows is of the revision that runs, whoever led while it was  *)
(* rolled out.                                                               *)
THEOREM DashboardsSettle == Spec => []SettledDashboards
<1>1. TypeInv => JujuInv /\ DashboardsTypeOK /\ RendersSomething
  BY DEF TypeInv, TypeOK, JujuInv
<1>2. TypeInv /\ DashboardsInv /\ [Next]_vars => DashboardsInv'
  BY <1>1, DashboardsKept
<1>3. TypeInv /\ DashboardsInv => SettledDashboards
  <2> SUFFICES ASSUME TypeInv, DashboardsInv, Settled, Serving("grafana-dashboard"), ~rendering
               PROVE  rendered = (FilesOf[revision] \ Unparsable) \X {revision}
    BY DEF SettledDashboards, Serving
  <2>1. leader \in Units /\ \A u \in Units : hooks[u] = {} /\ running[u] = revision
    BY DEF TypeInv, TypeOK, JujuTypeOK, Settled
  <2>2. dashboards = FilesOf[revision] \X {revision}
    BY <2>1 DEF DashboardsInv
  <2>3. revision \in Revisions
    BY DEF TypeInv, TypeOK, JujuTypeOK
  <2>4. dashboards \in SUBSET Templates
    BY <2>2, <2>3, FilesAssumption DEF Templates
  <2>5. dashboards # None
    BY <2>4, NoDashboardsAssumption
  <2>6. rendered = {t \in dashboards : t[1] \notin Unparsable}
    BY <2>5 DEF DashboardsInv
  <2> QED BY <2>2, <2>6
<1> QED BY <1>2, <1>3, InitDashboards, Typed, PTL DEF Spec

-----------------------------------------------------------------------------
(* send-traces.                                                              *)

LEMMA TracingKept ==
    ASSUME JujuInv, JujuInv', TracingTypeOK, TracingInv, [Next]_vars
    PROVE  TracingInv'
<1> DEFINE changed == <<"send-traces", "changed">>
           broken == <<"send-traces", "broken">>
           config == <<"config-changed">>
<1>1. "send-traces" \in Endpoints /\ {"changed", "broken"} \subseteq RelationEvents
  BY DEF Endpoints, RelationEvents
<1>2. /\ changed \in HookKinds /\ broken \in HookKinds /\ config \in HookKinds /\ config \in CharmEvents
      /\ changed # <<"leader-elected">> /\ broken # <<"leader-elected">> /\ config # <<"leader-elected">>
  BY <1>1, Kinds DEF CharmEvents
<1>3. \A v \in Units : broken \in hooks[v] => "send-traces" \in dying
  BY <1>1 DEF JujuInv, HookOrder
<1> HIDE DEF changed, broken, config
<1>4. TracingInv <=> \A v \in Units :
          /\ "send-traces" \notin related => traceEnv[v] = None
          /\ "send-traces" \in dying => traceEnv[v] = None \/ broken \in hooks[v]
          /\ Serving("send-traces") => traceEnv[v] = Endpoint \/ changed \in hooks[v] \/ config \in hooks[v]
  BY DEF TracingInv, changed, broken, config
<1>5. TracingInv' <=> \A v \in Units :
          /\ "send-traces" \notin related' => traceEnv'[v] = None
          /\ "send-traces" \in dying' => traceEnv'[v] = None \/ broken \in hooks'[v]
          /\ Serving("send-traces")' =>
                traceEnv'[v] = Endpoint' \/ changed \in hooks'[v] \/ config \in hooks'[v]
  BY DEF TracingInv, changed, broken, config
<1>6. receivers' = receivers => Endpoint' = Endpoint
  BY DEF Endpoint
<1>7. dying \subseteq related /\ dying' \subseteq related'
  BY DEF JujuInv, JujuTypeOK
<1>8. ASSUME NEW u \in Units, NEW k \in HookKinds, RunHook(u, k)
      PROVE  TracingInv'
  <2> SUFFICES ASSUME NEW v \in Units
               PROVE  /\ "send-traces" \notin related' => traceEnv'[v] = None
                      /\ "send-traces" \in dying' => traceEnv'[v] = None \/ broken \in hooks'[v]
                      /\ Serving("send-traces")' =>
                            traceEnv'[v] = Endpoint' \/ changed \in hooks'[v] \/ config \in hooks'[v]
    BY <1>5
  <2>1. Ran(u, k) /\ TracingHook(u, k) /\ Endpoint' = Endpoint
    BY <1>6, <1>8, RunKeeps DEF RunHook, TracingHook
  <2>2. \A h \in {changed, broken, config} : h \in hooks[v] => h \in hooks'[v] \/ (v = u /\ h = k)
    BY <1>2, <1>8, RunKeeps
  <2>3. /\ Serving("send-traces")' <=> Serving("send-traces")
        /\ Serving("send-traces") => "send-traces" \in Visible(u, k)
    BY <1>1, <1>8, RunKeeps
  <2>4. related' \subseteq related /\ dying' = dying \cap related'
    BY <2>1 DEF Ran
  <2>5. traceEnv'[v] = IF v = u /\ Reconciles(k)
                       THEN IF "send-traces" \in Visible(u, k) THEN Endpoint ELSE None
                       ELSE traceEnv[v]
    BY <2>1 DEF TracingHook, TracingTypeOK
  <2>6. k \in {changed, broken, config} => Reconciles(k)
    BY DEF Reconciles, changed, broken, config
  <2>7. "send-traces" \in Visible(u, k) => "send-traces" \in related /\ ("send-traces" \in dying => broken \in hooks[u] /\ k # broken)
    BY DEF Visible, broken
  <2>8. Serving("send-traces") <=> "send-traces" \in related /\ "send-traces" \notin dying
    BY DEF Serving
  <2>9. ASSUME "send-traces" \notin related'
        PROVE  traceEnv'[v] = None
    <3>1. broken \notin hooks'[v] /\ broken \notin hooks'[u]
      BY <1>1, <2>9 DEF JujuInv, HookOrder, broken
    <3>2. "send-traces" \notin related \/ "send-traces" \in dying
      BY <2>3, <2>8, <2>9 DEF Serving
    <3>3. CASE v = u /\ Reconciles(k)
      <4>1. "send-traces" \notin Visible(u, k)
        BY <1>2, <2>1, <2>7, <3>1, <3>2 DEF Ran
      <4> QED BY <2>5, <3>3, <4>1
    <3>4. CASE ~(v = u /\ Reconciles(k))
      <4>1. broken \notin hooks[v]
        BY <2>2, <2>6, <3>1, <3>4
      <4> QED BY <1>4, <2>5, <3>2, <3>4, <4>1
    <3> QED BY <3>3, <3>4
  <2>10. ASSUME "send-traces" \in dying', traceEnv'[v] # None
         PROVE  broken \in hooks'[v]
    <3>1. "send-traces" \in dying
      BY <2>4, <2>10
    <3>2. broken \in hooks[v] /\ (v = u => k # broken)
      <4>1. CASE v = u /\ Reconciles(k)
        BY <2>5, <2>7, <2>10, <3>1, <4>1
      <4>2. CASE ~(v = u /\ Reconciles(k))
        BY <1>4, <2>5, <2>6, <2>10, <3>1, <4>2
      <4> QED BY <4>1, <4>2
    <3> QED BY <2>2, <3>2
  <2>11. ASSUME Serving("send-traces")'
         PROVE  traceEnv'[v] = Endpoint' \/ changed \in hooks'[v] \/ config \in hooks'[v]
    BY <1>4, <2>1, <2>2, <2>3, <2>5, <2>6, <2>11
  <2> QED BY <2>9, <2>10, <2>11
<1>9. ASSUME NEW e \in Endpoints, NewIntegration(e)
      PROVE  TracingInv'
  <2>1. Fresh(e) /\ NewTracing(e)
    BY <1>9, IntegrateFresh DEF NewIntegration
  <2>2. UNCHANGED <<dying, traceEnv>> /\ related' = related \cup {e} /\ \A v \in Units : hooks[v] \subseteq hooks'[v]
    BY <2>1 DEF Fresh, NewTracing, tracingVars
  <2>3. CASE e = "send-traces"
    <3>1. Endpoint' = None /\ "send-traces" \notin related
      BY <2>1, <2>3 DEF Fresh, NewTracing, Endpoint
    <3> QED BY <1>4, <1>5, <1>7, <2>2, <3>1
  <2>4. CASE e # "send-traces"
    <3>1. Endpoint' = Endpoint
      BY <1>6, <2>1, <2>4 DEF NewTracing, tracingVars
    <3> QED BY <1>4, <1>5, <2>2, <2>4, <3>1 DEF Serving
  <2> QED BY <2>3, <2>4
<1>10. ASSUME NEW u \in Units, Elect(u)
       PROVE  TracingInv'
  <2>1. Moved(u) /\ UNCHANGED tracingVars
    BY <1>10, ElectMoved DEF Elect
  <2>2. \A v \in Units, h \in {changed, broken, config} : h \in hooks[v] => h \in hooks'[v]
    BY <1>2, <2>1 DEF Moved
  <2> QED BY <1>4, <1>5, <1>6, <2>1, <2>2 DEF Moved, Serving, tracingVars
<1>11. ASSUME NEW u \in Units, StartPod(u)
       PROVE  TracingInv'
  <2>1. Replaced(u) /\ TracingPod(u)
    BY <1>11, PodReplaced DEF StartPod
  <2>2. \A v \in Units, h \in {changed, broken, config} : h \in hooks[v] => h \in hooks'[v]
    BY <1>2, <2>1 DEF Replaced
  <2>3. config \in hooks'[u] /\ UNCHANGED <<related, dying>>
    BY <2>1 DEF Replaced, config
  <2>4. \A v \in Units : traceEnv'[v] = IF v = u THEN None ELSE traceEnv[v]
    BY <2>1 DEF TracingPod, TracingTypeOK
  <2>5. Endpoint' = Endpoint
    BY <1>6, <2>1 DEF TracingPod
  <2> QED BY <1>4, <1>5, <2>2, <2>3, <2>4, <2>5 DEF Serving
<1>12. CASE Beside
  <2>1. Kept /\ (Serving("send-traces")' => Serving("send-traces"))
    BY <1>1, <1>12, QuietKept, QuietKeeps DEF Beside
  <2>2. \A v \in Units : broken \in hooks[v] => broken \in hooks'[v]
    BY <1>1, <2>1 DEF Kept, broken
  <2>3. related' = related /\ \A v \in Units : "send-traces" \in dying' => "send-traces" \in dying \/ broken \in hooks'[v]
    BY <2>1 DEF Kept, broken
  <2>4. ASSUME NEW v \in Units, Serving("send-traces")'
        PROVE  (changed \in hooks[v] => changed \in hooks'[v]) /\ (config \in hooks[v] => config \in hooks'[v])
    BY <1>1, <1>2, <1>12, <2>4, QuietKeeps DEF Beside, changed
  <2>5. traceEnv' = traceEnv
    BY <1>12 DEF Beside, TracingBackend, PublishReceivers, tracingVars
  <2>6. ASSUME Serving("send-traces")', NEW v \in Units
        PROVE  traceEnv'[v] = Endpoint' \/ changed \in hooks'[v] \/ config \in hooks'[v]
    <3>1. ASSUME NEW ps \in Offers, PublishReceivers(ps)
          PROVE  changed \in hooks'[v]
      BY <3>1 DEF PublishReceivers, Changed, Queue, changed
    <3>2. CASE UNCHANGED tracingVars
      BY <1>4, <1>6, <2>1, <2>4, <2>5, <2>6, <3>2 DEF tracingVars
    <3> QED BY <1>12, <3>1, <3>2 DEF Beside, TracingBackend
  <2> QED BY <1>4, <1>5, <2>2, <2>3, <2>5, <2>6
<1> QED BY <1>8, <1>9, <1>10, <1>11, <1>12, NextParts DEF JujuInv

LEMMA InitTracing == Init => TracingInv
BY DEF Init, JujuInit, TracingInit, TracingInv, Serving

(* Every unit exports its traces to what the backend serves now, and a unit   *)
(* that still exports to one that is being removed has the broken hook to run. *)
THEOREM TracingSettles == Spec => []SettledTracing
<1>1. TypeInv => JujuInv /\ TracingTypeOK
  BY DEF TypeInv, TypeOK, JujuInv
<1>2. TypeInv /\ TypeInv' /\ TracingInv /\ [Next]_vars => TracingInv'
  <2>1. TypeInv' => JujuInv'
    BY DEF TypeInv, TypeOK, JujuInv
  <2> QED BY <1>1, <2>1, TracingKept
<1>3. TypeInv /\ TracingInv => SettledTracing
  <2> SUFFICES ASSUME TypeInv, TracingInv, Settled, NEW u \in Units
               PROVE  traceEnv[u] = IF "send-traces" \in related \ dying THEN Endpoint ELSE None
    BY DEF SettledTracing
  <2> QED BY DEF TracingInv, Settled, Serving
<1> QED BY <1>2, <1>3, InitTracing, Typed, PTL DEF Spec

-----------------------------------------------------------------------------
(* The schemas.                                                              *)

(* A reconciliation under the present revision migrates everything, or says   *)
(* that it did not; under an earlier one it leaves a roll-out to come.        *)
LEMMA MigrateMigrates ==
    ASSUME JujuInv, WorkloadTypeOK, NEW u \in Units, NEW k, Migrate(u, k)
    PROVE  /\ running[u] = revision => unmigrated' \/ \A t \in Targets : schema'[t] = revision
           /\ running[u] # revision => unmigrated' = unmigrated
<1>1. PICK done \in SUBSET Pending(u) :
          /\ schema' = [t \in Targets |-> IF t \in done THEN running[u] ELSE schema[t]]
          /\ unmigrated' = IF running[u] = revision THEN done # Pending(u) ELSE unmigrated
  BY DEF Migrate
<1>2. revision \in Nat /\ \A t \in Targets : schema[t] \in 1..revision
  BY Numbers DEF WorkloadTypeOK
<1>3. ASSUME running[u] = revision, ~unmigrated', NEW t \in Targets
      PROVE  schema'[t] = revision
  <2>1. t \in done <=> schema[t] < revision
    BY <1>1, <1>3 DEF Pending
  <2> QED BY <1>1, <1>2, <1>3, <2>1
<1> QED BY <1>1, <1>3

LEMMA SchemaKept ==
    ASSUME JujuInv, JujuInv', WorkloadTypeOK, WorkloadTypeOK', SchemaInv, [Next]_vars
    PROVE  SchemaInv'
<1> DEFINE config == <<"config-changed">>
<1>1. config \in HookKinds /\ config \in CharmEvents /\ config # <<"leader-elected">> /\ config \in Reconciling
  BY Kinds DEF CharmEvents, Reconciling
<1> HIDE DEF config
<1>2. SchemaInv <=> (InPlay /\ ~unmigrated =>
          (\A t \in Targets : schema[t] = revision) \/ \E v \in Units : running[v] # revision \/ config \in hooks[v])
  BY DEF SchemaInv, config
<1>3. SchemaInv' <=> (InPlay' /\ ~unmigrated' =>
          \/ \A t \in Targets : schema'[t] = revision'
          \/ \E v \in Units : running'[v] # revision' \/ config \in hooks'[v])
  BY DEF SchemaInv, config
<1>4. inUse' = inUse => InPlay' = InPlay
  BY DEF InPlay
<1>5. ASSUME UNCHANGED <<inUse, schema, unmigrated, revision>>,
             \A v \in Units : (running'[v] = running[v] \/ config \in hooks'[v])
                                 /\ (config \in hooks[v] => config \in hooks'[v])
      PROVE  SchemaInv'
  BY <1>2, <1>3, <1>4, <1>5
<1>6. ASSUME NEW u \in Units, NEW k \in HookKinds, RunHook(u, k)
      PROVE  SchemaInv'
  <2>1. WorkloadHook(u, k) /\ UNCHANGED <<inUse, running, revision>>
    BY <1>6, RunKeeps DEF RunHook
  <2>2. \A v \in Units : config \in hooks[v] => config \in hooks'[v] \/ (v = u /\ k = config)
    BY <1>1, <1>6, RunKeeps
  <2>3. CASE Migrate(u, k)
    BY <1>2, <1>3, <1>4, <2>1, <2>2, <2>3, MigrateMigrates
  <2>4. CASE ~(InPlay /\ k \in Reconciling) /\ UNCHANGED <<schema, unmigrated>>
    BY <1>1, <1>2, <1>3, <1>4, <2>1, <2>2, <2>4
  <2> QED BY <2>1, <2>3, <2>4 DEF WorkloadHook, Reconcile
<1>7. ASSUME NEW e \in Endpoints, NewIntegration(e)
      PROVE  SchemaInv'
  <2>1. Fresh(e) /\ NewLink(e)
    BY <1>7, IntegrateFresh DEF NewIntegration
  <2> QED BY <1>5, <2>1 DEF Fresh, NewLink
<1>8. ASSUME NEW u \in Units, Elect(u)
      PROVE  SchemaInv'
  <2>1. Moved(u) /\ WorkloadElect
    BY <1>8, ElectMoved DEF Elect
  <2> QED BY <1>1, <1>5, <2>1 DEF Moved, WorkloadElect
<1>9. ASSUME NEW u \in Units, StartPod(u)
      PROVE  SchemaInv'
  <2>1. Replaced(u) /\ WorkloadPod(u)
    BY <1>9, PodReplaced DEF StartPod
  <2>2. config \in hooks'[u] /\ \A v \in Units : config \in hooks[v] => config \in hooks'[v]
    BY <1>1, <2>1 DEF Replaced, config
  <2> QED BY <1>5, <2>1, <2>2 DEF Replaced, WorkloadPod
<1>10. CASE Beside
  <2>1. Kept
    BY <1>10, QuietKept DEF Beside
  <2>2. UNCHANGED <<inUse, running>> /\ \A v \in Units : config \in hooks[v] => config \in hooks'[v]
    BY <1>1, <1>10, <2>1, QuietKeeps DEF Beside, Kept
  <2>3. CASE revision' = revision + 1
    <3>1. PICK v \in Units : TRUE
      BY UnitsAssumption
    <3>2. running'[v] # revision'
      BY <2>2, <2>3, Numbers
    <3> QED BY <1>3, <3>2
  <2>4. CASE revision' = revision
    <3>1. CASE UNCHANGED <<schema, unmigrated>>
      BY <1>5, <2>2, <2>4, <3>1
    <3>2. ASSUME NEW u \in Units, SchemaUpgradeAction(u)
          PROVE  SchemaInv'
      <4>1. unmigrated' = unmigrated
        BY <3>2 DEF SchemaUpgradeAction
      <4>2. ~\A t \in Targets : schema[t] = revision
        <5>1. PICK t \in Targets : schema[t] < running[u]
          BY <3>2 DEF SchemaUpgradeAction, Pending
        <5>2. schema[t] # revision
          BY <5>1, Numbers DEF WorkloadTypeOK
        <5> QED BY <5>2
      <4> QED BY <1>2, <1>3, <1>4, <2>2, <2>4, <4>1, <4>2
    <3> QED BY <1>10, <3>1, <3>2 DEF Beside, WorkloadStep, PublishLink, SetOptions, workloadVars
  <2> QED BY <2>1, <2>3, <2>4 DEF Kept
<1> QED BY <1>6, <1>7, <1>8, <1>9, <1>10, NextParts DEF JujuInv

LEMMA InitSchema == Init => SchemaInv
BY DEF Init, JujuInit, WorkloadInit, SchemaInv

(* A unit that has not yet run its config-changed hook, or not yet rolled out *)
(* the revision, is what stands between a refresh and the new schema.         *)
THEOREM SchemaSettles == Spec => []SettledSchema
<1>1. TypeInv => JujuInv /\ WorkloadTypeOK
  BY DEF TypeInv, TypeOK, JujuInv
<1>2. TypeInv' => JujuInv' /\ WorkloadTypeOK'
  BY DEF TypeInv, TypeOK, JujuInv
<1>3. TypeInv /\ TypeInv' /\ SchemaInv /\ [Next]_vars => SchemaInv'
  BY <1>1, <1>2, SchemaKept
<1>4. SchemaInv => SettledSchema
  BY DEF SchemaInv, SettledSchema, Settled
<1> QED BY <1>3, <1>4, InitSchema, Typed, PTL DEF Spec

-----------------------------------------------------------------------------
(* send-otlp.                                                                *)

LEMMA RulesKept ==
    ASSUME JujuInv, RulesInv, [Next]_vars
    PROVE  RulesInv'
<1> DEFINE created == <<"send-otlp", "created">>
           upgrade == <<"upgrade-charm">>
<1>1. leader \in Units /\ leader' \in Units
  BY NextIsJujuStep, JujuTypesKept DEF JujuInv, JujuTypeOK
<1>2. "send-otlp" \in Endpoints /\ "created" \in RelationEvents
  BY DEF Endpoints, RelationEvents
<1>3. /\ created \in HookKinds /\ upgrade \in HookKinds /\ upgrade \in CharmEvents
      /\ created # <<"leader-elected">> /\ upgrade # <<"leader-elected">>
  BY <1>2, Kinds DEF CharmEvents
<1> HIDE DEF created, upgrade
<1>4. RulesInv <=> (Serving("send-otlp") /\ ~rulesMissed =>
          \/ alertRules = revision \/ running[leader] # revision
          \/ created \in hooks[leader] \/ upgrade \in hooks[leader])
  BY DEF RulesInv, created, upgrade
<1>5. RulesInv' <=> (Serving("send-otlp")' /\ ~rulesMissed' =>
          \/ alertRules' = revision' \/ running'[leader'] # revision'
          \/ created \in hooks'[leader'] \/ upgrade \in hooks'[leader'])
  BY DEF RulesInv, created, upgrade
<1>6. ASSUME NEW u \in Units, NEW k \in HookKinds, RunHook(u, k)
      PROVE  RulesInv'
  <2> SUFFICES ASSUME Serving("send-otlp")', ~rulesMissed', running'[leader'] = revision',
                      created \notin hooks'[leader'], upgrade \notin hooks'[leader']
               PROVE  alertRules' = revision'
    BY <1>5
  <2>1. /\ Serving("send-otlp") /\ "send-otlp" \in Visible(u, k)
        /\ UNCHANGED <<leader, running, revision>>
    BY <1>2, <1>6, RunKeeps
  <2>2. PublishRules(u, k)
    BY <1>6 DEF RunHook, WorkloadHook
  <2>3. CASE u = leader /\ PublishingRules(k)
    BY <2>1, <2>2, <2>3 DEF PublishRules
  <2>4. CASE ~(u = leader /\ PublishingRules(k))
    <3>1. UNCHANGED <<alertRules, rulesMissed>>
      BY <2>2, <2>4 DEF PublishRules
    <3>2. PublishingRules(created) /\ PublishingRules(upgrade)
      BY DEF PublishingRules, created, upgrade
    <3>3. created \notin hooks[leader] /\ upgrade \notin hooks[leader]
      BY <1>1, <1>3, <1>6, <2>1, <2>4, <3>2, RunKeeps
    <3> QED BY <1>4, <2>1, <3>1, <3>3
  <2> QED BY <2>3, <2>4
<1>7. ASSUME NEW e \in Endpoints, NewIntegration(e)
      PROVE  RulesInv'
  <2>1. Fresh(e) /\ NewLink(e)
    BY <1>7, IntegrateFresh DEF NewIntegration
  <2>2. CASE e = "send-otlp"
    BY <1>1, <1>5, <2>1, <2>2 DEF Fresh, created
  <2>3. CASE e # "send-otlp"
    <3>1. UNCHANGED <<alertRules, rulesMissed, leader, running, revision>>
      BY <2>1, <2>3 DEF Fresh, NewLink
    <3>2. (Serving("send-otlp")' => Serving("send-otlp")) /\ \A v \in Units : hooks[v] \subseteq hooks'[v]
      BY <2>1, <2>3 DEF Fresh, Serving
    <3> QED BY <1>1, <1>4, <1>5, <3>1, <3>2
  <2> QED BY <2>2, <2>3
<1>8. ASSUME NEW u \in Units, Elect(u)
      PROVE  RulesInv'
  <2>1. Moved(u) /\ WorkloadElect
    BY <1>8, ElectMoved DEF Elect
  <2> QED BY <1>5, <2>1 DEF Moved, WorkloadElect, Serving
<1>9. ASSUME NEW u \in Units, StartPod(u)
      PROVE  RulesInv'
  <2>1. Replaced(u) /\ WorkloadPod(u)
    BY <1>9, PodReplaced DEF StartPod
  <2>2. \A v \in Units, h \in {created, upgrade} : h \in hooks[v] => h \in hooks'[v]
    BY <1>3, <2>1 DEF Replaced
  <2>3. /\ Serving("send-otlp")' => Serving("send-otlp")
        /\ UNCHANGED <<leader, revision>>
        /\ \A v \in Units : running'[v] = running[v] \/ upgrade \in hooks'[v]
    BY <2>1 DEF Replaced, Serving, upgrade
  <2> QED BY <1>1, <1>4, <1>5, <2>1, <2>2, <2>3 DEF WorkloadPod
<1>10. CASE Beside
  <2>1. Kept /\ (Serving("send-otlp")' => Serving("send-otlp"))
    BY <1>2, <1>10, QuietKept, QuietKeeps DEF Beside
  <2>2. ASSUME NEW v \in Units, Serving("send-otlp")'
        PROVE  (created \in hooks[v] => created \in hooks'[v]) /\ (upgrade \in hooks[v] => upgrade \in hooks'[v])
    BY <1>2, <1>3, <1>10, <2>2, QuietKeeps DEF Beside, created
  <2>3. UNCHANGED <<leader, running>> /\ (revision' = revision \/ running'[leader] # revision')
    BY <1>1, <2>1, Numbers DEF Kept
  <2>4. UNCHANGED <<alertRules, rulesMissed>>
    BY <1>10 DEF Beside, WorkloadStep, PublishLink, SchemaUpgradeAction, SetOptions, workloadVars
  <2> QED BY <1>1, <1>4, <1>5, <2>1, <2>2, <2>3, <2>4
<1> QED BY <1>6, <1>7, <1>8, <1>9, <1>10, NextParts DEF JujuInv

LEMMA InitRules == Init => RulesInv
BY DEF Init, JujuInit, RulesInv, Serving

(* The rules in the databag are those of the revision that runs, unless the   *)
(* leadership moved before they were published.                              *)
THEOREM RulesSettle == Spec => []SettledRules
<1>1. TypeInv => JujuInv
  BY DEF TypeInv, TypeOK, JujuInv
<1>2. TypeInv /\ RulesInv /\ [Next]_vars => RulesInv'
  BY <1>1, RulesKept
<1>3. TypeInv /\ RulesInv => SettledRules
  BY DEF TypeInv, TypeOK, JujuTypeOK, RulesInv, SettledRules, Settled, Serving
<1> QED BY <1>2, <1>3, InitRules, Typed, PTL DEF Spec

-----------------------------------------------------------------------------
(* The Pebble layer.                                                         *)

(* What get_env_vars reads in unit u after the step is what hook k of unit u  *)
(* saw, the leadership apart.                                                *)
SameView(u, k) ==
    /\ Airgapped(u, NoHook)' <=> Airgapped(u, k)
    /\ Cve(u, NoHook)' <=> Cve(u, k)
    /\ Otlp(u, NoHook)' <=> Otlp(u, k)
    /\ UNCHANGED <<options, resourceToken, inUse>>

(* Nothing but leader-elected is to reconcile unit u. *)
AlmostIdle(u) == hooks[u] \cap Reconciling \subseteq {<<"leader-elected">>}

LEMMA EnvOfView ==
    ASSUME NEW u, NEW k, SameView(u, k)
    PROVE  /\ \A key \in Keys \ LeaderKeys : Env(u, NoHook)'[key] = Env(u, k)[key]
           /\ leader' = leader => Env(u, NoHook)' = Env(u, k)
           /\ Open(u)' <=> InPlay /\ TokenSet(u, k) /\ OtlpSet(u, k)
<1>1. Airgapped(u, NoHook)' = Airgapped(u, k)
  BY DEF SameView, Airgapped
<1>2. Cve(u, NoHook)' = Cve(u, k)
  BY DEF SameView, Cve
<1>3. Otlp(u, NoHook)' = Otlp(u, k)
  BY DEF SameView, Otlp
<1>4. options' = options /\ resourceToken' = resourceToken /\ inUse' = inUse
  BY DEF SameView
<1>5. Open(u)' <=> InPlay /\ TokenSet(u, k) /\ OtlpSet(u, k)
  BY <1>1, <1>3, <1>4 DEF Open, InPlay, TokenSet, OtlpSet
<1>6. leader' = leader => Env(u, NoHook)' = Env(u, k)
  BY <1>1, <1>2, <1>3, <1>4 DEF Env
<1>7. \A key \in Keys \ LeaderKeys : Env(u, NoHook)'[key] = Env(u, k)[key]
  BY <1>1, <1>3, <1>4 DEF Env, Keys, LeaderKeys
<1> QED BY <1>5, <1>6, <1>7

LEMMA LayerStays ==
    ASSUME NEW u, NEW ks \in SUBSET Keys, SameView(u, NoHook), layer'[u] = layer[u],
           leader' = leader \/ ks \cap LeaderKeys = {}, UpToDate(u, ks)
    PROVE  UpToDate(u, ks)'
<1>1. \A key \in ks : Env(u, NoHook)'[key] = Env(u, NoHook)[key]
  BY EnvOfView
<1> QED BY <1>1 DEF UpToDate, Current

(* A reconciliation that passes the gates leaves every key up to date. *)
LEMMA LayerMade ==
    ASSUME WorkloadTypeOK, NEW u \in Units, NEW k, Reconcile(u, k), SameView(u, k), leader' = leader, Open(u)'
    PROVE  UpToDate(u, Keys)'
<1> DEFINE old == IF layer[u] = None THEN NoLayer ELSE layer[u]
           env == Env(u, k)
<1>1. Env(u, NoHook)' = env /\ TokenSet(u, k) /\ OtlpSet(u, k)
  BY EnvOfView
<1>2. layer'[u] = Merged(old, env)
  BY <1>1 DEF Reconcile, WorkloadTypeOK
<1>3. Merged(old, env) # None
  BY LayerTypes, NoLayerAssumption DEF WorkloadTypeOK
<1>4. \A key \in Keys : Merged(old, env)[key] = IF env[key] # None THEN env[key]
                                                ELSE IF key \in ExplicitKeys THEN "empty" ELSE old[key]
  BY DEF Merged
<1> HIDE DEF old, env
<1> QED BY <1>1, <1>2, <1>3, <1>4 DEF UpToDate, Current

LEMMA ReconcilingHooks ==
    /\ Reconciling \subseteq HookKinds
    /\ NoHook \notin HookKinds
    /\ <<"config-changed">> # <<"leader-elected">>
    /\ \A h \in Reconciling : h \in CharmEvents \/ \E e \in Links, event \in RelationEvents : h = <<e, event>>
    /\ \A e \in Links : <<e, "changed">> \in Reconciling
    /\ {<<"pro-airgapped-server", "departed">>, <<"cve-catalog", "broken">>, <<"send-otlp", "broken">>}
          \subseteq Reconciling
    /\ Links \subseteq Endpoints
    /\ {"joined", "changed", "departed", "broken"} \subseteq RelationEvents
<1>1. Links \subseteq Endpoints /\ {"joined", "changed", "departed", "broken"} \subseteq RelationEvents
  BY DEF Links, Endpoints, RelationEvents
<1>2. Reconciling \subseteq HookKinds
  BY <1>1, Kinds DEF Reconciling, Links, CharmEvents
<1>3. NoHook \notin HookKinds /\ <<"config-changed">> # <<"leader-elected">>
  BY DEF NoHook, HookKinds, CharmEvents
<1>4. \A h \in Reconciling : h \in CharmEvents \/ \E e \in Links, event \in RelationEvents : h = <<e, event>>
  BY <1>1 DEF Reconciling, Links, CharmEvents
<1>5. \A e \in Links : <<e, "changed">> \in Reconciling
  BY DEF Reconciling, Links
<1>6. {<<"pro-airgapped-server", "departed">>, <<"cve-catalog", "broken">>, <<"send-otlp", "broken">>}
          \subseteq Reconciling
  BY DEF Reconciling
<1> QED BY <1>1, <1>2, <1>3, <1>4, <1>5, <1>6

(* What unit v sees of the three links depends on these hooks alone. *)
LEMMA ViewFrom ==
    ASSUME NEW v \in Units, NEW k,
           UNCHANGED <<options, resourceToken, inUse>>,
           \A e \in Links, event \in RelationEvents :
               <<e, event>> \in hooks'[v] <=> <<e, event>> \in hooks[v] \ {k},
           \A e \in Links : e \in related' \cap published' =>
               e \in related \cap published /\ (e \in dying <=> e \in dying'),
           \A e \in Links : e \in related \cap published /\ e \notin related' \cap published' =>
               e \in dying /\ \A event \in RelationEvents : <<e, event>> \notin hooks'[v]
    PROVE  SameView(v, k)
<1>1. \A e \in Links, event \in RelationEvents : <<e, event>> \in hooks'[v] \ {NoHook} <=> <<e, event>> \in hooks[v] \ {k}
  BY DEF NoHook
<1>2. {"joined", "departed", "broken"} \subseteq RelationEvents /\ Links = {"pro-airgapped-server", "cve-catalog", "send-otlp"}
  BY DEF RelationEvents, Links
<1>3. Airgapped(v, NoHook)' <=> Airgapped(v, k)
  BY <1>1, <1>2 DEF Airgapped
<1>4. \A e \in {"cve-catalog", "send-otlp"} :
          e \in published' \cap Visible(v, NoHook)' <=> e \in published \cap Visible(v, k)
  BY <1>1, <1>2 DEF Visible
<1>5. (Cve(v, NoHook)' <=> Cve(v, k)) /\ (Otlp(v, NoHook)' <=> Otlp(v, k))
  BY <1>4 DEF Cve, Otlp
<1> QED BY <1>3, <1>5 DEF SameView

(* A hook that leaves nothing to reconcile left the view its unit had. *)
LEMMA RunView ==
    ASSUME JujuInv, JujuInv', NEW u \in Units, NEW k \in HookKinds, RunHook(u, k), NEW v \in Units,
           v = u => AlmostIdle(u)'
    PROVE  SameView(v, IF v = u THEN k ELSE NoHook)
<1> DEFINE seen == IF v = u THEN k ELSE NoHook
<1>1. Ran(u, k) /\ UNCHANGED <<options, resourceToken, inUse, published>>
  BY RunKeeps DEF RunHook, WorkloadHook
<1>2. v = u => \A e \in Links : k # <<e, "joined">>
  <2> SUFFICES ASSUME v = u, NEW e \in Links, k = <<e, "joined">> PROVE FALSE
    OBVIOUS
  <2>1. hooks' = [hooks EXCEPT ![u] =
            (hooks[u] \ {k}) \cup {<<d, "changed">> : d \in {d \in Endpoints : k = <<d, "joined">>}}]
    BY DEF RunHook, Dequeue
  <2>2. <<e, "changed">> \in hooks'[u]
    BY <2>1, ReconcilingHooks DEF JujuInv, JujuTypeOK
  <2> QED BY <2>2, ReconcilingHooks DEF AlmostIdle
<1>3. \A e \in Links, event \in RelationEvents :
          <<e, event>> \in hooks'[v] <=> <<e, event>> \in hooks[v] \ {seen}
  <2> SUFFICES ASSUME NEW e \in Links, NEW event \in RelationEvents
               PROVE  <<e, event>> \in hooks'[v] <=> <<e, event>> \in hooks[v] \ {seen}
    OBVIOUS
  <2>1. <<e, event>> \in HookKinds
    BY Kinds, ReconcilingHooks
  <2>2. CASE v = u
    BY <1>1, <1>2, <2>1, <2>2 DEF Ran
  <2>3. CASE v # u
    BY <1>1, <2>1, <2>3, ReconcilingHooks DEF Ran
  <2> QED BY <2>2, <2>3
<1>4. \A e \in Links : e \in related' \cap published' =>
          e \in related \cap published /\ (e \in dying <=> e \in dying')
  BY <1>1 DEF Ran
<1>5. \A e \in Links : e \in related \cap published /\ e \notin related' \cap published' =>
          e \in dying /\ \A event \in RelationEvents : <<e, event>> \notin hooks'[v]
  BY <1>1, ReconcilingHooks DEF Ran, JujuInv, HookOrder
<1> HIDE DEF seen
<1>6. SameView(v, seen)
  BY <1>1, <1>3, <1>4, <1>5, ViewFrom
<1> QED BY <1>6 DEF seen

(* A hook that does not reconcile reveals nothing. *)
LEMMA IdleView ==
    ASSUME JujuInv, JujuInv', NEW u \in Units, NEW k \in HookKinds \ Reconciling, RunHook(u, k), AlmostIdle(u)'
    PROVE  SameView(u, NoHook) /\ AlmostIdle(u)
<1>1. Ran(u, k) /\ SameView(u, k)
  BY RunKeeps, RunView
<1>2. <<"pro-airgapped-server", "joined">> # k
  <2> SUFFICES ASSUME k = <<"pro-airgapped-server", "joined">> PROVE FALSE
    OBVIOUS
  <2>1. hooks' = [hooks EXCEPT ![u] =
            (hooks[u] \ {k}) \cup {<<d, "changed">> : d \in {d \in Endpoints : k = <<d, "joined">>}}]
    BY DEF RunHook, Dequeue
  <2>2. <<"pro-airgapped-server", "changed">> \in hooks'[u]
    BY <2>1, ReconcilingHooks DEF JujuInv, JujuTypeOK, Links
  <2> QED BY <2>2, ReconcilingHooks DEF AlmostIdle, Links
<1>3. k \notin {<<"pro-airgapped-server", "departed">>, <<"cve-catalog", "broken">>,
                <<"send-otlp", "broken">>, NoHook}
  BY ReconcilingHooks
<1>4. Airgapped(u, k) <=> Airgapped(u, NoHook)
  BY <1>2, <1>3, ReconcilingHooks, Kinds DEF Airgapped, NoHook, Links
<1>5. \A e \in {"cve-catalog", "send-otlp"} : e \in Visible(u, k) <=> e \in Visible(u, NoHook)
  BY <1>3 DEF Visible, NoHook
<1>6. (Cve(u, k) <=> Cve(u, NoHook)) /\ (Otlp(u, k) <=> Otlp(u, NoHook))
  BY <1>5 DEF Cve, Otlp
<1>7. AlmostIdle(u)
  BY <1>1, ReconcilingHooks DEF AlmostIdle, Ran
<1> QED BY <1>1, <1>4, <1>6, <1>7 DEF SameView

LEMMA QuietView ==
    ASSUME JujuInv, JujuInv', Beside, NEW v \in Units, AlmostIdle(v)'
    PROVE  SameView(v, NoHook) /\ hooks[v] \cap Reconciling \subseteq hooks'[v] /\ UNCHANGED <<leader, layer>>
<1>1. Kept
  BY QuietKept DEF Beside
<1>2. UNCHANGED <<leader, related, inUse>>
  BY <1>1 DEF Kept
<1>3. \A h \in Reconciling : h # <<"leader-elected">> => h \notin hooks'[v]
  BY DEF AlmostIdle
<1>4. UNCHANGED <<published, options, resourceToken, layer>>
  <2>1. ASSUME NEW e \in Links, PublishLink(e)
        PROVE  FALSE
    <3>1. <<e, "changed">> \in hooks'[v]
      BY <2>1 DEF PublishLink, Changed, Queue
    <3> QED BY <1>3, <3>1, ReconcilingHooks, Kinds DEF CharmEvents
  <2>2. ASSUME SetOptions
        PROVE  FALSE
    <3>1. <<"config-changed">> \in hooks'[v]
      BY <2>2 DEF SetOptions, Queue
    <3> QED BY <1>3, <3>1, ReconcilingHooks DEF Reconciling
  <2>3. ASSUME NEW u \in Units, SchemaUpgradeAction(u)
        PROVE  UNCHANGED <<published, options, resourceToken, layer>>
    BY <2>3 DEF SchemaUpgradeAction
  <2> QED BY <2>1, <2>2, <2>3 DEF Beside, WorkloadStep, workloadVars
<1>5. /\ \A e \in Links : e \in dying <=> e \in dying'
      /\ \A e \in Links, event \in RelationEvents : <<e, event>> \in hooks'[v] <=> <<e, event>> \in hooks[v]
      /\ \A h \in CharmEvents : h \in hooks[v] => h \in hooks'[v]
  <2>1. CASE UNCHANGED <<dying, hooks>>
    BY <2>1
  <2>2. ASSUME NEW e \in Endpoints, Remove(e)
        PROVE  /\ \A d \in Links : d \in dying <=> d \in dying'
               /\ \A d \in Links, event \in RelationEvents : <<d, event>> \in hooks'[v] <=> <<d, event>> \in hooks[v]
    <3>1. /\ hooks'[v] = (hooks[v] \ ({e} \X RelationEvents))
                  \cup {<<e, "departed">>, <<e, "broken">>} \cup (hooks[v] \cap {failed[v]})
          /\ dying' = dying \cup {e}
      BY <2>2 DEF Remove
    <3>2. e \notin Links
      BY <1>3, <3>1, ReconcilingHooks, Kinds DEF Links, CharmEvents
    <3>3. \A d \in Links, event \in RelationEvents : <<d, event>> \in hooks'[v] <=> <<d, event>> \in hooks[v]
      BY <3>1, <3>2
    <3> QED BY <3>1, <3>2, <3>3
  <2>3. CASE Announces
    <3>1. dying' = dying
      BY <2>3 DEF Announces, topology
    <3>2. ASSUME NEW e \in related \ dying, hooks'[v] = hooks[v] \cup {<<e, "changed">>}
          PROVE  \A d \in Links, event \in RelationEvents : <<d, event>> \in hooks'[v] <=> <<d, event>> \in hooks[v]
      <4>1. e \notin Links
        BY <1>3, <3>2, ReconcilingHooks, Kinds DEF CharmEvents
      <4> QED BY <3>2, <4>1
    <3>3. ASSUME hooks'[v] = hooks[v] \cup {<<"config-changed">>}
          PROVE  FALSE
      BY <1>3, <3>3, ReconcilingHooks DEF Reconciling
    <3> QED BY <2>3, <3>1, <3>2, <3>3, AnnouncesIs, QuietKeeps DEF JujuInv, Beside
  <2>4. Quiet => UNCHANGED <<dying, hooks>> \/ Announces \/ \E e \in Endpoints : Remove(e)
    BY DEF Quiet, Raise, Refresh, topology, juju
  <2>5. \A h \in CharmEvents : h \in hooks[v] => h \in hooks'[v]
    BY QuietKeeps DEF Beside
  <2> QED BY <2>1, <2>2, <2>3, <2>4, <2>5 DEF Beside
<1>6. \A e \in Links, event \in RelationEvents : <<e, event>> # NoHook
  BY DEF NoHook
<1>7. SameView(v, NoHook)
  BY <1>2, <1>4, <1>5, <1>6, ViewFrom
<1>8. hooks[v] \cap Reconciling \subseteq hooks'[v]
  BY <1>5, ReconcilingHooks
<1> QED BY <1>2, <1>4, <1>7, <1>8

LEMMA LayerKept ==
    ASSUME JujuInv, JujuInv', WorkloadTypeOK, LayerInv, [Next]_vars
    PROVE  LayerInv'
<1> DEFINE Others == Keys \ LeaderKeys
<1>1. LeaderKeys \subseteq Keys /\ Others \subseteq Keys /\ Others \cap LeaderKeys = {}
  BY DEF LeaderKeys, Keys
<1>2. LayerInv <=> \A v \in Units : Open(v) =>
          /\ AlmostIdle(v) => UpToDate(v, Others)
          /\ v = leader /\ hooks[v] \cap Reconciling = {} => UpToDate(v, LeaderKeys)
  BY DEF LayerInv, AlmostIdle
<1>3. LayerInv' <=> \A v \in Units : Open(v)' =>
          /\ AlmostIdle(v)' => UpToDate(v, Others)'
          /\ v = leader' /\ hooks'[v] \cap Reconciling = {} => UpToDate(v, LeaderKeys)'
  BY DEF LayerInv, AlmostIdle
<1>4. \A v : (hooks'[v] \cap Reconciling = {} => AlmostIdle(v)') /\ (hooks[v] \cap Reconciling = {} => AlmostIdle(v))
  BY DEF AlmostIdle
<1> HIDE DEF Others
(* A unit whose view and layer stay. *)
<1>5. ASSUME NEW v \in Units, SameView(v, NoHook), layer'[v] = layer[v], leader' = leader,
             hooks[v] \cap Reconciling \subseteq hooks'[v], Open(v)'
      PROVE  /\ AlmostIdle(v)' => UpToDate(v, Others)'
             /\ v = leader' /\ hooks'[v] \cap Reconciling = {} => UpToDate(v, LeaderKeys)'
  <2>1. Open(v)
    BY <1>5, EnvOfView DEF Open
  <2>2. AlmostIdle(v)' => AlmostIdle(v)
    BY <1>5 DEF AlmostIdle
  <2>3. hooks'[v] \cap Reconciling = {} => hooks[v] \cap Reconciling = {}
    BY <1>5
  <2> QED BY <1>1, <1>2, <1>5, <2>1, <2>2, <2>3, LayerStays
<1>6. ASSUME NEW u \in Units, NEW k \in HookKinds, RunHook(u, k)
      PROVE  LayerInv'
  <2> SUFFICES ASSUME NEW v \in Units, Open(v)', AlmostIdle(v)'
               PROVE  /\ UpToDate(v, Others)'
                      /\ v = leader' /\ hooks'[v] \cap Reconciling = {} => UpToDate(v, LeaderKeys)'
    BY <1>3, <1>4
  <2>1. Ran(u, k) /\ leader' = leader /\ WorkloadHook(u, k)
    BY <1>6, RunKeeps DEF RunHook
  <2>2. CASE v # u
    <3>1. SameView(v, NoHook)
      BY <1>6, <2>2, RunView
    <3>2. layer'[v] = layer[v]
      BY <2>1, <2>2 DEF WorkloadHook, Reconcile, WorkloadTypeOK
    <3> QED BY <1>5, <2>1, <2>2, <3>1, <3>2 DEF Ran
  <2>3. CASE v = u /\ Reconcile(u, k)
    <3>1. SameView(u, k)
      BY <1>6, <2>3, RunView
    <3>2. UpToDate(u, Keys)'
      BY <2>1, <2>3, <3>1, LayerMade
    <3> QED BY <1>1, <2>3, <3>2 DEF UpToDate
  <2>4. CASE v = u /\ ~(InPlay /\ k \in Reconciling) /\ UNCHANGED layer
    <3>1. SameView(u, k)
      BY <1>6, <2>4, RunView
    <3>2. InPlay
      BY <2>4, <3>1, EnvOfView
    <3>3. k \notin Reconciling
      BY <2>4, <3>2
    <3>4. SameView(u, NoHook)
      BY <1>6, <2>4, <3>3, IdleView
    <3>5. hooks[u] \cap Reconciling \subseteq hooks'[u]
      BY <2>1, <3>3, ReconcilingHooks DEF Ran
    <3> QED BY <1>5, <2>1, <2>4, <3>4, <3>5
  <2>5. Reconcile(u, k) \/ (~(InPlay /\ k \in Reconciling) /\ UNCHANGED layer)
    BY <2>1 DEF WorkloadHook
  <2> QED BY <2>2, <2>3, <2>4, <2>5
<1>7. ASSUME NEW e \in Endpoints, NewIntegration(e)
      PROVE  LayerInv'
  <2>1. Fresh(e) /\ NewLink(e)
    BY <1>7, IntegrateFresh DEF NewIntegration
  <2>2. /\ UNCHANGED <<inUse, leader, dying, options, resourceToken, layer>>
        /\ related' = related \cup {e} /\ e \notin related /\ published' = published \ {e}
        /\ \A v \in Units : hooks'[v] = hooks[v] \cup {<<e, "created">>, <<e, "joined">>}
    BY <2>1 DEF Fresh, NewLink
  <2>3. e \notin dying
    BY <2>2 DEF JujuInv, JujuTypeOK
  <2> SUFFICES ASSUME NEW v \in Units
               PROVE  SameView(v, NoHook) /\ hooks[v] \cap Reconciling \subseteq hooks'[v]
    BY <1>3, <1>5, <2>2
  <2>4. (Airgapped(v, NoHook)' <=> Airgapped(v, NoHook))
    BY <2>2 DEF Airgapped, NoHook
  <2>5. \A d \in {"cve-catalog", "send-otlp"} :
            d \in published' \cap Visible(v, NoHook)' <=> d \in published \cap Visible(v, NoHook)
    BY <2>2 DEF Visible, NoHook
  <2> QED BY <2>2, <2>4, <2>5 DEF SameView, Cve, Otlp
<1>8. ASSUME NEW u \in Units, Elect(u)
      PROVE  LayerInv'
  <2>1. Moved(u) /\ WorkloadElect
    BY <1>8, ElectMoved DEF Elect
  <2>2. UNCHANGED <<inUse, related, dying, options, resourceToken, published, layer>> /\ leader' = u
        /\ <<"leader-elected">> \in hooks'[u]
    BY <2>1 DEF Moved, WorkloadElect
  <2> SUFFICES ASSUME NEW v \in Units, Open(v)', AlmostIdle(v)'
               PROVE  UpToDate(v, Others)'
    BY <1>3, <1>4, <2>2 DEF Reconciling
  <2>3. \A e \in Links, event \in RelationEvents : <<e, event>> \in hooks'[v] <=> <<e, event>> \in hooks[v]
    BY <2>1, ReconcilingHooks, Kinds DEF Moved, CharmEvents
  <2>4. \A e \in Links, event \in RelationEvents : <<e, event>> # NoHook
    BY DEF NoHook
  <2>5. SameView(v, NoHook)
    BY <2>2, <2>3, <2>4, ViewFrom
  <2>6. Open(v)
    BY <2>5, EnvOfView DEF Open
  <2>7. AlmostIdle(v)
    BY <2>1, ReconcilingHooks DEF Moved, AlmostIdle
  <2> QED BY <1>1, <1>2, <2>2, <2>5, <2>6, <2>7, LayerStays
<1>9. ASSUME NEW u \in Units, StartPod(u)
      PROVE  LayerInv'
  <2>1. Replaced(u) /\ WorkloadPod(u)
    BY <1>9, PodReplaced DEF StartPod
  <2>2. ~AlmostIdle(u)'
    BY <2>1, ReconcilingHooks DEF Replaced, AlmostIdle, Reconciling
  <2>3. ASSUME NEW v \in Units \ {u}
        PROVE  SameView(v, NoHook) /\ layer'[v] = layer[v] /\ hooks'[v] = hooks[v]
    <3>1. UNCHANGED <<inUse, related, dying, options, resourceToken, published>>
          /\ hooks'[v] = hooks[v] /\ layer'[v] = layer[v]
      BY <2>1 DEF Replaced, WorkloadPod, WorkloadTypeOK
    <3>2. \A e \in Links, event \in RelationEvents : <<e, event>> # NoHook
      BY DEF NoHook
    <3>3. SameView(v, NoHook)
      BY <3>1, <3>2, ViewFrom
    <3> QED BY <3>1, <3>3
  <2>4. leader' = leader
    BY <2>1 DEF Replaced
  <2> QED BY <1>3, <1>4, <1>5, <2>2, <2>3, <2>4
<1>10. CASE Beside
  <2> SUFFICES ASSUME NEW v \in Units, Open(v)', AlmostIdle(v)'
               PROVE  /\ UpToDate(v, Others)'
                      /\ v = leader' /\ hooks'[v] \cap Reconciling = {} => UpToDate(v, LeaderKeys)'
    BY <1>3, <1>4
  <2> QED BY <1>5, <1>10, QuietView
<1> QED BY <1>6, <1>7, <1>8, <1>9, <1>10, NextParts DEF JujuInv

LEMMA InitLayer == Init => LayerInv
<1> SUFFICES ASSUME Init, NEW u \in Units, Open(u)
             PROVE  UpToDate(u, Keys)
  BY DEF LayerInv, UpToDate, LeaderKeys, Keys
<1>1. layer[u] = Merged(NoLayer, Env(u, NoHook))
  BY DEF Init, WorkloadInit, Open
<1>2. layer[u] # None
  BY <1>1, LayerTypes, NoLayerAssumption
<1> QED BY <1>1, <1>2 DEF UpToDate, Current, Merged

(* What a reconciliation leaves in the layer stays what get_env_vars would    *)
(* build, until a hook that reconciles is queued: no key is left behind when  *)
(* an integration comes, goes or publishes, when an option is set or when the *)
(* leadership moves.                                                         *)
THEOREM LayerSettles == Spec => []SettledLayer
<1>1. TypeInv => JujuInv /\ WorkloadTypeOK
  BY DEF TypeInv, TypeOK, JujuInv
<1>2. TypeInv' => JujuInv'
  BY DEF TypeInv, TypeOK, JujuInv
<1>3. TypeInv /\ TypeInv' /\ LayerInv /\ [Next]_vars => LayerInv'
  BY <1>1, <1>2, LayerKept
<1>4. LayerInv => SettledLayer
  BY DEF LayerInv, UpToDate, SettledLayer, Settled, Binding, LeaderKeys, Keys
<1> QED BY <1>3, <1>4, InitLayer, Typed, PTL DEF Spec
=============================================================================
