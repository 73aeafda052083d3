------------------------------ MODULE CharmHooks ------------------------------
(***************************************************************************)
(* Juju, as the integration libraries of the charm see it: hooks that run   *)
(* one at a time in each unit, each on a new charm object; the leadership   *)
(* lease; pods that are replaced; charm revisions; the ingress-interface    *)
(* option. Every hook commits as a whole. The libraries react to the hooks  *)
(* in the modules that extend this one; module Integrations composes them.  *)
(***************************************************************************)
EXTENDS Naturals, FiniteSets

CONSTANTS
    Units,          \* the units of the Livepatch application
    Scenarios,      \* sets of endpoints; an instance uses those of one of them
    Faults,         \* the disturbances that occur
    MaxFaults,      \* bound: how many
    MaxElections,   \* bound: how often the leadership moves
    None            \* nothing published, nothing stored

Endpoints ==
    {"ingress", "nginx-route", "metrics-endpoint", "grafana-dashboard", "send-traces",
     "send-otlp", "pro-airgapped-server", "cve-catalog"}

ASSUME UnitsAssumption == Units # {}
ASSUME ScenariosAssumption == Scenarios # {} /\ \A s \in Scenarios : s \subseteq Endpoints
ASSUME BoundsAssumption == MaxFaults \in Nat /\ MaxElections \in Nat

(* The values of ingress-interface: the two valid ones and any other. *)
Methods == {"legacy-nginx-route", "ingress", "invalid"}

(* The endpoints on which the option has an effect. *)
Exposing == {"ingress", "nginx-route"}

RelationEvents == {"created", "joined", "changed", "departed", "broken"}
CharmEvents == {<<"config-changed">>, <<"leader-elected">>, <<"upgrade-charm">>}
HookKinds == (Endpoints \X RelationEvents) \cup CharmEvents

ASSUME NoneAssumption == None \notin Nat /\ None \notin HookKinds

VARIABLES
    inUse,      \* the endpoints of this instance
    leader,     \* the unit holding the leadership lease
    elections,  \* how often it moved
    related,    \* the endpoints that are integrated, dying ones included
    dying,      \* the endpoints whose integration is being removed
    hooks,      \* per unit, the hooks to run
    failed,     \* per unit, the hook that raised and is retried first, or None
    ip,         \* per unit, the incarnation of its pod, which is its address
    revision,   \* the charm revision of the application
    running,    \* per unit, the revision its pod runs
    method,     \* ingress-interface
    faults      \* disturbances so far

topology == <<inUse, leader, elections, related, dying>>
pods == <<ip, revision, running>>
juju == <<topology, hooks, failed, pods, method, faults>>

JujuInit ==
    /\ inUse \in Scenarios
    /\ leader \in Units
    /\ elections = 0
    /\ related = {} /\ dying = {}
    /\ hooks = [u \in Units |-> {}]
    /\ failed = [u \in Units |-> None]
    /\ ip = [u \in Units |-> 1]
    /\ revision = 1
    /\ running = [u \in Units |-> 1]
    /\ method \in IF inUse \cap Exposing = {} THEN {"legacy-nginx-route"} ELSE Methods \ {"invalid"}
    /\ faults = 0

Addresses == 1..(2 * MaxFaults + 1)
Revisions == 1..(MaxFaults + 1)

JujuTypeOK ==
    /\ inUse \in Scenarios
    /\ leader \in Units
    /\ elections \in 0..MaxElections
    /\ related \subseteq inUse /\ dying \subseteq related
    /\ hooks \in [Units -> SUBSET HookKinds]
    /\ failed \in [Units -> HookKinds \cup {None}]
    /\ ip \in [Units -> Addresses]
    /\ revision \in Revisions
    /\ running \in [Units -> 1..revision]
    /\ method \in Methods
    /\ faults \in 0..MaxFaults

(* What a unit sees while it runs hook k: a dying integration is gone from   *)
(* its broken hook on.                                                       *)
Visible(u, k) ==
    {e \in related : e \in dying => <<e, "broken">> \in hooks[u] \ {k}}

Queue(us, kinds) ==
    [u \in Units |-> IF u \in us THEN hooks[u] \cup kinds ELSE hooks[u]]

(* The remote application changed its databag. *)
Changed(e) == Queue(Units, {<<e, "changed">>})

-----------------------------------------------------------------------------
(* The order in which Juju runs the hooks of one integration.                *)
Rank(event) ==
    [created |-> 1, joined |-> 2, changed |-> 3, departed |-> 4, broken |-> 5][event]

Runs(u, k) ==
    /\ k \in hooks[u]
    /\ failed[u] \in {None, k}
    /\ k \in Endpoints \X RelationEvents =>
          \A event \in RelationEvents :
              <<k[1], event>> \in hooks[u] => Rank(k[2]) <= Rank(event)

(* A fault: an integration that is gone stays on the list of dying ones. *)
DequeueStillDying(u, k) ==
    /\ Runs(u, k)
    /\ hooks' = [hooks EXCEPT ![u] =
          (@ \ {k}) \cup {<<e, "changed">> : e \in {e \in Endpoints : k = <<e, "joined">>}}]
    /\ related' = related \ {e \in dying : \A v \in Units : <<e, "broken">> \notin hooks'[v]}
    /\ failed' = [failed EXCEPT ![u] = None]
    /\ UNCHANGED <<inUse, leader, elections, dying, pods, method, faults>>

(* Hook k of unit u ends well. relation-changed follows relation-joined; an  *)
(* integration is gone when every unit has run its broken hook.              *)
Dequeue(u, k) ==
    /\ Runs(u, k)
    /\ hooks' = [hooks EXCEPT ![u] =
          (@ \ {k}) \cup {<<e, "changed">> : e \in {e \in Endpoints : k = <<e, "joined">>}}]
    /\ LET gone == {e \in dying : \A v \in Units : <<e, "broken">> \notin hooks'[v]}
       IN  related' = related \ gone /\ dying' = dying \ gone
    /\ failed' = [failed EXCEPT ![u] = None]
    /\ UNCHANGED <<inUse, leader, elections, pods, method, faults>>

(* Hook k of unit u raises: nothing of it is committed. *)
Raise(u, k) ==
    /\ Runs(u, k)
    /\ failed' = [failed EXCEPT ![u] = k]
    /\ UNCHANGED <<topology, hooks, pods, method, faults>>

Integrate(e) ==
    /\ e \in inUse \ related
    /\ related' = related \cup {e}
    /\ hooks' = Queue(Units, {<<e, "created">>, <<e, "joined">>})
    /\ UNCHANGED <<inUse, leader, elections, dying, failed, pods, method, faults>>

Fault(f) ==
    /\ f \in Faults
    /\ faults < MaxFaults
    /\ faults' = faults + 1

Remove(e) ==
    /\ Fault("remove")
    /\ e \in related \ dying
    /\ dying' = dying \cup {e}
    /\ hooks' = [u \in Units |->
          (hooks[u] \ ({e} \X RelationEvents)) \cup {<<e, "departed">>, <<e, "broken">>}
              \cup (hooks[u] \cap {failed[u]})]
    /\ UNCHANGED <<inUse, leader, elections, related, failed, pods, method>>

(* leader-elected runs in the new leader, and only while it leads. *)
ElectLeader(u) ==
    /\ elections < MaxElections
    /\ elections' = elections + 1
    /\ u # leader
    /\ leader' = u
    /\ hooks' = [v \in Units |->
          IF v = u THEN hooks[v] \cup {<<"leader-elected">>}
          ELSE hooks[v] \ ({<<"leader-elected">>} \ {failed[v]})]
    /\ UNCHANGED <<inUse, related, dying, failed, pods, method, faults>>

Configure(m) ==
    /\ Fault("configure")
    /\ inUse \cap Exposing # {}
    /\ m # method
    /\ method' = m
    /\ hooks' = Queue(Units, {<<"config-changed">>})
    /\ UNCHANGED <<topology, failed, pods>>

(* A new pod has a new address and runs the current revision. *)
NewPod(u) ==
    /\ ip' = [ip EXCEPT ![u] = @ + 1]
    /\ running' = [running EXCEPT ![u] = revision]
    /\ hooks' = Queue({u}, {<<"upgrade-charm">>, <<"config-changed">>})
    /\ UNCHANGED <<topology, failed, revision, method>>

Refresh ==
    /\ Fault("refresh")
    /\ revision' = revision + 1
    /\ UNCHANGED <<topology, hooks, failed, ip, running, method>>

RollOut(u) == running[u] # revision /\ NewPod(u) /\ UNCHANGED faults

ReplacePod(u) == Fault("pod") /\ NewPod(u)

Settled == \A u \in Units : hooks[u] = {} /\ running[u] = revision
=============================================================================
