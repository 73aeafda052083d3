----------------------- MODULE CharmQuiescence_proofs -----------------------
(***************************************************************************)
(* What the units settle on, for every set of units, of connections and of  *)
(* settings, while the lease stays and one main database is integrated at a *)
(* time: every unit serves from the databag if it can, and the databag      *)
(* holds what the integrated databases publish. The connection of an        *)
(* endpoint is followed from what it publishes, through the leader's        *)
(* pending hook, its snapshot and the notices it keeps, to the databag, and *)
(* from there to the other units; its removal, back from the broken hook.   *)
(***************************************************************************)
EXTENDS CharmLeader_proofs, CharmEndpoints_proofs

KeyOf(e) == IF e = "metrics_db" THEN "dsn_metrics" ELSE "dsn"

(* The operator removes a main database before it integrates the other.      *)
OneMain == ~ \A e \in MainEndpoints : rel[e] # "absent"

(* A dying endpoint whose broken hook the unit has run.                      *)
Over(u, e) == e \in dying /\ Broken(e) \notin pending[u] /\ hook[u].main # Broken(e)

-----------------------------------------------------------------------------
(* An endpoint that is being removed, and what hooks have seen of it.        *)
DyingUnit(u) ==
    \A e \in AllEndpoints :
        /\ Broken(e) \in pending[u] => e \in dying /\ hook[u].main # Broken(e)
        /\ hook[u].main = Broken(e) => e \in dying

SeenUnit(u) ==
    \A e \in AllEndpoints :
        ~Idle(u) /\ hook[u].seen.rel[e] # "absent" =>
            /\ rel[e] # "absent" /\ hook[u].main # Broken(e)
            /\ e \in dying => Broken(e) \in pending[u]
            /\ hook[u].seen.rel[e] \in Creds => rel[e] \in Creds

RemovalInv ==
    /\ \A e \in dying : rel[e] # "absent"
    /\ \A u \in Units : DyingUnit(u) /\ SeenUnit(u) /\ Actions \cap pending[u] = {}

(* What the leader's hook has not written it reads from the databag.         *)
Reads(u) == ~Idle(u) => \A k \in Keys \ hook[u].wrote : hook[u].view[k] = peer[k]

Holds(u, key, v) == peer[key] = v /\ (~Idle(u) => hook[u].view[key] = v)

Withdrawn(u, e) == Over(u, e) => Holds(u, KeyOf(e), None)

(* The hook that clears the connection of the endpoint, before it has.       *)
Clears(u, e) ==
    ~Idle(u) =>
        /\ hook[u].main = Broken(e) =>
              hook[u].view[KeyOf(e)] = None \/ HasKind(Broken(e), hook[u].todo)
        /\ HasKind(Broken(e), hook[u].kept) => hook[u].view[KeyOf(e)] = None

(* No broken event of an earlier integration is stored.                      *)
Unspoiled(u, e) == rel[e] # "absent" /\ ~Over(u, e) => ~HasKind(Broken(e), deferred[u])

-----------------------------------------------------------------------------
LEMMA EndpointKinds ==
    /\ \A e \in AllEndpoints : \A f \in AllEndpoints :
          /\ Broken(e) = Broken(f) => e = f
          /\ Changed(e) = Changed(f) => e = f
          /\ Changed(e) # Broken(f)
    /\ \A e \in AllEndpoints :
          {Changed(e), Broken(e)} \cap
             (Actions \cup ReconcilingKinds \cup {None, LegacyJoined, "other", "stop",
                 "livepatch_relation_changed", "update_status"}) = {}
    /\ \A e \in MainEndpoints : e \in AllEndpoints /\ Broken(e) \in OwnEvents /\ KeyOf(e) = "dsn"
    /\ {KeyOf(e) : e \in AllEndpoints} = {"dsn", "dsn_metrics"}
    /\ \A e \in AllEndpoints : KeyOf(e) \in Keys /\ (KeyOf(e) = "dsn" <=> e \in MainEndpoints)
<1>1. /\ Broken("database") = "database_relation_broken"
      /\ Broken("database_legacy") = "database_legacy_relation_broken"
      /\ Broken("metrics_db") = "metrics_db_relation_broken"
  BY DEF Broken
<1>2. /\ Changed("database") = "database_relation_changed"
      /\ Changed("metrics_db") = "metrics_db_relation_changed"
      /\ Changed("database_legacy") = "master_changed"
  BY EventKinds
<1>3. \A e \in AllEndpoints : \A f \in AllEndpoints :
          /\ Broken(e) = Broken(f) => e = f
          /\ Changed(e) = Changed(f) => e = f
          /\ Changed(e) # Broken(f)
  BY <1>1, <1>2 DEF AllEndpoints
<1>4. ASSUME NEW e \in AllEndpoints
      PROVE  {Changed(e), Broken(e)} \cap
             (Actions \cup ReconcilingKinds \cup {None, LegacyJoined, "other", "stop",
                 "livepatch_relation_changed", "update_status"}) = {}
  <2>1. Changed(e) # None /\ Broken(e) # None
    BY KindsOfEndpoints, DataAssumption
  <2> QED
    BY <1>1, <1>2, <2>1 DEF AllEndpoints, Actions, ReconcilingKinds, LegacyJoined
<1>5. \A e \in MainEndpoints : e \in AllEndpoints /\ Broken(e) \in OwnEvents /\ KeyOf(e) = "dsn"
  BY DEF MainEndpoints, AllEndpoints, OwnEvents, MainBroken, KeyOf
<1>6. {KeyOf(e) : e \in AllEndpoints} = {"dsn", "dsn_metrics"}
  BY DEF KeyOf, AllEndpoints
<1>7. \A e \in AllEndpoints : KeyOf(e) \in Keys /\ (KeyOf(e) = "dsn" <=> e \in MainEndpoints)
  BY DEF KeyOf, AllEndpoints, Keys, MainEndpoints
<1> QED
  BY <1>3, <1>4, <1>5, <1>6, <1>7

-----------------------------------------------------------------------------
(* What a step of another unit, of Juju or of the operator may change for a  *)
(* unit whose hook it leaves alone.                                          *)

(* juju resolved --no-retry of its failed hook.                              *)
GivesUp(u) == failed[u] # None /\ failed'[u] = None /\ hook'[u] = hook[u]

EndpointAside(u, e) ==
    /\ e \in dying => e \in dying'
    /\ e \in dying' /\ e \notin dying => rel[e] # "absent" /\ Broken(e) \in pending'[u]
    /\ \/ rel'[e] = rel[e]
       \/ rel[e] = "absent" /\ rel'[e] = "nodata"
       \/ /\ rel[e] # "absent" /\ rel'[e] \in Creds
          /\ e \notin dying' /\ Changed(e) \in pending'[u]
    /\ Broken(e) \in pending'[u] => Broken(e) \in pending[u] \/ (e \in dying' /\ e \notin dying)
    /\ Broken(e) \in pending[u] => Broken(e) \in pending'[u] \/ (GivesUp(u) /\ failed[u] = Broken(e))
    /\ Changed(e) \in pending[u] => Changed(e) \in pending'[u] \/ GivesUp(u) \/ e \in dying'

Aside(u) ==
    /\ hook'[u] = hook[u] /\ deferred'[u] = deferred[u]
    /\ ready => ready'
    /\ ready' => ready \/ pending'[u] # {}
    /\ pending[u] # {} => pending'[u] # {} \/ GivesUp(u)
    /\ Actions \cap pending'[u] \subseteq pending[u]
    /\ \A e \in AllEndpoints : EndpointAside(u, e)

(* Nothing but more hooks to run.                                            *)
LEMMA MoreHooks ==
    ASSUME NEW u \in Units, hook'[u] = hook[u], deferred'[u] = deferred[u],
           UNCHANGED <<rel, dying>>, ready => ready', ready' => ready \/ pending'[u] # {},
           pending[u] \subseteq pending'[u],
           pending'[u] \subseteq pending[u] \cup ReconcilingKinds
               \cup {LegacyJoined, "other", "stop", "livepatch_relation_changed"}
    PROVE  Aside(u)
<1>1. \A e \in AllEndpoints : Broken(e) \in pending'[u] => Broken(e) \in pending[u]
  BY EndpointKinds
<1>2. \A e \in AllEndpoints : EndpointAside(u, e)
  BY <1>1 DEF EndpointAside
<1>3. Actions \cap (ReconcilingKinds
               \cup {LegacyJoined, "other", "stop", "livepatch_relation_changed"}) = {}
  BY DEF Actions, ReconcilingKinds, LegacyJoined
<1> QED
  BY <1>2, <1>3 DEF Aside

LEMMA QuietAside ==
    ASSUME UnitInv, QuietStep, leader' = leader, NEW u \in Units
    PROVE  Aside(u)
<1>1. JujuTypes /\ CharmTypes
  BY TypeInvParts DEF UnitInv
<1>2. UNCHANGED <<hook, deferred, peer>>
  BY QuietHolds
<1>3. CASE PeerRelationCreated
  BY <1>2, <1>3, MoreHooks DEF PeerRelationCreated, Notify, worldVars
<1>4. ASSUME NEW v \in Units, NEW c \in {"livepatch", "schema"}, ContainerUp(v, c) \/ ContainerDown(v, c)
      PROVE  Aside(u)
  BY <1>2, <1>4, MoreHooks DEF ContainerUp, ContainerDown, Notify, jujuVars, ReconcilingKinds
<1>5. ASSUME NEW v \in Units, PodStop(v) PROVE Aside(u)
  BY <1>2, <1>5, MoreHooks DEF PodStop, Notify
<1>6. ASSUME NEW v \in Units, ElectLeader(v) PROVE Aside(u)
  BY <1>6 DEF ElectLeader
<1>7. ASSUME NEW v \in Units, Resolve(v) PROVE Aside(u)
  <2>1. UNCHANGED <<ready, rel, dying>>
    BY <1>7 DEF Resolve
  <2>2. CASE v = u
    <3>1. GivesUp(u) /\ pending'[u] = pending[u] \ {failed[u]}
      BY <1>1, <1>2, <1>7, <2>2 DEF Resolve, GivesUp, JujuTypes
    <3> QED
      BY <1>2, <2>1, <3>1 DEF Aside, EndpointAside
  <2>3. CASE v # u
    <3>1. pending'[u] = pending[u]
      BY <1>1, <1>7, <2>3 DEF Resolve, JujuTypes
    <3> QED
      BY <1>2, <2>1, <3>1, MoreHooks
  <2> QED
    BY <2>2, <2>3
<1>8. CASE ChangeConfig \/ ChangeLinks
  BY <1>2, <1>8, MoreHooks DEF ChangeConfig, ChangeLinks, Notify, ReconcilingKinds
<1>9. ASSUME NEW f \in Endpoints, Integrate(f) \/ Publish(f) PROVE Aside(u)
  <2>1. f \in AllEndpoints
    BY EndpointsAssumption
  <2>2. PICK k \in {LegacyJoined, Changed(f)}, v \in RelationData :
            /\ pending'[u] = pending[u] \cup {k}
            /\ rel' = [rel EXCEPT ![f] = v]
            /\ \/ rel[f] = "absent" /\ v = "nodata"
               \/ rel[f] # "absent" /\ v \in Creds /\ f \notin dying /\ k = Changed(f)
            /\ UNCHANGED <<ready, dying>>
    BY <1>9 DEF Integrate, Publish, Notify, RelationData
  <2>3. \A e \in AllEndpoints : rel'[e] = IF e = f THEN v ELSE rel[e]
    BY <1>1, <2>1, <2>2 DEF JujuTypes
  <2>4. \A e \in AllEndpoints : k # Broken(e)
    BY <2>1, EndpointKinds
  <2>5. k \notin Actions
    BY <2>1, EndpointKinds DEF LegacyJoined, Actions
  <2>6. ASSUME NEW e \in AllEndpoints PROVE EndpointAside(u, e)
    BY <2>2, <2>3, <2>4 DEF EndpointAside
  <2> QED
    BY <1>2, <2>2, <2>5, <2>6 DEF Aside
<1>10. ASSUME NEW f \in Endpoints, Remove(f) PROVE Aside(u)
  <2>1. f \in AllEndpoints
    BY EndpointsAssumption
  <2>2. /\ UNCHANGED <<ready, rel>> /\ dying' = dying \cup {f} /\ rel[f] # "absent"
        /\ f \notin dying /\ Broken(f) \in pending'[u]
        /\ pending'[u] \subseteq pending[u] \cup {Broken(f)}
        /\ \A k : k \in pending[u] /\ k \notin StaleKinds(f) => k \in pending'[u]
    BY <1>10 DEF Remove
  <2>3. StaleKinds(f) \subseteq {Changed(f), LegacyJoined}
    BY DEF StaleKinds
  <2>4. Broken(f) \notin Actions
    BY <2>1, EndpointKinds
  <2>5. ASSUME NEW e \in AllEndpoints PROVE EndpointAside(u, e)
    <3>1. /\ Broken(e) \notin StaleKinds(f)
          /\ Changed(e) \in StaleKinds(f) => e = f
          /\ Broken(e) = Broken(f) => e = f
      BY <2>1, <2>3, EndpointKinds
    <3> QED
      BY <2>2, <3>1 DEF EndpointAside
  <2> QED
    BY <1>2, <2>2, <2>4, <2>5 DEF Aside
<1> QED
  BY <1>3, <1>4, <1>5, <1>6, <1>7, <1>8, <1>9, <1>10 DEF QuietStep

(* A commit tells the other units, and nothing else of theirs.               *)
LEMMA CommitTells ==
    ASSUME UnitInv, NEW u \in Units, NEW again, Commit(u, again), NEW v \in Units
    PROVE  /\ pending'[v] \subseteq pending[v] \cup {"livepatch_relation_changed"}
                                    \cup (IF v = u THEN again ELSE {})
           /\ v # u /\ (\E k \in Keys : peer'[k] # peer[k])
                 => "livepatch_relation_changed" \in pending'[v]
<1>1. hook[u].wrote \subseteq Keys
  BY TypeInvParts DEF UnitInv, CharmTypes, Hooks
<1> QED
  BY <1>1 DEF Commit

LEMMA OthersAside ==
    ASSUME UnitInv, NEW u \in Units, NEW v \in Units \ {u},
           \/ Handle(v)
           \/ \E k \in Kinds : Starts(v, k)
           \/ EndHook(v) \/ EndStop(v)
           \/ Crash(v)
    PROVE  Aside(u) /\ leader' = leader
<1>1. JujuTypes /\ CharmTypes
  BY TypeInvParts DEF UnitInv
<1>2. CASE HandlerRaises(v) \/ Crash(v)
  <2>1. Raise(v) /\ UNCHANGED <<leader, rel, dying, ready, deferred>>
    BY <1>2 DEF HandlerRaises, Crash, worldVars
  <2>2. hook'[u] = hook[u] /\ pending'[u] = pending[u]
    BY <2>1, RaiseClears
  <2> QED
    BY <2>1, <2>2, MoreHooks
<1>3. CASE Handle(v)
  <2>1. CASE Moves(v)
    BY <2>1, MoreHooks DEF Moves, Uncommitted, jujuVars
  <2> QED
    BY <1>2, <1>3, <2>1, HandlersMove
<1>4. ASSUME NEW k \in Kinds, Starts(v, k) PROVE Aside(u) /\ leader' = leader
  <2>1. Begin(v, k) /\ UNCHANGED <<ready, deferred>>
    BY <1>4, StepBegins DEF Starts
  <2>2. /\ pending'[u] = pending[u] /\ UNCHANGED <<leader, rel, dying>>
    BY <1>1, <1>4 DEF Starts, StartHook, StartUpdateStatus, StartAction, jujuVars, worldVars, JujuTypes
  <2>3. hook'[u] = hook[u]
    BY <2>1, BeginHolds
  <2> QED
    BY <2>1, <2>2, <2>3, MoreHooks
<1>5. CASE EndHook(v) \/ EndStop(v)
  <2>1. PICK again : Commit(v, again) /\ UNCHANGED <<leader, ready, rel, dying>>
    BY <1>5 DEF EndHook, EndStop
  <2>2. /\ hook'[u] = hook[u] /\ deferred'[u] = deferred[u] /\ pending[u] \subseteq pending'[u]
    BY <2>1, CommitHolds
  <2>3. pending'[u] \subseteq pending[u] \cup {"livepatch_relation_changed"}
    BY <2>1, CommitTells
  <2> QED
    BY <2>1, <2>2, <2>3, MoreHooks
<1> QED
  BY <1>2, <1>3, <1>4, <1>5

(* The same for a step that leaves everything alone.                         *)
LEMMA StutterAside ==
    ASSUME UNCHANGED vars, NEW u \in Units
    PROVE  Aside(u)
BY MoreHooks DEF vars, charmVars, jujuVars, worldVars

-----------------------------------------------------------------------------
(* What the steps of a unit do to its own hook.                              *)
HookRaises(u) ==
    /\ Raise(u)
    /\ UNCHANGED <<leader, ready, config, links, rel, dying, requested, conn, peer, deferred>>
    /\ svc'[u] = svc[u] \/ (Crash(u) /\ CutShort(u))

HookStarts(u, k) ==
    /\ Idle(u) /\ ~Idle(u)'
    /\ UNCHANGED <<leader, ready, config, links, rel, dying, requested, conn, peer, deferred, svc>>
    /\ \/ k \in pending[u] /\ pending'[u] = pending[u] \ {k}
       \/ k \in Actions \cup {"update_status"} /\ pending'[u] = pending[u]
    /\ hook'[u].main = k /\ hook'[u].seen = Snapshot(u, k)
    /\ hook'[u].view = peer /\ hook'[u].wrote = {}
    /\ \A j : ~HasKind(j, hook'[u].kept)
    /\ \A j : HasKind(j, deferred[u]) => HasKind(j, hook'[u].todo)
    /\ k # "other" => HasKind(k, hook'[u].todo)

HookEnds(u) ==
    /\ ~Idle(u) /\ Idle(u)' /\ \A j : ~HasKind(j, hook[u].todo)
    /\ hook[u].todo = <<>>
    /\ UNCHANGED <<leader, ready, config, links, rel, dying>>
    /\ deferred'[u] = hook[u].kept
    /\ pending[u] \subseteq pending'[u]
    /\ pending'[u] \subseteq pending[u] \cup {"config_changed", "start", "livepatch_relation_changed"}
    /\ IF hook[u].main = "stop" THEN "config_changed" \in pending'[u] ELSE UNCHANGED <<conn, svc>>
    /\ \A k \in Keys : peer'[k] = IF k \in hook[u].wrote THEN hook[u].view[k] ELSE peer[k]

LEMMA StartsHook ==
    ASSUME UnitInv, NEW u \in Units, NEW k \in Kinds, Starts(u, k)
    PROVE  HookStarts(u, k)
<1>1. JujuTypes /\ CharmTypes
  BY TypeInvParts DEF UnitInv
<1>2. Idle(u) /\ Begin(u, k)
  BY StepBegins DEF Starts
<1>3. /\ \/ k \in pending[u] /\ pending'[u] = pending[u] \ {k}
         \/ k \in Actions \cup {"update_status"} /\ pending'[u] = pending[u]
      /\ UNCHANGED <<leader, ready, config, links, rel, dying, requested, conn, peer, deferred, svc>>
  BY <1>1 DEF Starts, StartHook, StartUpdateStatus, StartAction, jujuVars, worldVars, JujuTypes
<1>4. /\ hook'[u].main = k /\ hook'[u].seen = Snapshot(u, k) /\ hook'[u].view = peer
      /\ hook'[u].wrote = {} /\ ~Idle(u)'
      /\ \A j : ~HasKind(j, hook'[u].kept)
      /\ \A j : HasKind(j, deferred[u]) \/ (j = k /\ k # "other") => HasKind(j, hook'[u].todo)
  BY <1>2, BeginHolds
<1> QED
  BY <1>2, <1>3, <1>4 DEF HookStarts

LEMMA EndsHook ==
    ASSUME UnitInv, NEW u \in Units, EndHook(u) \/ EndStop(u)
    PROVE  HookEnds(u)
<1>1. /\ hook[u].main # None /\ hook[u].todo = <<>>
      /\ UNCHANGED <<leader, ready, config, links, rel, dying>>
  BY EndsCommit
<1>2. PICK again \in {{}, {"config_changed", "start"}} :
          /\ Commit(u, again)
          /\ IF hook[u].main = "stop" THEN "config_changed" \in again ELSE UNCHANGED <<conn, svc>>
  BY EndsCommit
<1>3. /\ Idle(u)' /\ deferred'[u] = hook[u].kept
      /\ pending[u] \subseteq pending'[u] /\ again \subseteq pending'[u]
      /\ \A k \in Keys : peer'[k] = IF k \in hook[u].wrote THEN hook[u].view[k] ELSE peer[k]
  BY <1>2, CommitHolds
<1>4. pending'[u] \subseteq pending[u] \cup {"livepatch_relation_changed"} \cup again
  BY <1>2, CommitTells
<1> QED
  BY <1>1, <1>2, <1>3, <1>4, NoKind DEF HookEnds, Idle

LEMMA UnitCases ==
    ASSUME UnitInv, [Next]_vars, leader' = leader, NEW u \in Units
    PROVE  \/ Aside(u)
           \/ Handle(u) /\ Moves(u) /\ ~HandlerRaises(u)
           \/ HookRaises(u) /\ ~Idle(u)
           \/ \E k \in Kinds : HookStarts(u, k)
           \/ HookEnds(u)
           \/ \E e \in Endpoints : Gone(e)
<1>1. CASE HandlerRaises(u) /\ Handle(u)
  <2>1. ~Idle(u)
    BY <1>1, HandlersDo DEF ActiveHooks, Idle
  <2> QED
    BY <1>1, <2>1 DEF HandlerRaises, HookRaises, worldVars
<1>2. CASE Crash(u)
  BY <1>2 DEF Crash, HookRaises
<1>3. CASE Handle(u)
  BY <1>1, <1>3, HandlersMove
<1>4. ASSUME NEW k \in Kinds, Starts(u, k) PROVE HookStarts(u, k)
  BY <1>4, StartsHook
<1>5. CASE EndHook(u) \/ EndStop(u)
  BY <1>5, EndsHook
<1>6. CASE QuietStep
  BY <1>6, QuietAside
<1>7. CASE UNCHANGED vars
  BY <1>7, StutterAside
<1>8. ASSUME NEW v \in Units \ {u},
             \/ Handle(v)
             \/ \E k \in Kinds : Starts(v, k)
             \/ EndHook(v) \/ EndStop(v)
             \/ Crash(v)
      PROVE  Aside(u)
  BY <1>8, OthersAside
<1> QED
  BY <1>2, <1>3, <1>4, <1>5, <1>6, <1>7, <1>8, StepCases

-----------------------------------------------------------------------------
(* RemovalInv is inductive.                                                  *)
LEMMA SnapshotSees ==
    ASSUME NEW u, NEW k, NEW e \in AllEndpoints
    PROVE  /\ Snapshot(u, k).ready = ready
           /\ Snapshot(u, k).config = config /\ Snapshot(u, k).links = links
           /\ Sees(u, k, e) => Snapshot(u, k).rel[e] = rel[e]
           /\ Snapshot(u, k).rel[e] # "absent" => Sees(u, k, e) /\ Snapshot(u, k).rel[e] = rel[e]
BY DEF Snapshot

LEMMA DyingUnitNext ==
    ASSUME UnitInv, RemovalInv, [Next]_vars, leader' = leader, NEW u \in Units
    PROVE  DyingUnit(u)' /\ (Actions \cap pending'[u] = {})
<1>1. DyingUnit(u) /\ Actions \cap pending[u] = {} /\ \A e \in dying : rel[e] # "absent"
  BY DEF RemovalInv
<1>2. CASE Aside(u)
  BY <1>1, <1>2 DEF Aside, EndpointAside, DyingUnit
<1>3. CASE Moves(u)
  BY <1>1, <1>3 DEF Moves, Uncommitted, jujuVars, DyingUnit
<1>4. CASE HookRaises(u)
  <2>1. /\ pending'[u] \subseteq pending[u] \cup {hook[u].main} /\ hook'[u].main = None
        /\ hook[u].main \in Actions => pending'[u] = pending[u]
    BY <1>4, RaiseClears DEF HookRaises, Idle
  <2> QED
    BY <1>1, <1>4, <2>1, EndpointKinds DEF HookRaises, DyingUnit
<1>5. ASSUME NEW k \in Kinds, HookStarts(u, k) PROVE DyingUnit(u)' /\ Actions \cap pending'[u] = {}
  <2>1. \A e \in AllEndpoints : Broken(e) = k => k \in pending[u] /\ k \notin pending'[u]
    BY <1>5, EndpointKinds DEF HookStarts
  <2>2. pending'[u] \subseteq pending[u] /\ hook'[u].main = k /\ dying' = dying
    BY <1>5 DEF HookStarts
  <2> QED
    BY <1>1, <2>1, <2>2 DEF DyingUnit
<1>6. CASE HookEnds(u)
  <2>1. /\ hook'[u].main = None /\ dying' = dying
        /\ pending'[u] \subseteq pending[u] \cup {"config_changed", "start", "livepatch_relation_changed"}
    BY <1>6 DEF HookEnds, Idle
  <2> QED
    BY <1>1, <2>1, EndpointKinds DEF DyingUnit, Actions, ReconcilingKinds
<1>7. ASSUME NEW f \in Endpoints, Gone(f) PROVE DyingUnit(u)' /\ Actions \cap pending'[u] = {}
  <2>1. /\ pending' = pending /\ hook'[u].main = hook[u].main /\ dying' = dying \ {f}
        /\ Broken(f) \notin pending[u] /\ hook[u].main # Broken(f)
    BY <1>7, GoneFields DEF Gone, jujuVars, UnitInv
  <2> QED
    BY <1>1, <2>1 DEF DyingUnit
<1> QED
  BY <1>2, <1>3, <1>4, <1>5, <1>6, <1>7, UnitCases

LEMMA SeenUnitNext ==
    ASSUME UnitInv, HookFacts, RemovalInv, [Next]_vars, leader' = leader, NEW u \in Units
    PROVE  SeenUnit(u)'
<1>1. DyingUnit(u) /\ SeenUnit(u) /\ (failed[u] # None => Idle(u))
  BY DEF RemovalInv, HookFacts, FailedInv
<1>0. "absent" \notin Creds
  BY DataAssumption
<1>2. CASE Aside(u)
  <2> SUFFICES ASSUME NEW e \in AllEndpoints, ~Idle(u), hook[u].seen.rel[e] # "absent"
               PROVE  /\ rel'[e] # "absent" /\ hook[u].main # Broken(e)
                      /\ e \in dying' => Broken(e) \in pending'[u]
                      /\ hook[u].seen.rel[e] \in Creds => rel'[e] \in Creds
    BY <1>2 DEF Aside, SeenUnit, Idle
  <2>1. EndpointAside(u, e) /\ ~GivesUp(u)
    BY <1>1, <1>2 DEF Aside, GivesUp
  <2> QED
    BY <1>0, <1>1, <2>1 DEF EndpointAside, SeenUnit
<1>3. CASE Moves(u)
  BY <1>1, <1>3 DEF Moves, Uncommitted, jujuVars, SeenUnit, Idle
<1>4. CASE HookRaises(u) \/ HookEnds(u)
  <2>1. Idle(u)'
    BY <1>4, RaiseClears DEF HookRaises, HookEnds
  <2> QED
    BY <2>1 DEF SeenUnit
<1>5. ASSUME NEW k \in Kinds, HookStarts(u, k) PROVE SeenUnit(u)'
  <2> SUFFICES ASSUME NEW e \in AllEndpoints, Snapshot(u, k).rel[e] # "absent"
               PROVE  /\ rel[e] # "absent" /\ k # Broken(e)
                      /\ e \in dying => Broken(e) \in pending'[u]
                      /\ Snapshot(u, k).rel[e] \in Creds => rel[e] \in Creds
    BY <1>5 DEF HookStarts, SeenUnit
  <2>1. Sees(u, k, e) /\ Snapshot(u, k).rel[e] = rel[e]
    BY SnapshotSees
  <2>2. k = Broken(e) => k \in pending[u]
    BY <1>5, EndpointKinds DEF HookStarts
  <2>3. k # Broken(e)
    BY <1>1, <2>1, <2>2 DEF DyingUnit, Sees
  <2> QED
    BY <1>5, <2>1, <2>3 DEF HookStarts, Sees
<1>6. ASSUME NEW f \in Endpoints, Gone(f) PROVE SeenUnit(u)'
  <2>1. /\ pending' = pending /\ dying' = dying \ {f} /\ rel' = [rel EXCEPT ![f] = "absent"]
        /\ Broken(f) \notin pending[u] /\ f \in dying
        /\ hook'[u].main = hook[u].main /\ hook'[u].seen = hook[u].seen
    BY <1>6, GoneFields DEF Gone, jujuVars, UnitInv
  <2>2. \A e \in AllEndpoints : e # f => rel'[e] = rel[e]
    BY <2>1, TypeInvParts DEF UnitInv, JujuTypes
  <2> QED
    BY <1>1, <2>1, <2>2 DEF SeenUnit, Idle
<1> QED
  BY <1>2, <1>3, <1>4, <1>5, <1>6, UnitCases

LEMMA RemovalInvNext ==
    ASSUME UnitInv, HookFacts, RemovalInv, [Next]_vars, leader' = leader
    PROVE  RemovalInv'
<1>1. \A u \in Units : DyingUnit(u)' /\ SeenUnit(u)' /\ Actions \cap pending'[u] = {}
  BY DyingUnitNext, SeenUnitNext
<1>2. JujuTypes
  BY TypeInvParts DEF UnitInv
<1>3. \A e \in dying' : rel'[e] # "absent"
  <2>1. PICK u \in Units : u = leader
    BY <1>2 DEF JujuTypes
  <2>2. CASE Aside(u)
    <3>1. ASSUME NEW e \in AllEndpoints, e \in dying' PROVE rel'[e] # "absent"
      <4>1. EndpointAside(u, e)
        BY <2>2 DEF Aside
      <4> QED
        BY <3>1, <4>1, DataAssumption DEF EndpointAside, RemovalInv
    <3>2. dying' \subseteq AllEndpoints
      BY NextTypes, TypeInvPartsNext DEF UnitInv, JujuTypes
    <3> QED
      BY <3>1, <3>2
  <2>3. ASSUME NEW f \in Endpoints, Gone(f) PROVE \A e \in dying' : rel'[e] # "absent"
    BY <1>2, <2>3 DEF Gone, RemovalInv, JujuTypes
  <2>4. CASE UNCHANGED <<rel, dying>>
    BY <2>4 DEF RemovalInv
  <2> QED
    BY <2>2, <2>3, <2>4, UnitCases DEF Moves, Uncommitted, HookRaises, HookStarts, HookEnds
<1> QED
  BY <1>1, <1>3 DEF RemovalInv

-----------------------------------------------------------------------------
(* What a handler of the leader writes of the connections.                   *)
DsnKeys == {"dsn", "dsn_metrics"}

StoresChanged(u, e) ==
    \/ ~hook[u].seen.ready /\ HasKind(Changed(e), hook'[u].kept)
    \/ hook[u].seen.rel[e] \notin Creds
    \/ hook'[u].view[KeyOf(e)] = hook[u].seen.rel[e]

WritesKey(u, key) ==
    \/ hook'[u].view[key] = hook[u].view[key]
    \/ \E e \in AllEndpoints :
          /\ KeyOf(e) = key /\ HeadKind(u) = Changed(e)
          /\ hook[u].seen.ready /\ hook[u].seen.rel[e] \in Creds
          /\ hook'[u].view[key] = hook[u].seen.rel[e]
    \/ \E e \in AllEndpoints :
          KeyOf(e) = key /\ HeadKind(u) = Broken(e) /\ hook'[u].view[key] = None

Stores(u) ==
    /\ \A key \in DsnKeys : WritesKey(u, key)
    /\ \A e \in AllEndpoints :
          /\ HeadKind(u) = Broken(e) => hook'[u].view[KeyOf(e)] = None
          /\ HeadKind(u) = Changed(e) => StoresChanged(u, e)

LEMMA StoresNothing ==
    ASSUME NEW u, \A key \in DsnKeys : hook'[u].view[key] = hook[u].view[key],
           \A e \in AllEndpoints : HeadKind(u) \notin {Changed(e), Broken(e)}
    PROVE  Stores(u)
BY DEF Stores, WritesKey

LEMMA StoresEndpoint ==
    ASSUME NEW u, NEW e \in AllEndpoints, HeadKind(u) = Changed(e), StoresChanged(u, e),
           \/ hook'[u].view = hook[u].view
           \/ /\ hook[u].seen.ready /\ hook[u].seen.rel[e] \in Creds
              /\ hook'[u].view[KeyOf(e)] = hook[u].seen.rel[e]
              /\ \A key \in Keys \ {KeyOf(e)} : hook'[u].view[key] = hook[u].view[key]
    PROVE  Stores(u)
<1>1. \A f \in AllEndpoints :
          HeadKind(u) # Broken(f) /\ (HeadKind(u) = Changed(f) => f = e)
  BY EndpointKinds
<1>2. DsnKeys \subseteq Keys
  BY DEF DsnKeys, Keys
<1> QED
  BY <1>1, <1>2 DEF Stores, WritesKey

LEMMA StoresRemoval ==
    ASSUME NEW u, NEW e \in AllEndpoints, HeadKind(u) = Broken(e),
           hook'[u].view[KeyOf(e)] = None,
           \A key \in Keys \ {KeyOf(e)} : hook'[u].view[key] = hook[u].view[key]
    PROVE  Stores(u)
<1>1. \A f \in AllEndpoints : HeadKind(u) # Changed(f) /\ (HeadKind(u) = Broken(f) => f = e)
  BY EndpointKinds
<1>2. DsnKeys \subseteq Keys
  BY DEF DsnKeys, Keys
<1> QED
  BY <1>1, <1>2 DEF Stores, WritesKey

(* The view of the hook after the handlers' ways of consuming their notice.  *)
LEMMA SkipViews ==
    ASSUME UnitInv, NEW u \in Units, hook[u].todo # <<>>, NEW d \in BOOLEAN, Skip(u, d)
    PROVE  /\ hook'[u].view = hook[u].view
           /\ d /\ HeadKind(u) \notin Actions => HasKind(HeadKind(u), hook'[u].kept)
<1>1. CharmTypes /\ hook[u] \in ActiveHooks
  BY HandlesActive, TypeInvParts DEF UnitInv
<1>2. hook'[u] = Consume(hook[u], d)
  BY <1>1 DEF Skip, CharmTypes
<1> QED
  BY <1>1, <1>2, ConsumeRest, ConsumeKinds DEF HeadKind

LEMMA ReconfigureViews ==
    ASSUME UnitInv, NEW u \in Units, NEW h \in ActiveHooks, NEW before, Reconfigure(u, h, before)
    PROVE  hook'[u].view = h.view
<1> DEFINE deferring == Defers(Outcome(InputsOf(u, h)))
<1>1. deferring \in BOOLEAN /\ FALSE \in BOOLEAN
  BY DEF Defers
<1>2. hook'[u] = Consume(h, deferring) \/ hook'[u] = Consume(h, FALSE)
  BY TypeInvParts DEF UnitInv, CharmTypes, Reconfigure
<1> HIDE DEF deferring
<1> QED
  BY <1>1, <1>2, ConsumeRest

(* The metrics connection, too, is stored only once there is a peer relation. *)
MetricsReady(u) ==
    /\ peer["dsn_metrics"] # None => ready
    /\ ~Idle(u) /\ hook[u].view["dsn_metrics"] # None => hook[u].seen.ready

LEMMA HandlersStore ==
    ASSUME UnitInv, DsnInv, LegacyInv, NEW u \in Units, leader = u, MetricsReady(u),
           Handle(u), ~HandlerRaises(u)
    PROVE  Stores(u)
<1> DEFINE h == hook[u]
<1>1. h.todo # <<>> /\ h \in ActiveHooks /\ ~Idle(u)
  BY HandlersDo DEF ActiveHooks, Idle
<1>2. CharmTypes /\ JujuTypes
  BY TypeInvParts DEF UnitInv
<1>3. \A k : Handles(u, k) => HeadKind(u) = k
  BY DEF Handles, HeadKind
<1>4. TRUE \in BOOLEAN /\ FALSE \in BOOLEAN /\ (~h.seen.ready) \in BOOLEAN
      /\ (~h.seen.requested) \in BOOLEAN
  OBVIOUS
<1>5. /\ KeyOf("database") = "dsn" /\ KeyOf("database_legacy") = "dsn"
      /\ KeyOf("metrics_db") = "dsn_metrics"
      /\ {"dsn", "dsn_metrics", "resource_token"} = Keys
  BY DEF KeyOf, Keys
<1>6. ASSUME NEW d \in BOOLEAN, Skip(u, d)
      PROVE  h.view = hook'[u].view /\ (d /\ HeadKind(u) \notin Actions => HasKind(HeadKind(u), hook'[u].kept))
  BY <1>1, <1>6, SkipViews
<1>7. ASSUME NEW before, Reconfigure(u, h, before) PROVE hook'[u].view = h.view
  BY <1>1, <1>7, ReconfigureViews
<1>8. ASSUME NEW key \in Keys, NEW v, NEW before, Reconfigure(u, Write(h, key, v), before),
             key \in DsnKeys => v \in Creds \cup {None},
             key = "resource_token" => v \in Tokens \cup {None}
      PROVE  /\ hook'[u].view[key] = v
             /\ \A j \in Keys \ {key} : hook'[u].view[j] = h.view[j]
  <2>1. Write(h, key, v) \in ActiveHooks
    BY <1>1, <1>8, WriteType DEF DsnKeys
  <2>2. hook'[u].view = Write(h, key, v).view
    BY <1>8, <2>1, ReconfigureViews
  <2> QED
    BY <1>1, <2>2, WriteView
(* The other events.                                                         *)
<1>9. ASSUME HeadKind(u) \in ReconcilingKinds \cup Actions
                \cup {"livepatch_relation_changed", "update_status", "stop", LegacyJoined},
             \A key \in DsnKeys : hook'[u].view[key] = h.view[key]
      PROVE  Stores(u)
  BY <1>9, StoresNothing, EndpointKinds
<1>10. CASE HandleReconciling(u)
  BY <1>3, <1>7, <1>9, <1>10 DEF HandleReconciling
<1>11. CASE HandlePeerChanged(u)
  BY <1>3, <1>4, <1>6, <1>7, <1>9, <1>11 DEF HandlePeerChanged
<1>12. CASE HandleUpdateStatus(u) \/ HandleStop(u)
  <2>1. HeadKind(u) \in {"update_status", "stop"} /\ hook'[u] = Consume(h, FALSE)
    BY <1>2, <1>3, <1>12 DEF HandleUpdateStatus, HandleStop, CharmTypes
  <2>2. hook'[u].view = h.view
    BY <1>1, <1>4, <2>1, ConsumeRest
  <2> QED
    BY <1>9, <2>1, <2>2
<1>13. CASE HandleLegacyJoined(u)
  <2>1. HeadKind(u) = LegacyJoined
    BY <1>3, <1>13 DEF HandleLegacyJoined
  <2> DEFINE asked == h.seen.rel["database_legacy"] # "absent"
  <2>2. \/ \E d \in BOOLEAN : Skip(u, d)
        \/ hook' = [hook EXCEPT ![u] = [Consume(h, FALSE) EXCEPT !.request = asked]]
    BY <1>4, <1>13 DEF HandleLegacyJoined, HandlerRaises
  <2>3. CASE hook' = [hook EXCEPT ![u] = [Consume(h, FALSE) EXCEPT !.request = asked]]
    <3>1. hook'[u] = [Consume(h, FALSE) EXCEPT !.request = asked]
      BY <1>2, <2>3 DEF CharmTypes
    <3>2. Consume(h, FALSE) \in ActiveHooks /\ Consume(h, FALSE).view = h.view
      BY <1>1, <1>4, ConsumeType, ConsumeRest
    <3>3. hook'[u].view = h.view
      BY <3>1, <3>2 DEF ActiveHooks, Hooks
    <3> QED
      BY <1>9, <2>1, <3>3
  <2> QED
    BY <1>6, <1>9, <2>1, <2>2, <2>3
<1>14. CASE HandleRestartAction(u)
  BY <1>3, <1>7, <1>9, <1>14 DEF HandleRestartAction, Actions
<1>15. CASE HandleTokenAction(u)
  <2>1. HeadKind(u) = "get_resource_token_action" /\ DsnKeys \subseteq Keys \ {"resource_token"}
    BY <1>3, <1>5, <1>15 DEF HandleTokenAction, DsnKeys
  <2>2. \/ Skip(u, FALSE)
        \/ \E token \in Tokens \cup {None} : Reconfigure(u, Write(h, "resource_token", token), svc[u])
    BY <1>15 DEF HandleTokenAction
  <2>3. "resource_token" \in Keys \ DsnKeys
    BY <1>5 DEF DsnKeys
  <2>4. \A key \in DsnKeys : hook'[u].view[key] = h.view[key]
    BY <1>4, <1>6, <1>8, <2>1, <2>2, <2>3
  <2> QED
    BY <1>9, <2>1, <2>4 DEF Actions
(* A database publishes.                                                     *)
<1>16. ASSUME NEW e \in {"database", "metrics_db"}, HandleDatabaseChanged(u, e)
       PROVE  Stores(u)
  <2> DEFINE key == IF e = "metrics_db" THEN "dsn_metrics" ELSE "dsn"
  <2>1. HeadKind(u) = Changed(e) /\ e \in AllEndpoints /\ key = KeyOf(e) /\ KeyOf(e) \in DsnKeys
    BY <1>3, <1>16 DEF HandleDatabaseChanged, KeyOf, DsnKeys, AllEndpoints
  <2>2. \/ (~h.seen.ready \/ h.seen.rel[e] \notin Creds) /\ Skip(u, TRUE)
        \/ /\ h.seen.ready /\ h.seen.rel[e] \in Creds
           /\ Reconfigure(u, Write(h, KeyOf(e), h.seen.rel[e]), svc[u])
    BY <1>16, <2>1 DEF HandleDatabaseChanged, HandlerRaises
  <2> HIDE DEF key
  <2>3. HeadKind(u) \notin Actions /\ KeyOf(e) \in Keys /\ KeyOf(e) # "resource_token"
    BY <2>1, EndpointKinds DEF DsnKeys
  <2>4. CASE (~h.seen.ready \/ h.seen.rel[e] \notin Creds) /\ Skip(u, TRUE)
    BY <1>4, <1>6, <2>1, <2>3, <2>4, StoresEndpoint DEF StoresChanged
  <2>5. CASE /\ h.seen.ready /\ h.seen.rel[e] \in Creds
             /\ Reconfigure(u, Write(h, KeyOf(e), h.seen.rel[e]), svc[u])
    BY <1>8, <2>1, <2>3, <2>5, StoresEndpoint DEF StoresChanged
  <2> QED
    BY <2>2, <2>4, <2>5
<1>17. CASE HandleMasterChanged(u)
  <2> DEFINE master == h.seen.rel["database_legacy"]
             e == "database_legacy"
  <2>1. HeadKind(u) = Changed(e) /\ e \in AllEndpoints /\ KeyOf(e) = "dsn"
    BY <1>3, <1>5, <1>17, EventKinds DEF HandleMasterChanged, AllEndpoints
  <2>2. \/ ~h.seen.ready /\ Skip(u, TRUE)
        \/ ~h.seen.requested /\ Skip(u, FALSE)
        \/ h.seen.ready /\ master \in Creds /\ Reconfigure(u, Write(h, "dsn", master), svc[u])
        \/ master \notin Creds /\ Reconfigure(u, h, svc[u])
    <3>1. (~h.seen.ready) = TRUE \/ (~h.seen.ready) = FALSE
      OBVIOUS
    <3> QED
      BY <1>17, <3>1 DEF HandleMasterChanged
  <2>3. master \in Creds => h.seen.requested
    BY <1>1 DEF LegacyInv
  <2>4. HeadKind(u) \notin Actions
    BY <2>1, EndpointKinds
  <2>5. CASE ~h.seen.ready /\ Skip(u, TRUE)
    BY <1>4, <1>6, <2>1, <2>4, <2>5, StoresEndpoint DEF StoresChanged
  <2>6. CASE ~h.seen.requested /\ Skip(u, FALSE)
    BY <1>4, <1>6, <2>1, <2>3, <2>6, StoresEndpoint DEF StoresChanged
  <2>7. CASE h.seen.ready /\ master \in Creds /\ Reconfigure(u, Write(h, "dsn", master), svc[u])
    BY <1>5, <1>8, <2>1, <2>7, StoresEndpoint DEF StoresChanged
  <2>8. CASE master \notin Creds /\ Reconfigure(u, h, svc[u])
    BY <1>7, <2>1, <2>8, StoresEndpoint DEF StoresChanged
  <2> QED
    BY <2>2, <2>5, <2>6, <2>7, <2>8
(* A database is removed.                                                    *)
<1>18. ASSUME NEW e \in MainEndpoints, HandleDatabaseBroken(u, e) PROVE Stores(u)
  <2>1. HeadKind(u) = Broken(e) /\ e \in AllEndpoints /\ KeyOf(e) = "dsn"
    BY <1>3, <1>18, EndpointKinds DEF HandleDatabaseBroken
  <2>2. hook'[u] = Consume(Cleared(u, h), FALSE)
    BY <1>2, <1>18 DEF HandleDatabaseBroken, CharmTypes
  <2>3. /\ Cleared(u, h) \in ActiveHooks /\ Cleared(u, h).view["dsn"] = None
        /\ \A key \in Keys \ {"dsn"} : Cleared(u, h).view[key] = h.view[key]
    <3>1. CASE h.seen.ready
      <4>1. Cleared(u, h) = Write(h, "dsn", None) /\ "dsn" \in Keys
        BY <1>5, <3>1 DEF Cleared
      <4> QED
        BY <1>1, <4>1, ClearedType, WriteView
    <3>2. CASE ~h.seen.ready
      <4>1. Cleared(u, h) = h /\ h.view["dsn"] = None
        BY <1>1, <3>2 DEF Cleared, DsnInv
      <4> QED
        BY <1>1, <4>1
    <3> QED
      BY <3>1, <3>2
  <2>4. hook'[u].view = Cleared(u, h).view
    BY <1>4, <2>2, <2>3, ConsumeRest
  <2> QED
    BY <2>1, <2>3, <2>4, StoresRemoval
<1>19. CASE HandleMetricsBroken(u)
  <2>1. HeadKind(u) = Broken("metrics_db") /\ "metrics_db" \in AllEndpoints
    BY <1>3, <1>19 DEF HandleMetricsBroken, AllEndpoints
  <2>2. CASE h.seen.ready
    <3>1. Reconfigure(u, Write(h, "dsn_metrics", None), svc[u])
      BY <1>19, <2>2 DEF HandleMetricsBroken
    <3> QED
      BY <1>5, <1>8, <2>1, <3>1, StoresRemoval
  <2>3. CASE ~h.seen.ready
    <3>1. Reconfigure(u, h, svc[u])
      BY <1>19, <2>3 DEF HandleMetricsBroken
    <3>2. h.view["dsn_metrics"] = None
      BY <1>1, <2>3 DEF MetricsReady
    <3> QED
      BY <1>5, <1>7, <2>1, <3>1, <3>2, StoresRemoval
  <2> QED
    BY <2>2, <2>3
<1> QED
  BY <1>10, <1>11, <1>12, <1>13, <1>14, <1>15, <1>16, <1>17, <1>18, <1>19 DEF Handle, MainEndpoints

-----------------------------------------------------------------------------
(* What is common to the steps of the leader u.                              *)
Leads(u) ==
    /\ UnitInv /\ HookFacts /\ WriterLeads /\ RemovalInv
    /\ leader = u /\ Reads(u) /\ MetricsReady(u)

LEMMA GoneHook ==
    ASSUME TypeInv, NEW e \in Endpoints, Gone(e), NEW u \in Units
    PROVE  /\ hook'[u].main = hook[u].main /\ hook'[u].seen = hook[u].seen
           /\ hook'[u].view = hook[u].view /\ hook'[u].wrote = hook[u].wrote
           /\ \A k : /\ HasKind(k, hook'[u].todo) <=> HasKind(k, hook[u].todo)
                     /\ HasKind(k, hook'[u].kept) <=> HasKind(k, hook[u].kept)
                     /\ HasKind(k, deferred'[u]) <=> HasKind(k, deferred[u])
           /\ (Idle(u)' <=> Idle(u))
           /\ UNCHANGED <<leader, ready, pending, failed, config, links, conn, svc, peer>>
           /\ dying' = dying \ {e} /\ e \in dying /\ e \in AllEndpoints
           /\ \A f \in AllEndpoints : rel'[f] = IF f = e THEN "absent" ELSE rel[f]
           /\ \A v \in Units : Broken(e) \notin pending[v] /\ hook[v].main # Broken(e)
<1>1. CharmTypes /\ JujuTypes
  BY TypeInvParts
<1>2. hook'[u].view = hook[u].view /\ hook'[u].wrote = hook[u].wrote
  BY <1>1 DEF Gone, CharmTypes, Hooks
<1>3. \A k : /\ HasKind(k, hook'[u].todo) <=> HasKind(k, hook[u].todo)
             /\ HasKind(k, hook'[u].kept) <=> HasKind(k, hook[u].kept)
             /\ HasKind(k, deferred'[u]) <=> HasKind(k, deferred[u])
  BY GoneFields, AgedKind
<1>4. /\ hook'[u].main = hook[u].main /\ hook'[u].seen = hook[u].seen
      /\ (Idle(u)' <=> Idle(u))
  BY GoneFields DEF Idle
<1>5. /\ UNCHANGED <<leader, ready, pending, failed, config, links, conn, svc, peer>>
      /\ dying' = dying \ {e} /\ e \in dying
      /\ \A v \in Units : Broken(e) \notin pending[v] /\ hook[v].main # Broken(e)
  BY DEF Gone, jujuVars
<1>6. e \in AllEndpoints /\ \A f \in AllEndpoints : rel'[f] = IF f = e THEN "absent" ELSE rel[f]
  BY <1>1, EndpointsAssumption DEF Gone, JujuTypes
<1> QED
  BY <1>2, <1>3, <1>4, <1>5, <1>6

(* Only the commit of a hook changes the databag.                            *)
LEMMA DatabagSame ==
    ASSUME UnitInv, WriterLeads, [Next]_vars, leader' = leader, hook'[leader].main = hook[leader].main
    PROVE  peer' = peer
BY LeaderWritesNext DEF UnitInv, LeaderWrites, Idle

LEMMA LeadsHandles ==
    ASSUME NEW u \in Units, Leads(u), Handle(u), Moves(u), ~HandlerRaises(u)
    PROVE  /\ ~Idle(u) /\ ~Idle(u)' /\ Stores(u) /\ Effect(u)
           /\ UNCHANGED <<ready, pending, failed, rel, dying, peer, deferred>>
           /\ hook'[u].main = hook[u].main /\ hook'[u].seen = hook[u].seen
           /\ HeadKind(u) \in Kinds
           /\ \A k \in Kinds : HasKind(k, hook[u].todo) \/ HasKind(k, hook[u].kept)
                                  => k = hook[u].main \/ HasKind(k, deferred[u])
           /\ HasKind(HeadKind(u), hook[u].todo)
<1>1. UnitInv /\ DsnInv /\ LegacyInv /\ leader = u /\ MetricsReady(u) /\ Origin
  BY DEF Leads, HookFacts
<1>2. Stores(u) /\ Effect(u)
  BY <1>1, HandlersStore, HandlersEffect
<1>3. hook[u].todo # <<>> /\ hook[u] \in ActiveHooks
  BY <1>1, HandlersDo
<1>4. HeadKind(u) \in Kinds
  <2>1. Head(hook[u].todo) \in Notices
    BY <1>3 DEF ActiveHooks, Hooks
  <2> QED
    BY <2>1 DEF Notices, HeadKind
<1>5. ~Idle(u) /\ ~Idle(u)'
  BY <1>3 DEF ActiveHooks, Idle, Moves
<1> QED
  BY <1>1, <1>2, <1>4, <1>5 DEF Moves, Uncommitted, jujuVars, Origin

LEMMA ReadsNext ==
    ASSUME NEW u \in Units, Leads(u), [Next]_vars, leader' = leader
    PROVE  Reads(u)' /\ MetricsReady(u)'
<1>1. UnitInv /\ WriterLeads /\ leader = u /\ Reads(u) /\ MetricsReady(u) /\ TypeInv
  BY DEF Leads, UnitInv
<1>2. CASE Aside(u)
  <2>1. peer' = peer
    BY <1>1, <1>2, DatabagSame DEF Aside
  <2> QED
    BY <1>1, <1>2, <2>1 DEF Aside, Reads, MetricsReady, Idle
<1>3. CASE Handle(u) /\ Moves(u) /\ ~HandlerRaises(u)
  <2>1. /\ ~Idle(u) /\ Stores(u) /\ Effect(u) /\ UNCHANGED <<ready, peer>>
        /\ hook'[u].seen = hook[u].seen
    BY <1>3, LeadsHandles
  <2>2. Reads(u)'
    BY <1>1, <2>1 DEF Reads, Effect
  <2>3. WritesKey(u, "dsn_metrics")
    BY <2>1 DEF Stores, DsnKeys
  <2>4. hook'[u].view["dsn_metrics"] # None => hook[u].seen.ready
    BY <1>1, <2>1, <2>3 DEF WritesKey, MetricsReady
  <2> QED
    BY <1>1, <2>1, <2>2, <2>4 DEF MetricsReady
<1>4. CASE HookRaises(u)
  BY <1>1, <1>4, RaiseClears DEF HookRaises, Reads, MetricsReady
<1>5. ASSUME NEW k \in Kinds, HookStarts(u, k) PROVE Reads(u)' /\ MetricsReady(u)'
  <2>1. Snapshot(u, k).ready = ready
    BY DEF Snapshot
  <2> QED
    BY <1>1, <1>5, <2>1 DEF HookStarts, Reads, MetricsReady
<1>6. CASE HookEnds(u)
  <2>1. "dsn_metrics" \in Keys
    BY DEF Keys
  <2>2. hook[u].seen.ready => ready
    BY <1>1, <1>6 DEF HookEnds, UnitInv, ReadyInv
  <2> QED
    BY <1>1, <1>6, <2>1, <2>2 DEF HookEnds, Reads, MetricsReady
<1>7. ASSUME NEW f \in Endpoints, Gone(f) PROVE Reads(u)' /\ MetricsReady(u)'
  <2>1. /\ hook'[u].seen = hook[u].seen /\ hook'[u].view = hook[u].view
        /\ hook'[u].wrote = hook[u].wrote /\ (Idle(u)' <=> Idle(u)) /\ UNCHANGED <<ready, peer>>
    BY <1>1, <1>7, GoneHook
  <2> QED
    BY <1>1, <2>1 DEF Reads, MetricsReady
<1> QED
  BY <1>1, <1>2, <1>3, <1>4, <1>5, <1>6, <1>7, UnitCases

(* A commit of the leader stores all that its hook reads or wrote.           *)
LEMMA EndStores ==
    ASSUME NEW u, ~Idle(u), Reads(u), HookEnds(u), NEW key \in Keys
    PROVE  peer'[key] = hook[u].view[key]
BY DEF Reads, HookEnds

-----------------------------------------------------------------------------
(* The connection of a removed endpoint is cleared.                          *)

(* A hook that began after the removal does not store the connection again.  *)
LEMMA NotRewritten ==
    ASSUME NEW u \in Units, Leads(u), OneMain, NEW e \in AllEndpoints, ~Idle(u),
           \/ hook[u].main = Broken(e)
           \/ Over(u, e)
           \/ e \notin MainEndpoints /\ rel[e] = "absent",
           NEW f \in AllEndpoints, KeyOf(f) = KeyOf(e)
    PROVE  hook[u].seen.rel[f] \notin Creds
<1>1. DyingUnit(u) /\ SeenUnit(u) /\ \A g \in dying : rel[g] # "absent"
  BY DEF Leads, RemovalInv
<1>2. SUFFICES ASSUME hook[u].seen.rel[f] \in Creds PROVE FALSE
  OBVIOUS
<1>3. hook[u].seen.rel[f] # "absent"
  BY <1>2, DataAssumption
<1>4. /\ rel[f] # "absent" /\ hook[u].main # Broken(f)
      /\ f \in dying => Broken(f) \in pending[u]
  BY <1>1, <1>3 DEF SeenUnit
<1>5. f # e
  BY <1>4 DEF Over
<1>6. e \in MainEndpoints /\ f \in MainEndpoints
  BY <1>5, EndpointKinds DEF KeyOf, AllEndpoints, MainEndpoints
<1>7. e \in dying
  BY <1>1, <1>6 DEF DyingUnit, Over
<1> QED
  BY <1>1, <1>4, <1>5, <1>6, <1>7 DEF OneMain, MainEndpoints

LEMMA WithdrawnNext ==
    ASSUME NEW u \in Units, Leads(u), OneMain, [Next]_vars, leader' = leader, NEW e \in AllEndpoints,
           Withdrawn(u, e), Clears(u, e), ~(GivesUp(u) /\ failed[u] = Broken(e))
    PROVE  Withdrawn(u, e)'
<1>1. UnitInv /\ WriterLeads /\ leader = u /\ TypeInv /\ Reads(u)
  BY DEF Leads, UnitInv
<1>2. KeyOf(e) \in Keys /\ KeyOf(e) \in DsnKeys
  BY EndpointKinds DEF KeyOf, DsnKeys
<1> SUFFICES ASSUME Over(u, e)' PROVE Holds(u, KeyOf(e), None)'
  BY DEF Withdrawn
<1>3. CASE Aside(u)
  <2>1. peer' = peer
    BY <1>1, <1>3, DatabagSame DEF Aside
  <2>2. Over(u, e)
    BY <1>3 DEF Aside, EndpointAside, Over
  <2> QED
    BY <1>3, <2>1, <2>2 DEF Aside, Withdrawn, Holds, Idle
<1>4. CASE Handle(u) /\ Moves(u) /\ ~HandlerRaises(u)
  <2>1. /\ ~Idle(u) /\ Stores(u) /\ UNCHANGED <<pending, dying, peer>>
        /\ hook'[u].main = hook[u].main
    BY <1>4, LeadsHandles
  <2>2. Over(u, e)
    BY <2>1 DEF Over
  <2>3. peer[KeyOf(e)] = None /\ hook[u].view[KeyOf(e)] = None
    BY <2>1, <2>2 DEF Withdrawn, Holds
  <2>4. \A f \in AllEndpoints : KeyOf(f) = KeyOf(e) => hook[u].seen.rel[f] \notin Creds
    BY <2>1, <2>2, NotRewritten
  <2>5. WritesKey(u, KeyOf(e))
    BY <1>2, <2>1 DEF Stores
  <2>6. hook'[u].view[KeyOf(e)] = None
    BY <2>3, <2>4, <2>5 DEF WritesKey
  <2> QED
    BY <2>1, <2>3, <2>6 DEF Holds
<1>5. CASE HookRaises(u)
  <2>1. /\ Idle(u)' /\ dying' = dying /\ peer' = peer
        /\ hook[u].main \notin Actions => pending'[u] = pending[u] \cup {hook[u].main}
        /\ hook[u].main \in Actions => pending'[u] = pending[u]
    BY <1>1, <1>5, RaiseClears DEF HookRaises
  <2>2. Over(u, e)
    BY <2>1, EndpointKinds DEF Over
  <2> QED
    BY <2>1, <2>2 DEF Withdrawn, Holds
<1>6. ASSUME NEW k \in Kinds, HookStarts(u, k) PROVE Holds(u, KeyOf(e), None)'
  <2>1. Idle(u) /\ dying' = dying /\ peer' = peer /\ hook'[u].view = peer /\ hook'[u].main = k
    BY <1>6 DEF HookStarts
  <2>2. pending'[u] = pending[u] \ {k} \/ pending'[u] = pending[u]
    BY <1>6 DEF HookStarts
  <2>3. Over(u, e)
    BY <2>1, <2>2, EndpointKinds DEF Over, Idle
  <2> QED
    BY <2>1, <2>3 DEF Withdrawn, Holds
<1>7. CASE HookEnds(u)
  <2>1. /\ ~Idle(u) /\ Idle(u)' /\ dying' = dying /\ pending[u] \subseteq pending'[u]
        /\ \A j : ~HasKind(j, hook[u].todo)
    BY <1>7 DEF HookEnds
  <2>2. peer'[KeyOf(e)] = hook[u].view[KeyOf(e)]
    BY <1>1, <1>2, <1>7, <2>1, EndStores
  <2>3. CASE hook[u].main = Broken(e)
    BY <2>1, <2>2, <2>3 DEF Clears, Holds
  <2>4. CASE hook[u].main # Broken(e)
    <3>1. Over(u, e)
      BY <2>1, <2>4 DEF Over
    <3> QED
      BY <2>1, <2>2, <3>1 DEF Withdrawn, Holds
  <2> QED
    BY <2>3, <2>4
<1>8. ASSUME NEW f \in Endpoints, Gone(f) PROVE Holds(u, KeyOf(e), None)'
  <2>1. /\ hook'[u].main = hook[u].main /\ hook'[u].view = hook[u].view
        /\ (Idle(u)' <=> Idle(u)) /\ UNCHANGED <<pending, peer>> /\ dying' = dying \ {f}
    BY <1>1, <1>8, GoneHook
  <2>2. Over(u, e)
    BY <2>1 DEF Over
  <2> QED
    BY <2>1, <2>2 DEF Withdrawn, Holds
<1> QED
  BY <1>1, <1>3, <1>4, <1>5, <1>6, <1>7, <1>8, UnitCases

LEMMA ClearsNext ==
    ASSUME NEW u \in Units, Leads(u), OneMain, [Next]_vars, leader' = leader, NEW e \in AllEndpoints,
           Clears(u, e), e \notin MainEndpoints => Unspoiled(u, e)
    PROVE  Clears(u, e)'
<1>1. UnitInv /\ TypeInv /\ NeverStored /\ DyingUnit(u)
  BY DEF Leads, UnitInv, HookFacts, RemovalInv
<1>2. CASE Aside(u)
  BY <1>2 DEF Aside, Clears, Idle
<1>3. CASE Handle(u) /\ Moves(u) /\ ~HandlerRaises(u)
  <2>1. /\ ~Idle(u) /\ Stores(u) /\ hook'[u].main = hook[u].main /\ Broken(e) \in Kinds
        /\ \A k \in Kinds : HasKind(k, hook[u].todo) \/ HasKind(k, hook[u].kept)
                                  => k = hook[u].main \/ HasKind(k, deferred[u])
    BY <1>3, LeadsHandles, KindsOfEndpoints
  <2>2. /\ HeadKind(u) = Broken(e) => hook'[u].view[KeyOf(e)] = None
        /\ WritesKey(u, KeyOf(e))
    BY <2>1, EndpointKinds DEF Stores, KeyOf, DsnKeys
  <2>3. /\ HasKind(Broken(e), hook[u].todo) /\ Broken(e) # HeadKind(u)
              => HasKind(Broken(e), hook'[u].todo) \/ HasKind(Broken(e), hook'[u].kept)
        /\ HasKind(Broken(e), hook'[u].kept)
              => HasKind(Broken(e), hook[u].kept) \/ Broken(e) = HeadKind(u)
    BY <1>3 DEF Moves
  <2>4. ASSUME hook[u].view[KeyOf(e)] = None,
               \/ hook[u].main = Broken(e) \/ Over(u, e)
               \/ e \notin MainEndpoints /\ rel[e] = "absent"
        PROVE  hook'[u].view[KeyOf(e)] = None
    <3>1. \A f \in AllEndpoints : KeyOf(f) = KeyOf(e) => hook[u].seen.rel[f] \notin Creds
      BY <2>1, <2>4, NotRewritten
    <3> QED
      BY <2>2, <2>4, <3>1 DEF WritesKey
  <2>5. ASSUME HasKind(Broken(e), hook[u].kept) PROVE hook'[u].view[KeyOf(e)] = None
    <3>1. e \notin MainEndpoints
      BY <1>1, <2>5, EndpointKinds DEF NeverStored
    <3>2. hook[u].main = Broken(e) \/ HasKind(Broken(e), deferred[u])
      BY <2>1, <2>5
    <3>3. \/ hook[u].main = Broken(e) \/ Over(u, e) \/ rel[e] = "absent"
      BY <3>1, <3>2 DEF Unspoiled
    <3>4. hook[u].view[KeyOf(e)] = None
      BY <2>1, <2>5 DEF Clears
    <3> QED
      BY <2>4, <3>1, <3>3, <3>4
  <2>6. HasKind(Broken(e), hook'[u].kept) => hook'[u].view[KeyOf(e)] = None
    BY <2>2, <2>3, <2>5
  <2>7. ASSUME hook[u].main = Broken(e)
        PROVE  hook'[u].view[KeyOf(e)] = None \/ HasKind(Broken(e), hook'[u].todo)
    <3>1. CASE hook[u].view[KeyOf(e)] = None
      BY <2>4, <2>7, <3>1
    <3>2. CASE HasKind(Broken(e), hook[u].todo)
      BY <2>2, <2>3, <2>6, <3>2
    <3> QED
      BY <2>1, <2>7, <3>1, <3>2 DEF Clears
  <2> QED
    BY <2>1, <2>6, <2>7 DEF Clears
<1>4. CASE HookRaises(u) \/ HookEnds(u)
  <2>1. Idle(u)'
    BY <1>1, <1>4, RaiseClears DEF HookRaises, HookEnds
  <2> QED
    BY <2>1 DEF Clears
<1>5. ASSUME NEW k \in Kinds, HookStarts(u, k) PROVE Clears(u, e)'
  <2>1. Broken(e) # "other"
    BY EndpointKinds
  <2> QED
    BY <1>5, <2>1 DEF HookStarts, Clears
<1>6. ASSUME NEW f \in Endpoints, Gone(f) PROVE Clears(u, e)'
  <2>1. /\ hook'[u].main = hook[u].main /\ hook'[u].view = hook[u].view
        /\ \A k : /\ HasKind(k, hook'[u].todo) <=> HasKind(k, hook[u].todo)
                  /\ HasKind(k, hook'[u].kept) <=> HasKind(k, hook[u].kept)
        /\ (Idle(u)' <=> Idle(u))
    BY <1>1, <1>6, GoneHook
  <2> QED
    BY <2>1 DEF Clears
<1> QED
  BY <1>1, <1>2, <1>3, <1>4, <1>5, <1>6, UnitCases

LEMMA UnspoiledNext ==
    ASSUME NEW u \in Units, Leads(u), [Next]_vars, leader' = leader, NEW e \in AllEndpoints,
           Unspoiled(u, e), ~(GivesUp(u) /\ failed[u] = Broken(e)),
           (rel[e] # "absent" /\ e \notin dying => ~HasKind(Broken(e), deferred[u]))'
    PROVE  Unspoiled(u, e)'
<1>1. UnitInv /\ TypeInv /\ DyingUnit(u) /\ Origin /\ Broken(e) \in Kinds
  BY KindsOfEndpoints DEF Leads, UnitInv, HookFacts, RemovalInv
<1> SUFFICES ASSUME e \in dying', ~Over(u, e)', rel'[e] # "absent",
                    HasKind(Broken(e), deferred'[u])
             PROVE  FALSE
  BY DEF Unspoiled
<1>2. CASE Aside(u)
  <2>1. rel[e] # "absent" /\ ~Over(u, e)
    <3>1. EndpointAside(u, e) /\ hook'[u] = hook[u]
      BY <1>2 DEF Aside
    <3>2. rel[e] # "absent"
      BY <3>1 DEF EndpointAside, Leads, RemovalInv
    <3> QED
      BY <3>1, <3>2 DEF EndpointAside, Over
  <2> QED
    BY <1>2, <2>1 DEF Aside, Unspoiled
<1>3. CASE Moves(u)
  BY <1>3 DEF Moves, Uncommitted, jujuVars, Unspoiled, Over
<1>4. CASE HookRaises(u)
  <2>1. /\ Idle(u)' /\ UNCHANGED <<rel, dying, deferred>> /\ hook'[u].main # Broken(e)
        /\ hook[u].main \notin Actions => pending'[u] = pending[u] \cup {hook[u].main}
        /\ hook[u].main \in Actions => pending'[u] = pending[u]
    BY <1>1, <1>4, RaiseClears, EndpointKinds DEF HookRaises, Idle
  <2>2. ~Over(u, e)
    BY <2>1, EndpointKinds DEF Over
  <2> QED
    BY <2>1, <2>2 DEF Unspoiled
<1>5. ASSUME NEW k \in Kinds, HookStarts(u, k) PROVE FALSE
  <2>1. Idle(u) /\ UNCHANGED <<rel, dying, deferred>> /\ hook'[u].main = k
    BY <1>5 DEF HookStarts
  <2>2. Broken(e) # k => Broken(e) \in pending'[u] <=> Broken(e) \in pending[u]
    BY <1>5 DEF HookStarts
  <2>3. k = Broken(e) => k \in pending[u]
    BY <1>5, EndpointKinds DEF HookStarts
  <2>4. ~Over(u, e)
    BY <2>1, <2>2, <2>3 DEF Over
  <2> QED
    BY <2>1, <2>4 DEF Unspoiled
<1>6. CASE HookEnds(u)
  <2>1. /\ UNCHANGED <<rel, dying>> /\ Idle(u)' /\ deferred'[u] = hook[u].kept
        /\ pending'[u] \subseteq pending[u] \cup {"config_changed", "start", "livepatch_relation_changed"}
    BY <1>6 DEF HookEnds
  <2>2. hook'[u].main # Broken(e) /\ (Broken(e) \in pending'[u] => Broken(e) \in pending[u])
    BY <2>1, EndpointKinds DEF Idle, ReconcilingKinds
  <2>3. Broken(e) \in pending[u]
    BY <2>1, <2>2 DEF Over
  <2>4. hook[u].main # Broken(e)
    BY <1>1, <2>3 DEF DyingUnit
  <2>5. HasKind(Broken(e), deferred[u])
    BY <1>1, <2>1, <2>4 DEF Origin
  <2> QED
    BY <2>1, <2>3, <2>5 DEF Unspoiled, Over
<1>7. ASSUME NEW f \in Endpoints, Gone(f) PROVE FALSE
  <2>1. /\ hook'[u].main = hook[u].main /\ dying' = dying \ {f} /\ UNCHANGED pending
        /\ HasKind(Broken(e), deferred'[u]) <=> HasKind(Broken(e), deferred[u])
        /\ rel'[e] = IF e = f THEN "absent" ELSE rel[e]
    BY <1>1, <1>7, GoneHook
  <2> QED
    BY <2>1 DEF Unspoiled, Over
<1> QED
  BY <1>1, <1>2, <1>3, <1>4, <1>5, <1>6, <1>7, UnitCases

-----------------------------------------------------------------------------
(* The databag holds no connection when no database of the key has one, and  *)
(* the connection that a database publishes is stored, or will be.           *)
LateReady(u) == ~Idle(u) /\ ready /\ ~hook[u].seen.ready => pending[u] # {}

Empty(u, e) ==
    (\A f \in AllEndpoints : KeyOf(f) = KeyOf(e) => rel[f] \notin Creds)
        => Holds(u, KeyOf(e), None)

(* Its event is stored, until there is a peer relation.                      *)
Waits(u, e) == HasKind(Changed(e), deferred[u]) /\ (ready => pending[u] # {})

(* If the hook ends, the connection is in the databag or its event stored.   *)
EndsStored(u, e) ==
    /\ \/ hook[u].view[KeyOf(e)] = rel[e]
       \/ HasKind(Changed(e), hook[u].todo)
       \/ HasKind(Changed(e), hook[u].kept) /\ ~hook[u].seen.ready
    /\ HasKind(Changed(e), hook[u].kept) /\ hook[u].seen.ready => hook[u].view[KeyOf(e)] = rel[e]

(* If the hook raises, it is, or the event is still to be handled.           *)
RaisesStored(u, e) ==
    \/ hook[u].main = Changed(e)
    \/ peer[KeyOf(e)] = rel[e]
    \/ /\ HasKind(Changed(e), deferred[u])
       /\ hook[u].main \in Actions /\ ready => pending[u] # {}

StoredInv(u, e) ==
    rel[e] \in Creds /\ e \notin dying =>
        \/ Changed(e) \in pending[u]
        \/ Idle(u) /\ (peer[KeyOf(e)] = rel[e] \/ Waits(u, e))
        \/ ~Idle(u) /\ hook[u].seen.rel[e] = rel[e] /\ EndsStored(u, e) /\ RaisesStored(u, e)

LEMMA LateReadyNext ==
    ASSUME NEW u \in Units, Leads(u), [Next]_vars, leader' = leader, LateReady(u)
    PROVE  LateReady(u)'
<1>1. UnitInv /\ TypeInv /\ FailedInv
  BY DEF Leads, UnitInv, HookFacts
<1>2. CASE Aside(u)
  BY <1>1, <1>2 DEF Aside, LateReady, Idle, GivesUp, FailedInv
<1>3. CASE Moves(u)
  BY <1>3 DEF Moves, Uncommitted, jujuVars, LateReady, Idle
<1>4. CASE HookRaises(u) \/ HookEnds(u)
  <2>1. Idle(u)'
    BY <1>1, <1>4, RaiseClears DEF HookRaises, HookEnds
  <2> QED
    BY <2>1 DEF LateReady
<1>5. ASSUME NEW k \in Kinds, HookStarts(u, k) PROVE LateReady(u)'
  <2>1. hook'[u].seen.ready = ready
    BY <1>5 DEF HookStarts, Snapshot
  <2> QED
    BY <1>5, <2>1 DEF HookStarts, LateReady
<1>6. ASSUME NEW f \in Endpoints, Gone(f) PROVE LateReady(u)'
  <2>1. hook'[u].seen = hook[u].seen /\ (Idle(u)' <=> Idle(u)) /\ UNCHANGED <<ready, pending>>
    BY <1>1, <1>6, GoneHook
  <2> QED
    BY <2>1 DEF LateReady
<1> QED
  BY <1>1, <1>2, <1>3, <1>4, <1>5, <1>6, UnitCases

LEMMA EmptyNext ==
    ASSUME NEW u \in Units, Leads(u), [Next]_vars, leader' = leader, NEW e \in AllEndpoints,
           Empty(u, e), \A f \in AllEndpoints : Withdrawn(u, f)
    PROVE  Empty(u, e)'
<1>1. UnitInv /\ TypeInv /\ WriterLeads /\ leader = u /\ Reads(u) /\ SeenUnit(u)
  BY DEF Leads, UnitInv, RemovalInv
<1>2. KeyOf(e) \in Keys /\ KeyOf(e) \in DsnKeys
  BY EndpointKinds DEF KeyOf, DsnKeys
<1> SUFFICES ASSUME \A f \in AllEndpoints : KeyOf(f) = KeyOf(e) => rel'[f] \notin Creds
             PROVE  Holds(u, KeyOf(e), None)'
  BY DEF Empty, KeyOf
<1>3. rel' = rel => Holds(u, KeyOf(e), None)
  BY DEF Empty
<1>4. CASE Aside(u)
  <2>1. peer' = peer
    BY <1>1, <1>4, DatabagSame DEF Aside
  <2>2. ASSUME NEW f \in AllEndpoints, KeyOf(f) = KeyOf(e) PROVE rel[f] \notin Creds
    <3>1. EndpointAside(u, f) /\ rel'[f] \notin Creds
      BY <1>4, <2>2 DEF Aside
    <3> QED
      BY <3>1, DataAssumption DEF EndpointAside
  <2>3. Holds(u, KeyOf(e), None)
    BY <2>2 DEF Empty
  <2> QED
    BY <1>4, <2>1, <2>3 DEF Aside, Holds, Idle
<1>5. CASE Handle(u) /\ Moves(u) /\ ~HandlerRaises(u)
  <2>1. ~Idle(u) /\ Stores(u) /\ UNCHANGED <<rel, peer>>
    BY <1>5, LeadsHandles
  <2>2. peer[KeyOf(e)] = None /\ hook[u].view[KeyOf(e)] = None
    BY <1>3, <2>1 DEF Holds
  <2>3. \A f \in AllEndpoints : KeyOf(f) = KeyOf(e) => hook[u].seen.rel[f] \notin Creds
    BY <1>1, <2>1, DataAssumption DEF SeenUnit
  <2>4. hook'[u].view[KeyOf(e)] = None
    BY <1>2, <2>1, <2>2, <2>3 DEF Stores, WritesKey
  <2> QED
    BY <2>1, <2>2, <2>4 DEF Holds
<1>6. CASE HookRaises(u)
  BY <1>1, <1>3, <1>6, RaiseClears DEF HookRaises, Holds
<1>7. ASSUME NEW k \in Kinds, HookStarts(u, k) PROVE Holds(u, KeyOf(e), None)'
  BY <1>3, <1>7 DEF HookStarts, Holds
<1>8. CASE HookEnds(u)
  <2>1. ~Idle(u) /\ Idle(u)' /\ rel' = rel
    BY <1>8 DEF HookEnds
  <2>2. peer'[KeyOf(e)] = hook[u].view[KeyOf(e)]
    BY <1>1, <1>2, <1>8, <2>1, EndStores
  <2> QED
    BY <1>3, <2>1, <2>2 DEF Holds
<1>9. ASSUME NEW f \in Endpoints, Gone(f) PROVE Holds(u, KeyOf(e), None)'
  <2>1. /\ hook'[u].view = hook[u].view /\ (Idle(u)' <=> Idle(u)) /\ peer' = peer
        /\ f \in dying /\ f \in AllEndpoints /\ Broken(f) \notin pending[u] /\ hook[u].main # Broken(f)
        /\ \A g \in AllEndpoints : rel'[g] = IF g = f THEN "absent" ELSE rel[g]
    BY <1>1, <1>9, GoneHook
  <2>2. CASE KeyOf(f) = KeyOf(e)
    <3>1. Holds(u, KeyOf(e), None)
      BY <2>1, <2>2 DEF Withdrawn, Over
    <3> QED
      BY <2>1, <3>1 DEF Holds
  <2>3. CASE KeyOf(f) # KeyOf(e)
    <3>1. Holds(u, KeyOf(e), None)
      BY <2>1, <2>3 DEF Empty
    <3> QED
      BY <2>1, <3>1 DEF Holds
  <2> QED
    BY <2>2, <2>3
<1> QED
  BY <1>1, <1>4, <1>5, <1>6, <1>7, <1>8, <1>9, UnitCases

(* The hook that is to store the connection is not made to store another.    *)
LEMMA KeepsStored ==
    ASSUME NEW u \in Units, Leads(u), OneMain, Handle(u), Moves(u), ~HandlerRaises(u),
           NEW e \in AllEndpoints, e \notin MainEndpoints => Unspoiled(u, e),
           rel[e] \in Creds, e \notin dying, hook[u].seen.rel[e] = rel[e]
    PROVE  hook'[u].view[KeyOf(e)] \in {hook[u].view[KeyOf(e)], rel[e]}
<1>1. /\ ~Idle(u) /\ Stores(u) /\ \A f \in AllEndpoints : Broken(f) \in Kinds
      /\ HasKind(HeadKind(u), hook[u].todo)
      /\ \A k \in Kinds : HasKind(k, hook[u].todo) => k = hook[u].main \/ HasKind(k, deferred[u])
  BY LeadsHandles, KindsOfEndpoints
<1>2. /\ DyingUnit(u) /\ SeenUnit(u) /\ NeverStored /\ rel[e] # "absent"
      /\ \A g \in dying : rel[g] # "absent"
  BY DataAssumption DEF Leads, RemovalInv, HookFacts
<1>3. WritesKey(u, KeyOf(e))
  BY <1>1, EndpointKinds DEF Stores, KeyOf, DsnKeys
<1>4. ASSUME NEW f \in AllEndpoints, KeyOf(f) = KeyOf(e), f # e, rel[f] # "absent"
      PROVE  FALSE
  <2>1. e \in MainEndpoints /\ f \in MainEndpoints
    BY <1>4, EndpointKinds DEF KeyOf, AllEndpoints, MainEndpoints
  <2> QED
    BY <1>2, <1>4, <2>1 DEF OneMain, MainEndpoints
<1>5. ASSUME NEW f \in AllEndpoints, KeyOf(f) = KeyOf(e), hook[u].seen.rel[f] \in Creds
      PROVE  f = e
  BY <1>1, <1>2, <1>4, <1>5, DataAssumption DEF SeenUnit
<1>6. ASSUME NEW f \in AllEndpoints, KeyOf(f) = KeyOf(e), HeadKind(u) = Broken(f)
      PROVE  FALSE
  <2>1. CASE hook[u].main = Broken(f)
    BY <1>2, <1>4, <1>6, <2>1 DEF DyingUnit
  <2>2. CASE HasKind(Broken(f), deferred[u])
    <3>1. f \notin MainEndpoints
      BY <1>2, <2>2, EndpointKinds DEF NeverStored
    <3>2. f = e
      BY <1>6, <3>1 DEF KeyOf, AllEndpoints, MainEndpoints
    <3> QED
      BY <1>2, <2>2, <3>1, <3>2 DEF Unspoiled, Over
  <2> QED
    BY <1>1, <1>6, <2>1, <2>2
<1> QED
  BY <1>3, <1>5, <1>6 DEF WritesKey

LEMMA StoredHandles ==
    ASSUME NEW u \in Units, Leads(u), OneMain, Handle(u), Moves(u), ~HandlerRaises(u),
           NEW e \in AllEndpoints, e \notin MainEndpoints => Unspoiled(u, e),
           StoredInv(u, e)
    PROVE  StoredInv(u, e)'
<1>1. /\ ~Idle(u) /\ ~Idle(u)' /\ Stores(u)
      /\ UNCHANGED <<ready, pending, rel, dying, peer, deferred>>
      /\ hook'[u].main = hook[u].main /\ hook'[u].seen = hook[u].seen
  BY LeadsHandles
<1> DEFINE k == Changed(e)
           key == KeyOf(e)
<1> SUFFICES ASSUME rel[e] \in Creds, e \notin dying, Changed(e) \notin pending[u]
             PROVE  hook'[u].seen.rel[e] = rel'[e] /\ EndsStored(u, e)' /\ RaisesStored(u, e)'
  BY <1>1 DEF StoredInv
<1>2. hook[u].seen.rel[e] = rel[e] /\ EndsStored(u, e) /\ RaisesStored(u, e)
  BY <1>1 DEF StoredInv
<1>3. RaisesStored(u, e)'
  BY <1>1, <1>2 DEF RaisesStored, KeyOf
<1>4. hook'[u].view[key] \in {hook[u].view[key], rel[e]}
  BY <1>2, KeepsStored
<1>5. HeadKind(u) = k =>
          \/ ~hook[u].seen.ready /\ HasKind(k, hook'[u].kept)
          \/ hook'[u].view[key] = rel[e]
  BY <1>1, <1>2 DEF Stores, StoresChanged
<1>6. /\ HasKind(k, hook[u].kept) => HasKind(k, hook'[u].kept)
      /\ HasKind(k, hook[u].todo) /\ k # HeadKind(u)
            => HasKind(k, hook'[u].todo) \/ HasKind(k, hook'[u].kept)
      /\ HasKind(k, hook'[u].kept) => HasKind(k, hook[u].kept) \/ k = HeadKind(u)
  BY DEF Moves
<1>7. /\ \/ hook[u].view[key] = rel[e] \/ HasKind(k, hook[u].todo)
         \/ HasKind(k, hook[u].kept) /\ ~hook[u].seen.ready
      /\ HasKind(k, hook[u].kept) /\ hook[u].seen.ready => hook[u].view[key] = rel[e]
  BY <1>2 DEF EndsStored
<1>8. HasKind(k, hook'[u].kept) /\ hook[u].seen.ready => hook'[u].view[key] = rel[e]
  BY <1>4, <1>5, <1>6, <1>7
<1>9. \/ hook'[u].view[key] = rel[e] \/ HasKind(k, hook'[u].todo)
      \/ HasKind(k, hook'[u].kept) /\ ~hook[u].seen.ready
  BY <1>4, <1>5, <1>6, <1>7, <1>8
<1>10. EndsStored(u, e)'
  BY <1>1, <1>8, <1>9 DEF EndsStored, KeyOf
<1> QED
  BY <1>1, <1>2, <1>3, <1>10

LEMMA StoredInvNext ==
    ASSUME NEW u \in Units, Leads(u), OneMain, [Next]_vars, leader' = leader, ~GivesUp(u),
           NEW e \in AllEndpoints, e \notin MainEndpoints => Unspoiled(u, e),
           LateReady(u), StoredInv(u, e)
    PROVE  StoredInv(u, e)'
<1>1. UnitInv /\ TypeInv /\ WriterLeads /\ leader = u /\ Reads(u) /\ Actions \cap pending[u] = {}
  BY DEF Leads, UnitInv, RemovalInv
<1>2. KeyOf(e) \in Keys /\ Changed(e) \notin Actions \cup {"other"}
  BY EndpointKinds
<1>3. CASE Aside(u)
  <2>1. peer' = peer
    BY <1>1, <1>3, DatabagSame DEF Aside
  <2>2. /\ hook'[u] = hook[u] /\ deferred'[u] = deferred[u] /\ (Idle(u)' <=> Idle(u))
        /\ ready' => ready \/ pending'[u] # {}
        /\ pending[u] # {} => pending'[u] # {}
        /\ EndpointAside(u, e)
    BY <1>3 DEF Aside, Idle
  <2> SUFFICES ASSUME rel'[e] \in Creds, e \notin dying', Changed(e) \notin pending'[u]
               PROVE  \/ Idle(u)' /\ (peer'[KeyOf(e)] = rel'[e] \/ Waits(u, e)')
                      \/ /\ ~Idle(u)' /\ hook'[u].seen.rel[e] = rel'[e]
                         /\ EndsStored(u, e)' /\ RaisesStored(u, e)'
    BY DEF StoredInv, KeyOf
  <2>3. rel'[e] = rel[e] /\ e \notin dying /\ Changed(e) \notin pending[u]
    BY <2>2, DataAssumption DEF EndpointAside
  <2>4. \/ Idle(u) /\ (peer[KeyOf(e)] = rel[e] \/ Waits(u, e))
        \/ ~Idle(u) /\ hook[u].seen.rel[e] = rel[e] /\ EndsStored(u, e) /\ RaisesStored(u, e)
    BY <2>3 DEF StoredInv
  <2>5. Waits(u, e) => Waits(u, e)'
    BY <2>2 DEF Waits
  <2>6. EndsStored(u, e) => EndsStored(u, e)'
    BY <2>2, <2>3 DEF EndsStored, KeyOf
  <2>7. RaisesStored(u, e) => RaisesStored(u, e)'
    BY <2>1, <2>2, <2>3 DEF RaisesStored, KeyOf
  <2> QED
    BY <2>1, <2>2, <2>3, <2>4, <2>5, <2>6, <2>7
<1>4. CASE Handle(u) /\ Moves(u) /\ ~HandlerRaises(u)
  BY <1>4, StoredHandles
<1>5. CASE HookRaises(u) /\ ~Idle(u)
  <2>1. /\ Idle(u)' /\ UNCHANGED <<ready, rel, dying, peer, deferred>>
        /\ hook[u].main \notin Actions => pending'[u] = pending[u] \cup {hook[u].main}
        /\ hook[u].main \in Actions => pending'[u] = pending[u]
    BY <1>1, <1>5, RaiseClears DEF HookRaises
  <2> SUFFICES ASSUME rel[e] \in Creds, e \notin dying, Changed(e) \notin pending'[u]
               PROVE  Idle(u)' /\ (peer'[KeyOf(e)] = rel'[e] \/ Waits(u, e)')
    BY <2>1 DEF StoredInv, KeyOf
  <2>2. RaisesStored(u, e) /\ hook[u].main # Changed(e)
    BY <1>2, <1>5, <2>1 DEF StoredInv
  <2> QED
    BY <2>1, <2>2 DEF RaisesStored, Waits
<1>6. ASSUME NEW k \in Kinds, HookStarts(u, k) PROVE StoredInv(u, e)'
  <2>1. /\ Idle(u) /\ ~Idle(u)' /\ UNCHANGED <<ready, rel, dying, peer, deferred>>
        /\ hook'[u].main = k /\ hook'[u].seen = Snapshot(u, k) /\ hook'[u].view = peer
        /\ ~HasKind(Changed(e), hook'[u].kept)
        /\ HasKind(Changed(e), deferred[u]) => HasKind(Changed(e), hook'[u].todo)
        /\ k # "other" => HasKind(k, hook'[u].todo)
        /\ pending'[u] = pending[u] \ {k} \/ pending'[u] = pending[u]
        /\ k \in Actions => pending'[u] = pending[u]
    BY <1>1, <1>6 DEF HookStarts
  <2> SUFFICES ASSUME rel[e] \in Creds, e \notin dying, Changed(e) \notin pending'[u]
               PROVE  /\ hook'[u].seen.rel[e] = rel'[e]
                      /\ EndsStored(u, e)' /\ RaisesStored(u, e)'
    BY <2>1 DEF StoredInv
  <2>2. hook'[u].seen.rel[e] = rel'[e]
    BY <2>1, SnapshotSees, DataAssumption DEF Sees
  <2>3. \/ k = Changed(e)
        \/ peer[KeyOf(e)] = rel[e] \/ Waits(u, e)
    BY <2>1 DEF StoredInv
  <2>4. EndsStored(u, e)'
    BY <1>2, <2>1, <2>3 DEF EndsStored, Waits, KeyOf
  <2>5. RaisesStored(u, e)'
    BY <2>1, <2>3 DEF RaisesStored, Waits, KeyOf
  <2> QED
    BY <2>2, <2>4, <2>5
<1>7. CASE HookEnds(u)
  <2>1. /\ ~Idle(u) /\ Idle(u)' /\ UNCHANGED <<ready, rel, dying>> /\ deferred'[u] = hook[u].kept
        /\ pending[u] \subseteq pending'[u] /\ ~HasKind(Changed(e), hook[u].todo)
    BY <1>7 DEF HookEnds
  <2>2. peer'[KeyOf(e)] = hook[u].view[KeyOf(e)]
    BY <1>1, <1>2, <1>7, <2>1, EndStores
  <2> SUFFICES ASSUME rel[e] \in Creds, e \notin dying, Changed(e) \notin pending'[u]
               PROVE  Idle(u)' /\ (peer'[KeyOf(e)] = rel'[e] \/ Waits(u, e)')
    BY <2>1 DEF StoredInv, KeyOf
  <2>3. EndsStored(u, e)
    BY <2>1 DEF StoredInv
  <2> QED
    BY <2>1, <2>2, <2>3 DEF EndsStored, Waits, LateReady
<1>8. ASSUME NEW f \in Endpoints, Gone(f) PROVE StoredInv(u, e)'
  <2>1. /\ hook'[u].main = hook[u].main /\ hook'[u].seen = hook[u].seen
        /\ hook'[u].view = hook[u].view
        /\ \A k : /\ HasKind(k, hook'[u].todo) <=> HasKind(k, hook[u].todo)
                  /\ HasKind(k, hook'[u].kept) <=> HasKind(k, hook[u].kept)
                  /\ HasKind(k, deferred'[u]) <=> HasKind(k, deferred[u])
        /\ (Idle(u)' <=> Idle(u)) /\ UNCHANGED <<ready, pending, peer>>
        /\ dying' = dying \ {f} /\ rel'[e] = IF e = f THEN "absent" ELSE rel[e]
    BY <1>1, <1>8, GoneHook
  <2> SUFFICES ASSUME e # f, rel[e] \in Creds, e \notin dying PROVE StoredInv(u, e)'
    BY <2>1, DataAssumption DEF StoredInv
  <2>2. rel'[e] = rel[e]
    BY <2>1
  <2>3. /\ Waits(u, e) => Waits(u, e)'
        /\ EndsStored(u, e) => EndsStored(u, e)'
        /\ RaisesStored(u, e) => RaisesStored(u, e)'
    BY <2>1, <2>2 DEF Waits, EndsStored, RaisesStored, KeyOf
  <2> QED
    BY <2>1, <2>2, <2>3 DEF StoredInv, KeyOf
<1> QED
  BY <1>1, <1>3, <1>4, <1>5, <1>6, <1>7, <1>8, UnitCases

-----------------------------------------------------------------------------
(* The databag, once nothing is left to run.                                 *)

(* No broken event of an earlier integration of the metrics database waits   *)
(* to clear the connection of the one integrated now.                        *)
MetricsClean ==
    rel["metrics_db"] # "absent" /\ "metrics_db" \notin dying
        => ~HasKind(Broken("metrics_db"), deferred[leader])

(* The lease stays, and no failed hook of the leader is given up.            *)
LeaseKept == leader' = leader /\ ~GivesUp(leader)

(* What holds of the leader u whatever becomes of the metrics database.      *)
MainOf(u) == Leads(u) /\ \A e \in MainEndpoints : Withdrawn(u, e) /\ Clears(u, e)

DatabagOf(u) ==
    /\ Leads(u) /\ LateReady(u) /\ Unspoiled(u, "metrics_db")
    /\ \A e \in AllEndpoints :
          Withdrawn(u, e) /\ Clears(u, e) /\ Empty(u, e) /\ StoredInv(u, e)

DatabagInv == \E u \in Units : DatabagOf(u)

LEMMA LeadsNext ==
    ASSUME NEW u \in Units, Leads(u), [Next]_vars, leader' = leader
    PROVE  Leads(u)'
<1>1. UnitInv /\ HookFacts /\ WriterLeads /\ RemovalInv /\ leader = u
  BY DEF Leads
<1>2. UnitInv' /\ HookFacts' /\ WriterLeads' /\ RemovalInv'
  BY <1>1, UnitInvNext, HookFactsNext, WriterLeadsNext, RemovalInvNext DEF UnitInv
<1>3. Reads(u)' /\ MetricsReady(u)'
  BY ReadsNext
<1> QED
  BY <1>1, <1>2, <1>3 DEF Leads

LEMMA DatabagOfNext ==
    ASSUME NEW u \in Units, DatabagOf(u), OneMain, MetricsClean', [Next]_vars, LeaseKept
    PROVE  DatabagOf(u)'
<1>1. /\ Leads(u) /\ LateReady(u) /\ leader = u /\ leader' = leader /\ ~GivesUp(u)
      /\ \A e \in AllEndpoints :
            Withdrawn(u, e) /\ Clears(u, e) /\ Empty(u, e) /\ StoredInv(u, e)
  BY DEF DatabagOf, Leads, LeaseKept
<1>2. "metrics_db" \in AllEndpoints /\ \A e \in AllEndpoints \ MainEndpoints : Unspoiled(u, e)
  BY DEF DatabagOf, AllEndpoints, MainEndpoints
<1>3. Leads(u)' /\ LateReady(u)'
  BY <1>1, LeadsNext, LateReadyNext
<1>4. ASSUME NEW e \in AllEndpoints
      PROVE  Withdrawn(u, e)' /\ Clears(u, e)' /\ Empty(u, e)' /\ StoredInv(u, e)'
  BY <1>1, <1>2, WithdrawnNext, ClearsNext, EmptyNext, StoredInvNext
<1>5. (rel["metrics_db"] # "absent" /\ "metrics_db" \notin dying
          => ~HasKind(Broken("metrics_db"), deferred[u]))'
  BY <1>1 DEF MetricsClean
<1>6. Unspoiled(u, "metrics_db")
  BY DEF DatabagOf
<1>7. Unspoiled(u, "metrics_db")'
  BY <1>1, <1>2, <1>5, <1>6, UnspoiledNext
<1> QED
  BY <1>3, <1>4, <1>7 DEF DatabagOf

LEMMA DatabagInvNext ==
    DatabagInv /\ [Next]_vars /\ [LeaseKept]_vars /\ OneMain /\ MetricsClean' => DatabagInv'
<1> SUFFICES ASSUME DatabagInv, [Next]_vars, [LeaseKept]_vars, OneMain, MetricsClean'
             PROVE  DatabagInv'
  OBVIOUS
<1>1. PICK u \in Units : DatabagOf(u)
  BY DEF DatabagInv
<1>2. CASE LeaseKept
  BY <1>1, <1>2, DatabagOfNext DEF DatabagInv
<1>3. CASE UNCHANGED vars
  <2>1. FailedInv /\ leader = u
    BY <1>1 DEF DatabagOf, Leads, HookFacts
  <2>2. LeaseKept
    BY <1>3, <2>1 DEF vars, jujuVars, charmVars, LeaseKept, GivesUp
  <2> QED
    BY <1>1, <2>2, DatabagOfNext DEF DatabagInv
<1> QED
  BY <1>2, <1>3

LEMMA DatabagSettles == DatabagInv /\ OneMain /\ ready => QuiescentDatabag
<1> SUFFICES ASSUME DatabagInv, OneMain, ready, Settled
             PROVE  LET main == {Published("database"), Published("database_legacy")} IN
                    /\ peer["dsn"] \in IF main = {None} THEN main ELSE main \ {None}
                    /\ peer["dsn_metrics"] = Published("metrics_db")
  BY DEF QuiescentDatabag
<1>1. PICK u \in Units : DatabagOf(u)
  BY DEF DatabagInv
<1>2. dying = {} /\ Idle(u) /\ pending[u] = {}
  BY DEF Settled
<1>3. /\ KeyOf("database") = "dsn" /\ KeyOf("database_legacy") = "dsn"
      /\ KeyOf("metrics_db") = "dsn_metrics"
      /\ AllEndpoints = {"database", "database_legacy", "metrics_db"}
      /\ None \notin Creds /\ "absent" \notin Creds
  BY DataAssumption DEF KeyOf, AllEndpoints
<1>4. ASSUME NEW e \in AllEndpoints, rel[e] \in Creds PROVE peer[KeyOf(e)] = rel[e]
  BY <1>1, <1>2, <1>4 DEF DatabagOf, StoredInv, Waits
<1>5. ASSUME NEW e \in AllEndpoints,
             \A f \in AllEndpoints : KeyOf(f) = KeyOf(e) => rel[f] \notin Creds
      PROVE  peer[KeyOf(e)] = None
  BY <1>1, <1>5 DEF DatabagOf, Empty, Holds
<1>6. peer["dsn_metrics"] = Published("metrics_db")
  BY <1>3, <1>4, <1>5 DEF Published
<1>7. rel["database"] = "absent" \/ rel["database_legacy"] = "absent"
  BY DEF OneMain, MainEndpoints
<1>8. CASE rel["database"] \notin Creds /\ rel["database_legacy"] \notin Creds
  BY <1>3, <1>5, <1>6, <1>8 DEF Published
<1>9. CASE rel["database"] \in Creds
  BY <1>3, <1>4, <1>6, <1>7, <1>9 DEF Published
<1>10. CASE rel["database_legacy"] \in Creds
  BY <1>3, <1>4, <1>6, <1>7, <1>10 DEF Published
<1> QED
  BY <1>8, <1>9, <1>10

LEMMA LeadsInit ==
    ASSUME Init \/ Deployed
    PROVE  /\ leader \in Units /\ Leads(leader)
           /\ \A u \in Units : Idle(u) /\ failed[u] = None
           /\ dying = {}
           /\ \A u \in Units : pending[u] \subseteq {"config_changed", "start", "leader_elected"}
<1>1. UnitInv /\ WriterLeads /\ HookFacts
  BY UnitInvInit, WriterLeadsInit, LeaderInvInit DEF LeaderInv
<1>2. /\ leader \in Units /\ dying = {}
      /\ \A u \in Units : hook[u] = IdleHook /\ failed[u] = None
      /\ \A u \in Units : pending[u] \subseteq {"config_changed", "start", "leader_elected"}
  BY DEF Init, Deployed
<1>3. \A u \in Units : Idle(u) /\ hook[u].main = None
  BY <1>2 DEF Idle, IdleHook
<1>4. \A e \in AllEndpoints :
          Broken(e) \notin {"config_changed", "start", "leader_elected", None}
  BY EndpointKinds DEF ReconcilingKinds
<1>5. Actions \cap {"config_changed", "start", "leader_elected"} = {}
  BY DEF Actions
<1>6. ASSUME NEW u \in Units PROVE DyingUnit(u) /\ SeenUnit(u) /\ Actions \cap pending[u] = {}
  <2>1. pending[u] \subseteq {"config_changed", "start", "leader_elected"}
    BY <1>2
  <2>2. \A e \in AllEndpoints : Broken(e) \notin pending[u] /\ hook[u].main # Broken(e)
    BY <1>3, <1>4, <2>1
  <2> QED
    BY <1>3, <1>5, <2>1, <2>2 DEF DyingUnit, SeenUnit
<1>7. RemovalInv
  BY <1>2, <1>6 DEF RemovalInv
<1>8. peer["dsn_metrics"] = None
  <2>1. "dsn_metrics" \in Keys
    BY DEF Keys
  <2>2. CASE Init \/ Unintegrated
    BY <2>1, <2>2 DEF Init, Unintegrated
  <2>3. CASE Serving
    <3>1. PICK c \in Creds, token \in Tokens \cup {None} : peer = [k \in Keys |->
                 CASE k = "dsn" -> c [] k = "dsn_metrics" -> None [] k = "resource_token" -> token]
      BY <2>3 DEF Serving
    <3> QED
      BY <2>1, <3>1
  <2> QED
    BY <2>2, <2>3 DEF Deployed
<1>9. Reads(leader) /\ MetricsReady(leader)
  BY <1>2, <1>3, <1>8 DEF Reads, MetricsReady
<1> QED
  BY <1>1, <1>2, <1>3, <1>7, <1>9 DEF Leads

LEMMA DatabagInvInit == Init \/ Deployed => DatabagInv
<1> SUFFICES ASSUME Init \/ Deployed PROVE DatabagOf(leader)
  BY LeadsInit DEF DatabagInv
<1>1. Leads(leader) /\ Idle(leader) /\ dying = {}
  BY LeadsInit
<1>2. /\ {"dsn", "dsn_metrics"} \subseteq Keys /\ None \notin Creds /\ "absent" \notin Creds
      /\ AllEndpoints = {"database", "database_legacy", "metrics_db"}
      /\ KeyOf("database") = "dsn" /\ KeyOf("database_legacy") = "dsn"
      /\ KeyOf("metrics_db") = "dsn_metrics"
  BY DataAssumption DEF Keys, KeyOf, AllEndpoints
<1>3. rel["metrics_db"] = "absent" /\ \A e \in AllEndpoints : Empty(leader, e) /\ StoredInv(leader, e)
  <2>1. CASE Init \/ Unintegrated
    <3>1. /\ \A e \in AllEndpoints : rel[e] = "absent"
          /\ peer["dsn"] = None /\ peer["dsn_metrics"] = None
      BY <1>2, <2>1 DEF Init, Unintegrated
    <3>2. \A e \in AllEndpoints : peer[KeyOf(e)] = None
      BY <1>2, <3>1
    <3> QED
      BY <1>1, <1>2, <3>1, <3>2 DEF Empty, Holds, StoredInv
  <2>2. CASE Serving
    <3>1. PICK c \in Creds, token \in Tokens \cup {None}, e \in Endpoints \ {"metrics_db"} :
              /\ rel = [f \in AllEndpoints |-> IF f = e THEN c ELSE "absent"]
              /\ peer = [k \in Keys |->
                   CASE k = "dsn" -> c [] k = "dsn_metrics" -> None [] k = "resource_token" -> token]
      BY <2>2 DEF Serving
    <3>2. e \in {"database", "database_legacy"}
      BY <1>2, EndpointsAssumption
    <3>3. /\ \A f \in AllEndpoints : rel[f] = IF f = e THEN c ELSE "absent"
          /\ peer["dsn"] = c /\ peer["dsn_metrics"] = None
      BY <1>2, <3>1
    <3>4. rel["metrics_db"] = "absent" /\ rel[e] = c /\ KeyOf(e) = "dsn" /\ e \in AllEndpoints
      BY <1>2, <3>2, <3>3
    <3>5. ASSUME NEW f \in AllEndpoints PROVE Empty(leader, f) /\ StoredInv(leader, f)
      <4>1. CASE f = "metrics_db"
        <5>1. Holds(leader, KeyOf(f), None)
          BY <1>1, <1>2, <3>3, <4>1 DEF Holds
        <5> QED
          BY <1>2, <3>4, <4>1, <5>1 DEF Empty, StoredInv
      <4>2. CASE f # "metrics_db"
        <5>1. KeyOf(f) = "dsn"
          BY <1>2, <4>2
        <5>2. Empty(leader, f)
          BY <3>4, <5>1 DEF Empty
        <5>3. rel[f] \in Creds => peer[KeyOf(f)] = rel[f]
          BY <1>2, <3>3, <5>1
        <5> QED
          BY <1>1, <5>2, <5>3 DEF StoredInv
      <4> QED
        BY <4>1, <4>2
    <3> QED
      BY <3>4, <3>5
  <2> QED
    BY <2>1, <2>2 DEF Deployed
<1>4. \A e \in AllEndpoints : Withdrawn(leader, e) /\ Clears(leader, e)
  BY <1>1 DEF Withdrawn, Over, Clears
<1>5. LateReady(leader) /\ Unspoiled(leader, "metrics_db")
  BY <1>1, <1>3 DEF LateReady, Unspoiled
<1> QED
  BY <1>1, <1>3, <1>4, <1>5 DEF DatabagOf

(* While the lease stays, one main database is integrated at a time, no       *)
(* failed hook of the leader is given up and no broken event of an earlier    *)
(* metrics database waits, the units of a deployed application settle on the  *)
(* connections that the databases publish, whatever _on_database_event,      *)
(* _on_legacy_db_master_changed and the broken handlers were given to handle *)
(* and however often they raise.                                              *)
THEOREM DeployedDatabagSettles ==
    DeployedSpec /\ [][LeaseKept]_vars /\ []OneMain /\ []MetricsClean => []QuiescentDatabag
<1>1. Deployed => DatabagInv
  BY DatabagInvInit
<1>2. DatabagInv /\ [Next]_vars /\ [LeaseKept]_vars /\ OneMain /\ MetricsClean' => DatabagInv'
  BY DatabagInvNext
<1>3. Deployed => AlwaysReady /\ UnitInv
  BY EndpointsInvInit DEF EndpointsInv
<1>4. UnitInv /\ AlwaysReady /\ [Next]_vars => (UnitInv /\ AlwaysReady)'
  BY AlwaysReadyNext, UnitInvNext
<1>5. DatabagInv /\ OneMain /\ AlwaysReady => QuiescentDatabag
  BY DatabagSettles DEF AlwaysReady
<1> QED
  BY <1>1, <1>2, <1>3, <1>4, <1>5, PTL DEF DeployedSpec

(* The same from the installation on, once the peer relation exists.          *)
THEOREM DatabagSettled ==
    Spec /\ [][LeaseKept]_vars /\ []OneMain /\ []MetricsClean => [](ready => QuiescentDatabag)
<1>1. Init => DatabagInv
  BY DatabagInvInit
<1>2. DatabagInv /\ [Next]_vars /\ [LeaseKept]_vars /\ OneMain /\ MetricsClean' => DatabagInv'
  BY DatabagInvNext
<1>3. DatabagInv /\ OneMain => (ready => QuiescentDatabag)
  BY DatabagSettles
<1> QED
  BY <1>1, <1>2, <1>3, PTL DEF Spec

-----------------------------------------------------------------------------
(* The other units.                                                          *)

(* The events whose handler, in a unit that does not lead, reconciles or     *)
(* defers.                                                                   *)
Informing == ReconcilingKinds \cup {"livepatch_relation_changed", Broken("metrics_db")}

(* The hooks after which the unit has followed the databag, or has nothing   *)
(* to serve.                                                                 *)
Restoring == Informing \cup {"stop"} \cup MainBroken

Informed(notices) == \E k \in Informing : HasKind(k, notices)

(* The leader u is still to clear the connection that the unit lost.         *)
Clearing(u) ==
    \E e \in MainEndpoints : e \in dying /\ (Broken(e) \in pending[u] \/ hook[u].main = Broken(e))

Good(u, v) == Open(v) /\ ~Clearing(u) => ServesDatabag(v)

(* What the hook of the unit has read still holds.                           *)
UpToDate(v) ==
    /\ hook[v].seen.ready = ready
    /\ hook[v].seen.config = config /\ hook[v].seen.links = links
    /\ \A k \in Keys : hook[v].view[k] = peer[k]

FollowsEnd(u, v) ==
    \/ hook[v].main \in MainBroken \cup {"stop"}
    \/ Informed(hook[v].todo) \/ Informed(hook[v].kept)
    \/ Good(u, v)

FollowsRaise(u, v) ==
    \/ Informed(deferred[v])
    \/ hook[v].main \in Restoring
    \/ Good(u, v)

Follows(u, v) ==
    \/ Restoring \cap pending[v] # {}
    \/ Idle(v) /\ (Informed(deferred[v]) \/ Good(u, v))
    \/ ~Idle(v) /\ UpToDate(v) /\ FollowsEnd(u, v) /\ FollowsRaise(u, v)

(* What a handler of the unit does about it.                                 *)
Answers(v) ==
    \/ Open(v)' => ServesDatabag(v)'
    \/ HeadKind(v) \in MainBroken \cup {"stop"}
    \/ /\ svc'[v] = svc[v] /\ conn'[v] = conn[v]
       /\ HeadKind(v) \in Informing => HasKind(HeadKind(v), hook'[v].kept)

LEMMA InformingKinds ==
    /\ Informing = ReconcilingKinds \cup {"livepatch_relation_changed", "metrics_db_relation_broken"}
    /\ Restoring = Informing \cup {"stop", "database_relation_broken", "database_legacy_relation_broken"}
    /\ MainBroken = {"database_relation_broken", "database_legacy_relation_broken"}
    /\ Restoring \subseteq Kinds /\ Restoring \cap (Actions \cup {None, "other"}) = {}
    /\ Informing \cap OwnEvents = {}
    /\ \A e \in AllEndpoints : Broken(e) \in Restoring /\ Changed(e) \notin Restoring
    /\ LegacyJoined \notin Restoring
<1>1. /\ Broken("database") = "database_relation_broken"
      /\ Broken("database_legacy") = "database_legacy_relation_broken"
      /\ Broken("metrics_db") = "metrics_db_relation_broken"
  BY DEF Broken
<1>2. MainBroken = {"database_relation_broken", "database_legacy_relation_broken"}
  BY <1>1 DEF MainBroken, MainEndpoints
<1>3. /\ Informing = ReconcilingKinds \cup {"livepatch_relation_changed", "metrics_db_relation_broken"}
      /\ Restoring = Informing \cup {"stop", "database_relation_broken", "database_legacy_relation_broken"}
  BY <1>1, <1>2 DEF Informing, Restoring
<1>4. \A e \in AllEndpoints : Broken(e) \in Kinds /\ Broken(e) \in Restoring
  BY <1>1, <1>3, KindsOfEndpoints DEF AllEndpoints
<1>5. Restoring \subseteq Kinds
  <2>1. {"database_relation_broken", "database_legacy_relation_broken",
         "metrics_db_relation_broken"} \subseteq Kinds
    BY <1>1, <1>4 DEF AllEndpoints
  <2> QED
    BY <1>3, <2>1 DEF Kinds
<1>6. /\ Restoring \cap (Actions \cup {None, "other"}) = {} /\ LegacyJoined \notin Restoring
      /\ Informing \cap OwnEvents = {}
  BY <1>2, <1>3, <1>5, DataAssumption DEF ReconcilingKinds, Actions, LegacyJoined, OwnEvents
<1>7. \A e \in AllEndpoints : Changed(e) \notin Restoring
  BY <1>3, EventKinds DEF AllEndpoints, ReconcilingKinds
<1> QED
  BY <1>2, <1>3, <1>4, <1>5, <1>6, <1>7

LEMMA FollowerReconfigures ==
    ASSUME UnitInv, NEW v \in Units, hook[v].todo # <<>>, hook[v] \in ActiveHooks,
           hook[v].view["dsn"] # None => hook[v].seen.ready,
           UpToDate(v), UNCHANGED <<config, links, peer>>,
           HeadKind(v) \in Actions => "schema" \in conn[v],
           NEW before, Reconfigure(v, hook[v], before)
    PROVE  \/ Open(v)' => ServesDatabag(v)'
           \/ /\ svc'[v] = before /\ conn'[v] = conn[v] /\ HeadKind(v) \notin Actions
              /\ HasKind(HeadKind(v), hook'[v].kept)
<1> DEFINE h == hook[v]
           outcome == Outcome(InputsOf(v, h))
           deferring == Defers(outcome)
<1>1. CharmTypes /\ {"dsn", "dsn_metrics", "resource_token"} \subseteq Keys
  BY TypeInvParts DEF UnitInv, Keys
<1>2. deferring \in BOOLEAN /\ FALSE \in BOOLEAN
  BY DEF Defers
<1>3. \/ /\ hook'[v] = Consume(h, deferring)
         /\ svc'[v] = IF outcome = "started" THEN EnvironmentOf(v, h) ELSE before
         /\ conn' = conn
      \/ conn'[v] = conn[v] \ {"livepatch"}
  BY <1>1 DEF Reconfigure, CharmTypes
<1>4. /\ outcome = "started" => Opens(v, h.view, h.seen.config, h.seen.links)
      /\ Opens(v, h.view, h.seen.config, h.seen.links) =>
            outcome \in {"started", "no_schema"} /\ (outcome = "no_schema" => "schema" \notin conn[v])
      /\ outcome = "no_schema" => deferring
  BY OpensWhen
<1>5. outcome = "started" => EnvironmentOf(v, h) \in Environments
  BY EnvironmentType
<1>6. /\ EnvironmentOf(v, h).dsn = peer["dsn"]
      /\ EnvironmentOf(v, h).dsn_metrics = peer["dsn_metrics"]
  BY <1>1 DEF EnvironmentOf, UpToDate
<1>7. deferring /\ HeadKind(v) \notin Actions => HasKind(HeadKind(v), Consume(h, deferring).kept)
  BY <1>2, ConsumeKinds DEF HeadKind
<1> HIDE DEF deferring, outcome
<1>8. Opens(v, h.view, h.seen.config, h.seen.links) <=> Open(v)
  BY <1>1, OpensSame DEF Open, UpToDate
<1>9. conn'[v] = conn[v] => (Open(v)' <=> Open(v))
  BY DEF Open, Opens
<1>10. "livepatch" \notin conn'[v] => ~Open(v)'
  BY DEF Open, Opens, Outcome
<1>11. CASE conn'[v] = conn[v] \ {"livepatch"}
  BY <1>10, <1>11
<1>12. CASE /\ hook'[v] = Consume(h, deferring)
            /\ svc'[v] = IF outcome = "started" THEN EnvironmentOf(v, h) ELSE before
            /\ conn' = conn
  <2>1. CASE outcome = "started"
    <3>1. svc'[v] = EnvironmentOf(v, h) /\ svc'[v] \in Environments
      BY <1>5, <1>12, <2>1
    <3> QED
      BY <1>6, <3>1, DataAssumption DEF ServesDatabag, Running
  <2>2. CASE outcome # "started"
    BY <1>4, <1>7, <1>8, <1>9, <1>12, <2>2
  <2> QED
    BY <2>1, <2>2
<1> QED
  BY <1>3, <1>11, <1>12

(* An action of the unit, whose event nothing can defer, finds the schema    *)
(* container answering.                                                      *)
Hears(v) == HandleRestartAction(v) \/ HandleTokenAction(v) => "schema" \in conn[v]

LEMMA FollowerAnswers ==
    ASSUME UnitInv, DsnInv, NEW v \in Units, leader # v, Handle(v), ~HandlerRaises(v),
           UpToDate(v), UNCHANGED <<config, links, peer>>, Hears(v)
    PROVE  Answers(v)
<1> DEFINE h == hook[v]
<1>1. h.todo # <<>> /\ h \in ActiveHooks
  BY HandlersDo
<1>2. h.view["dsn"] # None => h.seen.ready
  BY <1>1 DEF DsnInv, Idle, ActiveHooks
<1>3. \A k : Handles(v, k) => HeadKind(v) = k
  BY DEF Handles, HeadKind
<1>4. ASSUME NEW d, Skip(v, d), HeadKind(v) \notin Informing PROVE Answers(v)
  BY <1>4 DEF Skip, Answers
<1>5. ASSUME Reconfigure(v, h, svc[v]), HeadKind(v) \notin Actions PROVE Answers(v)
  <2>1. \/ Open(v)' => ServesDatabag(v)'
        \/ /\ svc'[v] = svc[v] /\ conn'[v] = conn[v]
           /\ HasKind(HeadKind(v), hook'[v].kept)
    BY <1>1, <1>2, <1>5, FollowerReconfigures
  <2> QED
    BY <2>1 DEF Answers
<1>6. CASE HandleReconciling(v)
  BY <1>3, <1>5, <1>6 DEF HandleReconciling, ReconcilingKinds, Actions
<1>7. CASE HandlePeerChanged(v)
  <2>1. HeadKind(v) = "livepatch_relation_changed"
    BY <1>3, <1>7 DEF HandlePeerChanged
  <2>2. CASE h.seen.ready
    BY <1>5, <1>7, <2>1, <2>2 DEF HandlePeerChanged, Actions
  <2>3. CASE ~h.seen.ready
    <3>1. peer'["dsn"] = None
      BY <2>3 DEF UpToDate, DsnInv
    <3>2. ~Open(v)'
      BY <3>1 DEF Open, Opens, Outcome, SchemaUpgradeDefers
    <3> QED
      BY <3>2 DEF Answers
  <2> QED
    BY <2>2, <2>3
<1>8. CASE HandleUpdateStatus(v)
  BY <1>3, <1>8, InformingKinds DEF HandleUpdateStatus, Answers, ReconcilingKinds
<1>9. CASE HandleStop(v)
  BY <1>3, <1>9 DEF HandleStop, Answers
<1>10. ASSUME NEW e \in {"database", "metrics_db"}, HandleDatabaseChanged(v, e)
       PROVE  Answers(v)
  <2>1. HeadKind(v) = Changed(e) /\ Skip(v, FALSE)
    BY <1>3, <1>10 DEF HandleDatabaseChanged
  <2> QED
    BY <1>4, <2>1, InformingKinds DEF AllEndpoints, Restoring
<1>11. CASE HandleLegacyJoined(v)
  <2>1. HeadKind(v) = LegacyJoined /\ svc' = svc /\ conn' = conn
    BY <1>3, <1>11 DEF HandleLegacyJoined, Skip
  <2> QED
    BY <2>1, InformingKinds DEF Restoring, Answers
<1>12. CASE HandleMasterChanged(v)
  <2>1. HeadKind(v) = "master_changed" /\ HeadKind(v) \notin Actions /\ HeadKind(v) \notin Informing
    BY <1>3, <1>12, InformingKinds DEF HandleMasterChanged, Actions, ReconcilingKinds
  <2>2. Skip(v, ~h.seen.ready) \/ Reconfigure(v, h, svc[v])
    BY <1>12 DEF HandleMasterChanged
  <2> QED
    BY <1>4, <1>5, <2>1, <2>2
<1>13. ASSUME NEW e \in MainEndpoints, HandleDatabaseBroken(v, e) PROVE Answers(v)
  BY <1>3, <1>13 DEF HandleDatabaseBroken, Answers, MainBroken
<1>14. CASE HandleMetricsBroken(v)
  <2>1. HeadKind(v) = Broken("metrics_db") /\ Reconfigure(v, h, svc[v])
    BY <1>3, <1>14 DEF HandleMetricsBroken
  <2> QED
    BY <1>5, <2>1, EndpointKinds DEF AllEndpoints
<1>15. CASE HandleRestartAction(v)
  <2>1. HeadKind(v) \in Actions /\ Reconfigure(v, h, StoppedService(v)) /\ "schema" \in conn[v]
    BY <1>3, <1>15 DEF HandleRestartAction, Actions, Hears
  <2>2. Open(v)' => ServesDatabag(v)'
    BY <1>1, <1>2, <2>1, FollowerReconfigures
  <2> QED
    BY <2>2 DEF Answers
<1>16. CASE HandleTokenAction(v)
  <2>1. HeadKind(v) = "get_resource_token_action" /\ Skip(v, FALSE)
    BY <1>3, <1>16 DEF HandleTokenAction
  <2>2. HeadKind(v) \notin Informing
    BY <2>1, InformingKinds DEF ReconcilingKinds
  <2> QED
    BY <1>4, <2>1, <2>2
<1> QED
  BY <1>6, <1>7, <1>8, <1>9, <1>10, <1>11, <1>12, <1>13, <1>14, <1>15, <1>16 DEF Handle, MainEndpoints

-----------------------------------------------------------------------------
(* A step that leaves the unit alone.                                        *)
LEMMA ClearingNext ==
    ASSUME NEW u \in Units, MainOf(u), [Next]_vars, leader' = leader, Clearing(u),
           ~(GivesUp(u) /\ failed[u] \in MainBroken)
    PROVE  Clearing(u)' \/ peer'["dsn"] = None
<1>1. UnitInv /\ TypeInv /\ Leads(u) /\ Reads(u) /\ "dsn" \in Keys
  BY DEF MainOf, Leads, UnitInv, Keys
<1>2. PICK e \in MainEndpoints : e \in dying /\ (Broken(e) \in pending[u] \/ hook[u].main = Broken(e))
  BY DEF Clearing
<1>3. e \in AllEndpoints /\ KeyOf(e) = "dsn" /\ Broken(e) \in MainBroken
  BY EndpointKinds DEF MainBroken
<1>4. CASE Aside(u)
  BY <1>2, <1>3, <1>4 DEF Aside, EndpointAside, Clearing
<1>5. CASE Moves(u)
  BY <1>2, <1>5 DEF Moves, Uncommitted, jujuVars, Clearing
<1>6. CASE HookRaises(u)
  <2>1. /\ dying' = dying /\ pending[u] \subseteq pending'[u]
        /\ hook[u].main \notin Actions => hook[u].main \in pending'[u]
    BY <1>1, <1>6, RaiseClears DEF HookRaises
  <2>2. Broken(e) \notin Actions
    BY <1>3, EndpointKinds
  <2> QED
    BY <1>2, <2>1, <2>2 DEF Clearing
<1>7. ASSUME NEW k \in Kinds, HookStarts(u, k) PROVE Clearing(u)'
  <2>1. /\ Idle(u) /\ dying' = dying /\ hook'[u].main = k
        /\ pending'[u] = pending[u] \ {k} \/ pending'[u] = pending[u]
    BY <1>7 DEF HookStarts
  <2>2. Broken(e) # None
    BY <1>3, EndpointKinds
  <2> QED
    BY <1>2, <2>1, <2>2 DEF Clearing, Idle
<1>8. CASE HookEnds(u)
  <2>1. /\ ~Idle(u) /\ dying' = dying /\ pending[u] \subseteq pending'[u]
        /\ \A j : ~HasKind(j, hook[u].todo)
    BY <1>8 DEF HookEnds
  <2>2. peer'["dsn"] = hook[u].view["dsn"]
    BY <1>1, <1>8, <2>1, EndStores
  <2>3. hook[u].main = Broken(e) => hook[u].view["dsn"] = None
    BY <1>3, <2>1 DEF MainOf, Clears
  <2> QED
    BY <1>2, <2>1, <2>2, <2>3 DEF Clearing
<1>9. ASSUME NEW f \in Endpoints, Gone(f) PROVE Clearing(u)'
  <2>1. /\ hook'[u].main = hook[u].main /\ UNCHANGED pending /\ dying' = dying \ {f}
        /\ Broken(f) \notin pending[u] /\ hook[u].main # Broken(f)
    BY <1>1, <1>9, GoneHook
  <2> QED
    BY <1>2, <2>1 DEF Clearing
<1> QED
  BY <1>1, <1>4, <1>5, <1>6, <1>7, <1>8, <1>9, UnitCases

LEMMA GoodKept ==
    ASSUME NEW u, NEW v, Good(u, v), UNCHANGED <<config, links>>,
           \A k \in Keys : peer'[k] = peer[k],
           "livepatch" \in conn'[v] => svc'[v] = svc[v] /\ "livepatch" \in conn[v],
           Clearing(u) => Clearing(u)' \/ peer'["dsn"] = None
    PROVE  Good(u, v)'
<1>1. {"dsn", "dsn_metrics", "resource_token"} \subseteq Keys
  BY DEF Keys
<1> SUFFICES ASSUME Open(v)', ~Clearing(u)' PROVE ServesDatabag(v)'
  BY DEF Good
<1>2. "livepatch" \in conn'[v] /\ peer'["dsn"] # None
  BY DEF Open, Opens, Outcome, SchemaUpgradeDefers
<1>3. Open(v) /\ ~Clearing(u)
  BY <1>1, <1>2 DEF Open, Opens
<1>4. ServesDatabag(v) /\ svc'[v] = svc[v]
  BY <1>2, <1>3 DEF Good
<1> QED
  BY <1>1, <1>4 DEF ServesDatabag, Running

LEMMA FollowsKept ==
    ASSUME NEW u, NEW v, Follows(u, v), UNCHANGED <<ready, config, links>>,
           \A k \in Keys : peer'[k] = peer[k],
           "livepatch" \in conn'[v] => svc'[v] = svc[v] /\ "livepatch" \in conn[v],
           Clearing(u) => Clearing(u)' \/ peer'["dsn"] = None,
           Restoring \cap pending[v] \subseteq pending'[v],
           hook'[v].main = hook[v].main, hook'[v].seen = hook[v].seen, hook'[v].view = hook[v].view,
           \A k : /\ HasKind(k, hook[v].todo) => HasKind(k, hook'[v].todo)
                  /\ HasKind(k, hook[v].kept) => HasKind(k, hook'[v].kept)
                  /\ HasKind(k, deferred[v]) => HasKind(k, deferred'[v])
    PROVE  Follows(u, v)'
<1>1. Good(u, v) => Good(u, v)'
  BY GoodKept
<1>2. (Idle(v)' <=> Idle(v)) /\ (UpToDate(v) => UpToDate(v)')
  BY DEF Idle, UpToDate
<1>3. Informed(deferred[v]) => Informed(deferred'[v])
  BY DEF Informed
<1>4. FollowsEnd(u, v) => FollowsEnd(u, v)'
  BY <1>1 DEF FollowsEnd, Informed
<1>5. FollowsRaise(u, v) => FollowsRaise(u, v)'
  BY <1>1, <1>3 DEF FollowsRaise
<1>6. Restoring \cap pending[v] # {} => Restoring \cap pending'[v] # {}
  OBVIOUS
<1> QED
  BY <1>1, <1>2, <1>3, <1>4, <1>5, <1>6 DEF Follows

LEMMA FollowsQuiet ==
    ASSUME UnitInv, QuietStep, leader' = leader, NEW u \in Units, leader = u, NEW v \in Units \ {u},
           Follows(u, v), Clearing(u) => Clearing(u)' \/ peer'["dsn"] = None,
           ~(GivesUp(v) /\ failed[v] \in Restoring)
    PROVE  Follows(u, v)'
<1>1. JujuTypes /\ CharmTypes
  BY TypeInvParts DEF UnitInv
<1>2. UNCHANGED <<hook, deferred, peer>>
  BY QuietHolds
<1>3. ASSUME NEW k \in Restoring, k \in pending'[v] PROVE Follows(u, v)'
  BY <1>3 DEF Follows
<1>4. ASSUME UNCHANGED <<ready, config, links>>, Restoring \cap pending[v] \subseteq pending'[v],
             "livepatch" \in conn'[v] => svc'[v] = svc[v] /\ "livepatch" \in conn[v]
      PROVE  Follows(u, v)'
  <2> DEFINE Same == /\ hook'[v].main = hook[v].main /\ hook'[v].seen = hook[v].seen
                     /\ hook'[v].view = hook[v].view
                     /\ \A k : /\ HasKind(k, hook[v].todo) => HasKind(k, hook'[v].todo)
                               /\ HasKind(k, hook[v].kept) => HasKind(k, hook'[v].kept)
                               /\ HasKind(k, deferred[v]) => HasKind(k, deferred'[v])
  <2>1. Same
    BY <1>2
  <2> QED
    BY <1>2, <1>4, <2>1, FollowsKept
<1>5. CASE PeerRelationCreated
  <2>1. Units # {leader} /\ "livepatch_relation_changed" \in Restoring
    BY InformingKinds
  <2>2. "livepatch_relation_changed" \in pending'[v]
    BY <1>5, <2>1 DEF PeerRelationCreated, Notify
  <2> QED
    BY <1>3, <2>1, <2>2
<1>6. ASSUME NEW w \in Units, NEW c \in {"livepatch", "schema"}, ContainerUp(w, c)
      PROVE  Follows(u, v)'
  <2>1. /\ UNCHANGED <<ready, config, links, svc>> /\ pending[v] \subseteq pending'[v]
        /\ conn' = [conn EXCEPT ![w] = @ \cup {c}]
    BY <1>6 DEF ContainerUp, Notify, charmVars
  <2>2. CASE w = v /\ c = "livepatch"
    <3>1. "livepatch_pebble_ready" \in pending'[v]
      BY <1>6, <2>2 DEF ContainerUp, Notify
    <3> QED
      BY <1>3, <3>1, InformingKinds DEF ReconcilingKinds
  <2>3. CASE w # v \/ c = "schema"
    <3>1. "livepatch" \in conn'[v] => "livepatch" \in conn[v]
      BY <1>1, <2>1, <2>3 DEF CharmTypes, JujuTypes
    <3> QED
      BY <1>4, <2>1, <3>1
  <2> QED
    BY <2>2, <2>3
<1>7. ASSUME NEW w \in Units, NEW c \in {"livepatch", "schema"}, ContainerDown(w, c)
      PROVE  Follows(u, v)'
  <2>1. UNCHANGED <<ready, config, links, pending>>
    BY <1>7 DEF ContainerDown, jujuVars
  <2>2. "livepatch" \in conn'[v] => svc'[v] = svc[v] /\ "livepatch" \in conn[v]
    <3>1. /\ conn'[v] = IF v = w THEN conn[v] \ {c} ELSE conn[v]
          /\ svc'[v] = IF v = w /\ c = "livepatch" THEN NoPlan ELSE svc[v]
      BY <1>1, <1>7 DEF ContainerDown, CharmTypes, JujuTypes
    <3> QED
      BY <3>1
  <2> QED
    BY <1>4, <2>1, <2>2
<1>8. ASSUME NEW w \in Units, PodStop(w) PROVE Follows(u, v)'
  BY <1>4, <1>8 DEF PodStop, Notify, charmVars
<1>9. ASSUME NEW w \in Units, ElectLeader(w) PROVE Follows(u, v)'
  BY <1>9 DEF ElectLeader
<1>10. ASSUME NEW w \in Units, Resolve(w) PROVE Follows(u, v)'
  <2>1. /\ UNCHANGED <<ready, config, links, conn, svc>> /\ failed[w] # None
        /\ pending'[v] = IF v = w THEN pending[v] \ {failed[v]} ELSE pending[v]
        /\ w = v => failed'[v] = None
    BY <1>1, <1>10 DEF Resolve, charmVars, JujuTypes
  <2>2. w = v => failed[v] \notin Restoring
    BY <1>2, <2>1 DEF GivesUp
  <2> QED
    BY <1>4, <2>1, <2>2
<1>11. CASE ChangeConfig \/ ChangeLinks
  <2>1. \E k \in Restoring : k \in pending'[v]
    BY <1>11, InformingKinds DEF ChangeConfig, ChangeLinks, Notify, ReconcilingKinds
  <2> QED
    BY <1>3, <2>1
<1>12. ASSUME NEW e \in Endpoints, Integrate(e) \/ Publish(e) PROVE Follows(u, v)'
  BY <1>4, <1>12 DEF Integrate, Publish, Notify, charmVars
<1>13. ASSUME NEW e \in Endpoints, Remove(e) PROVE Follows(u, v)'
  <2>1. Broken(e) \in pending'[v] /\ Broken(e) \in Restoring
    BY <1>13, EndpointsAssumption, InformingKinds DEF Remove
  <2> QED
    BY <1>3, <2>1
<1> QED
  BY <1>5, <1>6, <1>7, <1>8, <1>9, <1>10, <1>11, <1>12, <1>13 DEF QuietStep

(* What the hooks of another unit do to this one.                            *)
Elsewhere(v) ==
    /\ hook'[v] = hook[v] /\ deferred'[v] = deferred[v] /\ svc'[v] = svc[v] /\ conn'[v] = conn[v]
    /\ UNCHANGED <<ready, config, links>>
    /\ pending[v] \subseteq pending'[v]
    /\ (\A k \in Keys : peer'[k] = peer[k]) \/ "livepatch_relation_changed" \in pending'[v]

LEMMA HooksElsewhere ==
    ASSUME UnitInv, NEW v \in Units, NEW w \in Units \ {v},
           \/ Handle(w)
           \/ \E k \in Kinds : Starts(w, k)
           \/ EndHook(w) \/ EndStop(w)
           \/ Crash(w)
    PROVE  Elsewhere(v)
<1>1. JujuTypes /\ CharmTypes
  BY TypeInvParts DEF UnitInv
<1>2. CASE HandlerRaises(w) \/ Crash(w)
  <2>1. /\ Raise(w) /\ UNCHANGED <<ready, config, links, peer, deferred, conn>>
        /\ svc' = svc \/ CutShort(w)
    BY <1>2 DEF HandlerRaises, Crash, worldVars
  <2>2. hook'[v] = hook[v] /\ pending'[v] = pending[v]
    BY <2>1, RaiseClears
  <2>3. svc'[v] = svc[v]
    BY <1>1, <2>1, CutFields
  <2> QED
    BY <2>1, <2>2, <2>3 DEF Elsewhere
<1>3. CASE Handle(w)
  <2>1. CASE Moves(w)
    BY <2>1 DEF Moves, Uncommitted, jujuVars, Elsewhere
  <2> QED
    BY <1>2, <1>3, <2>1, HandlersMove
<1>4. ASSUME NEW k \in Kinds, Starts(w, k) PROVE Elsewhere(v)
  <2>1. Begin(w, k) /\ UNCHANGED <<ready, config, links, peer, deferred, svc, conn>>
    BY <1>4, StepBegins, StartsHook DEF Starts, HookStarts
  <2>2. pending'[v] = pending[v]
    BY <1>1, <1>4 DEF Starts, StartHook, StartUpdateStatus, StartAction, jujuVars, worldVars, JujuTypes
  <2>3. hook'[v] = hook[v]
    BY <2>1, BeginHolds
  <2> QED
    BY <2>1, <2>2, <2>3 DEF Elsewhere
<1>5. CASE EndHook(w) \/ EndStop(w)
  <2>1. PICK again : Commit(w, again) /\ UNCHANGED <<ready, config, links>>
    BY <1>5 DEF EndHook, EndStop
  <2>2. /\ hook'[v] = hook[v] /\ deferred'[v] = deferred[v] /\ pending[v] \subseteq pending'[v]
    BY <2>1, CommitHolds
  <2>3. conn'[v] = conn[v] /\ svc'[v] = svc[v]
    BY <1>1, <1>5 DEF EndHook, EndStop, CharmTypes, JujuTypes
  <2>4. (\A k \in Keys : peer'[k] = peer[k]) \/ "livepatch_relation_changed" \in pending'[v]
    BY <2>1, CommitTells
  <2> QED
    BY <2>1, <2>2, <2>3, <2>4 DEF Elsewhere
<1> QED
  BY <1>2, <1>3, <1>4, <1>5

LEMMA FollowsElsewhere ==
    ASSUME NEW u, NEW v, Follows(u, v), Elsewhere(v),
           Clearing(u) => Clearing(u)' \/ peer'["dsn"] = None
    PROVE  Follows(u, v)'
<1>1. CASE "livepatch_relation_changed" \in pending'[v]
  BY <1>1, InformingKinds DEF Follows
<1>2. CASE \A k \in Keys : peer'[k] = peer[k]
  <2>1. \A k : /\ HasKind(k, hook[v].todo) => HasKind(k, hook'[v].todo)
               /\ HasKind(k, hook[v].kept) => HasKind(k, hook'[v].kept)
               /\ HasKind(k, deferred[v]) => HasKind(k, deferred'[v])
    BY DEF Elsewhere
  <2>2. Restoring \cap pending[v] \subseteq pending'[v]
    BY DEF Elsewhere
  <2> QED
    BY <1>2, <2>1, <2>2, FollowsKept DEF Elsewhere
<1> QED
  BY <1>1, <1>2 DEF Elsewhere

-----------------------------------------------------------------------------
(* The steps of the unit's own hook.                                         *)
LEMMA FollowsHandles ==
    ASSUME UnitInv, HookFacts, WriterLeads, NEW u, leader = u, NEW v \in Units \ {u},
           Follows(u, v), Handle(v), Moves(v), ~HandlerRaises(v), Hears(v),
           Clearing(u) => Clearing(u)' \/ peer'["dsn"] = None
    PROVE  Follows(u, v)'
<1>1. /\ hook[v].main # None /\ hook'[v].main = hook[v].main /\ hook'[v].seen = hook[v].seen
      /\ hook[v].todo # <<>> /\ hook[v] \in ActiveHooks
      /\ HeadKind(v) \in Kinds /\ HasKind(HeadKind(v), hook[v].todo)
  <2>1. hook[v].todo # <<>> /\ hook[v] \in ActiveHooks
    BY HandlersDo
  <2>2. Head(hook[v].todo) \in Notices
    BY <2>1 DEF ActiveHooks, Hooks
  <2> QED
    BY <2>1, <2>2 DEF Notices, HeadKind, ActiveHooks, Moves
<1>2. UNCHANGED <<ready, config, links, pending, peer, deferred>>
  BY DEF Moves, Uncommitted, jujuVars
<1>3. UpToDate(v) => UpToDate(v)'
  <2>1. Effect(v)
    BY HandlersEffect DEF HookFacts
  <2>2. hook'[v].wrote = {}
    BY TypeInvParts, HandleWrites DEF UnitInv, WritesAsLeader, WriterLeads
  <2>3. \A k \in Keys : hook'[v].view[k] = hook[v].view[k]
    BY <2>1, <2>2 DEF Effect
  <2> QED
    BY <1>1, <1>2, <2>3 DEF UpToDate
<1>4. CASE Restoring \cap pending[v] # {}
  BY <1>2, <1>4 DEF Follows
<1>5. CASE UpToDate(v) /\ FollowsEnd(u, v) /\ FollowsRaise(u, v)
  <2>1. Answers(v)
    BY <1>2, <1>5, FollowerAnswers DEF HookFacts
  <2>2. ASSUME Open(v)' => ServesDatabag(v)' PROVE Good(u, v)'
    BY <2>2 DEF Good
  <2>3. ASSUME HeadKind(v) \in MainBroken \cup {"stop"}
        PROVE  hook[v].main \in MainBroken \cup {"stop"}
    <3>1. ~HasKind(HeadKind(v), deferred[v])
      BY <2>3 DEF HookFacts, NeverStored, OwnEvents
    <3> QED
      BY <1>1, <2>3, <3>1 DEF HookFacts, Origin
  <2>4. ASSUME svc'[v] = svc[v], conn'[v] = conn[v],
               HeadKind(v) \in Informing => HasKind(HeadKind(v), hook'[v].kept)
        PROVE  FollowsEnd(u, v)' /\ FollowsRaise(u, v)'
    <3>1. Good(u, v) => Good(u, v)'
      BY <1>2, <2>4, GoodKept
    <3>2. FollowsRaise(u, v)'
      BY <1>1, <1>2, <1>5, <3>1 DEF FollowsRaise, Informed
    <3>3. Informed(hook[v].todo) => Informed(hook'[v].todo) \/ Informed(hook'[v].kept)
      BY <2>4 DEF Informed, Moves
    <3>4. Informed(hook[v].kept) => Informed(hook'[v].kept)
      BY DEF Informed, Moves
    <3>5. FollowsEnd(u, v)'
      BY <1>1, <1>5, <3>1, <3>3, <3>4 DEF FollowsEnd
    <3> QED
      BY <3>2, <3>5
  <2>5. \/ Good(u, v)'
        \/ hook[v].main \in MainBroken \cup {"stop"}
        \/ FollowsEnd(u, v)' /\ FollowsRaise(u, v)'
    BY <2>1, <2>2, <2>3, <2>4 DEF Answers
  <2>6. FollowsEnd(u, v)' /\ FollowsRaise(u, v)'
    BY <1>1, <2>5, InformingKinds DEF FollowsEnd, FollowsRaise
  <2> QED
    BY <1>1, <1>3, <1>5, <2>6 DEF Follows, Idle
<1> QED
  BY <1>1, <1>4, <1>5 DEF Follows, Idle

(* The handler of a unit that does not lead stops the service and raises, at *)
(* an event of an earlier legacy database: the unit handles it again, and     *)
(* reconciles only while a legacy database is still asked for.               *)
CutAside(v) == leader # v /\ Crash(v) /\ svc'[v] # svc[v] /\ Handles(v, "master_changed")

(* A handler of the unit that has stopped the service and raises had an event *)
(* that the unit handles again.                                              *)
LEMMA FollowerCut ==
    ASSUME UnitInv, HookFacts, NEW v \in Units, leader # v, Crash(v), CutShort(v),
           svc'[v] # svc[v], ~CutForGood(v), ~CutAside(v)
    PROVE  hook[v].main \in Restoring \/ Informed(deferred[v])
<1> DEFINE k == HeadKind(v)
<1>1. ~Idle(v) /\ hook[v].main \notin Actions /\ ~Handles(v, "master_changed")
  BY DEF Crash, CutForGood, CutAside
<1>2. hook[v].todo # <<>> /\ (k \in Actions \/ Resumes(v, k))
  BY <1>1, CutHead
<1>3. k \in Kinds /\ HasKind(k, hook[v].todo)
  <2>1. CharmTypes
    BY TypeInvParts DEF UnitInv
  <2>2. hook[v].todo \in Seq(Notices)
    BY <1>1, <2>1 DEF CharmTypes, Hooks, Idle
  <2>3. 1 \in 1..Len(hook[v].todo) /\ Head(hook[v].todo) = hook[v].todo[1]
        /\ hook[v].todo[1] \in Notices
    BY <1>2, <2>2
  <2> QED
    BY <2>2, <2>3 DEF HasKind, HeadKind, Notices
<1>4. k = hook[v].main \/ (HasKind(k, deferred[v]) /\ k \notin OwnEvents)
  BY <1>3 DEF HookFacts, Origin, NeverStored
<1>5. k # "master_changed"
  BY <1>1, <1>2 DEF Handles, HeadKind
<1>6. k \in Lasting \cup {"livepatch_relation_changed"}
  BY <1>1, <1>2, <1>4, <1>5 DEF Resumes, OwnEvents
<1>7. k \in Restoring /\ (k \notin OwnEvents => k \in Informing)
  BY <1>6 DEF Lasting, Restoring, Informing, OwnEvents, MainBroken, MainEndpoints, AllEndpoints
<1> QED
  BY <1>4, <1>7 DEF Informed

LEMMA FollowsRaises ==
    ASSUME UnitInv, HookFacts, NEW u, NEW v \in Units, leader # v, Follows(u, v), HookRaises(v),
           ~Idle(v), ~CutForGood(v), ~CutAside(v),
           Clearing(u) => Clearing(u)' \/ peer'["dsn"] = None
    PROVE  Follows(u, v)'
<1>1. /\ Idle(v)' /\ deferred'[v] = deferred[v]
      /\ pending[v] \subseteq pending'[v]
      /\ hook[v].main \notin Actions => hook[v].main \in pending'[v]
  BY RaiseClears DEF HookRaises
<1>2. CASE Restoring \cap pending[v] # {}
  BY <1>1, <1>2 DEF Follows
<1>3. CASE hook[v].main \in Restoring
  BY <1>1, <1>3, InformingKinds DEF Follows
<1>4. CASE Informed(deferred[v])
  BY <1>1, <1>4 DEF Follows, Informed
<1>5. CASE svc'[v] = svc[v] /\ Good(u, v)
  <2>1. Good(u, v)'
    BY <1>5, GoodKept DEF HookRaises
  <2> QED
    BY <1>1, <2>1 DEF Follows
<1>6. CASE svc'[v] # svc[v]
  BY <1>3, <1>4, <1>6, FollowerCut DEF HookRaises
<1> QED
  BY <1>2, <1>3, <1>4, <1>5, <1>6 DEF Follows, FollowsRaise

LEMMA FollowsStarts ==
    ASSUME UnitInv, NEW u, NEW v \in Units, NEW k \in Kinds, Follows(u, v), HookStarts(v, k),
           Clearing(u) => Clearing(u)' \/ peer'["dsn"] = None
    PROVE  Follows(u, v)'
<1>1. /\ Idle(v) /\ ~Idle(v)'
      /\ UNCHANGED <<ready, config, links, conn, peer, svc>> /\ deferred'[v] = deferred[v]
      /\ hook'[v].main = k /\ hook'[v].seen = Snapshot(v, k) /\ hook'[v].view = peer
      /\ \A j : HasKind(j, deferred[v]) => HasKind(j, hook'[v].todo)
      /\ k # "other" => HasKind(k, hook'[v].todo)
      /\ pending'[v] = pending[v] \ {k} \/ pending'[v] = pending[v]
  BY DEF HookStarts
<1>2. UpToDate(v)'
  BY <1>1 DEF UpToDate, Snapshot
<1>3. Good(u, v) => Good(u, v)'
  BY <1>1, GoodKept
<1>4. CASE k \in Restoring
  <2>1. FollowsEnd(u, v)' /\ FollowsRaise(u, v)'
    BY <1>1, <1>4, InformingKinds DEF FollowsEnd, FollowsRaise, Informed, Restoring
  <2> QED
    BY <1>1, <1>2, <2>1 DEF Follows
<1>5. CASE Restoring \cap pending[v] # {} /\ k \notin Restoring
  BY <1>1, <1>5 DEF Follows
<1>6. CASE Informed(deferred[v])
  <2>1. FollowsEnd(u, v)' /\ FollowsRaise(u, v)'
    BY <1>1, <1>6 DEF FollowsEnd, FollowsRaise, Informed
  <2> QED
    BY <1>1, <1>2, <2>1 DEF Follows
<1>7. CASE Good(u, v)
  BY <1>1, <1>2, <1>3, <1>7 DEF Follows, FollowsEnd, FollowsRaise
<1> QED
  BY <1>1, <1>4, <1>5, <1>6, <1>7 DEF Follows

LEMMA FollowsEnds ==
    ASSUME UnitInv, WriterLeads, RemovalInv, NEW u, leader = u, NEW v \in Units \ {u},
           MainOf(u)', Follows(u, v), HookEnds(v),
           Clearing(u) => Clearing(u)' \/ peer'["dsn"] = None
    PROVE  Follows(u, v)'
<1>1. /\ ~Idle(v) /\ Idle(v)' /\ deferred'[v] = hook[v].kept
      /\ UNCHANGED <<ready, config, links, dying>>
      /\ pending[v] \subseteq pending'[v]
      /\ \A j : ~HasKind(j, hook[v].todo)
      /\ IF hook[v].main = "stop" THEN "config_changed" \in pending'[v] ELSE UNCHANGED <<conn, svc>>
  BY DEF HookEnds
<1>2. \A k \in Keys : peer'[k] = peer[k]
  BY DEF HookEnds, WriterLeads
<1>3. CASE Restoring \cap pending[v] # {}
  BY <1>1, <1>3 DEF Follows
<1>4. CASE hook[v].main = "stop"
  BY <1>1, <1>4, InformingKinds DEF Follows, ReconcilingKinds
<1>5. CASE hook[v].main \in MainBroken
  <2>1. PICK e \in MainEndpoints : hook[v].main = Broken(e)
    BY <1>5 DEF MainBroken
  <2>2. e \in AllEndpoints /\ KeyOf(e) = "dsn"
    BY EndpointKinds
  <2>3. e \in dying'
    BY <1>1, <2>1, <2>2 DEF RemovalInv, DyingUnit
  <2>4. Withdrawn(u, e)'
    BY DEF MainOf
  <2>5. Clearing(u)' \/ peer'["dsn"] = None
    BY <2>2, <2>3, <2>4 DEF Withdrawn, Over, Holds, Clearing
  <2>6. Good(u, v)'
    BY <2>5 DEF Good, Open, Opens, Outcome, SchemaUpgradeDefers
  <2> QED
    BY <1>1, <2>6 DEF Follows
<1>6. CASE hook[v].main # "stop" /\ Good(u, v)
  <2>1. Good(u, v)'
    BY <1>1, <1>2, <1>6, GoodKept
  <2> QED
    BY <1>1, <2>1 DEF Follows
<1>7. CASE Informed(hook[v].kept)
  BY <1>1, <1>7 DEF Follows
<1> QED
  BY <1>1, <1>3, <1>4, <1>5, <1>6, <1>7 DEF Follows, FollowsEnd, Informed

LEMMA MainOfNext ==
    ASSUME NEW u \in Units, MainOf(u), OneMain, [Next]_vars, leader' = leader,
           ~(GivesUp(u) /\ failed[u] \in MainBroken)
    PROVE  MainOf(u)'
<1>1. Leads(u) /\ MainEndpoints \subseteq AllEndpoints
  BY EndpointKinds DEF MainOf
<1>2. Leads(u)'
  BY <1>1, LeadsNext
<1>3. ASSUME NEW e \in MainEndpoints PROVE Withdrawn(u, e)' /\ Clears(u, e)'
  <2>1. e \in AllEndpoints /\ Withdrawn(u, e) /\ Clears(u, e) /\ Broken(e) \in MainBroken
    BY <1>1 DEF MainOf, MainBroken
  <2> QED
    BY <1>1, <2>1, WithdrawnNext, ClearsNext
<1> QED
  BY <1>2, <1>3 DEF MainOf

LEMMA FollowsGone ==
    ASSUME TypeInv, NEW u \in Units, NEW v \in Units, Follows(u, v), NEW e \in Endpoints, Gone(e),
           Clearing(u) => Clearing(u)' \/ peer'["dsn"] = None
    PROVE  Follows(u, v)'
<1>1. /\ hook'[v].main = hook[v].main /\ hook'[v].seen = hook[v].seen
      /\ hook'[v].view = hook[v].view
      /\ \A k : /\ HasKind(k, hook[v].todo) => HasKind(k, hook'[v].todo)
                /\ HasKind(k, hook[v].kept) => HasKind(k, hook'[v].kept)
                /\ HasKind(k, deferred[v]) => HasKind(k, deferred'[v])
      /\ UNCHANGED <<ready, pending, config, links, conn, svc, peer>>
  BY GoneHook
<1> QED
  BY <1>1, FollowsKept

-----------------------------------------------------------------------------
(* The units serve, once nothing is left to run.                             *)

(* The lease stays, no failed hook that a unit needs in order to follow the   *)
(* databag is given up, no action meets a schema container that does not      *)
(* answer, and no handler stops a service and raises whose unit is not sure   *)
(* to reconcile again: that of an action, or of master_changed.               *)
Attended ==
    /\ leader' = leader /\ Heeded
    /\ \A v \in Units :
          /\ Hears(v) /\ ~(GivesUp(v) /\ failed[v] \in Restoring)
          /\ ~CutForGood(v) /\ ~CutAside(v)

ServingOf(u) ==
    LeaderInv /\ MainOf(u) /\ \A v \in Units \ {u} : Follows(u, v)

ServingInv == \E u \in Units : ServingOf(u)

LEMMA FollowsNext ==
    ASSUME NEW u \in Units, MainOf(u), MainOf(u)', [Next]_vars, Attended,
           NEW v \in Units \ {u}, Follows(u, v)
    PROVE  Follows(u, v)'
<1>1. /\ UnitInv /\ HookFacts /\ WriterLeads /\ RemovalInv /\ TypeInv
      /\ leader = u /\ leader' = leader /\ leader # v
      /\ Hears(v) /\ ~(GivesUp(v) /\ failed[v] \in Restoring)
      /\ ~CutForGood(v) /\ ~CutAside(v)
      /\ ~(GivesUp(u) /\ failed[u] \in MainBroken)
  BY DEF MainOf, Leads, UnitInv, Attended, Restoring
<1>2. Clearing(u) => Clearing(u)' \/ peer'["dsn"] = None
  BY <1>1, ClearingNext
<1>3. ASSUME NEW w \in Units \ {v},
             \/ Handle(w)
             \/ \E k \in Kinds : Starts(w, k)
             \/ EndHook(w) \/ EndStop(w)
             \/ Crash(w)
      PROVE  Follows(u, v)'
  <2>1. Elsewhere(v)
    BY <1>1, <1>3, HooksElsewhere
  <2> QED
    BY <1>2, <2>1, FollowsElsewhere
<1>4. CASE HookRaises(v) /\ ~Idle(v)
  BY <1>1, <1>2, <1>4, FollowsRaises
<1>5. CASE Handle(v)
  <2>1. hook[v].main # None
    BY <1>1, <1>5, HandlersDo DEF ActiveHooks
  <2>2. CASE HandlerRaises(v)
    BY <1>4, <2>1, <2>2 DEF HandlerRaises, HookRaises, worldVars, Idle
  <2>3. CASE Moves(v) /\ ~HandlerRaises(v)
    BY <1>1, <1>2, <1>5, <2>3, FollowsHandles
  <2> QED
    BY <1>1, <1>5, <2>2, <2>3, HandlersMove
<1>6. CASE Crash(v)
  BY <1>4, <1>6 DEF Crash, HookRaises
<1>7. ASSUME NEW k \in Kinds, Starts(v, k) PROVE Follows(u, v)'
  BY <1>1, <1>2, <1>7, StartsHook, FollowsStarts
<1>8. CASE EndHook(v) \/ EndStop(v)
  BY <1>1, <1>2, <1>8, EndsHook, FollowsEnds
<1>9. ASSUME NEW e \in Endpoints, Gone(e) PROVE Follows(u, v)'
  BY <1>1, <1>2, <1>9, FollowsGone
<1>10. CASE QuietStep
  BY <1>1, <1>2, <1>10, FollowsQuiet
<1>11. CASE UNCHANGED vars
  BY <1>2, <1>11, FollowsKept DEF vars, charmVars, jujuVars, worldVars
<1> QED
  BY <1>3, <1>5, <1>6, <1>7, <1>8, <1>9, <1>10, <1>11, StepCases

LEMMA ServingInvNext == ServingInv /\ [Next]_vars /\ [Attended]_vars /\ OneMain => ServingInv'
<1> SUFFICES ASSUME ServingInv, [Next]_vars, [Attended]_vars, OneMain PROVE ServingInv'
  OBVIOUS
<1>1. PICK u \in Units : ServingOf(u)
  BY DEF ServingInv
<1>2. LeaderInv /\ MainOf(u) /\ leader = u /\ FailedInv /\ \A v \in Units \ {u} : Follows(u, v)
  BY <1>1 DEF ServingOf, MainOf, Leads, HookFacts
<1>3. CASE Attended
  <2>1. LeaderInv'
    BY <1>2, <1>3, LeaderInvNext DEF Attended
  <2>2. leader' = leader /\ ~(GivesUp(u) /\ failed[u] \in MainBroken)
    BY <1>3 DEF Attended, Restoring
  <2>3. MainOf(u)'
    BY <1>2, <2>2, MainOfNext
  <2>4. \A v \in Units \ {u} : Follows(u, v)'
    BY <1>2, <1>3, <2>3, FollowsNext
  <2> QED
    BY <2>1, <2>3, <2>4 DEF ServingOf, ServingInv
<1>4. CASE UNCHANGED vars
  <2>1. LeaderInv'
    BY <1>2, <1>4, LeaderInvNext
  <2>2. leader' = leader /\ ~(GivesUp(u) /\ failed[u] \in MainBroken)
    BY <1>4 DEF vars, jujuVars, GivesUp
  <2>3. MainOf(u)'
    BY <1>2, <2>2, MainOfNext
  <2>4. Clearing(u) => Clearing(u)'
    BY <1>4 DEF vars, charmVars, jujuVars, worldVars, Clearing
  <2>5. ASSUME NEW v \in Units \ {u} PROVE Follows(u, v)'
    BY <1>2, <1>4, <2>4, FollowsKept DEF vars, charmVars, jujuVars, worldVars
  <2> QED
    BY <2>1, <2>3, <2>5 DEF ServingOf, ServingInv
<1> QED
  BY <1>3, <1>4

LEMMA ServingSettles == ServingInv => QuiescentServing
<1> SUFFICES ASSUME ServingInv, NEW v \in Units, Done(v), Verdict(v) = "started"
             PROVE  ServesDatabag(v)
  BY DEF QuiescentServing
<1>1. PICK u \in Units : ServingOf(u)
  BY DEF ServingInv
<1>2. LeaderInv /\ leader = u /\ \A w \in Units \ {u} : Follows(u, w)
  BY <1>1 DEF ServingOf, MainOf, Leads
<1>3. CASE v = u
  BY <1>2, <1>3, LeaderInvServes DEF LeaderServesDatabag
<1>4. CASE v # u
  <2>1. /\ Idle(v) /\ pending[v] = {} /\ deferred[v] = <<>>
        /\ dying = {}
    BY DEF Done, Settled
  <2>2. Good(u, v)
    BY <1>2, <1>4, <2>1, NoKind DEF Follows, Informed
  <2>3. ~Clearing(u)
    BY <2>1 DEF Clearing
  <2>4. Open(v)
    BY DEF Verdict, Open, Opens, Outcome, SchemaUpgradeDefers, MissingToken, MissingOtlp
  <2> QED
    BY <2>2, <2>3, <2>4 DEF Good
<1> QED
  BY <1>3, <1>4

LEMMA ServingInvInit == Init \/ Deployed => ServingInv
<1> SUFFICES ASSUME Init \/ Deployed PROVE ServingOf(leader)
  BY LeadsInit DEF ServingInv
<1>1. LeaderInv /\ Leads(leader) /\ leader \in Units /\ \A v \in Units : Idle(v)
  BY LeaderInvInit, LeadsInit
<1>2. {"dsn", "dsn_metrics"} \subseteq Keys
  BY DEF Keys
<1>3. MainOf(leader)
  <2>1. dying = {}
    BY LeadsInit
  <2> QED
    BY <1>1, <2>1 DEF MainOf, Withdrawn, Over, Clears
<1>4. ASSUME NEW v \in Units PROVE Open(v) => ServesDatabag(v)
  <2>1. CASE Init \/ (Deployed /\ Unintegrated)
    <3>1. peer["dsn"] = None
      BY <1>2, <2>1 DEF Init, Unintegrated
    <3> QED
      BY <3>1, OpenNeeds
  <2>2. CASE Deployed /\ Serving
    <3>1. PICK c \in Creds, token \in Tokens \cup {None} :
              /\ peer = [k \in Keys |->
                   CASE k = "dsn" -> c [] k = "dsn_metrics" -> None [] k = "resource_token" -> token]
              /\ svc = [u \in Units |-> [dsn |-> c, dsn_metrics |-> None, is_leader |-> u = leader]]
      BY <2>2 DEF Serving
    <3>2. peer["dsn"] = c /\ peer["dsn_metrics"] = None
      BY <1>2, <3>1
    <3>3. svc[v] = [dsn |-> c, dsn_metrics |-> None, is_leader |-> v = leader]
      BY <3>1
    <3>4. (v = leader) \in BOOLEAN
      OBVIOUS
    <3>5. svc[v] \in Environments
      BY <3>3, <3>4 DEF Environments
    <3>6. Running(v)
      BY <3>5, DataAssumption DEF Running
    <3> QED
      BY <3>2, <3>3, <3>6 DEF ServesDatabag
  <2> QED
    BY <2>1, <2>2 DEF Deployed
<1>5. \A v \in Units : Follows(leader, v)
  BY <1>1, <1>4 DEF Follows, Good
<1> QED
  BY <1>1, <1>3, <1>5 DEF ServingOf

(* While the lease stays, one main database is integrated at a time, no       *)
(* failed hook that a unit needs is given up and every action finds the       *)
(* schema container answering, no wake-up is lost: a unit with no hook and no *)
(* stored notice left serves, if _update_workload_configuration would start   *)
(* the service, with the connections of the databag.                         *)
THEOREM UnitsServe == Spec /\ [][Attended]_vars /\ []OneMain => []QuiescentServing
<1>1. Init => ServingInv
  BY ServingInvInit
<1>2. ServingInv /\ [Next]_vars /\ [Attended]_vars /\ OneMain => ServingInv'
  BY ServingInvNext
<1>3. ServingInv => QuiescentServing
  BY ServingSettles
<1> QED
  BY <1>1, <1>2, <1>3, PTL DEF Spec

(* The same from the deployed states.                                        *)
THEOREM DeployedUnitsServe ==
    DeployedSpec /\ [][Attended]_vars /\ []OneMain => []QuiescentServing
<1>1. Deployed => ServingInv
  BY ServingInvInit
<1>2. ServingInv /\ [Next]_vars /\ [Attended]_vars /\ OneMain => ServingInv'
  BY ServingInvNext
<1>3. ServingInv => QuiescentServing
  BY ServingSettles
<1> QED
  BY <1>1, <1>2, <1>3, PTL DEF DeployedSpec
=============================================================================
