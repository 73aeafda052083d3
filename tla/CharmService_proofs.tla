------------------------- MODULE CharmService_proofs -------------------------
(***************************************************************************)
(* What a unit of the charm does to its service, for every set of units, of *)
(* connections and of settings: the service has stopped when the unit has   *)
(* run the broken hook of a main database, and a unit that shows active     *)
(* serves. Both come down to notices: which of them a running hook has      *)
(* still to handle, which it has kept, and which are stored.                *)
(***************************************************************************)
EXTENDS LivepatchCharm_proofs

MainEndpoints == {"database", "database_legacy"}

MainBroken == {Broken(e) : e \in MainEndpoints}

-----------------------------------------------------------------------------
(* A service exists only while its container answers.                        *)
ServiceConnected == \A u \in Units : svc[u] # NoPlan => "livepatch" \in conn[u]

(* The broken event of a main database is never deferred.                    *)
BrokenNeverStored ==
    \A u \in Units, n \in Notices :
        n.kind \in MainBroken
            => ~Stored(n, deferred[u]) /\ ~Stored(n, hook[u].kept)

(* It is the last that its hook handles.                                     *)
BrokenLast ==
    \A u \in Units :
        hook[u].main \in MainBroken =>
            IF hook[u].todo = <<>> THEN ~Running(u)
            ELSE hook[u].todo[Len(hook[u].todo)].kind = hook[u].main


-----------------------------------------------------------------------------
(* The notices that start the service of a new container.                    *)
WakeUps == {Notice("start"), Notice("livepatch_pebble_ready")}

(* One of them is pending, or stored; while a hook runs it is also in the    *)
(* hook, and comes back if the hook raises.                                  *)
Owed(u) ==
    \E n \in WakeUps :
        \/ n.kind \in pending[u]
        \/ Idle(u) /\ Stored(n, deferred[u])
        \/ /\ ~Idle(u)
           /\ Stored(n, hook[u].todo) \/ Stored(n, hook[u].kept)
           /\ Stored(n, deferred[u]) \/ n.kind = hook[u].main

(* Nothing is configured before the peer relation exists.                    *)
ReadyInv ==
    \A u \in Units :
        /\ ~Idle(u) /\ hook[u].seen.ready => ready
        /\ Running(u) \/ status[u] = "active" => ready /\ (~Idle(u) => hook[u].seen.ready)

(* A pod is stopped by a disturbance.                                        *)
StopInv ==
    \A u \in Units :
        "stop" \in pending[u] \cup {failed[u], hook[u].main} => "pod" \in Disturbances

UnitInv ==
    /\ TypeInv
    /\ ServiceConnected /\ BrokenNeverStored /\ BrokenLast
    /\ ReadyInv /\ StopInv

Losses == {"container", "pod"} \cap Disturbances # {}

HasKind(k, notices) == \E i \in 1..Len(notices) : notices[i].kind = k

(* The events that are never deferred.                                       *)
OwnEvents == MainBroken \cup {"stop"} \cup Actions

NeverStored ==
    \A u \in Units, k \in OwnEvents : ~HasKind(k, deferred[u]) /\ ~HasKind(k, hook[u].kept)

(* A hook handles what was stored, and its own event.                        *)
Origin ==
    \A u \in Units, k \in Kinds :
        HasKind(k, hook[u].todo) \/ HasKind(k, hook[u].kept)
            => k = hook[u].main \/ HasKind(k, deferred[u])

FailedInv == \A u \in Units : failed[u] # None => Idle(u) /\ failed[u] \in pending[u]

NoticeFacts == NeverStored /\ Origin

(* The events whose handler reconciles or stops the service, whatever it     *)
(* reads, and that no removal of an integration takes away.                  *)
Lasting == ReconcilingKinds \cup {"stop"} \cup {Broken(e) : e \in AllEndpoints}

(* The endpoint stays as it is until the unit has run its broken hook.       *)
Stays(u, e) == rel[e] # "absent" /\ (e \in dying => Broken(e) \in pending[u])

(* The credentials and the request that a hook has seen.                     *)
SeenInv ==
    \A u \in Units :
        ~Idle(u) =>
            /\ \A e \in {"database", "metrics_db"} :
                  hook[u].seen.rel[e] \in Creds => rel[e] \in Creds /\ Stays(u, e)
            /\ hook[u].seen.requested => requested /\ Stays(u, "database_legacy")

(* The handler of an event of kind k, in the hook that runs, starts the      *)
(* service or takes the active status back.                                  *)
Resumes(u, k) ==
    \/ k \in Lasting
    \/ k = "livepatch_relation_changed" /\ leader # u
    \/ /\ leader = u
       /\ \E e \in {"database", "metrics_db"} : k = Changed(e) /\ hook[u].seen.rel[e] \in Creds
    \/ k = "master_changed" /\ hook[u].seen.requested

(* The same of a hook that is not begun yet.                                 *)
WouldResume(u, k) ==
    \/ k \in Lasting
    \/ k = "livepatch_relation_changed" /\ leader # u
    \/ /\ leader = u
       /\ \E e \in {"database", "metrics_db"} : k = Changed(e) /\ rel[e] \in Creds /\ Stays(u, e)
    \/ k = "master_changed" /\ requested /\ Stays(u, "database_legacy")

(* A handler has stopped the service and raised, and the retry of its hook,  *)
(* to come or under way, has an event that makes up for it.                  *)
ToRetry(u) ==
    /\ Idle(u)
    /\ failed[u] \in Kinds \ Actions
    /\ \E k \in Kinds :
          /\ k = failed[u] \/ HasKind(k, deferred[u])
          /\ WouldResume(u, k)
          /\ failed[u] \in Lasting => k \in Lasting

Retrying(u) ==
    /\ ~Idle(u)
    /\ hook[u].main \notin Actions
    /\ \E k \in Kinds :
          /\ HasKind(k, hook[u].todo) /\ ~HasKind(k, hook[u].kept)
          /\ Resumes(u, k)
          /\ hook[u].main \in Lasting => k \in Lasting

Recovers(u) == svc[u] = Stopped /\ (ToRetry(u) \/ Retrying(u))

(* An active unit serves, or lost its container and has not been told yet,   *)
(* or is about to run the handler again that stopped its service.            *)
Serves(u) ==
    status[u] = "active" =>
        Running(u) \/ (Losses /\ ("livepatch" \notin conn[u] \/ Owed(u))) \/ Recovers(u)

ActiveInv == \A u \in Units : Serves(u)

(* The handler that stops the service and raises is not sure to run again:   *)
(* its hook is an action, or its event one of an earlier legacy database.    *)
CutForGood(u) ==
    /\ Crash(u)
    /\ svc'[u] # svc[u]
    /\ \/ hook[u].main \in Actions
       \/ Handles(u, "master_changed") /\ ~hook[u].seen.requested

(* juju resolved --no-retry of a unit that shows active and does not serve.  *)
GivenUp(u) ==
    /\ failed[u] # None /\ failed'[u] = None /\ hook'[u] = hook[u]
    /\ status[u] = "active" /\ ~Running(u)

(* The lease moves from or to a unit whose service a failed handler stopped. *)
LeaseMissed ==
    leader' # leader /\ \E u \in {leader, leader'} : status[u] = "active" /\ svc[u] = Stopped

Repeated == ~LeaseMissed /\ \A u \in Units : ~CutForGood(u) /\ ~GivenUp(u)

-----------------------------------------------------------------------------
(* What Consume leaves of the notices of a hook.                             *)
LEMMA ConsumeNotices ==
    ASSUME NEW h \in ActiveHooks, h.todo # <<>>, NEW d \in BOOLEAN
    PROVE  /\ \A n \in Notices :
                 /\ Stored(n, h.todo) /\ n # Head(h.todo)
                       => Stored(n, Consume(h, d).todo) \/ Stored(n, Consume(h, d).kept)
                 /\ Stored(n, h.kept) => Stored(n, Consume(h, d).kept)
                 /\ Stored(n, Consume(h, d).kept)
                       => Stored(n, h.kept) \/ (d /\ n = Head(h.todo))
           /\ IF Consume(h, d).todo = <<>>
              THEN Len(h.todo) = 1 \/ Stored(h.todo[Len(h.todo)], Consume(h, d).kept)
              ELSE Consume(h, d).todo[Len(Consume(h, d).todo)] = h.todo[Len(h.todo)]
<1> DEFINE kept == IF d /\ Head(h.todo).kind \notin Actions
                   THEN Append(h.kept, Head(h.todo)) ELSE h.kept
           rest == Tail(h.todo)
           emitted == Len(rest) = 1 => ~Stored(Head(rest), kept)
           todo == IF emitted THEN rest ELSE <<>>
<1>1. /\ h.todo \in Seq(Notices) /\ h.kept \in Seq(Notices)
      /\ Len(h.todo) \in Nat /\ Len(h.todo) > 0 /\ Head(h.todo) = h.todo[1] /\ Head(h.todo) \in Notices
  BY DEF ActiveHooks, Hooks
<1>2. /\ rest \in Seq(Notices) /\ Len(h.todo) = Len(rest) + 1 /\ Len(rest) \in Nat
      /\ \A i \in 1..Len(rest) : rest[i] = h.todo[i + 1]
  BY <1>1
<1>3. /\ kept \in Seq(Notices)
      /\ \A n \in Notices :
            /\ Stored(n, h.kept) => Stored(n, kept)
            /\ Stored(n, kept) => Stored(n, h.kept) \/ (d /\ n = Head(h.todo))
  <2>1. CASE d /\ Head(h.todo).kind \notin Actions
    <3>1. kept = Append(h.kept, Head(h.todo))
      BY <2>1
    <3>2. /\ Len(kept) = Len(h.kept) + 1 /\ kept[Len(h.kept) + 1] = Head(h.todo)
          /\ \A i \in 1..Len(h.kept) : kept[i] = h.kept[i]
          /\ kept \in Seq(Notices) /\ Len(h.kept) \in Nat
      BY <1>1, <3>1
    <3> HIDE DEF kept
    <3> QED
      BY <2>1, <3>2, SMTT(30) DEF Stored
  <2>2. CASE ~(d /\ Head(h.todo).kind \notin Actions)
    BY <1>1, <2>2
  <2> QED
    BY <2>1, <2>2
<1>4. Consume(h, d).todo = todo /\ Consume(h, d).kept = kept
  BY DEF Consume, ActiveHooks, Hooks
<1> HIDE DEF kept, rest
<1>5. ASSUME NEW n \in Notices, Stored(n, h.todo), n # Head(h.todo)
      PROVE  Stored(n, todo) \/ Stored(n, kept)
  <2>1. PICK i \in 1..Len(h.todo) : h.todo[i] = n
    BY <1>5 DEF Stored
  <2>2. i # 1 /\ i - 1 \in 1..Len(rest) /\ rest[i - 1] = n
    BY <1>1, <1>2, <1>5, <2>1
  <2>3. CASE emitted
    BY <2>2, <2>3 DEF Stored
  <2>4. CASE ~emitted
    <3>1. Len(rest) = 1 /\ Stored(Head(rest), kept)
      BY <2>4
    <3>3. i - 1 = 1
      BY <1>1, <2>2, <3>1
    <3>2. Head(rest) = rest[1]
      BY <1>2, <3>1
    <3> QED
      BY <2>2, <3>1, <3>2, <3>3
  <2> QED
    BY <2>3, <2>4
<1>6. IF todo = <<>> THEN Len(h.todo) = 1 \/ Stored(h.todo[Len(h.todo)], kept)
      ELSE todo[Len(todo)] = h.todo[Len(h.todo)]
  <2>1. CASE emitted
    <3>1. CASE rest = <<>>
      BY <1>1, <1>2, <2>1, <3>1
    <3>2. CASE rest # <<>>
      <4>1. Len(rest) \in Nat /\ Len(rest) > 0
        BY <1>2, <3>2
      <4>2. rest[Len(rest)] = h.todo[Len(rest) + 1] /\ Len(rest) + 1 = Len(h.todo)
        BY <1>1, <1>2, <4>1
      <4> QED
        BY <2>1, <3>2, <4>2
    <3> QED
      BY <3>1, <3>2
  <2>2. CASE ~emitted
    <3>1. Len(rest) = 1 /\ Stored(Head(rest), kept)
      BY <2>2
    <3>2. h.todo[Len(h.todo)] = Head(rest)
      <4>1. Head(rest) = rest[1]
        BY <1>2, <3>1
      <4>2. Len(h.todo) = 2
        BY <1>2, <3>1
      <4>3. 1 \in 1..Len(rest)
        BY <3>1
      <4>4. rest[1] = h.todo[1 + 1]
        BY <1>2, <4>3
      <4> QED
        BY <4>1, <4>2, <4>4
    <3> QED
      BY <2>2, <3>1, <3>2
  <2> QED
    BY <2>1, <2>2
<1> HIDE DEF todo
<1> QED
  BY <1>3, <1>4, <1>5, <1>6

LEMMA ConsumeFields ==
    ASSUME NEW g \in ActiveHooks, NEW h \in ActiveHooks, NEW d \in BOOLEAN,
           g.main = h.main, g.seen = h.seen, g.todo = h.todo, g.kept = h.kept
    PROVE  /\ Consume(g, d).main = h.main
           /\ Consume(g, d).seen = h.seen
           /\ Consume(g, d).todo = Consume(h, d).todo
           /\ Consume(g, d).kept = Consume(h, d).kept
BY DEF Consume, ActiveHooks, Hooks

LEMMA WriteFields ==
    ASSUME NEW h \in ActiveHooks, NEW key, NEW v
    PROVE  /\ Write(h, key, v).main = h.main
           /\ Write(h, key, v).seen = h.seen
           /\ Write(h, key, v).todo = h.todo
           /\ Write(h, key, v).kept = h.kept
BY DEF Write, ActiveHooks, Hooks

LEMMA EventKinds ==
    /\ MainBroken = {"database_relation_broken", "database_legacy_relation_broken"}
    /\ Broken("metrics_db") = "metrics_db_relation_broken"
    /\ Changed("database") = "database_relation_changed"
    /\ Changed("metrics_db") = "metrics_db_relation_changed"
    /\ Changed("database_legacy") = "master_changed"
<1>1. /\ Broken("database") = "database_relation_broken"
      /\ Broken("database_legacy") = "database_legacy_relation_broken"
      /\ Broken("metrics_db") = "metrics_db_relation_broken"
  BY DEF Broken
<1>2. /\ Changed("database") = "database_relation_changed"
      /\ Changed("metrics_db") = "metrics_db_relation_changed"
      /\ Changed("database_legacy") = "master_changed"
  BY DEF Changed
<1> QED
  BY <1>1, <1>2 DEF MainBroken, MainEndpoints

LEMMA LastingKinds ==
    /\ Lasting = ReconcilingKinds \cup {"stop", "database_relation_broken",
            "database_legacy_relation_broken", "metrics_db_relation_broken"}
    /\ Lasting \subseteq Kinds
    /\ Lasting \cap Actions = {}
    /\ MainBroken \subseteq Lasting
    /\ \A e \in AllEndpoints : Broken(e) \in Lasting /\ Changed(e) \notin Lasting
<1>1. {Broken(e) : e \in AllEndpoints} =
        {"database_relation_broken", "database_legacy_relation_broken", "metrics_db_relation_broken"}
  <2>1. /\ Broken("database") = "database_relation_broken"
        /\ Broken("database_legacy") = "database_legacy_relation_broken"
        /\ Broken("metrics_db") = "metrics_db_relation_broken"
    BY DEF Broken
  <2> QED
    BY <2>1 DEF AllEndpoints
<1>2. Lasting = ReconcilingKinds \cup {"stop", "database_relation_broken",
            "database_legacy_relation_broken", "metrics_db_relation_broken"}
  BY <1>1 DEF Lasting
<1>3. ReconcilingKinds \cup {"stop"} \subseteq Kinds
  BY DEF Kinds
<1>4. \A e \in AllEndpoints : Broken(e) \in Kinds
  BY KindsOfEndpoints
<1>5. Lasting \subseteq Kinds
  BY <1>3, <1>4 DEF Lasting
<1>6. \A e \in AllEndpoints : Broken(e) \in Lasting /\ Changed(e) \notin Lasting
  <2>1. \A e \in AllEndpoints : Broken(e) \in Lasting
    BY DEF Lasting
  <2>2. \A e \in AllEndpoints :
           Changed(e) \in {"database_relation_changed", "metrics_db_relation_changed", "master_changed"}
    BY EventKinds DEF AllEndpoints
  <2>3. {"database_relation_changed", "metrics_db_relation_changed", "master_changed"} \cap Lasting = {}
    BY <1>2 DEF ReconcilingKinds
  <2> QED
    BY <2>1, <2>2, <2>3
<1>7. Lasting \cap Actions = {} /\ MainBroken \subseteq Lasting
  BY <1>2, EventKinds DEF ReconcilingKinds, Actions
<1> QED
  BY <1>2, <1>5, <1>6, <1>7

(* The kinds that no handler resumes the service for.                        *)
LEMMA ResumingKinds ==
    ASSUME NEW u, NEW k, Resumes(u, k)
    PROVE  k \in Lasting \cup {"livepatch_relation_changed", "database_relation_changed",
                               "metrics_db_relation_changed", "master_changed"}
BY EventKinds DEF Resumes

-----------------------------------------------------------------------------
(* What a handler that does not raise does to the notices of its hook, and   *)
(* to the service and the status of its unit.                                *)
HeadKind(u) == Head(hook[u].todo).kind

HandlesNotice(u, d) ==
    /\ hook'[u].main = hook[u].main
    /\ hook'[u].seen = hook[u].seen
    /\ hook'[u].todo = Consume(hook[u], d).todo
    /\ hook'[u].kept = Consume(hook[u], d).kept
    /\ \A v \in Units \ {u} : hook'[v] = hook[v]
    /\ HeadKind(u) \in MainBroken => ~d

LeavesService(u) ==
    /\ \A v \in Units \ {u} : svc'[v] = svc[v] /\ status'[v] = status[v] /\ conn'[v] = conn[v]
    /\ svc'[u] # NoPlan => "livepatch" \in conn'[u]
    /\ HeadKind(u) \in MainBroken => ~Running(u)'
    /\ Running(u)' \/ status'[u] = "active" => hook[u].seen.ready
    /\ status'[u] = "active" /\ ~Running(u)' =>
          /\ status[u] = "active" /\ ~Running(u) /\ conn'[u] = conn[u] /\ svc'[u] = svc[u]
          /\ HeadKind(u) \notin {"start", "livepatch_pebble_ready"}
          /\ svc[u] = Stopped => ~Resumes(u, HeadKind(u))

Handled(u) ==
    /\ UNCHANGED Uncommitted
    /\ \E d \in BOOLEAN : HandlesNotice(u, d)
    /\ LeavesService(u)

LEMMA HandledBy ==
    ASSUME NEW u, HandlesNotice(u, FALSE), LeavesService(u), UNCHANGED Uncommitted
    PROVE  Handled(u)
<1>1. FALSE \in BOOLEAN
  OBVIOUS
<1> QED
  BY <1>1, Zenon DEF Handled

(* The hook of a handler that consumes its notice.                           *)
LEMMA NoticeHandled ==
    ASSUME CharmTypes, NEW u \in Units, hook[u] \in ActiveHooks,
           NEW g \in ActiveHooks, NEW d \in BOOLEAN,
           g.main = hook[u].main, g.seen = hook[u].seen,
           g.todo = hook[u].todo, g.kept = hook[u].kept,
           HeadKind(u) \in MainBroken => ~d,
           hook' = [hook EXCEPT ![u] = Consume(g, d)]
    PROVE  HandlesNotice(u, d)
<1>1. hook'[u] = Consume(g, d) /\ \A v \in Units \ {u} : hook'[v] = hook[v]
  BY DEF CharmTypes
<1> QED
  BY <1>1, ConsumeFields DEF HandlesNotice

(* A handler that may leave the service alone.                               *)
MayPass(u) ==
    /\ HeadKind(u) \notin MainBroken \cup {"start", "livepatch_pebble_ready"}
    /\ status[u] = "active" => ~Resumes(u, HeadKind(u))

LEMMA SkipHandled ==
    ASSUME UnitInv, NEW u \in Units, hook[u].todo # <<>>, NEW d \in BOOLEAN, Skip(u, d),
           UNCHANGED Uncommitted, MayPass(u)
    PROVE  Handled(u)
<1>1. CharmTypes /\ hook[u] \in ActiveHooks
  BY HandlesActive, TypeInvParts DEF UnitInv
<1>2. hook' = [hook EXCEPT ![u] = Consume(hook[u], d)] /\ UNCHANGED <<svc, status, conn>>
  BY <1>1 DEF Skip, CharmTypes
<1>3. HandlesNotice(u, d)
  BY <1>1, <1>2, NoticeHandled DEF MayPass
<1>4. ~Idle(u)
  BY <1>1 DEF Idle, ActiveHooks
<1>5. LeavesService(u)
  BY <1>2, <1>4 DEF MayPass, LeavesService, UnitInv, ServiceConnected, ReadyInv, Running
<1> QED
  BY <1>3, <1>5 DEF Handled

LEMMA DropHandled ==
    ASSUME UnitInv, NEW u \in Units, hook[u].todo # <<>>, Skip(u, FALSE),
           UNCHANGED Uncommitted, MayPass(u)
    PROVE  Handled(u)
<1>1. FALSE \in BOOLEAN
  OBVIOUS
<1> QED
  BY <1>1, SkipHandled, Zenon

LEMMA DeferHandled ==
    ASSUME UnitInv, NEW u \in Units, hook[u].todo # <<>>, Skip(u, TRUE),
           UNCHANGED Uncommitted, MayPass(u)
    PROVE  Handled(u)
<1>1. TRUE \in BOOLEAN
  OBVIOUS
<1> QED
  BY <1>1, SkipHandled, Zenon

LEMMA ReconfigureHandled ==
    ASSUME UnitInv, NEW u \in Units, hook[u].todo # <<>>,
           NEW h \in ActiveHooks,
           h.main = hook[u].main, h.seen = hook[u].seen,
           h.todo = hook[u].todo, h.kept = hook[u].kept,
           NEW before \in {svc[u], StoppedService(u)}, Reconfigure(u, h, before),
           UNCHANGED Uncommitted, HeadKind(u) \notin MainBroken
    PROVE  Handled(u)
<1> DEFINE outcome == Outcome(InputsOf(u, h))
<1>1. CharmTypes /\ hook[u] \in ActiveHooks
  BY HandlesActive, TypeInvParts DEF UnitInv
<1>2. \E d \in BOOLEAN : HandlesNotice(u, d)
  <2> DEFINE deferring == Defers(outcome)
  <2>1. deferring \in BOOLEAN
    BY DEF Defers
  <2>2. \/ hook' = [hook EXCEPT ![u] = Consume(h, deferring)]
        \/ hook' = [hook EXCEPT ![u] = Consume(h, FALSE)]
    BY DEF Reconfigure
  <2> HIDE DEF deferring
  <2>3. CASE hook' = [hook EXCEPT ![u] = Consume(h, deferring)]
    BY <1>1, <2>1, <2>3, NoticeHandled
  <2>4. CASE hook' = [hook EXCEPT ![u] = Consume(h, FALSE)]
    BY <1>1, <2>4, NoticeHandled
  <2> QED
    BY <2>2, <2>3, <2>4
<1>3. outcome \in Outcomes
      /\ (outcome = "started" => hook[u].seen.ready /\ "livepatch" \in conn[u])
  <2>1. InputsOf(u, h).ready = hook[u].seen.ready /\ InputsOf(u, h).workload = ("livepatch" \in conn[u])
    BY DEF InputsOf
  <2> QED
    BY <2>1, OutcomeIsOutcome
<1>4. outcome = "no_state" => ~hook[u].seen.ready
  <2>1. InputsOf(u, h).ready = hook[u].seen.ready
    BY DEF InputsOf
  <2> QED
    BY <2>1 DEF Outcome
<1>5. ~Idle(u) /\ (status[u] = "active" \/ Running(u) => hook[u].seen.ready)
  BY <1>1 DEF Idle, ActiveHooks, UnitInv, ReadyInv
<1>6. StatusAfter(outcome, status[u]) = "active" => outcome \in {"started", "no_state"}
  BY <1>3 DEF StatusAfter, Outcomes, DeferringOutcomes, DroppingOutcomes
<1>7. \A v \in Units \ {u} : svc'[v] = svc[v] /\ status'[v] = status[v] /\ conn'[v] = conn[v]
  BY <1>1 DEF Reconfigure, CharmTypes
<1>8. before # NoPlan => "livepatch" \in conn[u]
  BY DEF StoppedService, UnitInv, ServiceConnected
<1>9. before \notin {NoPlan, Stopped} => Running(u)
  BY DEF StoppedService, Running
<1>10. CASE outcome = "started" /\ svc'[u] = EnvironmentOf(u, h) /\ conn' = conn
  <2>1. EnvironmentOf(u, h) \notin {NoPlan, Stopped}
    BY <1>10, EnvironmentType, DataAssumption
  <2> QED
    BY <1>2, <1>3, <1>7, <1>10, <2>1 DEF Handled, LeavesService, Running
<1>11. CASE svc'[u] = NoPlan /\ status'[u] = "waiting"
  BY <1>2, <1>7, <1>11 DEF Handled, LeavesService, Running
<1>12. CASE outcome # "started" /\ svc'[u] = before /\ conn' = conn
            /\ status'[u] = StatusAfter(outcome, status[u])
  <2>1. status'[u] # "active"
    <3>1. SUFFICES ASSUME outcome = "no_state" PROVE status'[u] # "active"
      BY <1>6, <1>12
    <3>2. status'[u] = status[u]
      BY <1>12, <3>1 DEF StatusAfter
    <3> QED
      BY <1>4, <1>5, <3>1, <3>2
  <2>2. Running(u)' => hook[u].seen.ready
    BY <1>5, <1>9, <1>12 DEF Running
  <2>3. svc'[u] # NoPlan => "livepatch" \in conn'[u]
    BY <1>8, <1>12
  <2> QED
    BY <1>2, <1>7, <2>1, <2>2, <2>3 DEF Handled, LeavesService
<1>13. \/ /\ svc'[u] = IF outcome = "started" THEN EnvironmentOf(u, h) ELSE before
          /\ conn' = conn
          /\ status'[u] = StatusAfter(outcome, status[u])
       \/ svc'[u] = NoPlan /\ status'[u] = "waiting"
  BY <1>1 DEF Reconfigure, CharmTypes
<1> QED
  BY <1>10, <1>11, <1>12, <1>13

HandlerRaises(u) ==
    Raise(u) /\ UNCHANGED <<leader, ready, worldVars, peer, deferred, svc, status>>

LEMMA HandlersDo ==
    ASSUME UnitInv, NEW u \in Units, Handle(u)
    PROVE  hook[u].todo # <<>> /\ hook[u] \in ActiveHooks /\ (Handled(u) \/ HandlerRaises(u))
<1> DEFINE h == hook[u]
<1>1. h.todo # <<>>
  BY DEF Handle, HandleReconciling, HandlePeerChanged, HandleUpdateStatus,
     HandleStop, HandleDatabaseChanged, HandleLegacyJoined, HandleMasterChanged,
     HandleDatabaseBroken, HandleMetricsBroken, HandleRestartAction, HandleTokenAction, Handles
<1>2. CharmTypes /\ h \in ActiveHooks
  BY <1>1, HandlesActive, TypeInvParts DEF UnitInv
<1> SUFFICES Handled(u) \/ HandlerRaises(u)
  BY <1>1, <1>2
<1>3. \A k : Handles(u, k) => HeadKind(u) = k
  BY DEF Handles, HeadKind
<1>4. (~h.seen.ready) \in BOOLEAN /\ (~h.seen.requested) \in BOOLEAN /\ FALSE \in BOOLEAN
  OBVIOUS
<1>8. ~Idle(u) /\ (status[u] = "active" \/ Running(u) => h.seen.ready)
      /\ (svc[u] # NoPlan => "livepatch" \in conn[u])
  BY <1>2 DEF Idle, ActiveHooks, UnitInv, ReadyInv, ServiceConnected
<1>5. ASSUME NEW key, NEW v, Write(h, key, v) \in ActiveHooks,
             Reconfigure(u, Write(h, key, v), svc[u]), UNCHANGED Uncommitted,
             HeadKind(u) \notin MainBroken
      PROVE  Handled(u)
  <2> DEFINE g == Write(h, key, v)
  <2>1. /\ g \in ActiveHooks /\ Reconfigure(u, g, svc[u])
        /\ g.main = h.main /\ g.seen = h.seen /\ g.todo = h.todo /\ g.kept = h.kept
    BY <1>2, <1>5, WriteFields
  <2> HIDE DEF g
  <2> QED
    BY <1>1, <1>5, <2>1, ReconfigureHandled
<1>6. CASE HandleReconciling(u)
  <2>1. HeadKind(u) \notin MainBroken
    BY <1>3, <1>6, EventKinds DEF HandleReconciling, ReconcilingKinds
  <2> QED
    BY <1>1, <1>2, <1>6, <2>1, ReconfigureHandled DEF HandleReconciling
<1>7. CASE HandlePeerChanged(u)
  <2>1. HeadKind(u) = "livepatch_relation_changed" /\ UNCHANGED Uncommitted
    BY <1>3, <1>7 DEF HandlePeerChanged
  <2>2. (Skip(u, FALSE) /\ (leader = u \/ ~h.seen.ready)) \/ Reconfigure(u, h, svc[u])
    BY <1>7 DEF HandlePeerChanged
  <2>3. leader = u \/ ~h.seen.ready => MayPass(u)
    BY <1>8, <2>1, EventKinds, LastingKinds DEF MayPass, Resumes, ReconcilingKinds
  <2>4. HeadKind(u) \notin MainBroken
    BY <2>1, EventKinds
  <2> QED
    BY <1>1, <1>2, <2>1, <2>2, <2>3, <2>4, DropHandled, ReconfigureHandled
<1>9. CASE HandleUpdateStatus(u)
  <2>1. HeadKind(u) = "update_status" /\ UNCHANGED Uncommitted
    BY <1>3, <1>9 DEF HandleUpdateStatus
  <2>2. hook' = [hook EXCEPT ![u] = Consume(h, FALSE)]
    BY <1>2, <1>9 DEF HandleUpdateStatus, CharmTypes
  <2>3. HandlesNotice(u, FALSE)
    BY <1>2, <2>2, NoticeHandled
  <2>4. ~Resumes(u, HeadKind(u))
    BY <2>1, ResumingKinds, LastingKinds DEF ReconcilingKinds
  <2>5. LeavesService(u)
    BY <1>2, <1>8, <1>9, <2>1, <2>4, EventKinds
       DEF HandleUpdateStatus, LeavesService, CharmTypes, Running
  <2> QED
    BY <2>1, <2>3, <2>5, HandledBy, Zenon
<1>10. CASE HandleStop(u)
  <2>1. HeadKind(u) = "stop" /\ UNCHANGED Uncommitted
    BY <1>3, <1>10 DEF HandleStop
  <2>2. hook' = [hook EXCEPT ![u] = Consume(h, FALSE)]
    BY <1>2, <1>10 DEF HandleStop, CharmTypes
  <2>3. HandlesNotice(u, FALSE)
    BY <1>2, <2>2, NoticeHandled
  <2>4. LeavesService(u)
    BY <1>2, <1>8, <1>10, <2>1, EventKinds, DataAssumption
       DEF HandleStop, StoppedService, LeavesService, CharmTypes, Running
  <2> QED
    BY <2>1, <2>3, <2>4, HandledBy, Zenon
<1>11. ASSUME NEW e \in {"database", "metrics_db"}, HandleDatabaseChanged(u, e)
       PROVE  Handled(u) \/ HandlerRaises(u)
  <2> DEFINE key == IF e = "metrics_db" THEN "dsn_metrics" ELSE "dsn"
  <2>1. HeadKind(u) \in {"database_relation_changed", "metrics_db_relation_changed"}
    BY <1>3, <1>11, EventKinds DEF HandleDatabaseChanged
  <2> DEFINE passing == leader # u \/ ~h.seen.ready \/ h.seen.rel[e] \notin Creds
  <2>2. \/ HandlerRaises(u)
        \/ (Skip(u, FALSE) \/ Skip(u, TRUE)) /\ passing /\ UNCHANGED Uncommitted
        \/ /\ h.seen.rel[e] \in Creds /\ Reconfigure(u, Write(h, key, h.seen.rel[e]), svc[u])
           /\ UNCHANGED Uncommitted
    BY <1>11 DEF HandleDatabaseChanged, HandlerRaises
  <2>3. h.seen.rel[e] \in Creds => Write(h, key, h.seen.rel[e]) \in ActiveHooks
    BY <1>2, WriteType DEF Keys
  <2>4. passing => MayPass(u)
    <3>1. HeadKind(u) = Changed(e)
      BY <1>3, <1>11 DEF HandleDatabaseChanged
    <3>2. \A f \in {"database", "metrics_db"} : Changed(f) = Changed(e) => f = e
      BY EventKinds
    <3>3. HeadKind(u) \notin MainBroken \cup Lasting
      BY <2>1, EventKinds, LastingKinds DEF ReconcilingKinds
    <3> QED
      BY <1>8, <2>1, <3>1, <3>2, <3>3 DEF MayPass, Resumes
  <2>5. HeadKind(u) \notin MainBroken
    BY <2>1, EventKinds
  <2> HIDE DEF passing, key
  <2> QED
    BY <1>1, <1>5, <2>2, <2>3, <2>4, <2>5, DropHandled, DeferHandled
<1>12. CASE HandleLegacyJoined(u)
  <2>1. HeadKind(u) = "database_relation_joined"
    BY <1>3, <1>12 DEF HandleLegacyJoined, LegacyJoined
  <2> DEFINE asked == h.seen.rel["database_legacy"] # "absent"
  <2>2. \/ HandlerRaises(u)
        \/ UNCHANGED Uncommitted /\ \E d \in BOOLEAN : Skip(u, d)
        \/ /\ hook' = [hook EXCEPT ![u] = [Consume(h, FALSE) EXCEPT !.request = asked]]
           /\ UNCHANGED Uncommitted /\ UNCHANGED <<svc, status, conn>>
    BY <1>4, <1>12 DEF HandleLegacyJoined, HandlerRaises
  <2>5. ~Resumes(u, HeadKind(u))
    BY <2>1, ResumingKinds, LastingKinds DEF ReconcilingKinds
  <2>3. CASE UNCHANGED Uncommitted /\ \E d \in BOOLEAN : Skip(u, d)
    <3>1. PICK d \in BOOLEAN : Skip(u, d)
      BY <2>3
    <3>2. MayPass(u)
      BY <2>1, <2>5, EventKinds DEF MayPass
    <3> QED
      BY <1>1, <2>3, <3>1, <3>2, SkipHandled, Zenon
  <2>4. CASE /\ hook' = [hook EXCEPT ![u] = [Consume(h, FALSE) EXCEPT !.request = asked]]
             /\ UNCHANGED Uncommitted /\ UNCHANGED <<svc, status, conn>>
    <3>1. hook'[u] = [Consume(h, FALSE) EXCEPT !.request = asked]
          /\ \A v \in Units \ {u} : hook'[v] = hook[v]
      BY <1>2, <2>4 DEF CharmTypes
    <3>2. Consume(h, FALSE) \in ActiveHooks /\ Consume(h, FALSE).main = h.main
          /\ Consume(h, FALSE).seen = h.seen
      BY <1>1, <1>2, ConsumeType, ConsumeFields
    <3>3. HandlesNotice(u, FALSE)
      BY <3>1, <3>2 DEF HandlesNotice, ActiveHooks, Hooks
    <3>4. LeavesService(u)
      BY <1>8, <2>1, <2>4, <2>5, EventKinds DEF LeavesService, Running, UnitInv, ServiceConnected
    <3> QED
      BY <2>4, <3>3, <3>4, HandledBy, Zenon
  <2> QED
    BY <2>2, <2>3, <2>4
<1>13. CASE HandleMasterChanged(u)
  <2> DEFINE master == h.seen.rel["database_legacy"]
             g == IF leader = u /\ master \in Creds THEN Write(h, "dsn", master) ELSE h
  <2>1. HeadKind(u) = "master_changed" /\ UNCHANGED Uncommitted
    BY <1>3, <1>13 DEF HandleMasterChanged
  <2>2. \/ Skip(u, ~h.seen.ready) /\ ~(h.seen.ready /\ h.seen.requested)
        \/ Reconfigure(u, g, svc[u])
    BY <1>13 DEF HandleMasterChanged
  <2>3. g \in ActiveHooks /\ g.main = h.main /\ g.seen = h.seen /\ g.todo = h.todo /\ g.kept = h.kept
    BY <1>2, WriteType, WriteFields DEF Keys
  <2> HIDE DEF g
  <2> QED
    <3>1. HeadKind(u) \notin MainBroken
      BY <2>1, EventKinds
    <3>2. CASE Skip(u, ~h.seen.ready) /\ ~(h.seen.ready /\ h.seen.requested)
      <4>1. MayPass(u)
        BY <1>8, <2>1, <3>2, EventKinds, LastingKinds DEF MayPass, Resumes, ReconcilingKinds
      <4> QED
        BY <1>1, <1>4, <2>1, <3>2, <4>1, SkipHandled, Zenon
    <3>3. CASE Reconfigure(u, g, svc[u])
      <4>1. svc[u] \in {svc[u], StoppedService(u)} /\ HeadKind(u) \notin MainBroken
        BY <3>1
      <4> QED
        BY <1>1, <2>1, <2>3, <3>3, <4>1, ReconfigureHandled
    <3> QED
      BY <2>2, <3>2, <3>3
<1>14. ASSUME NEW e \in MainEndpoints, HandleDatabaseBroken(u, e) PROVE Handled(u)
  <2> DEFINE g == Cleared(u, h)
  <2>1. HeadKind(u) \in MainBroken /\ UNCHANGED Uncommitted
    BY <1>3, <1>14 DEF HandleDatabaseBroken, MainBroken
  <2>2. g \in ActiveHooks /\ g.main = h.main /\ g.seen = h.seen /\ g.todo = h.todo /\ g.kept = h.kept
    BY <1>2, ClearedType, WriteFields DEF Cleared
  <2>3. hook' = [hook EXCEPT ![u] = Consume(g, FALSE)]
    BY <1>14 DEF HandleDatabaseBroken
  <2> HIDE DEF g
  <2>4. HandlesNotice(u, FALSE)
    BY <1>2, <2>2, <2>3, NoticeHandled
  <2>5. LeavesService(u)
    BY <1>2, <1>8, <1>14, <2>1, EventKinds
       DEF HandleDatabaseBroken, StoppedService, LeavesService, CharmTypes, Running
  <2> QED
    BY <2>1, <2>4, <2>5, HandledBy, Zenon
<1>15. CASE HandleMetricsBroken(u)
  <2> DEFINE g == IF leader = u /\ h.seen.ready THEN Write(h, "dsn_metrics", None) ELSE h
  <2>1. HeadKind(u) = "metrics_db_relation_broken" /\ UNCHANGED Uncommitted
    BY <1>3, <1>15, EventKinds DEF HandleMetricsBroken
  <2>2. Reconfigure(u, g, svc[u])
    BY <1>15 DEF HandleMetricsBroken
  <2>3. g \in ActiveHooks /\ g.main = h.main /\ g.seen = h.seen /\ g.todo = h.todo /\ g.kept = h.kept
    BY <1>2, WriteType, WriteFields DEF Keys
  <2> HIDE DEF g
  <2> QED
    <3>1. svc[u] \in {svc[u], StoppedService(u)} /\ HeadKind(u) \notin MainBroken
      BY <2>1, EventKinds
    <3> QED
      BY <1>1, <2>1, <2>2, <2>3, <3>1, ReconfigureHandled
<1>16. CASE HandleRestartAction(u)
  <2>1. HeadKind(u) = "restart_action" /\ UNCHANGED Uncommitted
        /\ Reconfigure(u, h, StoppedService(u))
    BY <1>3, <1>16 DEF HandleRestartAction
  <2> QED
    BY <1>1, <1>2, <2>1, EventKinds, ReconfigureHandled
<1>17. CASE HandleTokenAction(u)
  <2>1. HeadKind(u) = "get_resource_token_action" /\ UNCHANGED Uncommitted
    BY <1>3, <1>17 DEF HandleTokenAction
  <2>2. ASSUME NEW token \in Tokens \cup {None},
               Reconfigure(u, Write(h, "resource_token", token), svc[u])
        PROVE  Handled(u)
    <3>1. Write(h, "resource_token", token) \in ActiveHooks
      BY <1>2, WriteType DEF Keys
    <3> QED
      BY <1>5, <2>1, <2>2, <3>1, EventKinds
  <2> QED
    <3>1. Skip(u, FALSE) \/ \E token \in Tokens \cup {None} :
                               Reconfigure(u, Write(h, "resource_token", token), svc[u])
      BY <1>17 DEF HandleTokenAction
    <3>2. MayPass(u)
      <4>1. ~Resumes(u, HeadKind(u))
        BY <2>1, ResumingKinds, LastingKinds DEF ReconcilingKinds
      <4> QED
        BY <2>1, <4>1, EventKinds DEF MayPass
    <3> QED
      BY <1>1, <2>1, <2>2, <3>1, <3>2, DropHandled
<1> QED
  BY <1>1, <1>2, <1>6, <1>7, <1>9, <1>10, <1>11, <1>12, <1>13, <1>14, <1>15, <1>16, <1>17
     DEF Handle, MainEndpoints

(* The event whose handler stops the service and raises.                     *)
LEMMA CutHead ==
    ASSUME UnitInv, NEW u \in Units, CutShort(u)
    PROVE  /\ hook[u].todo # <<>>
           /\ "livepatch" \in conn[u]
           /\ \/ HeadKind(u) \in Actions
              \/ Resumes(u, HeadKind(u))
              \/ Handles(u, "master_changed") /\ ~hook[u].seen.requested
<1> DEFINE h == hook[u]
           master == h.seen.rel["database_legacy"]
<1>1. \A k : Handles(u, k) => h.todo # <<>> /\ HeadKind(u) = k
  BY DEF Handles, HeadKind
<1>2. ASSUME NEW g, Outcome(InputsOf(u, g)) = "started" PROVE "livepatch" \in conn[u]
  <2>1. InputsOf(u, g).workload = ("livepatch" \in conn[u])
    BY DEF InputsOf
  <2> QED
    BY <1>2, <2>1, OutcomeIsOutcome
<1>3. ASSUME NEW k \in Stopping, Handles(u, k), StoppedService(u) = Stopped
      PROVE  /\ HeadKind(u) \in Actions \/ Resumes(u, HeadKind(u))
             /\ "livepatch" \in conn[u]
  <2>1. k \in Actions \cup Lasting
    BY EventKinds, LastingKinds DEF Stopping, Actions, MainBroken, MainEndpoints
  <2>2. svc[u] # NoPlan
    BY <1>3, DataAssumption DEF StoppedService
  <2> QED
    BY <1>1, <1>3, <2>1, <2>2 DEF Resumes, UnitInv, ServiceConnected
<1>4. ASSUME ReachesStart(u)
      PROVE  /\ h.todo # <<>> /\ "livepatch" \in conn[u]
             /\ \/ HeadKind(u) \in Actions
                \/ Resumes(u, HeadKind(u))
                \/ Handles(u, "master_changed") /\ ~h.seen.requested
  <2>1. CASE /\ \E k \in ReconcilingKinds \cup {"restart_action", Broken("metrics_db")} : Handles(u, k)
             /\ Outcome(InputsOf(u, h)) = "started"
    <3>1. PICK k \in ReconcilingKinds \cup {"restart_action", Broken("metrics_db")} : Handles(u, k)
      BY <2>1
    <3>2. k \in Actions \cup Lasting
      BY <3>1, EventKinds, LastingKinds DEF Actions
    <3> QED
      BY <1>1, <1>2, <2>1, <3>1, <3>2 DEF Resumes
  <2>2. CASE /\ Handles(u, "livepatch_relation_changed") /\ leader # u
             /\ Outcome(InputsOf(u, h)) = "started"
    BY <1>1, <1>2, <2>2 DEF Resumes
  <2>3. ASSUME NEW e \in {"database", "metrics_db"}, Handles(u, Changed(e)), leader = u,
               h.seen.rel[e] \in Creds,
               Outcome(InputsOf(u, IF e = "database" THEN Write(h, "dsn", h.seen.rel[e]) ELSE h))
                   = "started"
        PROVE  h.todo # <<>> /\ "livepatch" \in conn[u] /\ Resumes(u, HeadKind(u))
    BY <1>1, <1>2, <2>3 DEF Resumes
  <2>4. CASE /\ Handles(u, "master_changed")
             /\ Outcome(InputsOf(u, IF leader = u /\ master \in Creds
                                    THEN Write(h, "dsn", master) ELSE h)) = "started"
    BY <1>1, <1>2, <2>4 DEF Resumes
  <2>5. ASSUME Handles(u, "get_resource_token_action"), NEW token,
               Outcome(InputsOf(u, Write(h, "resource_token", token))) = "started"
        PROVE  h.todo # <<>> /\ "livepatch" \in conn[u] /\ HeadKind(u) \in Actions
    BY <1>1, <1>2, <2>5 DEF Actions
  <2> QED
    BY <1>4, <2>1, <2>2, <2>3, <2>4, <2>5 DEF ReachesStart
<1> QED
  BY <1>1, <1>3, <1>4 DEF CutShort

-----------------------------------------------------------------------------
(* UnitInv is inductive: one lemma per way in which a step treats the hooks. *)
UnitFacts == ServiceConnected /\ BrokenNeverStored /\ BrokenLast /\ ReadyInv /\ StopInv

LEMMA HandledKeeps ==
    ASSUME UnitInv, NEW u \in Units, hook[u] \in ActiveHooks, hook[u].todo # <<>>, Handled(u)
    PROVE  UnitFacts'
<1> DEFINE h == hook[u]
<1>1. PICK d \in BOOLEAN : HandlesNotice(u, d)
  BY DEF Handled
<1>2. LeavesService(u) /\ UNCHANGED <<ready, pending, failed, deferred>>
  BY DEF Handled, Uncommitted, jujuVars
<1>3. \A v \in Units \ {u} :
          hook'[v] = hook[v] /\ svc'[v] = svc[v] /\ status'[v] = status[v] /\ conn'[v] = conn[v]
  BY <1>1, <1>2 DEF HandlesNotice, LeavesService
<1>4. /\ h.todo \in Seq(Notices) /\ Len(h.todo) \in Nat /\ Head(h.todo) \in Notices
      /\ Head(h.todo) = h.todo[1] /\ h.todo[Len(h.todo)] \in Notices /\ h.main # None
  BY DEF ActiveHooks, Hooks
<1>5. /\ hook'[u].main = h.main /\ hook'[u].seen = h.seen
      /\ hook'[u].todo = Consume(h, d).todo /\ hook'[u].kept = Consume(h, d).kept
      /\ HeadKind(u) \in MainBroken => ~d
  BY <1>1 DEF HandlesNotice
<1>6. ServiceConnected'
  BY <1>2, <1>3 DEF UnitInv, ServiceConnected, LeavesService
<1>7. \A n \in Notices : Stored(n, hook'[u].kept) => Stored(n, h.kept) \/ (d /\ n = Head(h.todo))
  BY <1>5, ConsumeNotices
<1>8. BrokenNeverStored'
  <2>1. \A n \in Notices : n.kind \in MainBroken => ~Stored(n, hook'[u].kept)
    BY <1>5, <1>7 DEF UnitInv, BrokenNeverStored, HeadKind
  <2> QED
    BY <1>2, <1>3, <2>1 DEF UnitInv, BrokenNeverStored
<1>9. BrokenLast'
  <2>1. SUFFICES ASSUME h.main \in MainBroken
                 PROVE  IF hook'[u].todo = <<>> THEN ~Running(u)'
                        ELSE hook'[u].todo[Len(hook'[u].todo)].kind = h.main
    BY <1>3, <1>5 DEF UnitInv, BrokenLast, Running
  <2>2. h.todo[Len(h.todo)].kind = h.main
    BY <2>1 DEF UnitInv, BrokenLast
  <2>3. IF hook'[u].todo = <<>>
        THEN Len(h.todo) = 1 \/ Stored(h.todo[Len(h.todo)], hook'[u].kept)
        ELSE hook'[u].todo[Len(hook'[u].todo)] = h.todo[Len(h.todo)]
    BY <1>5, ConsumeNotices
  <2>4. ~Stored(h.todo[Len(h.todo)], hook'[u].kept)
    BY <1>4, <1>8, <2>1, <2>2 DEF BrokenNeverStored
  <2>5. Len(h.todo) = 1 => HeadKind(u) \in MainBroken
    BY <1>4, <2>1, <2>2 DEF HeadKind
  <2> QED
    BY <1>2, <2>2, <2>3, <2>4, <2>5 DEF LeavesService
<1>10. ReadyInv'
  <2>1. ~Idle(u) /\ h.seen.ready => ready
    BY DEF UnitInv, ReadyInv
  <2>2. ~Idle(u)
    BY <1>4 DEF Idle
  <2>3. ~Idle(u)' /\ hook'[u].seen.ready = h.seen.ready
    BY <1>4, <1>5 DEF Idle
  <2>4. /\ ~Idle(u)' /\ hook'[u].seen.ready => ready'
        /\ Running(u)' \/ status'[u] = "active" => ready' /\ (~Idle(u)' => hook'[u].seen.ready)
    BY <1>2, <2>1, <2>2, <2>3 DEF LeavesService
  <2> QED
    BY <1>2, <1>3, <2>4 DEF UnitInv, ReadyInv, Idle, Running
<1>11. StopInv'
  BY <1>2, <1>3, <1>5 DEF UnitInv, StopInv
<1> QED
  BY <1>6, <1>8, <1>9, <1>10, <1>11 DEF UnitFacts

LEMMA RaiseKeeps ==
    ASSUME UnitInv, NEW u \in Units, ~Idle(u), Raise(u), UNCHANGED <<ready, deferred, conn>>,
           UNCHANGED <<svc, status>> \/ CutShort(u)
    PROVE  UnitFacts'
<1>1. CharmTypes /\ JujuTypes
  BY TypeInvParts DEF UnitInv
<1>2. hook'[u] = IdleHook /\ \A v \in Units \ {u} : hook'[v] = hook[v]
  BY <1>1 DEF Raise, CharmTypes
<1>3. /\ \A v \in Units \ {u} : pending'[v] = pending[v] /\ failed'[v] = failed[v]
      /\ pending'[u] \subseteq pending[u] \cup {hook[u].main}
      /\ failed'[u] \in {hook[u].main, None}
  BY <1>1 DEF Raise, JujuTypes
<1>4. ~(None \in MainBroken) /\ None # "stop"
  <2>1. \A e \in MainEndpoints : Broken(e) \in Kinds
    BY KindsOfEndpoints DEF MainEndpoints, AllEndpoints
  <2> QED
    BY <2>1, KindsOfEndpoints, DataAssumption DEF MainBroken
<1>5. hook'[u].main = None /\ hook'[u].kept = <<>> /\ Idle(u)' /\ \A n : ~Stored(n, hook'[u].kept)
  BY <1>2 DEF IdleHook, Idle, Stored
<1>11. /\ \A v \in Units \ {u} : svc'[v] = svc[v] /\ status'[v] = status[v]
       /\ svc'[u] # NoPlan => "livepatch" \in conn[u]
       /\ Running(u)' \/ status'[u] = "active" => Running(u) \/ status[u] = "active"
  <2>1. CASE UNCHANGED <<svc, status>>
    BY <2>1 DEF UnitInv, ServiceConnected, Running
  <2>2. CASE CutShort(u)
    BY <1>1, <2>2, CutFields, CutHead DEF Running
  <2> QED
    BY <2>1, <2>2
<1>6. ServiceConnected'
  BY <1>11 DEF UnitInv, ServiceConnected
<1>7. BrokenNeverStored'
  BY <1>2, <1>5 DEF UnitInv, BrokenNeverStored
<1>8. BrokenLast'
  BY <1>2, <1>4, <1>5, <1>11 DEF UnitInv, BrokenLast, Running
<1>9. ReadyInv'
  BY <1>2, <1>5, <1>11 DEF UnitInv, ReadyInv, Idle, Running
<1>10. StopInv'
  BY <1>2, <1>3, <1>4, <1>5 DEF UnitInv, StopInv
<1> QED
  BY <1>6, <1>7, <1>8, <1>9, <1>10 DEF UnitFacts

LEMMA BeginKeeps ==
    ASSUME UnitInv, NEW u \in Units, Idle(u), NEW k \in Kinds, Begin(u, k),
           k = "stop" => k \in pending[u],
           UNCHANGED <<ready, deferred, conn, svc, status>>,
           \A v \in Units : pending'[v] \subseteq pending[v] /\ failed'[v] \in {failed[v], None}
    PROVE  UnitFacts'
<1>1. CharmTypes /\ JujuTypes
  BY TypeInvParts DEF UnitInv
<1> DEFINE todo == IF k = "other" THEN deferred[u] ELSE Append(deferred[u], Notice(k))
<1>2. /\ hook'[u].main = k /\ hook'[u].todo = todo /\ hook'[u].kept = <<>>
      /\ hook'[u].seen = Snapshot(u, k)
      /\ \A v \in Units \ {u} : hook'[v] = hook[v]
  BY <1>1 DEF Begin, CharmTypes
<1>3. Snapshot(u, k).ready = ready
  BY DEF Snapshot
<1>4. \A n : ~Stored(n, hook'[u].kept)
  BY <1>2 DEF Stored
<1>5. ServiceConnected'
  BY DEF UnitInv, ServiceConnected
<1>6. BrokenNeverStored'
  BY <1>2, <1>4 DEF UnitInv, BrokenNeverStored
<1>7. BrokenLast'
  <2>1. SUFFICES ASSUME k \in MainBroken PROVE todo # <<>> /\ todo[Len(todo)].kind = k
    BY <1>2, ZenonT(30) DEF UnitInv, BrokenLast, Running
  <2>2. todo = Append(deferred[u], Notice(k))
    BY <2>1, EventKinds
  <2>3. deferred[u] \in Seq(Notices)
    BY <1>1 DEF JujuTypes
  <2> HIDE DEF todo
  <2>4. Len(todo) = Len(deferred[u]) + 1 /\ todo[Len(deferred[u]) + 1] = Notice(k)
    BY <2>2, <2>3
  <2>5. Len(deferred[u]) \in Nat /\ todo # <<>>
    BY <2>2, <2>3
  <2> QED
    BY <2>4, <2>5 DEF Notice
<1>8. ReadyInv'
  BY <1>2, <1>3 DEF UnitInv, ReadyInv, Idle, Running
<1>9. StopInv'
  <2>1. None # "stop"
    BY KindsOfEndpoints, DataAssumption
  <2> QED
    BY <1>2, <2>1 DEF UnitInv, StopInv
<1> QED
  BY <1>5, <1>6, <1>7, <1>8, <1>9 DEF UnitFacts

LEMMA CommitKeeps ==
    ASSUME UnitInv, NEW u \in Units, hook[u].main # None,
           NEW again \in SUBSET {"config_changed", "start"}, Commit(u, again),
           UNCHANGED <<ready, failed, status>>,
           \A v \in Units : \/ svc'[v] = svc[v] /\ conn'[v] = conn[v]
                            \/ svc'[v] = NoPlan
    PROVE  UnitFacts'
<1>1. CharmTypes /\ JujuTypes
  BY TypeInvParts DEF UnitInv
<1>2. hook'[u] = IdleHook /\ \A v \in Units \ {u} : hook'[v] = hook[v]
  BY <1>1 DEF Commit, CharmTypes
<1>3. hook'[u].main = None /\ Idle(u)' /\ \A n : ~Stored(n, hook'[u].kept)
  BY <1>2 DEF IdleHook, Idle, Stored
<1>4. deferred'[u] = hook[u].kept /\ \A v \in Units \ {u} : deferred'[v] = deferred[v]
  BY <1>1 DEF Commit, JujuTypes
<1>5. \A v \in Units : "stop" \in pending'[v] => "stop" \in pending[v]
  BY DEF Commit
<1>6. None \notin MainBroken /\ None # "stop"
  <2>1. \A e \in MainEndpoints : Broken(e) \in Kinds
    BY KindsOfEndpoints DEF MainEndpoints, AllEndpoints
  <2> QED
    BY <2>1, KindsOfEndpoints, DataAssumption DEF MainBroken
<1>7. \A v \in Units : Running(v)' => Running(v)
  BY DEF Running
<1>8. ServiceConnected'
  BY DEF UnitInv, ServiceConnected
<1>9. BrokenNeverStored'
  BY <1>2, <1>3, <1>4 DEF UnitInv, BrokenNeverStored
<1>10. BrokenLast'
  BY <1>2, <1>3, <1>6, <1>7 DEF UnitInv, BrokenLast
<1>11. ReadyInv'
  BY <1>2, <1>3, <1>7 DEF UnitInv, ReadyInv, Idle
<1>12. StopInv'
  BY <1>2, <1>3, <1>5, <1>6 DEF UnitInv, StopInv
<1> QED
  BY <1>8, <1>9, <1>10, <1>11, <1>12 DEF UnitFacts

LEMMA WorldKeeps ==
    ASSUME UnitInv, UNCHANGED <<hook, deferred, status>>, ready => ready',
           \A v \in Units : failed'[v] \in {failed[v], None},
           \A v \in Units : "stop" \in pending'[v] =>
               "stop" \in pending[v] \/ "pod" \in Disturbances,
           \A v \in Units : \/ svc'[v] = svc[v] /\ ("livepatch" \in conn[v] => "livepatch" \in conn'[v])
                            \/ svc'[v] = NoPlan
    PROVE  UnitFacts'
<1>1. \A v \in Units : Running(v)' => Running(v)
  BY DEF Running
<1>2. None # "stop"
  BY KindsOfEndpoints, DataAssumption
<1>3. ServiceConnected'
  BY DEF UnitInv, ServiceConnected
<1>4. BrokenNeverStored'
  BY DEF UnitInv, BrokenNeverStored
<1>5. BrokenLast'
  BY <1>1 DEF UnitInv, BrokenLast
<1>6. ReadyInv'
  BY <1>1 DEF UnitInv, ReadyInv, Idle
<1>7. StopInv'
  BY <1>2 DEF UnitInv, StopInv
<1> QED
  BY <1>3, <1>4, <1>5, <1>6, <1>7 DEF UnitFacts

(* Ageing keeps the kinds of the notices and their places.                   *)
LEMMA AgedKinds ==
    ASSUME NEW s \in Seq(Notices), NEW e
    PROVE  /\ Len(Aged(s, e)) = Len(s)
           /\ \A i \in 1..Len(s) :
                 /\ Aged(s, e)[i].kind = s[i].kind
                 /\ s[i].kind \notin StaleKinds(e) \cup {Broken(e)} => Aged(s, e)[i] = s[i]
<1> DEFINE old(i) == s[i].old \/ s[i].kind \in StaleKinds(e) \cup {Broken(e)}
<1>1. \A i \in 1..Len(s) : s[i] \in Notices
  OBVIOUS
<1>2. Aged(s, e) = [i \in 1..Len(s) |-> [s[i] EXCEPT !.old = old(i)]]
  BY DEF Aged
<1>3. ASSUME NEW i \in 1..Len(s), s[i].kind \notin StaleKinds(e) \cup {Broken(e)}
      PROVE  old(i) = s[i].old
  <2>1. s[i].old \in BOOLEAN
    BY <1>1 DEF Notices
  <2> QED
    BY <1>3, <2>1
<1> HIDE DEF old
<1>4. \A i \in 1..Len(s) : Aged(s, e)[i] = [s[i] EXCEPT !.old = old(i)]
  BY <1>2
<1>5. Len(Aged(s, e)) = Len(s)
  <2>1. Len(s) \in Nat /\ DOMAIN Aged(s, e) = 1..Len(s)
    BY <1>2
  <2>2. Aged(s, e) \in Seq(Notices)
    BY AgedType
  <2> QED
    BY <2>1, <2>2
<1>6. \A i \in 1..Len(s) : Aged(s, e)[i].kind = s[i].kind
  BY <1>1, <1>4 DEF Notices
<1>7. ASSUME NEW i \in 1..Len(s), s[i].kind \notin StaleKinds(e) \cup {Broken(e)}
      PROVE  Aged(s, e)[i] = s[i]
  BY <1>1, <1>3, <1>4, <1>7 DEF Notices
<1> QED
  BY <1>5, <1>6, <1>7

LEMMA GoneFields ==
    ASSUME TypeInv, NEW e \in Endpoints, Gone(e), NEW u \in Units
    PROVE  /\ hook'[u].main = hook[u].main /\ hook'[u].seen = hook[u].seen
           /\ hook'[u].todo = Aged(hook[u].todo, e) /\ hook'[u].kept = Aged(hook[u].kept, e)
           /\ deferred'[u] = Aged(deferred[u], e)
           /\ hook[u].todo \in Seq(Notices) /\ hook[u].kept \in Seq(Notices)
           /\ deferred[u] \in Seq(Notices)
<1>1. CharmTypes /\ JujuTypes
  BY TypeInvParts
<1>2. hook'[u] = [hook[u] EXCEPT !.todo = Aged(@, e), !.kept = Aged(@, e)]
  BY DEF Gone
<1>3. hook[u] \in Hooks /\ deferred[u] \in Seq(Notices)
  BY <1>1 DEF CharmTypes, JujuTypes
<1>4. deferred'[u] = Aged(deferred[u], e)
  BY DEF Gone
<1>5. hook[u].todo \in Seq(Notices) /\ hook[u].kept \in Seq(Notices)
  BY <1>3 DEF Hooks
<1>6. /\ hook'[u].main = hook[u].main /\ hook'[u].seen = hook[u].seen
      /\ hook'[u].todo = Aged(hook[u].todo, e) /\ hook'[u].kept = Aged(hook[u].kept, e)
  BY <1>2, <1>3 DEF Hooks
<1> QED
  BY <1>3, <1>4, <1>5, <1>6

LEMMA GoneKeeps ==
    ASSUME UnitInv, NEW e \in Endpoints, Gone(e)
    PROVE  UnitFacts'
<1>1. TypeInv /\ UNCHANGED <<ready, pending, failed, conn, svc, status>>
  BY DEF UnitInv, Gone, jujuVars
<1>2. \A u \in Units : hook'[u].main = hook[u].main /\ hook'[u].seen = hook[u].seen
  BY <1>1, GoneFields
<1>3. ASSUME NEW s \in Seq(Notices), NEW n \in Notices, n.kind \in MainBroken, Stored(n, Aged(s, e))
      PROVE  \E m \in Notices : m.kind \in MainBroken /\ Stored(m, s)
  <2>1. PICK i \in 1..Len(s) : Aged(s, e)[i] = n
    BY <1>3, AgedKinds DEF Stored
  <2>2. s[i] \in Notices /\ s[i].kind = n.kind
    BY <2>1, AgedKinds
  <2> QED
    BY <1>3, <2>2 DEF Stored
<1>4. BrokenNeverStored'
  BY <1>1, <1>3, GoneFields DEF UnitInv, BrokenNeverStored
<1>5. ASSUME NEW u \in Units, hook[u].main \in MainBroken
      PROVE  IF hook'[u].todo = <<>> THEN ~Running(u)
             ELSE hook'[u].todo[Len(hook'[u].todo)].kind = hook[u].main
  <2> DEFINE s == hook[u].todo
  <2>1. s \in Seq(Notices) /\ hook'[u].todo = Aged(s, e)
    BY <1>1, GoneFields
  <2>2. IF s = <<>> THEN ~Running(u) ELSE s[Len(s)].kind = hook[u].main
    BY <1>5 DEF UnitInv, BrokenLast
  <2>3. CASE s = <<>>
    <3>1. Aged(s, e) = <<>>
      BY <2>3 DEF Aged
    <3> QED
      BY <2>1, <2>2, <2>3, <3>1
  <2>4. CASE s # <<>>
    <3> HIDE DEF s
    <3>1. Len(s) \in 1..Len(s)
      BY <2>1, <2>4
    <3>2. Aged(s, e)[Len(s)].kind = s[Len(s)].kind /\ Len(Aged(s, e)) = Len(s)
      BY <2>1, <3>1, AgedKinds
    <3>3. Aged(s, e) # <<>>
      BY <2>1, <3>1, <3>2
    <3> QED
      BY <2>1, <2>2, <2>4, <3>2, <3>3
  <2> QED
    BY <2>3, <2>4
<1>6. BrokenLast'
  BY <1>1, <1>2, <1>5 DEF BrokenLast, Running
<1>7. ServiceConnected' /\ ReadyInv' /\ StopInv'
  BY <1>1, <1>2 DEF UnitInv, ServiceConnected, ReadyInv, StopInv, Idle, Running
<1> QED
  BY <1>4, <1>6, <1>7 DEF UnitFacts

(* The steps that begin a hook, and those that run none.                     *)
LEMMA StepBegins ==
    ASSUME UnitInv, NEW u \in Units, NEW k \in Kinds,
           \/ StartHook(u, k)
           \/ k = "update_status" /\ StartUpdateStatus(u)
           \/ k \in Actions /\ StartAction(u, k)
    PROVE  /\ Idle(u) /\ Begin(u, k) /\ (k = "stop" => k \in pending[u])
           /\ UNCHANGED <<ready, deferred, conn, svc, status>>
           /\ \A v \in Units : pending'[v] \subseteq pending[v] /\ failed'[v] \in {failed[v], None}
<1>1. JujuTypes
  BY TypeInvParts DEF UnitInv
<1> QED
  BY <1>1 DEF StartHook, StartUpdateStatus, StartAction, Actions, JujuTypes, worldVars, jujuVars

QuietStep ==
    \/ PeerRelationCreated
    \/ \E u \in Units, c \in {"livepatch", "schema"} : ContainerUp(u, c) \/ ContainerDown(u, c)
    \/ \E u \in Units : PodStop(u) \/ ElectLeader(u) \/ Resolve(u)
    \/ ChangeConfig
    \/ ChangeLinks
    \/ \E e \in Endpoints : Integrate(e) \/ Publish(e) \/ Remove(e)

QuietFrame ==
    /\ UNCHANGED <<hook, deferred, status>>
    /\ ready => ready'
    /\ \A v \in Units : failed'[v] \in {failed[v], None}
    /\ \A v \in Units : "stop" \in pending'[v] =>
            "stop" \in pending[v] \/ "pod" \in Disturbances
    /\ \A v \in Units : \/ svc'[v] = svc[v] /\ ("livepatch" \in conn[v] => "livepatch" \in conn'[v])
                        \/ svc'[v] = NoPlan

LEMMA QuietFrames ==
    ASSUME UnitInv, QuietStep
    PROVE  QuietFrame
<1>0. CharmTypes /\ JujuTypes
  BY TypeInvParts DEF UnitInv
<1>1. CASE PeerRelationCreated
  BY <1>0, <1>1 DEF QuietFrame, PeerRelationCreated, Notify, charmVars, worldVars
<1>2. ASSUME NEW u \in Units, NEW c \in {"livepatch", "schema"}, ContainerUp(u, c)
      PROVE  QuietFrame
  BY <1>0, <1>2 DEF QuietFrame, ContainerUp, Notify, charmVars, CharmTypes
<1>3. ASSUME NEW u \in Units, NEW c \in {"livepatch", "schema"}, ContainerDown(u, c)
      PROVE  QuietFrame
  BY <1>0, <1>3 DEF QuietFrame, ContainerDown, jujuVars, CharmTypes
<1>4. ASSUME NEW u \in Units, PodStop(u) PROVE QuietFrame
  BY <1>0, <1>4 DEF QuietFrame, PodStop, Disturb, Notify, charmVars
<1>5. ASSUME NEW u \in Units, ElectLeader(u) PROVE QuietFrame
  BY <1>0, <1>5 DEF QuietFrame, ElectLeader, charmVars
<1>6. ASSUME NEW u \in Units, Resolve(u) PROVE QuietFrame
  BY <1>0, <1>6 DEF QuietFrame, Resolve, charmVars, JujuTypes
<1>7. CASE ChangeConfig \/ ChangeLinks
  BY <1>0, <1>7 DEF QuietFrame, ChangeConfig, ChangeLinks, Notify, charmVars
<1>8. ASSUME NEW e \in Endpoints, Integrate(e) \/ Publish(e) PROVE QuietFrame
  <2>1. e \in AllEndpoints
    BY EndpointsAssumption
  <2>2. "stop" \notin {LegacyJoined, Changed(e)}
    BY <2>1, EventKinds DEF AllEndpoints, LegacyJoined
  <2> QED
    BY <1>0, <1>8, <2>2 DEF QuietFrame, Integrate, Publish, Notify, charmVars
<1>9. ASSUME NEW e \in Endpoints, Remove(e) PROVE QuietFrame
  <2>1. e \in AllEndpoints
    BY EndpointsAssumption
  <2>2. "stop" # Broken(e)
    BY <2>1 DEF AllEndpoints, Broken
  <2> QED
    BY <1>0, <1>9, <2>2 DEF QuietFrame, Remove, charmVars
<1> QED
  BY <1>1, <1>2, <1>3, <1>4, <1>5, <1>6, <1>7, <1>8, <1>9 DEF QuietStep

LEMMA QuietKeeps ==
    ASSUME UnitInv, QuietStep
    PROVE  UnitFacts'
BY QuietFrames, WorldKeeps DEF QuietFrame

Starts(u, k) ==
    \/ StartHook(u, k)
    \/ k = "update_status" /\ StartUpdateStatus(u)
    \/ k \in Actions /\ StartAction(u, k)

LEMMA StepCases ==
    ASSUME [Next]_vars
    PROVE  \/ \E u \in Units : Handle(u)
           \/ \E u \in Units, k \in Kinds : Starts(u, k)
           \/ \E u \in Units : EndHook(u) \/ EndStop(u)
           \/ \E u \in Units : Crash(u)
           \/ \E e \in Endpoints : Gone(e)
           \/ QuietStep
           \/ UNCHANGED vars
<1>1. "update_status" \in Kinds /\ Actions \subseteq Kinds
  BY DEF Kinds
<1> QED
  BY <1>1 DEF Next, UnitStep, World, Starts, QuietStep

LEMMA UnitInvNext == UnitInv /\ [Next]_vars => UnitInv'
<1> SUFFICES ASSUME UnitInv, [Next]_vars PROVE UnitFacts'
  BY NextTypes DEF UnitInv, UnitFacts
<1>1. ASSUME NEW u \in Units, Handle(u) PROVE UnitFacts'
  <2>1. CASE HandlerRaises(u)
    <3>1. ~Idle(u)
      BY <1>1, HandlersDo DEF Idle, ActiveHooks
    <3> QED
      BY <2>1, <3>1, RaiseKeeps DEF HandlerRaises, worldVars
  <2> QED
    BY <1>1, <2>1, HandlersDo, HandledKeeps
<1>2. ASSUME NEW u \in Units, NEW k \in Kinds, Starts(u, k) PROVE UnitFacts'
  <2>1. /\ Idle(u) /\ Begin(u, k) /\ (k = "stop" => k \in pending[u])
        /\ UNCHANGED <<ready, deferred, conn, svc, status>>
        /\ \A v \in Units : pending'[v] \subseteq pending[v] /\ failed'[v] \in {failed[v], None}
    BY <1>2, StepBegins DEF Starts
  <2> QED
    BY <2>1, BeginKeeps
<1>3. ASSUME NEW u \in Units, EndHook(u) \/ EndStop(u) PROVE UnitFacts'
  <2>1. CharmTypes /\ None # "stop"
    BY TypeInvParts, KindsOfEndpoints, DataAssumption DEF UnitInv
  <2>2. PICK again \in SUBSET {"config_changed", "start"} :
            /\ hook[u].main # None /\ Commit(u, again) /\ UNCHANGED <<ready, failed, status>>
            /\ \A v \in Units : \/ svc'[v] = svc[v] /\ conn'[v] = conn[v]
                                \/ svc'[v] = NoPlan
    <3>1. CASE EndHook(u)
      BY <3>1 DEF EndHook
    <3>2. CASE EndStop(u)
      BY <2>1, <3>2 DEF EndStop, CharmTypes
    <3> QED
      BY <1>3, <3>1, <3>2
  <2> QED
    BY <2>2, CommitKeeps
<1>4. ASSUME NEW u \in Units, Crash(u) PROVE UnitFacts'
  BY <1>4, RaiseKeeps DEF Crash
<1>5. ASSUME NEW e \in Endpoints, Gone(e) PROVE UnitFacts'
  BY <1>5, GoneKeeps
<1>6. CASE UNCHANGED vars
  BY <1>6 DEF vars, charmVars, jujuVars, worldVars, UnitFacts, UnitInv, ServiceConnected,
     BrokenNeverStored, BrokenLast, ReadyInv, StopInv, Idle, Running
<1> QED
  BY <1>1, <1>2, <1>3, <1>4, <1>5, <1>6, QuietKeeps, StepCases

(* What a booting unit stores.                                               *)
LEMMA BootNoticesKinds ==
    ASSUME NEW u \in Units, NEW n, Stored(n, BootNotices(u))
    PROVE  n.kind \in {"leader_elected", "config_changed", "start", "livepatch_pebble_ready",
                       "livepatch_relation_changed"}
<1> DEFINE kinds == <<"config_changed", "start", "livepatch_pebble_ready">>
           booting == {"leader_elected", "config_changed", "start", "livepatch_pebble_ready",
                       "livepatch_relation_changed"}
           all == IF u = leader THEN <<"leader_elected">> \o kinds
                  ELSE Append(kinds, "livepatch_relation_changed")
<1>1. kinds \in Seq(booting) /\ <<"leader_elected">> \in Seq(booting)
  OBVIOUS
<1> HIDE DEF kinds
<1>2. "livepatch_relation_changed" \in booting
  OBVIOUS
<1>3. all \in Seq(booting)
  <2> HIDE DEF booting
  <2>1. <<"leader_elected">> \o kinds \in Seq(booting)
    BY <1>1
  <2>2. Append(kinds, "livepatch_relation_changed") \in Seq(booting)
    BY <1>1, <1>2
  <2> QED
    BY <2>1, <2>2
<1> HIDE DEF all
<1>4. BootNotices(u) = [i \in 1..Len(all) |-> Notice(all[i])]
  BY DEF BootNotices, all, kinds
<1>5. \A i \in 1..Len(all) : BootNotices(u)[i].kind \in booting
  BY <1>3, <1>4 DEF Notice
<1>6. BootNotices(u) \in Seq(Notices)
  BY BootNoticesType
<1>7. DOMAIN BootNotices(u) = 1..Len(all) /\ Len(all) \in Nat
  BY <1>3, <1>4
<1>8. Len(BootNotices(u)) = Len(all)
  BY <1>6, <1>7
<1> QED
  BY <1>5, <1>8 DEF Stored

LEMMA UnitInvInit == Init \/ Deployed => UnitInv
<1> SUFFICES ASSUME Init \/ Deployed
             PROVE  ServiceConnected /\ BrokenNeverStored /\ BrokenLast /\ ReadyInv /\ StopInv
  BY InitTypes DEF UnitInv
<1>1. None \notin MainBroken /\ None # "stop"
  <2>1. \A e \in MainEndpoints : Broken(e) \in Kinds
    BY KindsOfEndpoints DEF MainEndpoints, AllEndpoints
  <2> QED
    BY <2>1, KindsOfEndpoints, DataAssumption DEF MainBroken
<1>2. \A u \in Units : hook[u] = IdleHook /\ failed[u] = None
  BY DEF Init, Deployed
<1>3. BrokenLast
  BY <1>1, <1>2 DEF BrokenLast, IdleHook
<1>4. StopInv
  BY <1>1, <1>2 DEF StopInv, IdleHook, Init, Deployed
<1>5. \A u \in Units : Idle(u) /\ \A n : ~Stored(n, hook[u].kept)
  BY <1>2 DEF Idle, IdleHook, Stored
<1>6. ServiceConnected
  BY DEF ServiceConnected, Init, Deployed, Unintegrated
<1>7. ReadyInv
  BY <1>5 DEF ReadyInv, Init, Deployed, Running
<1>8. \A u \in Units : deferred[u] \in {<<>>, BootNotices(u)}
  BY DEF Init, Deployed, Unintegrated, Serving
<1>9. \A u \in Units : \A n : Stored(n, deferred[u]) => n.kind \notin MainBroken
  BY <1>8, BootNoticesKinds, EventKinds DEF Stored
<1> QED
  BY <1>3, <1>4, <1>5, <1>6, <1>7, <1>9 DEF BrokenNeverStored

(* What BrokenHookStops asks of every step.                                  *)
StopsWhenBroken ==
    \A u \in Units, e \in {"database", "database_legacy"} :
        hook[u].main = Broken(e) /\ hook'[u].main = None /\ failed'[u] = None
            => svc'[u] \in {NoPlan, Stopped}

LEMMA StopsWhenBrokenNext == UnitInv /\ [Next]_vars => StopsWhenBroken
<1> SUFFICES ASSUME UnitInv, [Next]_vars,
                    NEW u \in Units, NEW e \in {"database", "database_legacy"},
                    hook[u].main = Broken(e), hook'[u].main = None, failed'[u] = None
             PROVE  svc'[u] \in {NoPlan, Stopped}
  BY DEF StopsWhenBroken
<1>1. CharmTypes /\ JujuTypes
  BY TypeInvParts DEF UnitInv
<1>2. hook[u].main \in MainBroken /\ hook[u].main # None /\ hook[u].main \notin Actions
  <2>1. hook[u].main \in MainBroken
    BY DEF MainBroken, MainEndpoints
  <2>2. e \in AllEndpoints
    BY DEF AllEndpoints
  <2> QED
    BY <2>1, <2>2, EventKinds, KindsOfEndpoints, DataAssumption DEF Actions
<1>3. ASSUME NEW v \in Units, Raise(v) PROVE FALSE
  BY <1>1, <1>2, <1>3 DEF Raise, CharmTypes, JujuTypes
<1>4. ASSUME NEW v \in Units, Handle(v) PROVE FALSE
  <2>1. CASE Handled(v)
    BY <1>2, <2>1 DEF Handled, HandlesNotice
  <2> QED
    BY <1>3, <1>4, <2>1, HandlersDo DEF HandlerRaises
<1>5. ASSUME NEW v \in Units, NEW k \in Kinds, Starts(v, k) PROVE FALSE
  <2>1. Idle(v) /\ Begin(v, k)
    BY <1>5, StepBegins DEF Starts
  <2> QED
    BY <1>1, <1>2, <2>1 DEF Idle, Begin, CharmTypes
<1>6. ASSUME NEW v \in Units, EndHook(v) \/ EndStop(v) PROVE svc'[u] \in {NoPlan, Stopped}
  <2>1. v = u /\ hook[u].todo = <<>>
    BY <1>1, <1>2, <1>6 DEF EndHook, EndStop, Commit, CharmTypes
  <2>2. ~Running(u)
    BY <1>2, <2>1 DEF UnitInv, BrokenLast
  <2> QED
    BY <1>1, <1>6, <2>1, <2>2 DEF EndHook, EndStop, Running, CharmTypes
<1>7. ASSUME NEW v \in Units, Crash(v) PROVE FALSE
  BY <1>3, <1>7 DEF Crash
<1>8. ASSUME NEW f \in Endpoints, Gone(f) PROVE FALSE
  BY <1>2, <1>8, GoneFields DEF UnitInv
<1>9. CASE QuietStep
  BY <1>1, <1>2, <1>9, WorldTypes DEF QuietStep
<1>10. CASE UNCHANGED vars
  BY <1>2, <1>10 DEF vars, charmVars
<1> QED
  BY <1>4, <1>5, <1>6, <1>7, <1>8, <1>9, <1>10, StepCases

(* A unit that has run the broken hook of the main database, or of the       *)
(* legacy one, no longer runs the service: whatever the notices that ops     *)
(* re-emits in that hook do before, the hook's own event comes last.         *)
THEOREM BrokenStops == Spec => BrokenHookStops
<1>1. Init => UnitInv
  BY UnitInvInit
<1>2. UnitInv /\ [Next]_vars => UnitInv' /\ [StopsWhenBroken]_vars
  BY UnitInvNext, StopsWhenBrokenNext
<1>3. Spec => [][StopsWhenBroken]_vars
  BY <1>1, <1>2, PTL DEF Spec
<1> QED
  BY <1>3 DEF BrokenHookStops, StopsWhenBroken

(* The same from the deployed states.                                        *)
THEOREM DeployedBrokenStops == DeployedSpec => BrokenHookStops
<1>1. Deployed => UnitInv
  BY UnitInvInit
<1>2. UnitInv /\ [Next]_vars => UnitInv' /\ [StopsWhenBroken]_vars
  BY UnitInvNext, StopsWhenBrokenNext
<1>3. DeployedSpec => [][StopsWhenBroken]_vars
  BY <1>1, <1>2, PTL DEF DeployedSpec
<1> QED
  BY <1>3 DEF BrokenHookStops, StopsWhenBroken

(* Consume and the kinds of the notices.                                     *)
LEMMA ConsumeKinds ==
    ASSUME NEW h \in ActiveHooks, h.todo # <<>>, NEW d \in BOOLEAN, NEW k
    PROVE  /\ HasKind(k, h.todo) /\ k # Head(h.todo).kind
                 => HasKind(k, Consume(h, d).todo) \/ HasKind(k, Consume(h, d).kept)
           /\ HasKind(k, h.kept) => HasKind(k, Consume(h, d).kept)
           /\ HasKind(k, Consume(h, d).kept) =>
                 HasKind(k, h.kept) \/ (d /\ k = Head(h.todo).kind /\ k \notin Actions)
           /\ HasKind(k, Consume(h, d).todo) => HasKind(k, h.todo)
           /\ d /\ Head(h.todo).kind \notin Actions
                 => HasKind(Head(h.todo).kind, Consume(h, d).kept)
<1> DEFINE keep == d /\ Head(h.todo).kind \notin Actions
           kept == IF keep THEN Append(h.kept, Head(h.todo)) ELSE h.kept
           rest == Tail(h.todo)
           emitted == Len(rest) = 1 => ~Stored(Head(rest), kept)
           todo == IF emitted THEN rest ELSE <<>>
<1>1. /\ h.todo \in Seq(Notices) /\ h.kept \in Seq(Notices) /\ Head(h.todo) = h.todo[1]
      /\ Len(h.todo) \in Nat /\ Len(h.todo) > 0
  BY DEF ActiveHooks, Hooks
<1>2. Consume(h, d).todo = todo /\ Consume(h, d).kept = kept
  BY DEF Consume, ActiveHooks, Hooks
<1>3. \A i \in 1..Len(rest) : i + 1 \in 1..Len(h.todo) /\ rest[i] = h.todo[i + 1]
  BY <1>1
<1>4. HasKind(k, todo) => HasKind(k, h.todo)
  <2>1. HasKind(k, rest) => HasKind(k, h.todo)
    BY <1>3 DEF HasKind
  <2>2. ~HasKind(k, <<>>)
    BY DEF HasKind
  <2> QED
    BY <2>1, <2>2
<1>5. /\ HasKind(k, h.kept) => HasKind(k, kept)
      /\ HasKind(k, kept) => HasKind(k, h.kept) \/ (keep /\ k = Head(h.todo).kind)
      /\ keep => HasKind(Head(h.todo).kind, kept)
  <2>1. CASE keep
    <3>1. kept = Append(h.kept, Head(h.todo))
      BY <2>1
    <3>2. /\ Len(kept) = Len(h.kept) + 1 /\ kept[Len(h.kept) + 1] = Head(h.todo)
          /\ \A i \in 1..Len(h.kept) : kept[i] = h.kept[i]
          /\ Len(h.kept) \in Nat
      BY <1>1, <3>1
    <3> HIDE DEF kept
    <3> QED
      BY <2>1, <3>2, SMTT(30) DEF HasKind
  <2>2. CASE ~keep
    BY <2>2
  <2> QED
    BY <2>1, <2>2
<1>6. ASSUME HasKind(k, h.todo), k # Head(h.todo).kind
      PROVE  HasKind(k, todo) \/ HasKind(k, kept)
  <2>1. PICK i \in 1..Len(h.todo) : h.todo[i].kind = k
    BY <1>6 DEF HasKind
  <2>2. h.todo[i] \in Notices /\ h.todo[i] # Head(h.todo) /\ Stored(h.todo[i], h.todo)
    BY <1>1, <1>6, <2>1 DEF Stored
  <2>3. Stored(h.todo[i], todo) \/ Stored(h.todo[i], kept)
    BY <1>2, <2>2, ConsumeNotices
  <2> HIDE DEF todo, kept
  <2> QED
    BY <2>1, <2>3 DEF Stored, HasKind
<1> HIDE DEF todo, kept
<1> QED
  BY <1>2, <1>4, <1>5, <1>6

-----------------------------------------------------------------------------
(* How the notices move.                                                     *)
LEMMA NoKind == \A k : ~HasKind(k, <<>>)
BY DEF HasKind

LEMMA AppendKind ==
    ASSUME NEW s \in Seq(Notices), NEW k \in Kinds, NEW j
    PROVE  HasKind(j, Append(s, Notice(k))) <=> HasKind(j, s) \/ j = k
<1> DEFINE t == Append(s, Notice(k))
<1>1. /\ Len(t) = Len(s) + 1 /\ t[Len(s) + 1] = Notice(k)
      /\ \A i \in 1..Len(s) : t[i] = s[i]
      /\ Len(s) \in Nat
  OBVIOUS
<1>2. Notice(k).kind = k
  BY DEF Notice
<1> HIDE DEF t
<1> QED
  BY <1>1, <1>2, SMTT(30) DEF HasKind

LEMMA AgedKind ==
    ASSUME NEW s \in Seq(Notices), NEW e, NEW k
    PROVE  HasKind(k, Aged(s, e)) <=> HasKind(k, s)
BY AgedKinds DEF HasKind

Moves(u) ==
    /\ UNCHANGED Uncommitted
    /\ \A v \in Units \ {u} :
          hook'[v] = hook[v] /\ svc'[v] = svc[v] /\ status'[v] = status[v] /\ conn'[v] = conn[v]
    /\ hook'[u].main = hook[u].main /\ hook'[u].seen = hook[u].seen
    /\ HasKind(HeadKind(u), hook[u].todo)
    /\ \A k :
          /\ HasKind(k, hook'[u].todo) => HasKind(k, hook[u].todo)
          /\ HasKind(k, hook[u].kept) => HasKind(k, hook'[u].kept)
          /\ HasKind(k, hook[u].todo) /\ k # HeadKind(u)
                => HasKind(k, hook'[u].todo) \/ HasKind(k, hook'[u].kept)
          /\ HasKind(k, hook'[u].kept)
                => HasKind(k, hook[u].kept) \/ (k = HeadKind(u) /\ k \notin OwnEvents)

LEMMA HandlersMove ==
    ASSUME UnitInv, NEW u \in Units, Handle(u)
    PROVE  HandlerRaises(u) \/ Moves(u)
<1> SUFFICES ASSUME ~HandlerRaises(u) PROVE Moves(u)
  OBVIOUS
<1> DEFINE h == hook[u]
<1>1. h.todo # <<>> /\ h \in ActiveHooks /\ Handled(u)
  BY HandlersDo
<1>2. CharmTypes
  BY TypeInvParts DEF UnitInv
<1>3. PICK d \in BOOLEAN : HandlesNotice(u, d)
  BY <1>1 DEF Handled
<1>4. /\ hook'[u].main = h.main /\ hook'[u].seen = h.seen
      /\ hook'[u].todo = Consume(h, d).todo /\ hook'[u].kept = Consume(h, d).kept
      /\ HeadKind(u) \in MainBroken => ~d
      /\ \A v \in Units \ {u} : hook'[v] = hook[v]
  BY <1>3 DEF HandlesNotice
<1>5. HasKind(HeadKind(u), h.todo)
  <2>1. h.todo \in Seq(Notices)
    BY <1>1 DEF ActiveHooks, Hooks
  <2>2. 1 \in 1..Len(h.todo) /\ Head(h.todo) = h.todo[1]
    BY <1>1, <2>1
  <2> QED
    BY <2>2 DEF HasKind, HeadKind
<1>6. ASSUME HeadKind(u) = "stop", NEW k
      PROVE  HasKind(k, hook'[u].kept) => HasKind(k, h.kept)
  <2>1. HandleStop(u)
    BY <1>6, EventKinds DEF Handle, HandleReconciling, HandlePeerChanged, HandleUpdateStatus,
       HandleDatabaseChanged, HandleLegacyJoined, HandleMasterChanged, HandleDatabaseBroken,
       HandleMetricsBroken, HandleRestartAction, HandleTokenAction, Handles, HeadKind,
       ReconcilingKinds, LegacyJoined, MainBroken, MainEndpoints
  <2>2. hook'[u] = Consume(h, FALSE)
    BY <1>2, <2>1 DEF HandleStop, CharmTypes
  <2>3. FALSE \in BOOLEAN
    OBVIOUS
  <2> QED
    BY <1>1, <2>2, <2>3, ConsumeKinds
<1>7. ASSUME NEW k
      PROVE  /\ HasKind(k, hook'[u].todo) => HasKind(k, h.todo)
             /\ HasKind(k, h.kept) => HasKind(k, hook'[u].kept)
             /\ HasKind(k, h.todo) /\ k # HeadKind(u)
                   => HasKind(k, hook'[u].todo) \/ HasKind(k, hook'[u].kept)
             /\ HasKind(k, hook'[u].kept)
                   => HasKind(k, h.kept) \/ (k = HeadKind(u) /\ k \notin OwnEvents)
  <2>1. /\ HasKind(k, h.todo) /\ k # HeadKind(u)
                => HasKind(k, hook'[u].todo) \/ HasKind(k, hook'[u].kept)
        /\ HasKind(k, h.kept) => HasKind(k, hook'[u].kept)
        /\ HasKind(k, hook'[u].kept) =>
              HasKind(k, h.kept) \/ (d /\ k = HeadKind(u) /\ k \notin Actions)
        /\ HasKind(k, hook'[u].todo) => HasKind(k, h.todo)
    BY <1>1, <1>4, ConsumeKinds DEF HeadKind
  <2> QED
    BY <1>4, <1>6, <2>1 DEF OwnEvents
<1>8. \A v \in Units \ {u} : svc'[v] = svc[v] /\ status'[v] = status[v] /\ conn'[v] = conn[v]
  BY <1>1 DEF Handled, LeavesService
<1> QED
  BY <1>1, <1>4, <1>5, <1>7, <1>8 DEF Moves, Handled

(* A hook that raises is given up, and is to be run again.                   *)
LEMMA RaiseClears ==
    ASSUME UnitInv, NEW u \in Units, Raise(u)
    PROVE  /\ hook'[u] = IdleHook /\ Idle(u)'
           /\ \A v \in Units \ {u} : /\ hook'[v] = hook[v]
                                     /\ pending'[v] = pending[v] /\ failed'[v] = failed[v]
           /\ \A k : ~HasKind(k, hook'[u].todo) /\ ~HasKind(k, hook'[u].kept)
           /\ hook[u].main \notin Actions =>
                 failed'[u] = hook[u].main /\ pending'[u] = pending[u] \cup {hook[u].main}
           /\ hook[u].main \in Actions => failed'[u] = None /\ pending'[u] = pending[u]
<1>1. CharmTypes /\ JujuTypes
  BY TypeInvParts DEF UnitInv
<1>2. hook'[u] = IdleHook /\ \A v \in Units \ {u} : hook'[v] = hook[v]
  BY <1>1 DEF Raise, CharmTypes
<1>3. /\ \A v \in Units \ {u} : pending'[v] = pending[v] /\ failed'[v] = failed[v]
      /\ hook[u].main \notin Actions =>
            failed'[u] = hook[u].main /\ pending'[u] = pending[u] \cup {hook[u].main}
      /\ hook[u].main \in Actions => failed'[u] = None /\ pending'[u] = pending[u]
  BY <1>1 DEF Raise, JujuTypes
<1> QED
  BY <1>2, <1>3, NoKind DEF IdleHook, Idle

(* What a starting hook holds.                                               *)
LEMMA BeginHolds ==
    ASSUME UnitInv, NEW u \in Units, NEW k \in Kinds, Begin(u, k)
    PROVE  /\ hook'[u].main = k /\ hook'[u].seen = Snapshot(u, k) /\ hook'[u].view = peer
           /\ hook'[u].wrote = {} /\ hook'[u].request = FALSE /\ ~Idle(u)'
           /\ \A v \in Units \ {u} : hook'[v] = hook[v]
           /\ \A j : ~HasKind(j, hook'[u].kept)
           /\ \A j : HasKind(j, hook'[u].todo) => HasKind(j, deferred[u]) \/ j = k
           /\ \A j : HasKind(j, deferred[u]) \/ (j = k /\ k # "other")
                        => HasKind(j, hook'[u].todo)
<1>1. CharmTypes /\ JujuTypes
  BY TypeInvParts DEF UnitInv
<1>2. /\ hook'[u].main = k /\ hook'[u].seen = Snapshot(u, k) /\ hook'[u].view = peer
      /\ hook'[u].wrote = {} /\ hook'[u].request = FALSE /\ hook'[u].kept = <<>>
      /\ hook'[u].todo = IF k = "other" THEN deferred[u] ELSE Append(deferred[u], Notice(k))
      /\ \A v \in Units \ {u} : hook'[v] = hook[v]
  BY <1>1 DEF Begin, CharmTypes
<1>3. deferred[u] \in Seq(Notices)
  BY <1>1 DEF JujuTypes
<1>4. \A j : HasKind(j, hook'[u].todo) <=> HasKind(j, deferred[u]) \/ (j = k /\ k # "other")
  BY <1>2, <1>3, AppendKind
<1>5. k # None
  BY DataAssumption
<1> QED
  BY <1>2, <1>4, <1>5, NoKind DEF Idle

LEMMA CommitHolds ==
    ASSUME UnitInv, NEW u \in Units, NEW again, Commit(u, again)
    PROVE  /\ hook'[u] = IdleHook /\ Idle(u)'
           /\ \A k : ~HasKind(k, hook'[u].todo) /\ ~HasKind(k, hook'[u].kept)
           /\ deferred'[u] = hook[u].kept
           /\ \A v \in Units \ {u} : hook'[v] = hook[v] /\ deferred'[v] = deferred[v]
           /\ \A v \in Units : pending[v] \subseteq pending'[v]
           /\ again \subseteq pending'[u]
           /\ requested' = (requested \/ hook[u].request)
           /\ \A k \in Keys : peer'[k] = IF k \in hook[u].wrote THEN hook[u].view[k] ELSE peer[k]
<1>1. CharmTypes /\ JujuTypes
  BY TypeInvParts DEF UnitInv
<1>2. hook'[u] = IdleHook /\ \A v \in Units \ {u} : hook'[v] = hook[v]
  BY <1>1 DEF Commit, CharmTypes
<1>3. deferred'[u] = hook[u].kept /\ \A v \in Units \ {u} : deferred'[v] = deferred[v]
  BY <1>1 DEF Commit, JujuTypes
<1>4. /\ \A v \in Units : pending[v] \subseteq pending'[v]
      /\ again \subseteq pending'[u]
  BY DEF Commit
<1>5. /\ requested' = (requested \/ hook[u].request)
      /\ \A k \in Keys : peer'[k] = IF k \in hook[u].wrote THEN hook[u].view[k] ELSE peer[k]
  BY DEF Commit
<1> QED
  BY <1>2, <1>3, <1>4, <1>5, NoKind DEF IdleHook, Idle

LEMMA QuietHolds ==
    ASSUME QuietStep
    PROVE  UNCHANGED <<hook, deferred, peer>>
BY DEF QuietStep, PeerRelationCreated, ContainerUp, ContainerDown, PodStop, ElectLeader, Resolve,
   ChangeConfig, ChangeLinks, Integrate, Publish, Remove, charmVars

LEMMA EndsCommit ==
    ASSUME NEW u \in Units, EndHook(u) \/ EndStop(u)
    PROVE  /\ hook[u].main # None /\ hook[u].todo = <<>>
           /\ UNCHANGED <<leader, ready, failed, config, links, rel, dying, status>>
           /\ \/ hook[u].main # "stop" /\ Commit(u, {}) /\ UNCHANGED <<conn, svc>>
              \/ hook[u].main = "stop" /\ Commit(u, {"config_changed", "start"})
<1>1. "stop" # None
  BY KindsOfEndpoints, DataAssumption
<1>2. CASE EndHook(u)
  BY <1>2 DEF EndHook, Commit
<1>3. CASE EndStop(u)
  BY <1>1, <1>3 DEF EndStop, Commit
<1> QED
  BY <1>2, <1>3


LEMMA NoticeFactsNext == UnitInv /\ NoticeFacts /\ [Next]_vars => NoticeFacts'
<1> SUFFICES ASSUME UnitInv, NoticeFacts, [Next]_vars PROVE NoticeFacts'
  OBVIOUS
<1> DEFINE Never(u) == \A k \in OwnEvents : ~HasKind(k, deferred[u]) /\ ~HasKind(k, hook[u].kept)
           Traced(u) == \A k \in Kinds : HasKind(k, hook[u].todo) \/ HasKind(k, hook[u].kept)
                            => k = hook[u].main \/ HasKind(k, deferred[u])
<1>1. \A u \in Units : Never(u) /\ Traced(u)
  BY DEF NoticeFacts, NeverStored, Origin
<1> SUFFICES ASSUME NEW w \in Units PROVE Never(w)' /\ Traced(w)'
  BY DEF NoticeFacts, NeverStored, Origin
<1>2. ASSUME NEW u \in Units, HandlerRaises(u) \/ Crash(u) PROVE Never(w)' /\ Traced(w)'
  <2>1. Raise(u) /\ UNCHANGED deferred
    BY <1>2 DEF HandlerRaises, Crash
  <2> QED
    BY <1>1, <2>1, RaiseClears
<1>3. ASSUME NEW u \in Units, Handle(u) PROVE Never(w)' /\ Traced(w)'
  <2>1. CASE Moves(u)
    <3>1. UNCHANGED deferred
      BY <2>1 DEF Moves, Uncommitted
    <3>2. CASE w = u
      BY <1>1, <2>1, <3>1, <3>2 DEF Moves
    <3>3. CASE w # u
      BY <1>1, <2>1, <3>1, <3>3 DEF Moves
    <3> QED
      BY <3>2, <3>3
  <2> QED
    BY <1>2, <1>3, <2>1, HandlersMove
<1>4. ASSUME NEW u \in Units, NEW k \in Kinds, Starts(u, k) PROVE Never(w)' /\ Traced(w)'
  <2>1. Begin(u, k) /\ UNCHANGED deferred
    BY <1>4, StepBegins DEF Starts
  <2>2. CASE w = u
    <3>1. /\ hook'[u].main = k
          /\ \A j : ~HasKind(j, hook'[u].kept)
      BY <2>1, BeginHolds
    <3>2. ASSUME NEW j, HasKind(j, hook'[u].todo) PROVE HasKind(j, deferred[u]) \/ j = k
      BY <2>1, <3>2, BeginHolds
    <3> QED
      BY <1>1, <2>1, <2>2, <3>1, <3>2
  <2>3. CASE w # u
    BY <1>1, <2>1, <2>3, BeginHolds
  <2> QED
    BY <2>2, <2>3
<1>5. ASSUME NEW u \in Units, EndHook(u) \/ EndStop(u) PROVE Never(w)' /\ Traced(w)'
  <2>1. PICK again : Commit(u, again)
    BY <1>5 DEF EndHook, EndStop
  <2>2. CASE w = u
    BY <1>1, <2>1, <2>2, CommitHolds
  <2>3. CASE w # u
    BY <1>1, <2>1, <2>3, CommitHolds
  <2> QED
    BY <2>2, <2>3
<1>6. ASSUME NEW e \in Endpoints, Gone(e) PROVE Never(w)' /\ Traced(w)'
  <2>1. TypeInv
    BY DEF UnitInv
  <2>2. /\ hook'[w].main = hook[w].main
        /\ \A k : /\ HasKind(k, hook'[w].todo) <=> HasKind(k, hook[w].todo)
                  /\ HasKind(k, hook'[w].kept) <=> HasKind(k, hook[w].kept)
                  /\ HasKind(k, deferred'[w]) <=> HasKind(k, deferred[w])
    BY <1>6, <2>1, GoneFields, AgedKind
  <2> QED
    BY <1>1, <2>2
<1>7. CASE QuietStep \/ UNCHANGED vars
  <2>1. UNCHANGED <<hook, deferred>>
    BY <1>7, QuietHolds DEF vars, charmVars
  <2> QED
    BY <1>1, <2>1
<1> QED
  BY <1>2, <1>3, <1>4, <1>5, <1>6, <1>7, StepCases

LEMMA FailedInvNext == UnitInv /\ FailedInv /\ [Next]_vars => FailedInv'
<1> SUFFICES ASSUME UnitInv, FailedInv, [Next]_vars, NEW w \in Units
             PROVE  (failed[w] # None => Idle(w) /\ failed[w] \in pending[w])'
  BY DEF FailedInv
<1>1. failed[w] # None => Idle(w) /\ failed[w] \in pending[w]
  BY DEF FailedInv
<1> DEFINE Retried == (failed[w] # None => Idle(w) /\ failed[w] \in pending[w])'
<1>0. CharmTypes /\ JujuTypes
  BY TypeInvParts DEF UnitInv
<1>2. ASSUME NEW u \in Units, HandlerRaises(u) \/ Crash(u) PROVE Retried
  <2>1. Raise(u)
    BY <1>2 DEF HandlerRaises, Crash
  <2> QED
    BY <1>1, <2>1, RaiseClears DEF Idle
<1>3. ASSUME NEW u \in Units, Handle(u) PROVE Retried
  <2>1. CASE Moves(u)
    BY <1>1, <2>1 DEF Moves, Uncommitted, jujuVars, Idle
  <2> QED
    BY <1>2, <1>3, <2>1, HandlersMove
<1>4. ASSUME NEW u \in Units, NEW k \in Kinds, Starts(u, k) PROVE Retried
  <2>1. Begin(u, k)
    BY <1>4, StepBegins DEF Starts
  <2>2. /\ w # u => failed'[w] = failed[w] /\ pending'[w] = pending[w]
        /\ failed'[u] = None
    BY <1>0, <1>4 DEF Starts, StartHook, StartUpdateStatus, StartAction, jujuVars, FailedInv, JujuTypes
  <2> QED
    BY <1>1, <2>1, <2>2, BeginHolds DEF Idle
<1>5. ASSUME NEW u \in Units, EndHook(u) \/ EndStop(u) PROVE Retried
  <2>1. PICK again : Commit(u, again) /\ failed' = failed
    BY <1>5 DEF EndHook, EndStop
  <2> QED
    BY <1>1, <2>1, CommitHolds DEF Idle
<1>6. ASSUME NEW e \in Endpoints, Gone(e) PROVE Retried
  <2>1. TypeInv /\ UNCHANGED <<pending, failed>>
    BY <1>6 DEF UnitInv, Gone, jujuVars
  <2> QED
    BY <1>1, <1>6, <2>1, GoneFields DEF Idle
<1>7. CASE QuietStep
  <2>1. UNCHANGED hook
    BY <1>7, QuietHolds
  <2>2. \/ failed'[w] = None
        \/ failed'[w] = failed[w] /\ (failed[w] \in pending[w] => failed[w] \in pending'[w])
    <3>1. CASE PeerRelationCreated
      BY <3>1 DEF PeerRelationCreated, Notify
    <3>2. ASSUME NEW u \in Units, NEW c \in {"livepatch", "schema"},
                 ContainerUp(u, c) \/ ContainerDown(u, c)
          PROVE  failed'[w] = failed[w] /\ pending[w] \subseteq pending'[w]
      BY <3>2 DEF ContainerUp, ContainerDown, Notify, jujuVars
    <3>3. ASSUME NEW u \in Units, PodStop(u) PROVE failed'[w] = failed[w] /\ pending[w] \subseteq pending'[w]
      BY <3>3 DEF PodStop, Notify
    <3>4. ASSUME NEW u \in Units, ElectLeader(u)
          PROVE  failed'[w] = failed[w] /\ (failed[w] \in pending[w] => failed[w] \in pending'[w])
      BY <3>4 DEF ElectLeader
    <3>5. ASSUME NEW u \in Units, Resolve(u)
          PROVE  \/ failed'[w] = None
                 \/ failed'[w] = failed[w] /\ pending'[w] = pending[w]
      BY <1>0, <3>5 DEF Resolve, JujuTypes
    <3>6. CASE ChangeConfig \/ ChangeLinks
      BY <3>6 DEF ChangeConfig, ChangeLinks, Notify
    <3>7. ASSUME NEW e \in Endpoints, Integrate(e) \/ Publish(e) \/ Remove(e)
          PROVE  failed'[w] = failed[w] /\ (failed[w] \in pending[w] => failed[w] \in pending'[w])
      BY <3>7 DEF Integrate, Publish, Remove, Notify
    <3> QED
      BY <1>7, <3>1, <3>2, <3>3, <3>4, <3>5, <3>6, <3>7 DEF QuietStep
  <2> QED
    BY <1>1, <2>1, <2>2 DEF Idle
<1>8. CASE UNCHANGED vars
  BY <1>1, <1>8 DEF vars, charmVars, jujuVars, Idle
<1> QED
  BY <1>2, <1>3, <1>4, <1>5, <1>6, <1>7, <1>8, StepCases

LEMMA NoticesInit == Init \/ Deployed => NoticeFacts /\ FailedInv
<1> SUFFICES ASSUME Init \/ Deployed PROVE NeverStored /\ Origin /\ FailedInv
  BY DEF NoticeFacts
<1>1. \A u \in Units : hook[u] = IdleHook /\ failed[u] = None
  BY DEF Init, Deployed
<1>2. \A u \in Units : \A k : ~HasKind(k, hook[u].todo) /\ ~HasKind(k, hook[u].kept)
  BY <1>1, NoKind DEF IdleHook
<1>3. \A u \in Units : deferred[u] \in {<<>>, BootNotices(u)}
  BY DEF Init, Deployed, Unintegrated, Serving
<1>4. ASSUME NEW u \in Units, NEW k \in OwnEvents PROVE ~HasKind(k, deferred[u])
  <2>1. \A i : i \in 1..Len(deferred[u]) => Stored(deferred[u][i], deferred[u])
    BY DEF Stored
  <2>2. CASE deferred[u] = BootNotices(u)
    <3>1. k \notin {"leader_elected", "config_changed", "start", "livepatch_pebble_ready",
                    "livepatch_relation_changed"}
      BY <1>4, EventKinds DEF OwnEvents, Actions
    <3> QED
      BY <2>1, <2>2, <3>1, BootNoticesKinds DEF HasKind
  <2>3. CASE deferred[u] = <<>>
    BY <2>3, NoKind
  <2> QED
    BY <1>3, <2>2, <2>3
<1> QED
  BY <1>1, <1>2, <1>4 DEF NeverStored, Origin, FailedInv

(* What a unit has seen of an endpoint stays so until its broken hook.       *)
LEMMA StaysNext ==
    ASSUME UnitInv, FailedInv, [Next]_vars, NEW u \in Units, NEW e \in AllEndpoints, Stays(u, e),
           Idle(u) => failed[u] # None /\ failed[u] # Broken(e)
    PROVE  /\ Stays(u, e)'
           /\ rel[e] \in Creds => rel'[e] \in Creds
           /\ requested /\ e = "database_legacy" => requested'
<1> DEFINE Held ==
        /\ Stays(u, e)'
        /\ rel[e] \in Creds => rel'[e] \in Creds
        /\ requested /\ e = "database_legacy" => requested'
<1>0. CharmTypes /\ JujuTypes /\ "absent" \notin Creds
  BY TypeInvParts, DataAssumption DEF UnitInv
<1>1. ASSUME UNCHANGED <<rel, dying>>, requested => requested',
             Broken(e) \in pending[u] => Broken(e) \in pending'[u]
      PROVE  Held
  BY <1>1 DEF Stays
<1>2. ASSUME NEW v \in Units, HandlerRaises(v) \/ Crash(v) PROVE Held
  <2>1. Raise(v) /\ UNCHANGED <<rel, dying, requested>>
    BY <1>2 DEF HandlerRaises, Crash, worldVars
  <2>2. pending[u] \subseteq pending'[u]
    BY <2>1, RaiseClears
  <2> QED
    BY <1>1, <2>1, <2>2
<1>3. ASSUME NEW v \in Units, Handle(v) PROVE Held
  <2>1. CASE Handled(v)
    BY <1>1, <2>1 DEF Handled, Uncommitted, jujuVars
  <2> QED
    BY <1>2, <1>3, <2>1, HandlersDo
<1>4. ASSUME NEW v \in Units, NEW k \in Kinds, Starts(v, k) PROVE Held
  <2>1. UNCHANGED <<rel, dying, requested>>
    BY <1>4 DEF Starts, StartHook, StartUpdateStatus, StartAction, worldVars
  <2>2. Broken(e) \in pending[u] => Broken(e) \in pending'[u]
    BY <1>0, <1>4 DEF Starts, StartHook, StartUpdateStatus, StartAction, jujuVars, JujuTypes
  <2> QED
    BY <1>1, <2>1, <2>2
<1>5. ASSUME NEW v \in Units, EndHook(v) \/ EndStop(v) PROVE Held
  <2>1. PICK again : Commit(v, again) /\ UNCHANGED <<rel, dying>>
    BY <1>5 DEF EndHook, EndStop
  <2>2. pending[u] \subseteq pending'[u] /\ (requested => requested')
    BY <2>1, CommitHolds
  <2> QED
    BY <1>1, <2>1, <2>2
<1>6. ASSUME NEW f \in Endpoints, Gone(f) PROVE Held
  <2>1. f # e
    BY <1>6 DEF Gone, Stays
  <2>2. rel'[e] = rel[e] /\ (e \in dying' => e \in dying) /\ UNCHANGED pending
        /\ (requested /\ f # "database_legacy" => requested')
    BY <1>0, <1>6, <2>1 DEF Gone, jujuVars, CharmTypes, JujuTypes
  <2> QED
    BY <2>1, <2>2 DEF Stays
<1>7. CASE QuietStep
  <2>1. CASE PeerRelationCreated
    BY <1>1, <2>1 DEF PeerRelationCreated, Notify, worldVars
  <2>2. ASSUME NEW v \in Units, NEW c \in {"livepatch", "schema"},
               ContainerUp(v, c) \/ ContainerDown(v, c)
        PROVE  Held
    BY <1>1, <2>2 DEF ContainerUp, ContainerDown, Notify, jujuVars
  <2>3. ASSUME NEW v \in Units, PodStop(v) PROVE Held
    BY <1>1, <2>3 DEF PodStop, Notify
  <2>4. ASSUME NEW v \in Units, ElectLeader(v) PROVE Held
    <3>1. Broken(e) # "leader_elected"
      BY DEF Broken, AllEndpoints
    <3> QED
      BY <1>1, <2>4, <3>1 DEF ElectLeader
  <2>5. ASSUME NEW v \in Units, Resolve(v) PROVE Held
    <3>1. Broken(e) \in pending[u] => Broken(e) \in pending'[u]
      BY <1>0, <2>5 DEF Resolve, JujuTypes, FailedInv
    <3> QED
      BY <1>1, <2>5, <3>1 DEF Resolve
  <2>6. CASE ChangeConfig \/ ChangeLinks
    BY <1>1, <2>6 DEF ChangeConfig, ChangeLinks, Notify
  <2>7. ASSUME NEW f \in Endpoints, Integrate(f) PROVE Held
    <3>1. f # e
      BY <2>7 DEF Integrate, Stays
    <3>2. rel'[e] = rel[e] /\ UNCHANGED <<dying, requested>> /\ pending[u] \subseteq pending'[u]
      BY <1>0, <2>7, <3>1 DEF Integrate, Notify, JujuTypes, CharmTypes
    <3> QED
      BY <3>2 DEF Stays
  <2>8. ASSUME NEW f \in Endpoints, Publish(f) PROVE Held
    <3>1. rel'[e] \in {rel[e]} \cup Creds /\ UNCHANGED <<dying, requested>>
          /\ pending[u] \subseteq pending'[u]
      BY <1>0, <2>8 DEF Publish, Notify, JujuTypes, CharmTypes
    <3> QED
      BY <1>0, <3>1 DEF Stays
  <2>9. ASSUME NEW f \in Endpoints, Remove(f) PROVE Held
    <3>1. UNCHANGED <<rel, requested>> /\ dying' = dying \cup {f} /\ Broken(f) \in pending'[u]
      BY <2>9 DEF Remove
    <3>2. Broken(e) \notin StaleKinds(f)
      <4>1. f \in AllEndpoints
        BY EndpointsAssumption
      <4>2. Broken(e) \in {"database_relation_broken", "database_legacy_relation_broken",
                           "metrics_db_relation_broken"}
        BY EventKinds DEF MainBroken, MainEndpoints, AllEndpoints
      <4>3. StaleKinds(f) \subseteq {"database_relation_changed", "metrics_db_relation_changed",
                                     "master_changed", "database_relation_joined"}
        BY <4>1, EventKinds DEF StaleKinds, LegacyJoined, AllEndpoints
      <4> QED
        BY <4>2, <4>3
    <3>3. Broken(e) \in pending[u] => Broken(e) \in pending'[u]
      BY <2>9, <3>2 DEF Remove
    <3> QED
      BY <3>1, <3>3 DEF Stays
  <2> QED
    BY <1>7, <2>1, <2>2, <2>3, <2>4, <2>5, <2>6, <2>7, <2>8, <2>9 DEF QuietStep
<1>8. CASE UNCHANGED vars
  BY <1>1, <1>8 DEF vars, jujuVars, worldVars
<1> QED
  BY <1>2, <1>3, <1>4, <1>5, <1>6, <1>7, <1>8, StepCases

(* A hook keeps its snapshot, or a hook that begins takes one.               *)
LEMMA SeenNext ==
    ASSUME UnitInv, [Next]_vars, NEW u \in Units
    PROVE  \/ Idle(u)'
           \/ ~Idle(u) /\ hook'[u].seen = hook[u].seen
           \/ \E k \in Kinds : Starts(u, k)
<1> DEFINE Kept == \/ Idle(u)'
                   \/ ~Idle(u) /\ hook'[u].seen = hook[u].seen
<1>1. hook'[u] = hook[u] => Kept
  BY DEF Idle
<1>2. ASSUME NEW v \in Units, HandlerRaises(v) \/ Crash(v) PROVE Kept
  <2>1. Raise(v)
    BY <1>2 DEF HandlerRaises, Crash
  <2> QED
    BY <1>1, <2>1, RaiseClears
<1>3. ASSUME NEW v \in Units, Handle(v) PROVE Kept
  <2>1. CASE Moves(v)
    BY <1>1, <2>1 DEF Moves, Idle
  <2> QED
    BY <1>2, <1>3, <2>1, HandlersMove
<1>4. ASSUME NEW v \in Units, NEW k \in Kinds, Starts(v, k), v # u PROVE Kept
  <2>1. Begin(v, k)
    BY <1>4, StepBegins DEF Starts
  <2>2. hook'[u] = hook[u]
    BY <1>4, <2>1, BeginHolds
  <2> QED
    BY <1>1, <2>2
<1>5. ASSUME NEW v \in Units, EndHook(v) \/ EndStop(v) PROVE Kept
  <2>1. PICK again : Commit(v, again)
    BY <1>5 DEF EndHook, EndStop
  <2> QED
    BY <1>1, <2>1, CommitHolds
<1>6. ASSUME NEW f \in Endpoints, Gone(f) PROVE Kept
  BY <1>6, GoneFields DEF UnitInv, Idle
<1>7. CASE QuietStep \/ UNCHANGED vars
  BY <1>1, <1>7, QuietHolds DEF vars, charmVars
<1> QED
  BY <1>2, <1>3, <1>4, <1>5, <1>6, <1>7, StepCases

(* What a beginning hook sees of an endpoint.                                *)
LEMMA SeesStays ==
    ASSUME UnitInv, FailedInv, NEW u \in Units, NEW k \in Kinds, Starts(u, k),
           NEW e \in AllEndpoints
    PROVE  /\ hook'[u].seen.rel[e] = IF Sees(u, k, e) THEN rel[e] ELSE "absent"
           /\ hook'[u].seen.requested = (requested /\ Sees(u, k, "database_legacy"))
           /\ UNCHANGED <<leader, rel, dying, requested>>
           /\ Sees(u, k, e) => Stays(u, e)'
<1>1. JujuTypes
  BY TypeInvParts DEF UnitInv
<1>2. hook'[u].seen = Snapshot(u, k)
  BY StepBegins, BeginHolds DEF Starts
<1>3. UNCHANGED <<leader, rel, dying, requested>>
  BY DEF Starts, StartHook, StartUpdateStatus, StartAction, worldVars, jujuVars
<1>4. pending[u] \ {k} \subseteq pending'[u]
  BY <1>1 DEF Starts, StartHook, StartUpdateStatus, StartAction, jujuVars, JujuTypes
<1> QED
  BY <1>2, <1>3, <1>4 DEF Snapshot, Sees, Stays

LEMMA SeenInvNext == UnitInv /\ FailedInv /\ SeenInv /\ [Next]_vars => SeenInv'
<1> SUFFICES ASSUME UnitInv, FailedInv, SeenInv, [Next]_vars, NEW u \in Units, ~Idle(u)'
             PROVE  (/\ \A e \in {"database", "metrics_db"} :
                           hook[u].seen.rel[e] \in Creds => rel[e] \in Creds /\ Stays(u, e)
                     /\ hook[u].seen.requested => requested /\ Stays(u, "database_legacy"))'
  BY DEF SeenInv
<1>0. {"database", "metrics_db", "database_legacy"} \subseteq AllEndpoints /\ "absent" \notin Creds
  BY DataAssumption DEF AllEndpoints
<1>1. CASE ~Idle(u) /\ hook'[u].seen = hook[u].seen
  <2>1. ASSUME NEW e \in {"database", "metrics_db"}, hook'[u].seen.rel[e] \in Creds
        PROVE  rel'[e] \in Creds /\ Stays(u, e)'
    <3>1. rel[e] \in Creds /\ Stays(u, e)
      BY <1>1, <2>1 DEF SeenInv
    <3> QED
      BY <1>0, <1>1, <3>1, StaysNext
  <2>2. ASSUME hook'[u].seen.requested
        PROVE  requested' /\ Stays(u, "database_legacy")'
    <3>1. requested /\ Stays(u, "database_legacy")
      BY <1>1, <2>2 DEF SeenInv
    <3> QED
      BY <1>0, <1>1, <3>1, StaysNext
  <2> QED
    BY <2>1, <2>2
<1>2. ASSUME NEW k \in Kinds, Starts(u, k)
      PROVE  /\ \A e \in {"database", "metrics_db"} :
                   hook'[u].seen.rel[e] \in Creds => rel'[e] \in Creds /\ Stays(u, e)'
             /\ hook'[u].seen.requested => requested' /\ Stays(u, "database_legacy")'
  <2>1. ASSUME NEW e \in {"database", "metrics_db"}, hook'[u].seen.rel[e] \in Creds
        PROVE  rel'[e] \in Creds /\ Stays(u, e)'
    <3>1. e \in AllEndpoints
      BY <1>0
    <3>2. /\ hook'[u].seen.rel[e] = IF Sees(u, k, e) THEN rel[e] ELSE "absent"
          /\ rel' = rel /\ (Sees(u, k, e) => Stays(u, e)')
      BY <1>2, <3>1, SeesStays
    <3> QED
      BY <1>0, <2>1, <3>2
  <2>2. ASSUME hook'[u].seen.requested
        PROVE  requested' /\ Stays(u, "database_legacy")'
    <3>1. "database_legacy" \in AllEndpoints
      BY <1>0
    <3>2. /\ hook'[u].seen.requested = (requested /\ Sees(u, k, "database_legacy"))
          /\ requested' = requested
          /\ Sees(u, k, "database_legacy") => Stays(u, "database_legacy")'
      BY <1>2, <3>1, SeesStays
    <3> QED
      BY <2>2, <3>2
  <2> QED
    BY <2>1, <2>2
<1> QED
  BY <1>1, <1>2, SeenNext

-----------------------------------------------------------------------------
(* ActiveInv is inductive as long as what a handler has stopped is repeated.  *)
LEMMA WakeUpKinds ==
    \A n \in WakeUps :
        /\ n \in Notices /\ n = Notice(n.kind)
        /\ n.kind \in {"start", "livepatch_pebble_ready"}
        /\ n.kind \notin Actions \cup MainBroken
        /\ \A e \in AllEndpoints : n.kind \notin StaleKinds(e) \cup {Broken(e)}
<1>1. "start" \in Kinds /\ "livepatch_pebble_ready" \in Kinds
  BY DEF Kinds, ReconcilingKinds
<1>2. \A e \in AllEndpoints :
         /\ Broken(e) \notin {"start", "livepatch_pebble_ready"}
         /\ StaleKinds(e) \cap {"start", "livepatch_pebble_ready"} = {}
  <2>1. SUFFICES ASSUME NEW e \in AllEndpoints
                 PROVE  /\ Broken(e) \notin {"start", "livepatch_pebble_ready"}
                        /\ StaleKinds(e) \cap {"start", "livepatch_pebble_ready"} = {}
    OBVIOUS
  <2>2. Broken(e) \notin {"start", "livepatch_pebble_ready"}
    BY DEF AllEndpoints, Broken
  <2>3. StaleKinds(e) \subseteq {Changed(e), "database_relation_joined"}
    BY DEF StaleKinds, LegacyJoined
  <2>4. Changed(e) \notin {"start", "livepatch_pebble_ready"}
    BY EventKinds DEF AllEndpoints
  <2> QED
    BY <2>2, <2>3, <2>4
<1>3. Notice("start") \in Notices /\ Notice("livepatch_pebble_ready") \in Notices
  BY <1>1 DEF Notice, Notices
<1>4. Notice("start").kind = "start" /\ Notice("livepatch_pebble_ready").kind = "livepatch_pebble_ready"
  BY DEF Notice
<1> QED
  BY <1>2, <1>3, <1>4, EventKinds DEF WakeUps, Actions

LEMMA OwedKept ==
    ASSUME NEW u \in Units, hook'[u] = hook[u], deferred'[u] = deferred[u],
           \A n \in WakeUps : n.kind \in pending[u] => n.kind \in pending'[u]
    PROVE  Owed(u) => Owed(u)'
BY DEF Owed, Idle

ServiceInv == UnitInv /\ NoticeFacts /\ FailedInv /\ SeenInv /\ ActiveInv

SameLease(u) == leader' = leader \/ u \notin {leader, leader'}

(* A retry stays possible while the unit runs no handler.                    *)
LEMMA RecoversKept ==
    ASSUME UnitInv, FailedInv, [Next]_vars, NEW u \in Units, Recovers(u), SameLease(u),
           svc'[u] = svc[u], failed'[u] = failed[u],
           hook'[u].main = hook[u].main, hook'[u].seen = hook[u].seen,
           \A k : /\ HasKind(k, hook'[u].todo) <=> HasKind(k, hook[u].todo)
                  /\ HasKind(k, hook'[u].kept) <=> HasKind(k, hook[u].kept)
                  /\ HasKind(k, deferred'[u]) <=> HasKind(k, deferred[u])
    PROVE  Recovers(u)'
<1>1. Idle(u)' <=> Idle(u)
  BY DEF Idle
<1>2. (leader' = u) <=> (leader = u)
  BY DEF SameLease
<1>3. CASE ToRetry(u)
  <2>1. PICK k \in Kinds :
          /\ k = failed[u] \/ HasKind(k, deferred[u])
          /\ WouldResume(u, k)
          /\ failed[u] \in Lasting => k \in Lasting
    BY <1>3 DEF ToRetry
  <2>2. failed[u] # None /\ \A e \in AllEndpoints : k = Changed(e) => failed[u] # Broken(e)
    BY <1>3, <2>1, LastingKinds, DataAssumption DEF ToRetry
  <2>3. WouldResume(u, k)'
    <3>1. ASSUME NEW e \in {"database", "metrics_db"}, k = Changed(e), rel[e] \in Creds, Stays(u, e)
          PROVE  rel'[e] \in Creds /\ Stays(u, e)'
      <4>1. e \in AllEndpoints
        BY DEF AllEndpoints
      <4> QED
        BY <2>2, <3>1, <4>1, StaysNext
    <3>2. ASSUME k = "master_changed", requested, Stays(u, "database_legacy")
          PROVE  requested' /\ Stays(u, "database_legacy")'
      <4>1. "database_legacy" \in AllEndpoints /\ k = Changed("database_legacy")
        BY <3>2, EventKinds DEF AllEndpoints
      <4> QED
        BY <2>2, <3>2, <4>1, StaysNext
    <3> QED
      BY <1>2, <2>1, <3>1, <3>2 DEF WouldResume
  <2> QED
    BY <1>1, <1>3, <2>1, <2>3 DEF Recovers, ToRetry
<1>4. CASE Retrying(u)
  <2>1. PICK k \in Kinds :
          /\ HasKind(k, hook[u].todo) /\ ~HasKind(k, hook[u].kept)
          /\ Resumes(u, k)
          /\ hook[u].main \in Lasting => k \in Lasting
    BY <1>4 DEF Retrying
  <2>2. Resumes(u, k)'
    BY <1>2, <2>1 DEF Resumes
  <2> QED
    BY <1>1, <1>4, <2>1, <2>2 DEF Recovers, Retrying
<1> QED
  BY <1>3, <1>4 DEF Recovers

(* The step leaves the unit alone.                                           *)
Unmoved(u) ==
    /\ status'[u] = status[u] /\ conn'[u] = conn[u] /\ svc'[u] = svc[u]
    /\ hook'[u] = hook[u] /\ deferred'[u] = deferred[u] /\ failed'[u] = failed[u]
    /\ SameLease(u)
    /\ \A n \in WakeUps : n.kind \in pending[u] => n.kind \in pending'[u]

LEMMA ServesKept ==
    ASSUME UnitInv, FailedInv, [Next]_vars, NEW u \in Units, Serves(u), Unmoved(u)
    PROVE  Serves(u)'
<1>1. Owed(u) => Owed(u)'
  BY OwedKept DEF Unmoved
<1>2. Recovers(u) => Recovers(u)'
  BY RecoversKept DEF Unmoved
<1> QED
  BY <1>1, <1>2 DEF Serves, Unmoved, Running, Losses

LEMMA HandledServes ==
    ASSUME ServiceInv, [Next]_vars, NEW u \in Units, hook[u] \in ActiveHooks, hook[u].todo # <<>>,
           Handled(u)
    PROVE  ActiveInv'
<1> DEFINE h == hook[u]
<1>1. PICK d \in BOOLEAN : HandlesNotice(u, d)
  BY DEF Handled
<1>2. LeavesService(u) /\ UNCHANGED <<leader, failed, pending, deferred>>
  BY DEF Handled, Uncommitted, jujuVars
<1>3. \A v \in Units \ {u} : Serves(v)'
  <2>1. \A v \in Units \ {u} : Unmoved(v)
    BY <1>1, <1>2 DEF HandlesNotice, LeavesService, Unmoved, SameLease
  <2> QED
    BY <2>1, ServesKept DEF ServiceInv, ActiveInv
<1>4. /\ hook'[u].main = h.main /\ hook'[u].seen = h.seen
      /\ hook'[u].todo = Consume(h, d).todo /\ hook'[u].kept = Consume(h, d).kept
  BY <1>1 DEF HandlesNotice
<1>5. h.main # None
  BY DEF ActiveHooks
<1>6. ASSUME status'[u] = "active", ~Running(u)'
      PROVE  (Losses /\ ("livepatch" \notin conn'[u] \/ Owed(u)')) \/ Recovers(u)'
  <2>1. /\ status[u] = "active" /\ ~Running(u) /\ conn'[u] = conn[u] /\ svc'[u] = svc[u]
        /\ HeadKind(u) \notin {"start", "livepatch_pebble_ready"}
        /\ svc[u] = Stopped => ~Resumes(u, HeadKind(u))
    BY <1>2, <1>6 DEF LeavesService
  <2>2. (Losses /\ ("livepatch" \notin conn[u] \/ Owed(u))) \/ Recovers(u)
    BY <2>1 DEF ServiceInv, ActiveInv, Serves
  <2>3. ASSUME Owed(u) PROVE Owed(u)'
    <3>1. PICK n \in WakeUps :
            \/ n.kind \in pending[u]
            \/ Idle(u) /\ Stored(n, deferred[u])
            \/ /\ ~Idle(u)
               /\ Stored(n, hook[u].todo) \/ Stored(n, hook[u].kept)
               /\ Stored(n, deferred[u]) \/ n.kind = hook[u].main
      BY <2>3 DEF Owed
    <3>2. n \in Notices /\ n # Head(h.todo)
      BY <2>1, WakeUpKinds DEF HeadKind
    <3>3. /\ Stored(n, h.todo) => Stored(n, hook'[u].todo) \/ Stored(n, hook'[u].kept)
          /\ Stored(n, h.kept) => Stored(n, hook'[u].kept)
      BY <1>4, <3>2, ConsumeNotices
    <3>4. ~Idle(u) /\ ~Idle(u)'
      BY <1>4, <1>5 DEF Idle
    <3> QED
      BY <1>2, <1>4, <3>1, <3>3, <3>4 DEF Owed
  <2>4. ASSUME Recovers(u) PROVE Recovers(u)'
    <3>1. svc[u] = Stopped /\ Retrying(u)
      BY <1>5, <2>4 DEF Recovers, ToRetry, Idle
    <3>2. PICK k \in Kinds :
            /\ HasKind(k, h.todo) /\ ~HasKind(k, h.kept)
            /\ Resumes(u, k)
            /\ h.main \in Lasting => k \in Lasting
      BY <3>1 DEF Retrying
    <3>3. k # Head(h.todo).kind
      BY <2>1, <3>1, <3>2 DEF HeadKind
    <3>4. HasKind(k, hook'[u].todo) /\ ~HasKind(k, hook'[u].kept)
      <4>1. HasKind(k, Consume(h, d).todo) \/ HasKind(k, Consume(h, d).kept)
        BY <3>2, <3>3, ConsumeKinds
      <4>2. ~HasKind(k, Consume(h, d).kept)
        BY <3>2, <3>3, ConsumeKinds
      <4> QED
        BY <1>4, <4>1, <4>2
    <3>5. Resumes(u, k)'
      BY <1>2, <1>4, <3>2 DEF Resumes
    <3> QED
      BY <1>4, <2>1, <3>1, <3>2, <3>4, <3>5 DEF Recovers, Retrying, Idle
  <2> QED
    BY <2>1, <2>2, <2>3, <2>4
<1>7. Serves(u)'
  BY <1>6 DEF Serves, Losses
<1> QED
  BY <1>3, <1>7 DEF ActiveInv

(* The retry of a hook that raises handles its events again.                 *)
LEMMA RaiseRetried ==
    ASSUME ServiceInv, NEW u \in Units, ~Idle(u), hook[u].main \notin Actions, Raise(u),
           UNCHANGED <<leader, rel, dying, requested, deferred>>,
           NEW k \in Kinds, k = hook[u].main \/ HasKind(k, hook[u].todo), Resumes(u, k),
           hook[u].main \in Lasting => k \in Lasting
    PROVE  ToRetry(u)'
<1>1. CharmTypes /\ hook[u].main \in Kinds \ Actions
  BY TypeInvParts DEF ServiceInv, UnitInv, CharmTypes, Hooks, Idle
<1>2. Idle(u)' /\ failed'[u] = hook[u].main /\ pending[u] \subseteq pending'[u]
  BY RaiseClears DEF ServiceInv
<1>3. k = failed'[u] \/ HasKind(k, deferred'[u])
  BY <1>2 DEF ServiceInv, NoticeFacts, Origin
<1>4. WouldResume(u, k)'
  <2>1. \A e \in AllEndpoints : Stays(u, e) => Stays(u, e)'
    BY <1>2 DEF Stays
  <2>2. {"database", "metrics_db", "database_legacy"} \subseteq AllEndpoints
    BY DEF AllEndpoints
  <2>3. \A e \in {"database", "metrics_db"} :
           hook[u].seen.rel[e] \in Creds => rel'[e] \in Creds /\ Stays(u, e)'
    BY <2>1, <2>2 DEF ServiceInv, SeenInv
  <2>4. hook[u].seen.requested => requested' /\ Stays(u, "database_legacy")'
    BY <2>1, <2>2 DEF ServiceInv, SeenInv
  <2> QED
    BY <2>3, <2>4 DEF Resumes, WouldResume
<1> QED
  BY <1>1, <1>2, <1>3, <1>4 DEF ToRetry

(* A handler that has stopped the service and raises has an event that the   *)
(* retry handles again.                                                      *)
LEMMA CutRetried ==
    ASSUME ServiceInv, NEW u \in Units, Crash(u), CutShort(u), svc'[u] # svc[u], ~CutForGood(u)
    PROVE  ToRetry(u)'
<1>1. /\ ~Idle(u) /\ Raise(u) /\ UNCHANGED <<leader, rel, dying, requested, deferred>>
  BY DEF Crash
<1>2. hook[u].main \notin Actions /\ ~(Handles(u, "master_changed") /\ ~hook[u].seen.requested)
  BY DEF CutForGood
<1>3. hook[u].todo # <<>> /\ (HeadKind(u) \in Actions \/ Resumes(u, HeadKind(u)))
  BY <1>2, CutHead DEF ServiceInv
<1>4. HasKind(HeadKind(u), hook[u].todo) /\ HeadKind(u) \in Kinds
      /\ hook[u].main \in Kinds
  <2>1. CharmTypes
    BY TypeInvParts DEF ServiceInv, UnitInv
  <2>2. hook[u].todo \in Seq(Notices) /\ hook[u].main \in Kinds
    BY <1>1, <2>1 DEF CharmTypes, Hooks, Idle
  <2>3. 1 \in 1..Len(hook[u].todo) /\ Head(hook[u].todo) = hook[u].todo[1]
        /\ hook[u].todo[1] \in Notices
    BY <1>3, <2>2
  <2> QED
    BY <2>2, <2>3 DEF HasKind, HeadKind, Notices
<1>5. HeadKind(u) \notin Actions
  <2>1. HeadKind(u) = hook[u].main \/ HasKind(HeadKind(u), deferred[u])
    BY <1>4 DEF ServiceInv, NoticeFacts, Origin
  <2> QED
    BY <1>2, <2>1 DEF ServiceInv, NoticeFacts, NeverStored, OwnEvents
<1>6. CASE hook[u].main \in Lasting
  <2>1. Resumes(u, hook[u].main)
    BY <1>6 DEF Resumes
  <2> QED
    BY <1>1, <1>2, <1>4, <1>6, <2>1, RaiseRetried
<1>7. CASE hook[u].main \notin Lasting
  BY <1>1, <1>2, <1>3, <1>4, <1>5, <1>7, RaiseRetried
<1> QED
  BY <1>6, <1>7

LEMMA RaiseServes ==
    ASSUME ServiceInv, [Next]_vars, NEW u \in Units, ~Idle(u), Raise(u),
           UNCHANGED <<leader, rel, dying, requested, deferred, conn>>,
           UNCHANGED <<svc, status>> \/ (Crash(u) /\ CutShort(u) /\ ~CutForGood(u))
    PROVE  ActiveInv'
<1>1. CharmTypes /\ JujuTypes /\ UnitInv
  BY TypeInvParts DEF ServiceInv, UnitInv
<1>2. /\ hook'[u] = IdleHook /\ Idle(u)'
      /\ \A v \in Units \ {u} : /\ hook'[v] = hook[v]
                                /\ pending'[v] = pending[v] /\ failed'[v] = failed[v]
      /\ pending[u] \subseteq pending'[u]
      /\ hook[u].main \notin Actions => hook[u].main \in pending'[u]
  BY <1>1, RaiseClears
<1>3. /\ \A v \in Units \ {u} : svc'[v] = svc[v] /\ status'[v] = status[v]
      /\ \/ svc'[u] = svc[u] /\ status'[u] = status[u]
         \/ CutShort(u) /\ svc'[u] = Stopped
            /\ (status'[u] = "active" => status[u] = "active" \/ Running(u))
  BY <1>1, CutFields
<1>4. \A v \in Units \ {u} : Serves(v)'
  <2>1. \A v \in Units \ {u} : Unmoved(v)
    BY <1>2, <1>3 DEF Unmoved, SameLease
  <2> QED
    BY <2>1, ServesKept DEF ServiceInv, ActiveInv
<1>5. Owed(u) => Owed(u)'
  BY <1>2, WakeUpKinds DEF Owed
<1>6. ASSUME Recovers(u) PROVE ToRetry(u)'
  <2>1. PICK k \in Kinds :
          /\ hook[u].main \notin Actions
          /\ HasKind(k, hook[u].todo) /\ Resumes(u, k)
          /\ hook[u].main \in Lasting => k \in Lasting
    BY <1>6 DEF Recovers, ToRetry, Retrying
  <2> QED
    BY <2>1, RaiseRetried
<1>7. CASE svc'[u] = svc[u] /\ (status'[u] = "active" => status[u] = "active")
  <2>1. Serves(u)
    BY DEF ServiceInv, ActiveInv
  <2> QED
    BY <1>4, <1>5, <1>6, <1>7, <2>1 DEF ActiveInv, Serves, Running, Losses, Recovers
<1>8. CASE svc'[u] # svc[u]
  <2>1. ToRetry(u)' /\ svc'[u] = Stopped
    BY <1>3, <1>8, CutRetried
  <2> QED
    BY <1>4, <2>1 DEF ActiveInv, Serves, Recovers
<1>9. svc'[u] = svc[u] => (status'[u] = "active" => status[u] = "active")
  BY <1>3 DEF Running
<1> QED
  BY <1>7, <1>8, <1>9

LEMMA BeginServes ==
    ASSUME ServiceInv, [Next]_vars, NEW u \in Units, NEW k \in Kinds, Starts(u, k)
    PROVE  ActiveInv'
<1>1. CharmTypes /\ JujuTypes /\ UnitInv /\ FailedInv
  BY TypeInvParts DEF ServiceInv, UnitInv
<1>2. Idle(u) /\ Begin(u, k) /\ UNCHANGED <<deferred, conn, svc, status>>
  BY <1>1, StepBegins DEF Starts
<1>3. /\ UNCHANGED leader
      /\ \A v \in Units \ {u} : pending'[v] = pending[v] /\ failed'[v] = failed[v]
      /\ pending[u] \subseteq pending'[u] \cup {k}
  BY <1>1 DEF Starts, StartHook, StartUpdateStatus, StartAction, JujuTypes, jujuVars
<1>4. /\ hook'[u].main = k /\ ~Idle(u)'
      /\ \A v \in Units \ {u} : hook'[v] = hook[v]
      /\ \A j : ~HasKind(j, hook'[u].kept)
      /\ \A j : HasKind(j, deferred[u]) \/ (j = k /\ k # "other") => HasKind(j, hook'[u].todo)
  BY <1>1, <1>2, BeginHolds
<1>5. \A v \in Units \ {u} : Serves(v)'
  <2>1. \A v \in Units \ {u} : Unmoved(v)
    BY <1>2, <1>3, <1>4 DEF Unmoved, SameLease
  <2> QED
    BY <2>1, ServesKept DEF ServiceInv, ActiveInv
<1>6. Owed(u) => Owed(u)'
  <2> DEFINE todo == IF k = "other" THEN deferred[u] ELSE Append(deferred[u], Notice(k))
  <2>1. hook'[u].todo = todo
    BY <1>1, <1>2 DEF Begin, CharmTypes
  <2>2. deferred[u] \in Seq(Notices)
    BY <1>1 DEF JujuTypes
  <2>3. CASE k = "other"
    <3>1. \A n \in WakeUps : n.kind # k
      BY <2>3, WakeUpKinds
    <3> QED
      BY <1>2, <1>3, <1>4, <2>1, <2>3, <3>1 DEF Owed
  <2>4. CASE k # "other"
    <3>1. todo = Append(deferred[u], Notice(k))
      BY <2>4
    <3> HIDE DEF todo
    <3>2. /\ Len(todo) = Len(deferred[u]) + 1 /\ Len(deferred[u]) \in Nat
          /\ \A i \in 1..Len(deferred[u]) : todo[i] = deferred[u][i]
          /\ todo[Len(deferred[u]) + 1] = Notice(k)
      BY <2>2, <3>1
    <3>3. \A n : Stored(n, deferred[u]) \/ n = Notice(k) => Stored(n, todo)
      BY <3>2 DEF Stored
    <3>4. \A n \in WakeUps : n.kind = k => Stored(n, todo)
      BY <3>3, WakeUpKinds
    <3> QED
      BY <1>2, <1>3, <1>4, <2>1, <3>3, <3>4 DEF Owed
  <2> QED
    BY <2>3, <2>4
<1>7. ASSUME Recovers(u) PROVE Recovers(u)'
  <2>1. ToRetry(u) /\ failed[u] # None
    BY <1>2, <1>7, DataAssumption DEF Recovers, ToRetry, Retrying
  <2>2. k = failed[u]
    BY <1>1, <2>1 DEF Starts, StartHook, StartUpdateStatus, StartAction, FailedInv
  <2>3. PICK j \in Kinds :
          /\ j = k \/ HasKind(j, deferred[u])
          /\ WouldResume(u, j)
          /\ k \in Lasting => j \in Lasting
    BY <2>1, <2>2 DEF ToRetry
  <2>4. k \notin Actions
    BY <2>1, <2>2 DEF ToRetry
  <2>5. j # "other"
    BY <2>3, EventKinds, LastingKinds DEF WouldResume, ReconcilingKinds
  <2>6. HasKind(j, hook'[u].todo) /\ ~HasKind(j, hook'[u].kept)
    BY <1>4, <2>3, <2>5
  <2>7. \A e \in AllEndpoints : j = Changed(e) => k # Broken(e)
    BY <2>3, LastingKinds
  <2>8. \A e \in AllEndpoints : j = Changed(e) /\ Stays(u, e) => Sees(u, k, e)
    BY <2>7 DEF Stays, Sees
  <2>9. Resumes(u, j)'
    <3>1. {"database", "metrics_db", "database_legacy"} \subseteq AllEndpoints
      BY DEF AllEndpoints
    <3>2. ASSUME NEW e \in {"database", "metrics_db"}, j = Changed(e), rel[e] \in Creds, Stays(u, e)
          PROVE  hook'[u].seen.rel[e] \in Creds
      BY <1>1, <2>8, <3>1, <3>2, SeesStays
    <3>3. ASSUME j = "master_changed", requested, Stays(u, "database_legacy")
          PROVE  hook'[u].seen.requested
      <4>1. Sees(u, k, "database_legacy")
        BY <2>8, <3>1, <3>3, EventKinds
      <4> QED
        BY <1>1, <3>1, <3>3, <4>1, SeesStays
    <3> QED
      BY <1>3, <2>3, <3>2, <3>3 DEF WouldResume, Resumes
  <2> QED
    BY <1>2, <1>4, <1>7, <2>3, <2>4, <2>6, <2>9 DEF Recovers, Retrying
<1>8. Serves(u)'
  BY <1>2, <1>6, <1>7 DEF ServiceInv, ActiveInv, Serves, Running, Losses
<1> QED
  BY <1>5, <1>8 DEF ActiveInv

LEMMA CommitServes ==
    ASSUME ServiceInv, [Next]_vars, NEW u \in Units, hook[u].main # None,
           NEW again, Commit(u, again), UNCHANGED <<leader, failed, status>>,
           \A v \in Units \ {u} : svc'[v] = svc[v] /\ conn'[v] = conn[v],
           \/ svc'[u] = svc[u] /\ conn'[u] = conn[u]
           \/ conn'[u] = {} /\ hook[u].main = "stop"
    PROVE  ActiveInv'
<1>1. UnitInv
  BY DEF ServiceInv
<1>2. /\ hook'[u] = IdleHook /\ Idle(u)' /\ deferred'[u] = hook[u].kept
      /\ \A v \in Units \ {u} : hook'[v] = hook[v] /\ deferred'[v] = deferred[v]
      /\ \A v \in Units : pending[v] \subseteq pending'[v]
  BY <1>1, CommitHolds
<1>3. \A v \in Units \ {u} : Serves(v)'
  <2>1. \A v \in Units \ {u} : Unmoved(v)
    BY <1>2 DEF Unmoved, SameLease
  <2> QED
    BY <2>1, ServesKept DEF ServiceInv, ActiveInv
<1>4. ~Idle(u) /\ hook[u].todo = <<>>
  BY DEF Idle, Commit
<1>5. \A n : ~Stored(n, hook[u].todo)
  BY <1>4 DEF Stored
<1>6. Owed(u) => Owed(u)'
  BY <1>2, <1>4, <1>5 DEF Owed
<1>7. ~Recovers(u)
  BY <1>4, NoKind DEF Recovers, ToRetry, Retrying
<1>8. hook[u].main = "stop" => Losses
  BY <1>1 DEF UnitInv, StopInv, Losses
<1>9. Serves(u)'
  BY <1>6, <1>7, <1>8 DEF ServiceInv, ActiveInv, Serves, Running, Losses
<1> QED
  BY <1>3, <1>9 DEF ActiveInv

LEMMA GoneServes ==
    ASSUME ServiceInv, [Next]_vars, NEW e \in Endpoints, Gone(e)
    PROVE  ActiveInv'
<1>1. TypeInv /\ UnitInv /\ FailedInv /\ UNCHANGED <<leader, pending, failed, conn, svc, status>>
      /\ e \in AllEndpoints
  BY EndpointsAssumption DEF ServiceInv, UnitInv, Gone, jujuVars
<1>2. ASSUME NEW s \in Seq(Notices), NEW n \in WakeUps, Stored(n, s)
      PROVE  Stored(n, Aged(s, e))
  <2>1. PICK i \in 1..Len(s) : s[i] = n
    BY <1>2 DEF Stored
  <2>2. Aged(s, e)[i] = n /\ Len(Aged(s, e)) = Len(s)
    BY <1>1, <2>1, AgedKinds, WakeUpKinds
  <2> QED
    BY <2>1, <2>2 DEF Stored
<1>3. ASSUME NEW u \in Units PROVE Owed(u) => Owed(u)'
  <2>1. /\ hook'[u].main = hook[u].main
        /\ \A n \in WakeUps :
              /\ Stored(n, hook[u].todo) => Stored(n, hook'[u].todo)
              /\ Stored(n, hook[u].kept) => Stored(n, hook'[u].kept)
              /\ Stored(n, deferred[u]) => Stored(n, deferred'[u])
    BY <1>1, <1>2, GoneFields
  <2> QED
    BY <1>1, <2>1 DEF Owed, Idle
<1>4. ASSUME NEW u \in Units, Recovers(u) PROVE Recovers(u)'
  <2>1. /\ hook'[u].main = hook[u].main /\ hook'[u].seen = hook[u].seen
        /\ \A k : /\ HasKind(k, hook'[u].todo) <=> HasKind(k, hook[u].todo)
                  /\ HasKind(k, hook'[u].kept) <=> HasKind(k, hook[u].kept)
                  /\ HasKind(k, deferred'[u]) <=> HasKind(k, deferred[u])
    BY <1>1, GoneFields, AgedKind
  <2> QED
    BY <1>1, <1>4, <2>1, RecoversKept DEF SameLease
<1> QED
  BY <1>1, <1>3, <1>4 DEF ServiceInv, ActiveInv, Serves, Running, Losses

LEMMA QuietServes ==
    ASSUME ServiceInv, [Next]_vars, QuietStep, Repeated
    PROVE  ActiveInv'
<1>1. CharmTypes /\ JujuTypes /\ UnitInv /\ FailedInv
  BY TypeInvParts DEF ServiceInv, UnitInv
<1>2. UNCHANGED <<hook, deferred>>
  BY QuietHolds
<1> DEFINE Wakes(v) == \A n \in WakeUps : n.kind \in pending[v] => n.kind \in pending'[v]
<1>3. ASSUME UNCHANGED <<leader, failed, conn, svc, status>>, \A v \in Units : Wakes(v)
      PROVE  ActiveInv'
  <2>1. \A v \in Units : Unmoved(v)
    BY <1>2, <1>3 DEF Unmoved, SameLease
  <2> QED
    BY <2>1, ServesKept DEF ServiceInv, ActiveInv
<1>4. CASE PeerRelationCreated \/ ChangeConfig \/ ChangeLinks
  <2>1. \A v \in Units : Wakes(v)
    BY <1>4 DEF PeerRelationCreated, ChangeConfig, ChangeLinks, Notify
  <2> QED
    BY <1>3, <1>4, <2>1 DEF PeerRelationCreated, ChangeConfig, ChangeLinks, charmVars, worldVars
<1>12. ASSUME NEW v \in Units, Recovers(v), svc'[v] = svc[v], UNCHANGED <<leader, failed>>
       PROVE  Recovers(v)'
  BY <1>1, <1>2, <1>12, RecoversKept DEF SameLease
<1>5. ASSUME NEW u \in Units, NEW c \in {"livepatch", "schema"}, ContainerUp(u, c) PROVE ActiveInv'
  <2>1. UNCHANGED <<leader, failed, deferred, svc, status>>
    BY <1>5 DEF ContainerUp, charmVars
  <2>2. \A v \in Units : pending[v] \subseteq pending'[v]
    BY <1>5 DEF ContainerUp, Notify
  <2>3. \A v \in Units : /\ v # u => conn'[v] = conn[v]
                         /\ "livepatch" \in conn'[v] => "livepatch" \in conn[v] \/ (v = u /\ c = "livepatch")
    BY <1>1, <1>5 DEF ContainerUp, CharmTypes
  <2>4. c = "livepatch" => Owed(u)'
    <3>1. SUFFICES ASSUME c = "livepatch" PROVE Owed(u)'
      OBVIOUS
    <3>2. "livepatch_pebble_ready" \in pending'[u]
      BY <1>5, <3>1 DEF ContainerUp, Notify
    <3>3. Notice("livepatch_pebble_ready") \in WakeUps
          /\ Notice("livepatch_pebble_ready").kind = "livepatch_pebble_ready"
      BY DEF WakeUps, Notice
    <3> QED
      BY <3>2, <3>3 DEF Owed
  <2>5. \A v \in Units : Owed(v) => Owed(v)'
    BY <1>2, <2>1, <2>2, OwedKept
  <2>6. \A v \in Units : Recovers(v) => Recovers(v)'
    BY <1>12, <2>1
  <2> QED
    BY <2>1, <2>3, <2>4, <2>5, <2>6 DEF ServiceInv, ActiveInv, Serves, Running, Losses
<1>6. ASSUME NEW u \in Units, NEW c \in {"livepatch", "schema"}, ContainerDown(u, c) PROVE ActiveInv'
  <2>1. UNCHANGED <<leader, failed, deferred, status, pending>> /\ Losses
    BY <1>6 DEF ContainerDown, Disturb, jujuVars, Losses
  <2>2. \A v \in Units : \/ svc'[v] = svc[v] /\ ("livepatch" \in conn'[v] => "livepatch" \in conn[v])
                         \/ "livepatch" \notin conn'[v]
    BY <1>1, <1>6 DEF ContainerDown, CharmTypes
  <2>3. \A v \in Units : Owed(v) => Owed(v)'
    BY <1>2, <2>1, OwedKept
  <2>4. \A v \in Units : Recovers(v) /\ svc'[v] = svc[v] => Recovers(v)'
    BY <1>12, <2>1
  <2> QED
    BY <2>1, <2>2, <2>3, <2>4 DEF ServiceInv, ActiveInv, Serves, Running, Losses
<1>7. ASSUME NEW u \in Units, PodStop(u) PROVE ActiveInv'
  <2>1. \A v \in Units : Wakes(v)
    BY <1>7 DEF PodStop, Notify
  <2> QED
    BY <1>3, <1>7, <2>1 DEF PodStop, charmVars
<1>8. ASSUME NEW u \in Units, ElectLeader(u) PROVE ActiveInv'
  <2>1. \A v \in Units : Wakes(v)
    BY <1>8, WakeUpKinds DEF ElectLeader
  <2>2. UNCHANGED <<failed, conn, svc, status>> /\ leader' = u /\ u # leader
    BY <1>8 DEF ElectLeader, charmVars
  <2>3. ASSUME NEW v \in Units, v \notin {leader, leader'} PROVE Serves(v)'
    <3>1. Unmoved(v)
      BY <1>2, <2>1, <2>2, <2>3 DEF Unmoved, SameLease
    <3> QED
      BY <3>1, ServesKept DEF ServiceInv, ActiveInv
  <2>4. ASSUME NEW v \in Units, v \in {leader, leader'} PROVE Serves(v)'
    <3>1. ~(status[v] = "active" /\ svc[v] = Stopped)
      BY <2>2, <2>4 DEF Repeated, LeaseMissed
    <3>2. Owed(v) => Owed(v)'
      BY <1>2, <2>1, OwedKept
    <3> QED
      BY <2>2, <3>1, <3>2 DEF ServiceInv, ActiveInv, Serves, Recovers, Running, Losses
  <2> QED
    BY <2>3, <2>4 DEF ActiveInv
<1>9. ASSUME NEW u \in Units, Resolve(u) PROVE ActiveInv'
  <2>1. /\ failed'[u] = None /\ failed[u] # None /\ UNCHANGED <<leader, conn, svc, status>>
        /\ \A v \in Units \ {u} : failed'[v] = failed[v] /\ pending'[v] = pending[v]
    BY <1>1, <1>9 DEF Resolve, JujuTypes, charmVars
  <2>2. ~(status[u] = "active" /\ ~Running(u))
    BY <1>2, <2>1 DEF Repeated, GivenUp
  <2>3. Serves(u)'
    BY <2>1, <2>2 DEF Serves, Running
  <2>4. \A v \in Units \ {u} : Unmoved(v)
    BY <1>2, <2>1 DEF Unmoved, SameLease
  <2> QED
    BY <2>3, <2>4, ServesKept DEF ServiceInv, ActiveInv
<1>10. ASSUME NEW e \in Endpoints, Integrate(e) \/ Publish(e) PROVE ActiveInv'
  <2>1. \A v \in Units : Wakes(v)
    BY <1>10 DEF Integrate, Publish, Notify
  <2> QED
    BY <1>3, <1>10, <2>1 DEF Integrate, Publish, charmVars
<1>11. ASSUME NEW e \in Endpoints, Remove(e) PROVE ActiveInv'
  <2>1. e \in AllEndpoints
    BY EndpointsAssumption
  <2>2. \A v \in Units : Wakes(v)
    BY <1>11, <2>1, WakeUpKinds DEF Remove
  <2> QED
    BY <1>3, <1>11, <2>2 DEF Remove, charmVars
<1> QED
  BY <1>4, <1>5, <1>6, <1>7, <1>8, <1>9, <1>10, <1>11 DEF QuietStep

LEMMA ActiveInvNext == ServiceInv /\ [Next]_vars /\ [Repeated]_vars => ActiveInv'
<1> SUFFICES ASSUME ServiceInv, [Next]_vars, [Repeated]_vars PROVE ActiveInv'
  OBVIOUS
<1>1. CharmTypes /\ JujuTypes /\ UnitInv
  BY TypeInvParts DEF ServiceInv, UnitInv
<1>2. CASE UNCHANGED vars
  <2>1. \A v \in Units : Unmoved(v)
    BY <1>2 DEF vars, charmVars, jujuVars, worldVars, Unmoved, SameLease
  <2> QED
    BY <2>1, ServesKept DEF ServiceInv, ActiveInv
<1> SUFFICES ASSUME Repeated PROVE ActiveInv'
  BY <1>2
<1>3. ASSUME NEW u \in Units, Handle(u) PROVE ActiveInv'
  <2>1. hook[u].todo # <<>> /\ hook[u] \in ActiveHooks /\ (Handled(u) \/ HandlerRaises(u))
    BY <1>1, <1>3, HandlersDo
  <2>2. CASE HandlerRaises(u)
    <3>1. ~Idle(u) /\ Raise(u)
          /\ UNCHANGED <<leader, rel, dying, requested, deferred, conn, svc, status>>
      BY <2>1, <2>2 DEF HandlerRaises, worldVars, Idle, ActiveHooks
    <3> QED
      BY <3>1, RaiseServes
  <2> QED
    BY <2>1, <2>2, HandledServes
<1>4. ASSUME NEW u \in Units, NEW k \in Kinds, Starts(u, k) PROVE ActiveInv'
  BY <1>4, BeginServes
<1>5. ASSUME NEW u \in Units, EndHook(u) PROVE ActiveInv'
  BY <1>5, CommitServes DEF EndHook
<1>6. ASSUME NEW u \in Units, EndStop(u) PROVE ActiveInv'
  <2>1. "stop" # None
    BY KindsOfEndpoints, DataAssumption
  <2>2. /\ hook[u].main = "stop" /\ Commit(u, {"config_changed", "start"})
        /\ UNCHANGED <<leader, failed, status>>
        /\ conn'[u] = {} /\ \A v \in Units \ {u} : svc'[v] = svc[v] /\ conn'[v] = conn[v]
    BY <1>1, <1>6 DEF EndStop, CharmTypes
  <2> QED
    BY <2>1, <2>2, CommitServes
<1>7. ASSUME NEW u \in Units, Crash(u) PROVE ActiveInv'
  <2>1. /\ ~Idle(u) /\ Raise(u) /\ UNCHANGED <<leader, rel, dying, requested, deferred, conn>>
        /\ UNCHANGED <<svc, status>> \/ CutShort(u)
    BY <1>7 DEF Crash
  <2>2. ~CutForGood(u)
    BY DEF Repeated
  <2> QED
    BY <1>7, <2>1, <2>2, RaiseServes
<1>8. ASSUME NEW e \in Endpoints, Gone(e) PROVE ActiveInv'
  BY <1>8, GoneServes
<1>9. CASE QuietStep
  BY <1>9, QuietServes
<1> QED
  BY <1>2, <1>3, <1>4, <1>5, <1>6, <1>7, <1>8, <1>9, StepCases

LEMMA ServiceInvNext == ServiceInv /\ [Next]_vars /\ [Repeated]_vars => ServiceInv'
BY UnitInvNext, NoticeFactsNext, FailedInvNext, SeenInvNext, ActiveInvNext DEF ServiceInv

LEMMA ServiceInvInit == Init \/ Deployed => ServiceInv
<1> SUFFICES ASSUME Init \/ Deployed PROVE SeenInv /\ ActiveInv
  BY UnitInvInit, NoticesInit DEF ServiceInv
<1>1. SeenInv
  <2>1. \A u \in Units : hook[u] = IdleHook
    BY DEF Init, Deployed
  <2> QED
    BY <2>1 DEF SeenInv, Idle, IdleHook
<1>2. ASSUME Init \/ Unintegrated PROVE ActiveInv
  BY <1>2 DEF Init, Unintegrated, ActiveInv, Serves
<1>3. ASSUME Serving PROVE ActiveInv
  <2>1. PICK c \in Creds :
            svc = [u \in Units |-> [dsn |-> c, dsn_metrics |-> None, is_leader |-> u = leader]]
    BY <1>3 DEF Serving
  <2>2. \A u \in Units : svc[u] \in Environments
    BY <2>1 DEF Environments
  <2> QED
    BY <2>2, DataAssumption DEF ActiveInv, Serves, Running
<1> QED
  BY <1>1, <1>2, <1>3 DEF Deployed

LEMMA ServiceInvServes == ServiceInv => ActiveIsServing
<1>1. \A n \in WakeUps :
         /\ n \in {Notice("start"), Notice("livepatch_pebble_ready")}
         /\ n.kind \in {"start", "livepatch_pebble_ready"}
  BY WakeUpKinds DEF WakeUps
<1>2. \A u \in Units : Idle(u) /\ failed[u] = None => ~Recovers(u)
  BY DataAssumption DEF Recovers, ToRetry, Retrying
<1> QED
  BY <1>1, <1>2 DEF ServiceInv, ActiveInv, Serves, ActiveIsServing, Owed

(* A unit that shows active, is idle, not in error and has no hook or notice  *)
(* left that configures a new container runs the service, also after a hook   *)
(* raised between stopping the service and starting it. It may not where the  *)
(* hook that raised so is an action, or handled the notice of an earlier      *)
(* legacy database; where the lease moves from or to a unit before it has     *)
(* retried such a hook; and where the operator gives up a failed hook of a    *)
(* unit that shows active and does not serve.                                 *)
THEOREM ActiveServes == Spec /\ [][Repeated]_vars => []ActiveIsServing
BY ServiceInvInit, ServiceInvNext, ServiceInvServes, PTL DEF Spec

(* The same from the deployed states.                                        *)
THEOREM DeployedActiveServes == DeployedSpec /\ [][Repeated]_vars => []ActiveIsServing
BY ServiceInvInit, ServiceInvNext, ServiceInvServes, PTL DEF DeployedSpec
=============================================================================
