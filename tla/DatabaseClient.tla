---------------------------- MODULE DatabaseClient ----------------------------
(***************************************************************************)
(* One postgresql_client integration of the Livepatch charm, as the         *)
(* data_interfaces library runs it on both sides: the leader's request for  *)
(* a database, the database's publications, the difference with the last    *)
(* recorded databag that every unit computes in relation-changed, the       *)
(* events this emits, and the connection string the charm stores.           *)
(*                                                                         *)
(* `log` holds every content the database's databag has had, the newest     *)
(* last. A databag is named by its position in it: the one a hook sees, and *)
(* the one a unit recorded under the key "data" of its own databag.         *)
(***************************************************************************)
EXTENDS Naturals, Sequences

CONSTANTS
    Units,          \* the units of the Livepatch application
    Servers,        \* the units of the database that can join
    Faults,         \* the disturbances that occur in this instance
    MaxFaults,      \* bound: how many of them occur
    MaxLog,         \* bound: publications after which nothing is rotated
    None            \* no connection string, no hook

ASSUME UnitsAssumption == Units # {} /\ Servers # {}
ASSUME BoundsAssumption == MaxFaults \in Nat /\ MaxLog \in Nat
ASSUME NoneAssumption == None \notin Nat \X Nat

(* The keys the requirer looks at, each with the position in `log` at which  *)
(* its value was written, or 0 while it is missing.                          *)
Fields == {"credentials", "endpoints", "read-only-endpoints"}

EmptyDatabag == [f \in Fields |-> 0]

Joined(s) == <<"joined", s>>
JoinedHooks == {Joined(s) : s \in Servers}
HookKinds == JoinedHooks \cup {<<"changed">>, <<"broken">>, <<"other">>}

ASSUME HooksAssumption == None \notin HookKinds

VARIABLES
    leader,     \* the unit holding the leadership lease
    moves,      \* how often it moved
    ready,      \* the peer relation exists
    phase,      \* the relation: "absent", "related" or "dying"
    request,    \* the database name is in the application databag
    asked,      \* the database recorded the request and emitted database_requested
    log,        \* the contents of the database's databag
    known,      \* per unit, the databag recorded under "data"
    pending,    \* per unit, the hooks to run
    failed,     \* per unit, the hook to retry, or None
    hook,       \* per unit, the hook being run and the databag it sees, 0 if no relation
    deferred,   \* per unit, whether it stores deferred events
    announced,  \* per unit, what became of the library's database_created events
    dsn,        \* the connection stored in the peer databag
    faults      \* disturbances so far

juju == <<leader, moves, ready, phase>>
records == <<request, asked, log, known>>
library == <<records, announced>>
vars == <<juju, library, pending, failed, hook, deferred, dsn, faults>>

NoHook == [kind |-> None, sees |-> 0]

Idle(u) == hook[u] = NoHook

Init ==
    /\ leader \in Units
    /\ moves = 0
    /\ ready = FALSE
    /\ phase = "absent"
    /\ request = FALSE
    /\ asked = FALSE
    /\ log = <<EmptyDatabag>>
    /\ known = [u \in Units |-> 1]
    /\ pending = [u \in Units |-> {}]
    /\ failed = [u \in Units |-> None]
    /\ hook = [u \in Units |-> NoHook]
    /\ deferred = [u \in Units |-> FALSE]
    /\ announced = [u \in Units |-> "no"]
    /\ dsn = None
    /\ faults = 0

-----------------------------------------------------------------------------
(* What the code computes from databags.                                     *)

(* diff: the keys added, and those added or changed, since the record. *)
Added(old, new) == {f \in Fields : log[old][f] = 0 /\ log[new][f] # 0}
AddedOrChanged(old, new) == {f \in Fields : log[new][f] \notin {0, log[old][f]}}

(* DatabaseRequires._on_relation_changed_event: at most one event of the     *)
(* library, then the charm's own observer of the same hook. The read-only    *)
(* endpoints are announced too, to nobody in this charm.                     *)
Emitted(old, new) ==
    {"relation_changed"} \cup
        (IF "credentials" \in Added(old, new) THEN {"database_created"}
         ELSE IF "endpoints" \in AddedOrChanged(old, new) THEN {"endpoints_changed"}
         ELSE {})

(* The hook of the unit reaches an emission of database_created. *)
Announces(u) ==
    hook[u].kind = <<"changed">> /\ "database_created" \in Emitted(known[u], hook[u].sees)

(* What became of the announcements of this relation to a unit: the hook of  *)
(* the last one was undone, it was committed, or there was a further one, in *)
(* a hook that is undone or not, after one that was committed.               *)
Announcements == {"no", "undone", "committed", "repeated"}

Announce(u, outcome) ==
    announced' = [announced EXCEPT ![u] =
                      IF @ \in {"committed", "repeated"} THEN "repeated" ELSE outcome]

(* is_resource_created, and the connection _get_db_info reads; for each of   *)
(* the two keys, the publication its value comes from.                       *)
ResourceCreated(i) == i # 0 /\ log[i]["credentials"] # 0

(* A fault: whatever the endpoints key holds goes into the string. *)
CompleteWithoutEndpoints(i) == ResourceCreated(i)

Complete(i) == ResourceCreated(i) /\ log[i]["endpoints"] # 0
Connection(i) == <<log[i]["credentials"], log[i]["endpoints"]>>

Now == Len(log)

-----------------------------------------------------------------------------
(* Hooks of the Livepatch units.                                             *)

(* A unit no longer sees a dying relation from its broken hook on. *)
Visible(u, k) ==
    \/ phase = "related"
    \/ phase = "dying" /\ <<"broken">> \in pending[u] /\ k # <<"broken">>

Begin(u, k) ==
    hook' = [hook EXCEPT ![u] = [kind |-> k, sees |-> IF Visible(u, k) THEN Now ELSE 0]]

StartHook(u, k) ==
    /\ Idle(u)
    /\ k \in pending[u]
    /\ failed[u] \in {None, k}
    /\ k = <<"broken">> => pending[u] \subseteq {k, <<"other">>}
    /\ Begin(u, k)
    /\ pending' = [pending EXCEPT ![u] = @ \ {k}]
    /\ failed' = [failed EXCEPT ![u] = None]
    /\ UNCHANGED <<juju, library, deferred, dsn, faults>>

Running(u, k) == ~Idle(u) /\ hook[u].kind = k

Finish(u) == hook' = [hook EXCEPT ![u] = NoHook]

(* A fault: a hook that raises is not run again. *)
RaiseForgotten(u, told) ==
    /\ Finish(u)
    /\ UNCHANGED <<juju, library, deferred, dsn, pending, failed>>

(* A fault: the record outlives the hook that raises. *)
RaiseRecorded(u, told) ==
    /\ Finish(u)
    /\ failed' = [failed EXCEPT ![u] = hook[u].kind]
    /\ pending' = [pending EXCEPT ![u] = @ \cup {hook[u].kind}]
    /\ IF told
       THEN Announce(u, "undone") /\ known' = [known EXCEPT ![u] = hook[u].sees]
       ELSE UNCHANGED <<announced, known>>
    /\ UNCHANGED <<juju, request, asked, log, deferred, dsn>>

(* A hook that raises commits nothing; Juju retries it. The library may have *)
(* emitted database_created, and the charm handled it, before the raise.     *)
Raise(u, told) ==
    /\ Finish(u)
    /\ failed' = [failed EXCEPT ![u] = hook[u].kind]
    /\ pending' = [pending EXCEPT ![u] = @ \cup {hook[u].kind}]
    /\ IF told THEN Announce(u, "undone") ELSE UNCHANGED announced
    /\ UNCHANGED <<juju, records, deferred, dsn>>

(* A fault: the credentials read are those the unit recorded earlier. *)
StoreMixed(u) == dsn' = <<Connection(known[u])[1], Connection(hook[u].sees)[2]>>

(* The leader stores the connection it reads. *)
Store(u) == dsn' = Connection(hook[u].sees)

Defer(u, defers) == deferred' = [deferred EXCEPT ![u] = defers]

(* A fault: every unit stores the connection. *)
OnDatabaseEventsAnyUnit(u, some) ==
    \/ /\ ~some \/ ~ready \/ ~ResourceCreated(hook[u].sees)
       /\ Defer(u, some)
       /\ UNCHANGED dsn
    \/ /\ some /\ ready /\ Complete(hook[u].sees)
       /\ Store(u)
       /\ \E again \in BOOLEAN : Defer(u, again)

(* _on_database_event and _on_metrics_db_event for the events of the hook,   *)
(* if there are some: a follower drops them, a leader defers them until it   *)
(* can read the credentials, then stores the connection; reconciling the     *)
(* workload may defer an event again. No disjunct is enabled for credentials *)
(* without endpoints: RaiseWithoutEndpoints is.                              *)
OnDatabaseEvents(u, some) ==
    \/ /\ leader # u \/ ~some
       /\ Defer(u, FALSE)
       /\ UNCHANGED dsn
    \/ /\ leader = u /\ some
       /\ ~ready \/ ~ResourceCreated(hook[u].sees)
       /\ Defer(u, TRUE)
       /\ UNCHANGED dsn
    \/ /\ leader = u /\ some /\ ready
       /\ Complete(hook[u].sees)
       /\ Store(u)
       /\ \E again \in BOOLEAN : Defer(u, again)

(* _get_db_info splits the endpoints without testing that they are there.    *)
(* Deferred events are handled before the library announces anything.        *)
RaiseWithoutEndpoints(u) ==
    /\ ~Idle(u)
    /\ hook[u].kind = <<"changed">> \/ deferred[u]
    /\ leader = u /\ ready
    /\ ResourceCreated(hook[u].sees) /\ ~Complete(hook[u].sees)
    /\ Raise(u, Announces(u) /\ ~deferred[u])
    /\ UNCHANGED faults

(* DatabaseRequires._on_relation_joined_event: the leader asks. Juju runs    *)
(* relation-changed after relation-joined.                                   *)
RelationJoined(u, s) ==
    /\ Running(u, Joined(s))
    /\ OnDatabaseEvents(u, deferred[u])
    /\ request' = (request \/ leader = u)
    /\ pending' = [pending EXCEPT ![u] = @ \cup {<<"changed">>}]
    /\ Finish(u)
    /\ UNCHANGED <<juju, asked, log, known, announced, failed, faults>>

(* A fault: the charm does not observe relation-changed itself. *)
RelationChangedLibraryOnly(u) ==
    LET emitted == Emitted(known[u], hook[u].sees) \ {"relation_changed"} IN
    /\ Running(u, <<"changed">>)
    /\ OnDatabaseEvents(u, deferred[u] \/ emitted # {})
    /\ known' = [known EXCEPT ![u] = hook[u].sees]
    /\ IF Announces(u) THEN Announce(u, "committed") ELSE UNCHANGED announced
    /\ Finish(u)
    /\ UNCHANGED <<juju, request, asked, log, pending, failed, faults>>

(* DatabaseRequires._on_relation_changed_event, and the charm's observer.    *)
RelationChanged(u) ==
    LET emitted == Emitted(known[u], hook[u].sees) IN
    /\ Running(u, <<"changed">>)
    /\ OnDatabaseEvents(u, deferred[u] \/ emitted # {})
    /\ known' = [known EXCEPT ![u] = hook[u].sees]
    /\ IF Announces(u) THEN Announce(u, "committed") ELSE UNCHANGED announced
    /\ Finish(u)
    /\ UNCHANGED <<juju, request, asked, log, pending, failed, faults>>

(* _on_database_relation_broken and _on_metrics_db_relation_broken. The      *)
(* deferred events come first and find no relation.                          *)
RelationBroken(u) ==
    /\ Running(u, <<"broken">>)
    /\ Defer(u, leader = u /\ deferred[u])
    /\ dsn' = IF leader = u /\ ready THEN None ELSE dsn
    /\ Finish(u)
    /\ UNCHANGED <<juju, library, pending, failed, faults>>

(* Any other hook: it only re-emits the deferred events. *)
OtherHook(u) ==
    /\ Running(u, <<"other">>)
    /\ OnDatabaseEvents(u, deferred[u])
    /\ Finish(u)
    /\ UNCHANGED <<juju, library, pending, failed, faults>>

UnitStep(u) ==
    \/ \E k \in HookKinds : StartHook(u, k)
    \/ \E s \in Servers : RelationJoined(u, s)
    \/ RelationChanged(u)
    \/ RelationBroken(u)
    \/ OtherHook(u)
    \/ RaiseWithoutEndpoints(u)

-----------------------------------------------------------------------------
(* The database's side: its leader unit.                                     *)

Notify(us, kinds) ==
    pending' = [u \in Units |-> IF u \in us THEN pending[u] \cup kinds ELSE pending[u]]

(* DatabaseProvides._on_relation_changed: database_requested is emitted when *)
(* the request appears.                                                      *)
DatabaseRequested ==
    /\ phase = "related"
    /\ request /\ ~asked
    /\ asked' = TRUE
    /\ Notify(Units, {<<"changed">>})
    /\ UNCHANGED <<juju, request, log, known, announced, failed, hook, deferred, dsn, faults>>

(* set_credentials, set_endpoints and set_read_only_endpoints: one hook of   *)
(* the database commits any of them together.                                *)
Publish(fields) ==
    /\ phase = "related"
    /\ asked
    /\ log' = Append(log, [f \in Fields |-> IF f \in fields THEN Now + 1 ELSE log[Now][f]])
    /\ Notify(Units, {<<"changed">>})
    /\ UNCHANGED <<juju, request, asked, known, announced, failed, hook, deferred, dsn, faults>>

(* The database answers the request, in one hook or in several. *)
Provision ==
    /\ ~Complete(Now)
    /\ \E fields \in {{"credentials"}, {"endpoints"}, {"credentials", "endpoints"}} :
          /\ \E f \in fields : log[Now][f] = 0
          /\ Publish(fields)

(* A password rotation, a failover, a change of the replicas. *)
Rotate ==
    /\ Complete(Now)
    /\ Now < MaxLog
    /\ \E f \in Fields : Publish({f})

-----------------------------------------------------------------------------
(* Juju, Kubernetes and the operator.                                        *)

Fault(f) ==
    /\ f \in Faults
    /\ faults < MaxFaults
    /\ faults' = faults + 1

PeerRelationCreated ==
    /\ ~ready
    /\ ready' = TRUE
    /\ UNCHANGED <<leader, moves, phase, library, pending, failed, hook, deferred, dsn, faults>>

(* leader-elected, update-status and every other hook of the charm re-emits  *)
(* the deferred events; without any, it changes nothing here.                *)
PeriodicHook(u) ==
    /\ pending[u] = {} /\ Idle(u)
    /\ deferred[u]
    /\ Begin(u, <<"other">>)
    /\ UNCHANGED <<juju, library, pending, failed, deferred, dsn, faults>>

Integrate ==
    /\ phase = "absent"
    /\ phase' = "related"
    /\ log' = Append(log, EmptyDatabag)
    /\ known' = [u \in Units |-> Now + 1]
    /\ announced' = [u \in Units |-> "no"]
    /\ request' = FALSE
    /\ asked' = FALSE
    /\ \E s \in Servers : Notify(Units, {Joined(s)})
    /\ UNCHANGED <<leader, moves, ready, failed, hook, deferred, dsn, faults>>

(* A further unit of the database joins. *)
ScaleDatabase(s) ==
    /\ Fault("scale")
    /\ phase = "related"
    /\ Notify(Units, {Joined(s)})
    /\ UNCHANGED <<juju, library, failed, hook, deferred, dsn>>

Remove ==
    /\ Fault("remove")
    /\ phase = "related"
    /\ phase' = "dying"
    /\ pending' = [u \in Units |-> {<<"broken">>} \cup (pending[u] \cap {<<"other">>, failed[u]})]
    /\ UNCHANGED <<leader, moves, ready, library, failed, hook, deferred, dsn>>

Gone ==
    /\ phase = "dying"
    /\ \A u \in Units : <<"broken">> \notin pending[u] /\ ~Running(u, <<"broken">>)
    /\ phase' = "absent"
    /\ UNCHANGED <<leader, moves, ready, library, pending, failed, hook, deferred, dsn, faults>>

(* The lease moves when the leader runs no hook; the new leader may run one. *)
ElectLeader(u) ==
    /\ Fault("elect")
    /\ u # leader
    /\ Idle(leader)
    /\ leader' = u
    /\ moves' = moves + 1
    /\ UNCHANGED <<ready, phase, library, pending, failed, hook, deferred, dsn>>

Crash(u) ==
    /\ Fault("crash")
    /\ ~Idle(u)
    /\ \E told \in {FALSE, Announces(u)} : Raise(u, told)

-----------------------------------------------------------------------------
Next ==
    \/ \E u \in Units : UnitStep(u) \/ PeriodicHook(u) \/ ElectLeader(u) \/ Crash(u)
    \/ DatabaseRequested
    \/ Provision
    \/ Rotate
    \/ PeerRelationCreated
    \/ Integrate
    \/ \E s \in Servers : ScaleDatabase(s)
    \/ Remove
    \/ Gone

Spec == Init /\ [][Next]_vars

(* Juju runs the hooks that are pending and creates the peer relation, the   *)
(* database runs its own and answers; no fault has to happen.                *)
Fairness ==
    /\ \A u \in Units : WF_vars(UnitStep(u)) /\ WF_vars(PeriodicHook(u))
    /\ WF_vars(DatabaseRequested)
    /\ WF_vars(Provision)
    /\ WF_vars(PeerRelationCreated)
    /\ WF_vars(Gone)

FairSpec == Spec /\ Fairness

-----------------------------------------------------------------------------
(* Every variable stays in its domain: in particular a unit never records a  *)
(* databag that has not been published, and no part of a stored connection   *)
(* is missing (endpoints appear in a string as "None" otherwise).            *)
TypeOK ==
    /\ leader \in Units
    /\ moves \in 0..faults
    /\ ready \in BOOLEAN
    /\ phase \in {"absent", "related", "dying"}
    /\ request \in BOOLEAN
    /\ asked \in BOOLEAN
    /\ log \in Seq([Fields -> Nat]) /\ log # <<>>
    /\ known \in [Units -> 1..Now]
    /\ pending \in [Units -> SUBSET HookKinds]
    /\ failed \in [Units -> HookKinds \cup {None}]
    /\ hook \in [Units -> [kind : HookKinds \cup {None}, sees : 0..Now]]
    /\ deferred \in [Units -> BOOLEAN]
    /\ announced \in [Units -> Announcements]
    /\ dsn \in ((Nat \ {0}) \X (Nat \ {0})) \cup {None}
    /\ faults \in 0..MaxFaults

Settled == \A u \in Units : Idle(u) /\ pending[u] = {} /\ ~deferred[u]

Published == IF phase = "related" /\ Complete(Now) THEN Connection(Now) ELSE None

(* What _get_db_info could have read so far. *)
EverPublished == {Connection(i) : i \in {j \in 1..Now : Complete(j)}}

Promise ==
    INSTANCE PublishedConnection
        WITH Connections <- Nat \X Nat, NoConnection <- None,
             published <- EverPublished, stored <- dsn

(* The stored connection is never a mixture of two publications, whichever   *)
(* unit leads, crashes, retries or handles a deferred event (_get_db_info).  *)
StoresPublished == Promise!Spec

(* While the leadership does not move, nothing published is missed: not a    *)
(* rotated password, for which the library emits no event, not endpoints     *)
(* that come after the credentials, not what came before the peer relation.  *)
SettledStored == moves = 0 /\ Settled => dsn = Published

(* While the leadership does not move, the stored connection is never        *)
(* replaced by an older one: events are handled out of order only by a unit  *)
(* that is elected during a hook.                                            *)
ForwardOnly ==
    [][moves = 0 /\ dsn # None /\ dsn' # None
          => dsn'[1] >= dsn[1] /\ dsn'[2] >= dsn[2]]_vars

(* The record under "data" and the announcement of the database stand or     *)
(* fall together: a unit whose record has the credentials was told of them   *)
(* by a hook that was committed, so no retry and no later hook misses them,  *)
(* and from then on it is never told again in this relation, not even by a   *)
(* hook that raises. Before that, each retry tells it again.                 *)
ToldAsRecorded ==
    \A u \in Units :
        /\ announced[u] # "repeated"
        /\ announced[u] = "committed" <=> log[known[u]]["credentials"] # 0

(* A database that stays integrated ends up requested, created and stored,   *)
(* although a hook that meets credentials without endpoints raises.          *)
EventuallyConnected ==
    [](moves = 0) => (<>[](phase = "related") => <>[](dsn # None /\ dsn = Published))
=============================================================================
