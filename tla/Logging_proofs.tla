--------------------------- MODULE Logging_proofs ---------------------------
(***************************************************************************)
(* Safety of Logging, for any number of Loki integrations, Loki units,      *)
(* containers, URLs and disturbances: the types, and what the two libraries *)
(* owe the workload once the hooks of the unit have run. The invariant of   *)
(* the hooks comes first (which hook an integration still owes a unit it    *)
(* has or has lost); each library then has an invariant of its own: its     *)
(* effect is what it would be if the hooks had run by now, or a hook that   *)
(* makes it so is still to run.                                             *)
(***************************************************************************)
EXTENDS Logging, TLAPS

(* The hooks that Juju owes the unit. *)
OwnHooks == \A r \in Relations, h \in hooks : h[1] = r => r \in related

BrokenOwed == \A r \in Relations : Broken(r) \in hooks <=> r \in dying

JoinedOwed ==
    \A r \in Relations, l \in LokiUnits :
        Joined(r, l) \in hooks <=> l \in members[r] \ seen[r]

DepartedOwed ==
    \A r \in Relations, l \in LokiUnits :
        Departed(r, l) \in hooks <=> l \in seen[r] \ members[r]

CreatedFirst == \A r \in Relations : Created(r) \in hooks => seen[r] = {}

(* An integration that is gone or going has no units; another has some. *)
MembersAlive == \A r \in Relations : members[r] # {} <=> Alive(r)

(* The hooks that can raise. *)
FailedKinds == failed \in {None, Changed(Proxy)} \cup {Departed(Proxy, l) : l \in LokiUnits}

HooksInv ==
    /\ LokiTypeOK
    /\ OwnHooks /\ BrokenOwed /\ JoinedOwed /\ DepartedOwed
    /\ CreatedFirst /\ MembersAlive /\ FailedKinds

-----------------------------------------------------------------------------
(* What LogForwarder sees now, and a container that forwards to it. *)
ActiveNow == {t \in LogTargets : t[1] \in related /\ Ready(t[1], seen[t[1]]) /\ t[2] \in seen[t[1]]}

UpToDate(c) ==
    \A t \in LogTargets :
        IF t \in ActiveNow THEN target[c][t] = endpoint[t[1]][t[2]] ELSE target[c][t] \in {Off, None}

(* A hook after which every container that answers is up to date; relation-  *)
(* joined does not count, for it is dropped when the unit leaves first.      *)
ForwardingOwed(c) ==
    \/ PebbleReady(c) \in hooks
    \/ \E r \in LoggingRelations : Changed(r) \in hooks \/ Broken(r) \in hooks

ForwardingInv ==
    /\ ForwarderTypeOK
    /\ ActiveNow # {} => \A c \in connected : UpToDate(c) \/ ForwardingOwed(c)

-----------------------------------------------------------------------------
(* What LogProxyConsumer sees now. *)
ClientsNow ==
    IF Proxy \in related THEN {endpoint[Proxy][l] : l \in seen[Proxy]} \ {None} ELSE {}

RunningInv == running => ClientsNow # {} /\ Workload \in connected

(* A hook after which promtail has its configuration: without units, one of  *)
(* them is still to join.                                                    *)
PromtailOwed ==
    \/ Changed(Proxy) \in hooks
    \/ PebbleReady(Workload) \in hooks
    \/ \E l \in LokiUnits : Departed(Proxy, l) \in hooks
    \/ seen[Proxy] = {}

Configurable == Alive(Proxy) /\ Workload \in connected /\ binaryUrl[Proxy] /\ (plan => binary)

Configured == plan /\ clients = ClientsNow /\ (ClientsNow # {} => running)

ConfiguredInv == Configurable => PromtailOwed \/ Configured

PromtailInv == ProxyTypeOK /\ RunningInv /\ ConfiguredInv

-----------------------------------------------------------------------------
(* A hook, by its kind; kinds and what they are about tell hooks apart.      *)
LEMMA HookForms ==
    ASSUME NEW k \in HookKinds
    PROVE  \/ \E c \in Containers : k = PebbleReady(c)
           \/ \E r \in Relations : k = Created(r) \/ k = Changed(r) \/ k = Broken(r)
           \/ \E r \in Relations, l \in LokiUnits : k = Joined(r, l) \/ k = Departed(r, l)
BY SMT DEF HookKinds, PebbleReady, Created, Changed, Broken, Joined, Departed

LEMMA HookKindsOf ==
    /\ \A c \in Containers : PebbleReady(c) \in HookKinds
    /\ \A r \in Relations :
          /\ Created(r) \in HookKinds /\ Changed(r) \in HookKinds /\ Broken(r) \in HookKinds
          /\ \A l \in LokiUnits : Joined(r, l) \in HookKinds /\ Departed(r, l) \in HookKinds
BY SMT DEF HookKinds, PebbleReady, Created, Changed, Broken, Joined, Departed

LEMMA HookNames ==
    /\ \A c : PebbleReady(c)[1] = c /\ PebbleReady(c)[2] = "pebble-ready"
    /\ \A r : /\ Created(r)[1] = r /\ Created(r)[2] = "created"
              /\ Changed(r)[1] = r /\ Changed(r)[2] = "changed"
              /\ Broken(r)[1] = r /\ Broken(r)[2] = "broken"
    /\ \A r, l : /\ Joined(r, l)[1] = r /\ Joined(r, l)[2] = "joined" /\ Joined(r, l)[3] = l
                 /\ Departed(r, l)[1] = r /\ Departed(r, l)[2] = "departed" /\ Departed(r, l)[3] = l
BY SMT DEF PebbleReady, Created, Changed, Broken, Joined, Departed

(* relation.units during a hook. *)
LEMMA SeenInHook ==
    ASSUME NEW k, NEW r \in Relations
    PROVE  /\ \A l \in LokiUnits :
                 /\ k = Joined(r, l) => SeenIn(k)[r] = seen[r] \cup {l}
                 /\ k = Departed(r, l) => SeenIn(k)[r] = seen[r] \ {l}
           /\ (\A l \in LokiUnits : k # Joined(r, l) /\ k # Departed(r, l)) => SeenIn(k)[r] = seen[r]
<1>1. SeenIn(k)[r] = CASE k \in {Joined(r, l) : l \in LokiUnits} -> seen[r] \cup {k[3]}
                       [] k \in {Departed(r, l) : l \in LokiUnits} -> seen[r] \ {k[3]}
                       [] OTHER -> seen[r]
  BY DEF SeenIn
<1>2. ASSUME NEW l \in LokiUnits
      PROVE  k = Joined(r, l) => SeenIn(k)[r] = seen[r] \cup {l}
  <2>1. SUFFICES ASSUME k = Joined(r, l) PROVE SeenIn(k)[r] = seen[r] \cup {l}
    OBVIOUS
  <2>2. k[3] = l /\ k[2] = "joined"
    BY <2>1, HookNames
  <2>3. k \notin {Departed(r, m) : m \in LokiUnits}
    BY <2>2, HookNames
  <2> QED
    BY <1>1, <2>1, <2>2, <2>3
<1>3. ASSUME NEW l \in LokiUnits
      PROVE  k = Departed(r, l) => SeenIn(k)[r] = seen[r] \ {l}
  <2>1. SUFFICES ASSUME k = Departed(r, l) PROVE SeenIn(k)[r] = seen[r] \ {l}
    OBVIOUS
  <2>2. k[3] = l /\ k[2] = "departed"
    BY <2>1, HookNames
  <2>3. k \notin {Joined(r, m) : m \in LokiUnits}
    BY <2>2, HookNames
  <2> QED
    BY <1>1, <2>1, <2>2, <2>3
<1>4. (\A l \in LokiUnits : k # Joined(r, l) /\ k # Departed(r, l)) => SeenIn(k)[r] = seen[r]
  BY <1>1
<1> QED
  BY <1>2, <1>3, <1>4

-----------------------------------------------------------------------------
LEMMA HooksInit == Init => HooksInv
<1>1. SUFFICES ASSUME Init PROVE HooksInv
  OBVIOUS
<1>2. LokiTypeOK
  BY <1>1, BoundsAssumption, ScenariosAssumption DEF Init, LokiInit, LokiTypeOK
<1> QED
  BY <1>1, <1>2 DEF Init, LokiInit, HooksInv, OwnHooks, BrokenOwed, JoinedOwed, DepartedOwed,
     CreatedFirst, MembersAlive, FailedKinds, Alive

(* A hook that ends well: relation-joined and relation-departed are owed no  *)
(* longer once relation.units has followed, and broken, the last of its      *)
(* integration, finds no unit left.                                          *)
LEMMA DequeueTypes ==
    ASSUME HooksInv, NEW k \in HookKinds, Dequeue(k)
    PROVE  LokiTypeOK'
<1> USE DEF HooksInv
<1>1. seen' \in [Relations -> SUBSET LokiUnits]
  <2>1. seen' = SeenIn(k) /\ seen \in [Relations -> SUBSET LokiUnits]
    BY DEF Dequeue, LokiTypeOK
  <2>2. ASSUME NEW r \in Relations PROVE SeenIn(k)[r] \in SUBSET LokiUnits
    BY <2>1, SeenInHook
  <2>3. SeenIn(k) = [r \in Relations |-> SeenIn(k)[r]]
    BY DEF SeenIn
  <2> QED
    BY <2>1, <2>2, <2>3
<1>2. hooks' \subseteq HookKinds
  BY HookKindsOf DEF Dequeue, LokiTypeOK
<1>3. /\ inUse' \in Scenarios
      /\ related' \subseteq inUse' /\ dying' \subseteq related'
  BY DEF Dequeue, LokiTypeOK, VisibleIn
<1>4. /\ members' \in [Relations -> SUBSET LokiUnits]
      /\ endpoint' \in [Relations -> [LokiUnits -> Urls \cup {None}]]
      /\ binaryUrl' \in [Relations -> BOOLEAN]
      /\ failed' \in hooks' \cup {None}
      /\ connected' \subseteq Containers
      /\ faults' \in 0..MaxFaults
  BY DEF Dequeue, LokiTypeOK, lokiVars
<1> QED
  BY <1>1, <1>2, <1>3, <1>4 DEF LokiTypeOK

(* What it leaves in the queue. *)
LEMMA DequeueHooks ==
    ASSUME HooksInv, NEW k \in HookKinds, Dequeue(k)
    PROVE  \A r \in Relations :
              /\ Created(r) \in hooks' <=> Created(r) \in hooks /\ k # Created(r)
              /\ Broken(r) \in hooks' <=> Broken(r) \in hooks /\ k # Broken(r)
              /\ Changed(r) \in hooks' <=> \/ Changed(r) \in hooks /\ k # Changed(r)
                                           \/ \E l \in LokiUnits : k = Joined(r, l)
              /\ \A l \in LokiUnits :
                    /\ Joined(r, l) \in hooks' <=> Joined(r, l) \in hooks /\ k # Joined(r, l)
                    /\ Departed(r, l) \in hooks' <=> Departed(r, l) \in hooks /\ k # Departed(r, l)
<1>1. hooks' = (hooks \ {k}) \cup
          {Changed(r) : r \in {r \in Relations : \E l \in LokiUnits : k = Joined(r, l)}}
  BY DEF Dequeue
<1>2. TAKE r \in Relations
<1>3. /\ Created(r) \in hooks' <=> Created(r) \in hooks /\ k # Created(r)
      /\ Broken(r) \in hooks' <=> Broken(r) \in hooks /\ k # Broken(r)
  BY <1>1, HookNames
<1>4. \A l \in LokiUnits :
         /\ Joined(r, l) \in hooks' <=> Joined(r, l) \in hooks /\ k # Joined(r, l)
         /\ Departed(r, l) \in hooks' <=> Departed(r, l) \in hooks /\ k # Departed(r, l)
  BY <1>1, HookNames
<1>5. Changed(r) \in hooks' <=> \/ Changed(r) \in hooks /\ k # Changed(r)
                                \/ \E l \in LokiUnits : k = Joined(r, l)
  BY <1>1, HookNames
<1> QED
  BY <1>3, <1>4, <1>5

LEMMA DequeueKeepsHooks ==
    ASSUME HooksInv, NEW k \in HookKinds, Dequeue(k)
    PROVE  HooksInv'
<1>1. LokiTypeOK'
  BY DequeueTypes
<1>2. /\ k \in hooks
      /\ seen' = SeenIn(k) /\ related' = VisibleIn(k) /\ dying' = dying \cap related'
      /\ members' = members /\ failed' = None
      /\ hooks' = (hooks \ {k}) \cup
            {Changed(r) : r \in {r \in Relations : \E l \in LokiUnits : k = Joined(r, l)}}
  BY DEF Dequeue, Runs
<1>3. ASSUME NEW r \in Relations, k = Broken(r)
      PROVE  hooks \cap {h \in HookKinds : h[1] = r} = {k}
  BY <1>3 DEF Dequeue, Runs
<1>4. OwnHooks'
  <2>1. SUFFICES ASSUME NEW r \in Relations, NEW h \in hooks', h[1] = r PROVE r \in related'
    BY DEF OwnHooks
  <2>2. CASE h \in hooks /\ h # k
    <3>1. r \in related
      BY <2>1, <2>2 DEF HooksInv, OwnHooks
    <3>2. ASSUME k = Broken(r) PROVE FALSE
      BY <3>2, <2>1, <2>2, <1>3 DEF HooksInv, LokiTypeOK
    <3> QED
      BY <3>1, <3>2, <1>2, HookNames DEF VisibleIn
  <2>3. CASE \E l \in LokiUnits : k = Joined(r, l)
    BY <2>3, <1>2, HookNames DEF HooksInv, OwnHooks, VisibleIn
  <2> QED
    BY <2>1, <2>2, <2>3, <1>2, HookNames
<1>5. BrokenOwed'
  BY <1>2, DequeueHooks DEF HooksInv, BrokenOwed, VisibleIn, LokiTypeOK
<1>6. ASSUME NEW r \in Relations, NEW l \in LokiUnits
      PROVE  (Joined(r, l) \in hooks <=> l \in members[r] \ seen[r])
             /\ (Departed(r, l) \in hooks <=> l \in seen[r] \ members[r])
  BY DEF HooksInv, JoinedOwed, DepartedOwed
<1>7. ASSUME NEW r \in Relations, NEW l \in LokiUnits
      PROVE  /\ k = Joined(r, l) => l \in members[r] /\ seen'[r] = seen[r] \cup {l}
             /\ k = Departed(r, l) => l \notin members[r] /\ seen'[r] = seen[r] \ {l}
             /\ k # Joined(r, l) /\ k # Departed(r, l) => (l \in seen'[r] <=> l \in seen[r])
  <2>1. /\ k = Joined(r, l) => l \in members[r] /\ seen'[r] = seen[r] \cup {l}
        /\ k = Departed(r, l) => l \notin members[r] /\ seen'[r] = seen[r] \ {l}
    BY <1>2, <1>6, SeenInHook
  <2>2. ASSUME k # Joined(r, l), k # Departed(r, l)
        PROVE  l \in seen'[r] <=> l \in seen[r]
    <3>1. CASE \E m \in LokiUnits : k = Joined(r, m) \/ k = Departed(r, m)
      BY <3>1, <2>2, <1>2, SeenInHook
    <3>2. CASE ~\E m \in LokiUnits : k = Joined(r, m) \/ k = Departed(r, m)
      BY <3>2, <1>2, SeenInHook
    <3> QED
      BY <3>1, <3>2
  <2> QED
    BY <2>1, <2>2
<1>8. JoinedOwed'
  <2>1. SUFFICES ASSUME NEW r \in Relations, NEW l \in LokiUnits
                 PROVE  Joined(r, l) \in hooks' <=> l \in members'[r] \ seen'[r]
    BY DEF JoinedOwed, Joined
  <2>2. Joined(r, l) \in hooks' <=> Joined(r, l) \in hooks /\ k # Joined(r, l)
    BY DequeueHooks
  <2>3. Joined(r, l) # Departed(r, l)
    BY HookNames
  <2> QED
    BY <2>2, <2>3, <1>2, <1>6, <1>7
<1>9. DepartedOwed'
  <2>1. SUFFICES ASSUME NEW r \in Relations, NEW l \in LokiUnits
                 PROVE  Departed(r, l) \in hooks' <=> l \in seen'[r] \ members'[r]
    BY DEF DepartedOwed, Departed
  <2>2. Departed(r, l) \in hooks' <=> Departed(r, l) \in hooks /\ k # Departed(r, l)
    BY DequeueHooks
  <2>3. Joined(r, l) # Departed(r, l)
    BY HookNames
  <2> QED
    BY <2>2, <2>3, <1>2, <1>6, <1>7
<1>10. CreatedFirst'
  <2>1. SUFFICES ASSUME NEW r \in Relations, Created(r) \in hooks' PROVE seen'[r] = {}
    BY DEF CreatedFirst, Created
  <2>2. Created(r) \in hooks /\ k # Created(r)
    BY <2>1, DequeueHooks
  <2>3. k[1] # r /\ seen[r] = {}
    BY <2>2 DEF Dequeue, Runs, HooksInv, CreatedFirst
  <2> QED
    BY <2>3, <1>2, SeenInHook, HookNames
<1>11. MembersAlive'
  <2>1. SUFFICES ASSUME NEW r \in Relations PROVE members'[r] # {} <=> Alive(r)'
    BY DEF MembersAlive, Alive
  <2>2. k = Broken(r) => r \in dying
    BY <1>2 DEF HooksInv, BrokenOwed
  <2> QED
    BY <2>1, <2>2, <1>2, HookNames DEF HooksInv, MembersAlive, Alive, VisibleIn, LokiTypeOK
<1> QED
  BY <1>1, <1>2, <1>4, <1>5, <1>8, <1>9, <1>10, <1>11 DEF HooksInv, FailedKinds

LEMMA RaiseKeepsHooks ==
    ASSUME HooksInv, NEW k \in HookKinds, HookRaises(k)
    PROVE  HooksInv'
<1>1. /\ k \in hooks /\ failed' = k
      /\ UNCHANGED <<inUse, related, dying, members, seen, endpoint, binaryUrl, hooks, connected, faults>>
      /\ k = Changed(Proxy) \/ IsDeparted(k)
  BY DEF HookRaises, Raise, Runs, ProxyRaises, relationVars, lokiVars
<1>2. FailedKinds'
  BY <1>1 DEF FailedKinds, IsDeparted, Changed, Departed
<1>3. LokiTypeOK'
  BY <1>1 DEF HooksInv, LokiTypeOK
<1> QED
  BY <1>1, <1>2, <1>3 DEF HooksInv, OwnHooks, BrokenOwed, JoinedOwed, DepartedOwed,
     CreatedFirst, MembersAlive, Alive, Created, Broken, Joined, Departed

(* What Loki publishes is a relation-changed hook at most. *)
LEMMA PublishKeepsHooks ==
    ASSUME HooksInv, NEW r \in Relations, Alive(r), Publish(r),
           UNCHANGED <<inUse, related, dying, members, seen, failed, connected>>,
           endpoint' \in [Relations -> [LokiUnits -> Urls \cup {None}]],
           binaryUrl' \in [Relations -> BOOLEAN], faults' \in 0..MaxFaults
    PROVE  HooksInv'
<1>1. hooks' = hooks \/ hooks' = hooks \cup {Changed(r)}
  BY DEF Publish
<1>2. LokiTypeOK'
  BY <1>1, HookKindsOf DEF HooksInv, LokiTypeOK
<1>3. OwnHooks'
  BY <1>1, HookNames DEF HooksInv, OwnHooks, Alive
<1>4. \A q \in Relations :
         /\ Created(q) \in hooks' <=> Created(q) \in hooks
         /\ Broken(q) \in hooks' <=> Broken(q) \in hooks
         /\ \A l \in LokiUnits :
               /\ Joined(q, l) \in hooks' <=> Joined(q, l) \in hooks
               /\ Departed(q, l) \in hooks' <=> Departed(q, l) \in hooks
  BY <1>1, HookNames
<1>5. BrokenOwed' /\ JoinedOwed' /\ DepartedOwed' /\ CreatedFirst'
  BY <1>4 DEF HooksInv, BrokenOwed, JoinedOwed, DepartedOwed, CreatedFirst, Created, Broken,
     Joined, Departed
<1>6. MembersAlive' /\ FailedKinds'
  BY DEF HooksInv, MembersAlive, Alive, FailedKinds, Changed, Departed
<1> QED
  BY <1>2, <1>3, <1>5, <1>6 DEF HooksInv

LEMMA FaultBound ==
    ASSUME HooksInv, NEW f, Fault(f)
    PROVE  faults' \in 0..MaxFaults
BY BoundsAssumption DEF HooksInv, LokiTypeOK, Fault

LEMMA PublishersKeepHooks ==
    ASSUME HooksInv, NEW r \in Relations,
           \/ PublishBinaryUrl(r)
           \/ \E l \in LokiUnits : FirstEndpoint(r, l) \/ MoveEndpoint(r, l)
    PROVE  HooksInv'
<1>1. CASE PublishBinaryUrl(r)
  <2>1. /\ Alive(r) /\ Publish(r)
        /\ UNCHANGED <<inUse, related, dying, members, seen, failed, connected, faults, endpoint>>
        /\ binaryUrl' \in [Relations -> BOOLEAN]
    BY <1>1 DEF PublishBinaryUrl, relationVars, HooksInv, LokiTypeOK
  <2>2. /\ endpoint' \in [Relations -> [LokiUnits -> Urls \cup {None}]]
        /\ faults' \in 0..MaxFaults
    BY <2>1 DEF HooksInv, LokiTypeOK
  <2> QED
    BY <2>1, <2>2, PublishKeepsHooks
<1>2. ASSUME NEW l \in LokiUnits, NEW url \in Urls, PublishEndpoint(r, l, url),
             faults' \in 0..MaxFaults
      PROVE  HooksInv'
  <2>1. /\ Alive(r) /\ Publish(r)
        /\ UNCHANGED <<inUse, related, dying, members, seen, failed, connected, binaryUrl>>
        /\ endpoint' \in [Relations -> [LokiUnits -> Urls \cup {None}]]
    BY <1>2 DEF PublishEndpoint, relationVars, HooksInv, LokiTypeOK
  <2>2. binaryUrl' \in [Relations -> BOOLEAN]
    BY <2>1 DEF HooksInv, LokiTypeOK
  <2> QED
    BY <1>2, <2>1, <2>2, PublishKeepsHooks
<1>3. ASSUME NEW l \in LokiUnits, FirstEndpoint(r, l) PROVE HooksInv'
  BY <1>2, <1>3, UrlsAssumption DEF FirstEndpoint, HooksInv, LokiTypeOK
<1>4. ASSUME NEW l \in LokiUnits, MoveEndpoint(r, l) PROVE HooksInv'
  BY <1>2, <1>4, FaultBound DEF MoveEndpoint
<1> QED
  BY <1>1, <1>3, <1>4

(* A new integration owes the unit its created hook and the joined hook of   *)
(* its first unit, and nothing of an earlier one is left.                    *)
LEMMA IntegrateKeepsHooks ==
    ASSUME HooksInv, NEW r \in Relations, NEW l \in LokiUnits, Integrate(r, l)
    PROVE  HooksInv'
<1>1. /\ r \in inUse /\ r \notin related
      /\ related' = related \cup {r}
      /\ members' = [members EXCEPT ![r] = {l}]
      /\ seen' = [seen EXCEPT ![r] = {}]
      /\ hooks' = hooks \cup {Created(r), Joined(r, l)}
      /\ UNCHANGED <<inUse, dying, failed, connected, faults>>
  BY DEF Integrate
<1>2. LokiTypeOK'
  <2>1. hooks' \subseteq HookKinds
    BY <1>1, HookKindsOf DEF HooksInv, LokiTypeOK
  <2>2. /\ endpoint' \in [Relations -> [LokiUnits -> Urls \cup {None}]]
        /\ binaryUrl' \in [Relations -> BOOLEAN]
        /\ members' \in [Relations -> SUBSET LokiUnits]
        /\ seen' \in [Relations -> SUBSET LokiUnits]
    BY DEF Integrate, HooksInv, LokiTypeOK
  <2> QED
    BY <1>1, <2>1, <2>2 DEF HooksInv, LokiTypeOK
<1>3. OwnHooks'
  BY <1>1, HookNames DEF HooksInv, OwnHooks
<1>4. \A q \in Relations :
         /\ members'[q] = IF q = r THEN {l} ELSE members[q]
         /\ seen'[q] = IF q = r THEN {} ELSE seen[q]
  BY <1>1 DEF HooksInv, LokiTypeOK
<1>5. \A q \in Relations :
         /\ Created(q) \in hooks' <=> Created(q) \in hooks \/ q = r
         /\ Broken(q) \in hooks' <=> Broken(q) \in hooks
         /\ \A m \in LokiUnits :
               /\ Joined(q, m) \in hooks' <=> Joined(q, m) \in hooks \/ (q = r /\ m = l)
               /\ Departed(q, m) \in hooks' <=> Departed(q, m) \in hooks
  BY <1>1, HookNames
<1>6. /\ r \notin dying /\ Broken(r) \notin hooks
      /\ \A m \in LokiUnits : Joined(r, m) \notin hooks /\ Departed(r, m) \notin hooks
  BY <1>1, HookNames DEF HooksInv, OwnHooks, LokiTypeOK
<1>7. BrokenOwed'
  BY <1>1, <1>5, <1>6 DEF HooksInv, BrokenOwed, Broken
<1>8. JoinedOwed'
  BY <1>4, <1>5, <1>6, ZenonT(30) DEF HooksInv, JoinedOwed, Joined
<1>9. DepartedOwed'
  BY <1>4, <1>5, <1>6 DEF HooksInv, DepartedOwed, Departed
<1>10. CreatedFirst'
  BY <1>4, <1>5 DEF HooksInv, CreatedFirst, Created
<1>11. MembersAlive'
  BY <1>1, <1>4, <1>6 DEF HooksInv, MembersAlive, Alive
<1>12. FailedKinds'
  BY <1>1 DEF HooksInv, FailedKinds, Changed, Departed
<1> QED
  BY <1>2, <1>3, <1>7, <1>8, <1>9, <1>10, <1>11, <1>12 DEF HooksInv

LEMMA AddKeepsHooks ==
    ASSUME HooksInv, NEW r \in Relations, NEW l \in LokiUnits, AddLokiUnit(r, l)
    PROVE  HooksInv'
<1>1. /\ Alive(r) /\ l \notin members[r] /\ l \notin seen[r]
      /\ members' = [members EXCEPT ![r] = @ \cup {l}]
      /\ hooks' = hooks \cup {Joined(r, l)}
      /\ UNCHANGED <<inUse, related, dying, seen, binaryUrl, failed, connected, faults>>
  BY DEF AddLokiUnit
<1>2. LokiTypeOK'
  <2>1. hooks' \subseteq HookKinds
    BY <1>1, HookKindsOf DEF HooksInv, LokiTypeOK
  <2>2. /\ endpoint' \in [Relations -> [LokiUnits -> Urls \cup {None}]]
        /\ members' \in [Relations -> SUBSET LokiUnits]
    BY DEF AddLokiUnit, HooksInv, LokiTypeOK
  <2> QED
    BY <1>1, <2>1, <2>2 DEF HooksInv, LokiTypeOK
<1>3. OwnHooks'
  BY <1>1, HookNames DEF HooksInv, OwnHooks, Alive
<1>4. \A q \in Relations : members'[q] = IF q = r THEN members[q] \cup {l} ELSE members[q]
  BY <1>1 DEF HooksInv, LokiTypeOK
<1>5. \A q \in Relations :
         /\ Created(q) \in hooks' <=> Created(q) \in hooks
         /\ Broken(q) \in hooks' <=> Broken(q) \in hooks
         /\ \A m \in LokiUnits :
               /\ Joined(q, m) \in hooks' <=> Joined(q, m) \in hooks \/ (q = r /\ m = l)
               /\ Departed(q, m) \in hooks' <=> Departed(q, m) \in hooks
  BY <1>1, HookNames
<1>6. BrokenOwed' /\ CreatedFirst'
  BY <1>1, <1>5 DEF HooksInv, BrokenOwed, CreatedFirst, Broken, Created
<1>7. JoinedOwed' /\ DepartedOwed'
  BY <1>1, <1>4, <1>5 DEF HooksInv, JoinedOwed, DepartedOwed, Joined, Departed
<1>8. MembersAlive' /\ FailedKinds'
  BY <1>1, <1>4 DEF HooksInv, MembersAlive, Alive, FailedKinds, Changed, Departed
<1> QED
  BY <1>2, <1>3, <1>6, <1>7, <1>8 DEF HooksInv

(* Units that leave owe a departed hook if they had been joined, and their   *)
(* joined hook is dropped.                                                   *)
LEMMA LeavingHooks ==
    ASSUME HooksInv, NEW r \in Relations, NEW ls \in SUBSET members[r]
    PROVE  /\ Leaving(r, ls) \subseteq HookKinds
           /\ failed \in Leaving(r, ls) \cup {None}
           /\ \A q \in Relations :
                 /\ Created(q) \in Leaving(r, ls) <=> Created(q) \in hooks
                 /\ Changed(q) \in Leaving(r, ls) <=> Changed(q) \in hooks
                 /\ Broken(q) \in Leaving(r, ls) <=> Broken(q) \in hooks
                 /\ \A l \in LokiUnits :
                       /\ Joined(q, l) \in Leaving(r, ls) <=>
                             Joined(q, l) \in hooks /\ ~(q = r /\ l \in ls)
                       /\ Departed(q, l) \in Leaving(r, ls) <=>
                             Departed(q, l) \in hooks \/ (q = r /\ l \in ls /\ l \in seen[r])
           /\ \A c \in Containers : PebbleReady(c) \in Leaving(r, ls) <=> PebbleReady(c) \in hooks
           /\ \A h \in Leaving(r, ls) : h[1] = r \/ h \in hooks
<1>1. ls \subseteq LokiUnits
  BY DEF HooksInv, LokiTypeOK
<1>2. Leaving(r, ls) \subseteq HookKinds
  BY <1>1, HookKindsOf DEF Leaving, HooksInv, LokiTypeOK
<1>3. failed \in Leaving(r, ls) \cup {None}
  BY HookNames DEF Leaving, HooksInv, LokiTypeOK, FailedKinds
<1>4. \A q \in Relations :
         /\ Created(q) \in Leaving(r, ls) <=> Created(q) \in hooks
         /\ Changed(q) \in Leaving(r, ls) <=> Changed(q) \in hooks
         /\ Broken(q) \in Leaving(r, ls) <=> Broken(q) \in hooks
  BY HookNames DEF Leaving
<1>5. \A q \in Relations, l \in LokiUnits :
         /\ Joined(q, l) \in Leaving(r, ls) <=> Joined(q, l) \in hooks /\ ~(q = r /\ l \in ls)
         /\ Departed(q, l) \in Leaving(r, ls) <=>
               Departed(q, l) \in hooks \/ (q = r /\ l \in ls /\ l \in seen[r])
  BY HookNames DEF Leaving
<1>6. \A c \in Containers : PebbleReady(c) \in Leaving(r, ls) <=> PebbleReady(c) \in hooks
  BY HookNames DEF Leaving
<1>7. \A h \in Leaving(r, ls) : h[1] = r \/ h \in hooks
  BY HookNames DEF Leaving
<1> QED
  BY <1>2, <1>3, <1>4, <1>5, <1>6, <1>7

LEMMA LeaveKeepsHooks ==
    ASSUME HooksInv, NEW r \in Relations, NEW l \in LokiUnits, RemoveLokiUnit(r, l)
    PROVE  HooksInv'
<1>1. /\ Alive(r) /\ l \in members[r] /\ members[r] # {l}
      /\ members' = [members EXCEPT ![r] = @ \ {l}]
      /\ hooks' = Leaving(r, {l})
      /\ UNCHANGED <<inUse, related, dying, seen, endpoint, binaryUrl, failed, connected>>
      /\ faults' \in 0..MaxFaults
  BY FaultBound DEF RemoveLokiUnit, lokiVars
<1>2. {l} \in SUBSET members[r]
  BY <1>1
<1>3. LokiTypeOK'
  BY <1>1, <1>2, LeavingHooks DEF HooksInv, LokiTypeOK
<1>4. OwnHooks'
  BY <1>1, <1>2, LeavingHooks DEF HooksInv, OwnHooks, Alive
<1>5. \A q \in Relations : members'[q] = IF q = r THEN members[q] \ {l} ELSE members[q]
  BY <1>1 DEF HooksInv, LokiTypeOK
<1>6. BrokenOwed' /\ CreatedFirst'
  BY <1>1, <1>2, LeavingHooks DEF HooksInv, BrokenOwed, CreatedFirst, Broken, Created
<1>7. JoinedOwed' /\ DepartedOwed'
  <2>1. ASSUME NEW q \in Relations, NEW m \in LokiUnits
        PROVE  /\ Joined(q, m) \in hooks' <=> m \in members'[q] \ seen'[q]
               /\ Departed(q, m) \in hooks' <=> m \in seen'[q] \ members'[q]
    <3>1. /\ Joined(q, m) \in hooks <=> m \in members[q] \ seen[q]
          /\ Departed(q, m) \in hooks <=> m \in seen[q] \ members[q]
      BY DEF HooksInv, JoinedOwed, DepartedOwed
    <3> QED
      BY <1>1, <1>2, <1>5, <3>1, LeavingHooks
  <2> QED
    BY <2>1 DEF JoinedOwed, DepartedOwed, Joined, Departed
<1>8. MembersAlive' /\ FailedKinds'
  BY <1>1, <1>5 DEF HooksInv, MembersAlive, Alive, FailedKinds, Changed, Departed
<1> QED
  BY <1>3, <1>4, <1>6, <1>7, <1>8 DEF HooksInv

(* The hooks left of an integration that is removed: broken is among them.   *)
LEMMA RemoveKeepsHooks ==
    ASSUME HooksInv, NEW r \in Relations, Remove(r)
    PROVE  HooksInv'
<1>1. /\ Alive(r)
      /\ dying' = dying \cup {r}
      /\ members' = [members EXCEPT ![r] = {}]
      /\ hooks' = (Leaving(r, members[r]) \ ({Changed(r)} \ {failed})) \cup {Broken(r)}
      /\ UNCHANGED <<inUse, related, seen, endpoint, binaryUrl, failed, connected>>
      /\ faults' \in 0..MaxFaults
  BY FaultBound DEF Remove, Dying, lokiVars
<1>2. members[r] \in SUBSET members[r] /\ members[r] \subseteq LokiUnits
  BY DEF HooksInv, LokiTypeOK
<1>3. LokiTypeOK'
  <2>1. hooks' \subseteq HookKinds /\ failed' \in hooks' \cup {None}
    BY <1>1, <1>2, LeavingHooks, HookKindsOf
  <2>2. /\ dying' \subseteq related' /\ related' \subseteq inUse'
        /\ members' \in [Relations -> SUBSET LokiUnits]
    BY <1>1 DEF HooksInv, LokiTypeOK, Alive
  <2> QED
    BY <1>1, <2>1, <2>2 DEF HooksInv, LokiTypeOK
<1>4. OwnHooks'
  BY <1>1, <1>2, LeavingHooks, HookNames DEF HooksInv, OwnHooks, Alive
<1>5. \A q \in Relations : members'[q] = IF q = r THEN {} ELSE members[q]
  BY <1>1 DEF HooksInv, LokiTypeOK
<1>6. \A q \in Relations :
         /\ Created(q) \in hooks' <=> Created(q) \in hooks
         /\ Broken(q) \in hooks' <=> Broken(q) \in hooks \/ q = r
         /\ \A l \in LokiUnits :
               /\ Joined(q, l) \in hooks' <=> Joined(q, l) \in hooks /\ ~(q = r /\ l \in members[r])
               /\ Departed(q, l) \in hooks' <=>
                     Departed(q, l) \in hooks \/ (q = r /\ l \in members[r] /\ l \in seen[r])
  BY <1>1, <1>2, LeavingHooks, HookNames
<1>7. BrokenOwed' /\ CreatedFirst'
  BY <1>1, <1>6 DEF HooksInv, BrokenOwed, CreatedFirst, Broken, Created
<1>8. JoinedOwed' /\ DepartedOwed'
  <2>1. ASSUME NEW q \in Relations, NEW m \in LokiUnits
        PROVE  /\ Joined(q, m) \in hooks' <=> m \in members'[q] \ seen'[q]
               /\ Departed(q, m) \in hooks' <=> m \in seen'[q] \ members'[q]
    <3>1. /\ Joined(q, m) \in hooks <=> m \in members[q] \ seen[q]
          /\ Departed(q, m) \in hooks <=> m \in seen[q] \ members[q]
      BY DEF HooksInv, JoinedOwed, DepartedOwed
    <3> QED
      BY <1>1, <1>5, <1>6, <3>1
  <2> QED
    BY <2>1 DEF JoinedOwed, DepartedOwed, Joined, Departed
<1>9. MembersAlive' /\ FailedKinds'
  BY <1>1, <1>5 DEF HooksInv, MembersAlive, Alive, FailedKinds, Changed, Departed
<1> QED
  BY <1>3, <1>4, <1>7, <1>8, <1>9 DEF HooksInv

LEMMA ContainersKeepHooks ==
    ASSUME HooksInv, NEW c \in Containers, StartContainer(c) \/ LoseContainer(c)
    PROVE  HooksInv'
<1>1. /\ hooks' = hooks \/ hooks' = hooks \cup {PebbleReady(c)}
      /\ UNCHANGED <<inUse, related, dying, members, seen, endpoint, binaryUrl, failed>>
      /\ connected' \subseteq Containers
      /\ faults' \in 0..MaxFaults
  BY FaultBound DEF StartContainer, LoseContainer, relationVars, lokiVars, HooksInv, LokiTypeOK
<1>2. LokiTypeOK'
  BY <1>1, HookKindsOf DEF HooksInv, LokiTypeOK
<1>3. OwnHooks'
  BY <1>1, HookNames, ContainersAssumption DEF HooksInv, OwnHooks
<1>4. \A q \in Relations :
         /\ Created(q) \in hooks' <=> Created(q) \in hooks
         /\ Broken(q) \in hooks' <=> Broken(q) \in hooks
         /\ \A l \in LokiUnits :
               /\ Joined(q, l) \in hooks' <=> Joined(q, l) \in hooks
               /\ Departed(q, l) \in hooks' <=> Departed(q, l) \in hooks
  BY <1>1, HookNames
<1>5. BrokenOwed' /\ JoinedOwed' /\ DepartedOwed' /\ CreatedFirst'
  BY <1>1, <1>4 DEF HooksInv, BrokenOwed, JoinedOwed, DepartedOwed, CreatedFirst, Created, Broken,
     Joined, Departed
<1>6. MembersAlive' /\ FailedKinds'
  BY <1>1 DEF HooksInv, MembersAlive, Alive, FailedKinds, Changed, Departed
<1> QED
  BY <1>2, <1>3, <1>5, <1>6 DEF HooksInv

(* The steps of Logging, and the variables that each side of them changes.   *)
LEMMA LokiSteps ==
    ASSUME LokiStep
    PROVE  /\ UNCHANGED <<target, proxyVars>>
           /\ \E r \in Relations :
                 \/ PublishBinaryUrl(r) \/ Remove(r)
                 \/ \E l \in LokiUnits :
                       \/ FirstEndpoint(r, l) \/ MoveEndpoint(r, l)
                       \/ Integrate(r, l) \/ AddLokiUnit(r, l) \/ RemoveLokiUnit(r, l)
BY DEF LokiStep

LEMMA HooksStep ==
    ASSUME HooksInv, [Next]_vars
    PROVE  HooksInv'
<1>1. ASSUME NEW k \in HookKinds, RunHook(k) PROVE HooksInv'
  BY <1>1, DequeueKeepsHooks DEF RunHook
<1>2. ASSUME NEW k \in HookKinds, HookRaises(k) PROVE HooksInv'
  BY <1>2, RaiseKeepsHooks
<1>3. CASE LokiStep
  BY <1>3, LokiSteps, PublishersKeepHooks, RemoveKeepsHooks, IntegrateKeepsHooks, AddKeepsHooks,
     LeaveKeepsHooks
<1>4. ASSUME NEW c \in Containers, ContainerStarts(c) \/ ContainerStops(c) PROVE HooksInv'
  BY <1>4, ContainersKeepHooks DEF ContainerStarts, ContainerStops
<1>5. CASE UNCHANGED vars
  BY <1>5 DEF vars, jujuVars, relationVars, lokiVars, HooksInv, LokiTypeOK, OwnHooks, BrokenOwed,
     JoinedOwed, DepartedOwed, CreatedFirst, MembersAlive, Alive, FailedKinds, Created, Broken,
     Joined, Departed, Changed
<1> QED
  BY <1>1, <1>2, <1>3, <1>4, <1>5 DEF Next

(* When the hooks have run, relation.units are the units there are.          *)
LEMMA HooksDone ==
    ASSUME HooksInv, hooks = {}
    PROVE  \A r \in Relations : seen[r] = members[r] /\ (r \in related <=> Alive(r))
<1>1. TAKE r \in Relations
<1>2. seen[r] \subseteq LokiUnits /\ members[r] \subseteq LokiUnits
  BY DEF HooksInv, LokiTypeOK
<1>3. \A l \in LokiUnits : l \notin members[r] \ seen[r] /\ l \notin seen[r] \ members[r]
  BY DEF HooksInv, JoinedOwed, DepartedOwed
<1>4. r \notin dying
  BY DEF HooksInv, BrokenOwed
<1> QED
  BY <1>2, <1>3, <1>4 DEF Alive

(* No unit is left in the broken hook.                                       *)
LEMMA BrokenLast ==
    ASSUME HooksInv, NEW r \in Relations, Runs(Broken(r))
    PROVE  seen[r] = {}
<1>1. hooks \cap {h \in HookKinds : h[1] = r} = {Broken(r)} /\ Broken(r) \in hooks
  BY DEF Runs
<1>2. r \in dying
  BY <1>1 DEF HooksInv, BrokenOwed
<1>3. members[r] = {}
  BY <1>2 DEF HooksInv, MembersAlive, Alive
<1>4. ASSUME NEW l \in seen[r] PROVE FALSE
  <2>1. l \in LokiUnits
    BY DEF HooksInv, LokiTypeOK
  <2>2. Departed(r, l) \in hooks
    BY <1>3, <2>1 DEF HooksInv, DepartedOwed
  <2> QED
    BY <1>1, <2>1, <2>2, HookNames, HookKindsOf
<1> QED
  BY <1>4

-----------------------------------------------------------------------------
(* LogForwarder.                                                             *)
LEMMA ForwardingInit == Init => ForwardingInv
BY DEF Init, LokiInit, ForwarderInit, ForwardingInv, ForwarderTypeOK, ActiveNow, Ready, LogTargets, Relations

LEMMA ForwarderTypes ==
    ASSUME HooksInv, HooksInv', ForwarderTypeOK, [Next]_vars
    PROVE  ForwarderTypeOK'
<1>1. \A t \in LogTargets : t[1] \in Relations /\ t[2] \in LokiUnits
  BY DEF LogTargets, Relations
<1>2. \A t \in LogTargets : endpoint[t[1]][t[2]] \in Urls \cup {None}
  BY <1>1 DEF HooksInv, LokiTypeOK
<1>3. ASSUME NEW k \in HookKinds, RunHook(k) PROVE ForwarderTypeOK'
  <2>1. ASSUME NEW old \in [LogTargets -> Urls \cup {Off, None}], NEW active
        PROVE  UpdateEndpoints(old, active) \in [LogTargets -> Urls \cup {Off, None}]
    BY <1>2 DEF UpdateEndpoints
  <2>2. ForwarderHook(k)
    BY <1>3 DEF RunHook
  <2> QED
    BY <2>1, <2>2 DEF ForwarderHook, ForwarderTypeOK
<1>4. ASSUME NEW c \in Containers, ContainerStops(c) PROVE ForwarderTypeOK'
  BY <1>4 DEF ContainerStops, ForwarderContainer, ForwarderTypeOK
<1>5. ASSUME UNCHANGED target PROVE ForwarderTypeOK'
  BY <1>5 DEF ForwarderTypeOK
<1> QED
  BY <1>3, <1>4, <1>5 DEF Next, HookRaises, LokiStep, ContainerStarts, vars

(* Nothing that a container forwards to has changed: it is up to date, or    *)
(* owes a hook, as it was before; or it owes one now.                        *)
LEMMA ForwardingKept ==
    ASSUME HooksInv, ForwardingInv,
           \A c \in connected' :
              PebbleReady(c) \in hooks' \/ (c \in connected /\ target'[c] = target[c]),
           \/ \E r \in LoggingRelations : Changed(r) \in hooks' \/ Broken(r) \in hooks'
           \/ /\ \A c \in connected : PebbleReady(c) \in hooks => PebbleReady(c) \in hooks'
              /\ \A r \in LoggingRelations :
                    /\ Changed(r) \notin hooks /\ Broken(r) \notin hooks
                    /\ \/ /\ r \in related <=> r \in related'
                          /\ seen'[r] = seen[r]
                          /\ \A l \in seen[r] : endpoint'[r][l] = endpoint[r][l]
                       \/ /\ r \notin related \/ seen[r] = {}
                          /\ r \notin related' \/ seen'[r] = {}
    PROVE  ActiveNow' # {} => \A c \in connected' : UpToDate(c)' \/ ForwardingOwed(c)'
<1>1. CASE \E r \in LoggingRelations : Changed(r) \in hooks' \/ Broken(r) \in hooks'
  BY <1>1 DEF ForwardingOwed, Changed, Broken
<1>2. CASE ~\E r \in LoggingRelations : Changed(r) \in hooks' \/ Broken(r) \in hooks'
  <2>1. /\ \A c \in connected : PebbleReady(c) \in hooks => PebbleReady(c) \in hooks'
        /\ \A r \in LoggingRelations :
              /\ Changed(r) \notin hooks /\ Broken(r) \notin hooks
              /\ \/ /\ r \in related <=> r \in related'
                    /\ seen'[r] = seen[r]
                    /\ \A l \in seen[r] : endpoint'[r][l] = endpoint[r][l]
                 \/ /\ r \notin related \/ seen[r] = {}
                    /\ r \notin related' \/ seen'[r] = {}
    BY <1>2
  <2>2. ASSUME NEW t \in LogTargets
        PROVE  /\ t \in ActiveNow' <=> t \in ActiveNow
               /\ t \in ActiveNow => endpoint'[t[1]][t[2]] = endpoint[t[1]][t[2]]
    <3>1. t[1] \in LoggingRelations
      BY DEF LogTargets
    <3> QED
      BY <2>1, <3>1 DEF ActiveNow, Ready
  <2>3. SUFFICES ASSUME ActiveNow' # {}, NEW c \in connected', c \in connected,
                        target'[c] = target[c], PebbleReady(c) \notin hooks'
                 PROVE  UpToDate(c)'
    BY DEF ForwardingOwed, PebbleReady
  <2>4. ActiveNow # {}
    BY <2>2, <2>3 DEF ActiveNow
  <2>5. UpToDate(c)
    BY <2>1, <2>3, <2>4 DEF ForwardingInv, ForwardingOwed
  <2> QED
    BY <2>2, <2>3, <2>5 DEF UpToDate
<1> QED
  BY <1>1, <1>2

(* A hook that LogForwarder observes brings every container that answers up  *)
(* to date; another changes nothing it looks at.                             *)
LEMMA ForwardingAfterHook ==
    ASSUME HooksInv, ForwardingInv, NEW k \in HookKinds, RunHook(k)
    PROVE  ActiveNow' # {} => \A c \in connected' : UpToDate(c)' \/ ForwardingOwed(c)'
<1>1. /\ Dequeue(k) /\ ForwarderHook(k)
      /\ seen' = SeenIn(k) /\ related' = VisibleIn(k)
      /\ endpoint' = endpoint /\ connected' = connected
  BY DEF RunHook, Dequeue, lokiVars
<1>2. ActiveNow' = ActiveIn(k)
  BY <1>1 DEF ActiveNow, ActiveIn, Ready
<1>3. /\ connected \subseteq Containers
      /\ target \in [Containers -> [LogTargets -> Urls \cup {Off, None}]]
  BY DEF HooksInv, LokiTypeOK, ForwardingInv, ForwarderTypeOK
<1>4. ASSUME NEW c \in connected, ActiveNow' # {}, UpdatesLogging(k) \/ k = PebbleReady(c)
      PROVE  UpToDate(c)'
  <2>1. c \in Containers
    BY <1>3
  <2>2. target'[c] = UpdateEndpoints(target[c], ActiveIn(k))
    BY <1>1, <1>2, <1>4, <2>1 DEF ForwarderHook
  <2> QED
    BY <1>1, <1>2, <2>2 DEF UpdateEndpoints, UpToDate
<1>5. ASSUME ~UpdatesLogging(k), NEW r \in LoggingRelations
      PROVE  /\ r \in related' <=> r \in related
             /\ seen'[r] = seen[r]
             /\ Changed(r) \in hooks => Changed(r) \in hooks'
             /\ Broken(r) \in hooks => Broken(r) \in hooks'
  <2>1. r \in Relations
    BY DEF Relations
  <2>2. /\ k # Changed(r) /\ k # Broken(r)
        /\ \A l \in LokiUnits : k # Joined(r, l) /\ k # Departed(r, l)
    BY <1>5, HookNames DEF UpdatesLogging
  <2>3. r \in related' <=> r \in related
    BY <1>1, <2>2 DEF VisibleIn
  <2>4. seen'[r] = seen[r]
    BY <1>1, <2>1, <2>2, SeenInHook
  <2> QED
    BY <1>1, <2>1, <2>2, <2>3, <2>4, DequeueHooks
<1>6. CASE ~UpdatesLogging(k)
  <2>1. SUFFICES ASSUME ActiveNow' # {}, NEW c \in connected', k # PebbleReady(c)
                 PROVE  UpToDate(c)' \/ ForwardingOwed(c)'
    BY <1>1, <1>4
  <2>2. c \in connected /\ c \in Containers
    BY <1>1, <1>3, <2>1
  <2>3. target'[c] = target[c]
    BY <1>1, <1>3, <1>6, <2>1, <2>2 DEF ForwarderHook
  <2>4. PebbleReady(c) \in hooks => PebbleReady(c) \in hooks'
    BY <1>1, <2>1 DEF Dequeue
  <2>5. \A t \in LogTargets : t \in ActiveNow' <=> t \in ActiveNow
    BY <1>1, <1>5, <1>6 DEF ActiveNow, LogTargets, Ready
  <2>6. UpToDate(c) \/ ForwardingOwed(c)
    BY <2>1, <2>2, <2>5 DEF ForwardingInv, ActiveNow
  <2>7. CASE UpToDate(c)
    BY <1>1, <2>3, <2>5, <2>7 DEF UpToDate
  <2>8. CASE ForwardingOwed(c)
    BY <1>5, <1>6, <2>4, <2>8 DEF ForwardingOwed, Changed, Broken, PebbleReady
  <2> QED
    BY <2>6, <2>7, <2>8
<1> QED
  BY <1>1, <1>4, <1>6

(* What Loki and Juju change of an integration they also tell the unit.      *)
LEMMA ForwardingAfterLoki ==
    ASSUME HooksInv, ForwardingInv, LokiStep
    PROVE  ActiveNow' # {} => \A c \in connected' : UpToDate(c)' \/ ForwardingOwed(c)'
<1>1. target' = target
  BY LokiSteps
<1>2. \A r \in LoggingRelations : r \in Relations
  BY DEF Relations
<1>3. connected \subseteq Containers
  BY DEF HooksInv, LokiTypeOK
<1>4. ASSUME NEW r \in Relations, Publish(r),
             UNCHANGED <<related, seen, connected>>,
             \A q \in Relations : q # r => endpoint'[q] = endpoint[q]
      PROVE  ActiveNow' # {} => \A c \in connected' : UpToDate(c)' \/ ForwardingOwed(c)'
  <2>1. hooks' = hooks \cup (IF seen[r] # {} THEN {Changed(r)} ELSE {})
    BY <1>4 DEF Publish
  <2>2. CASE r \in LoggingRelations /\ seen[r] # {}
    BY <1>1, <1>4, <2>1, <2>2, ForwardingKept
  <2>3. CASE r \notin LoggingRelations \/ seen[r] = {}
    BY <1>1, <1>2, <1>4, <2>1, <2>3, ForwardingKept
  <2> QED
    BY <2>2, <2>3
<1>5. ASSUME NEW r \in Relations, NEW l \in LokiUnits, FirstEndpoint(r, l) \/ MoveEndpoint(r, l)
      PROVE  ActiveNow' # {} => \A c \in connected' : UpToDate(c)' \/ ForwardingOwed(c)'
  <2>1. PICK url : PublishEndpoint(r, l, url)
    BY <1>5 DEF FirstEndpoint, MoveEndpoint
  <2>2. /\ Publish(r) /\ UNCHANGED <<related, seen, connected>>
        /\ \A q \in Relations : q # r => endpoint'[q] = endpoint[q]
    BY <2>1 DEF PublishEndpoint, relationVars, HooksInv, LokiTypeOK
  <2> QED
    BY <1>4, <2>2
<1>6. ASSUME NEW r \in Relations, PublishBinaryUrl(r)
      PROVE  ActiveNow' # {} => \A c \in connected' : UpToDate(c)' \/ ForwardingOwed(c)'
  <2>1. /\ Publish(r) /\ UNCHANGED <<related, seen, connected>>
        /\ \A q \in Relations : q # r => endpoint'[q] = endpoint[q]
    BY <1>6 DEF PublishBinaryUrl, relationVars
  <2> QED
    BY <1>4, <2>1
<1>7. ASSUME NEW r \in Relations, Remove(r)
      PROVE  ActiveNow' # {} => \A c \in connected' : UpToDate(c)' \/ ForwardingOwed(c)'
  <2>1. /\ hooks' = (Leaving(r, members[r]) \ ({Changed(r)} \ {failed})) \cup {Broken(r)}
        /\ UNCHANGED <<related, seen, endpoint, connected>>
    BY <1>7 DEF Remove, Dying, lokiVars
  <2>2. \A q \in Relations :
           /\ q # r => (Changed(q) \in hooks => Changed(q) \in hooks')
           /\ Broken(q) \in hooks => Broken(q) \in hooks'
    BY <2>1, LeavingHooks, HookNames
  <2>3. \A c \in connected : PebbleReady(c) \in hooks => PebbleReady(c) \in hooks'
    BY <1>3, <2>1, LeavingHooks, HookNames
  <2>4. CASE r \in LoggingRelations
    BY <1>1, <2>1, <2>4, ForwardingKept
  <2>5. CASE r \notin LoggingRelations
    BY <1>1, <1>2, <2>1, <2>2, <2>3, <2>5, ForwardingKept
  <2> QED
    BY <2>4, <2>5
<1>8. ASSUME NEW r \in Relations, NEW l \in LokiUnits, RemoveLokiUnit(r, l)
      PROVE  ActiveNow' # {} => \A c \in connected' : UpToDate(c)' \/ ForwardingOwed(c)'
  <2>1. /\ hooks' = Leaving(r, {l}) /\ {l} \in SUBSET members[r]
        /\ UNCHANGED <<related, seen, endpoint, connected>>
    BY <1>8 DEF RemoveLokiUnit, lokiVars
  <2>2. /\ \A q \in Relations :
              /\ Changed(q) \in hooks => Changed(q) \in hooks'
              /\ Broken(q) \in hooks => Broken(q) \in hooks'
        /\ \A c \in connected : PebbleReady(c) \in hooks => PebbleReady(c) \in hooks'
    BY <1>3, <2>1, LeavingHooks
  <2> QED
    BY <1>1, <1>2, <2>1, <2>2, ForwardingKept
<1>9. ASSUME NEW r \in Relations, NEW l \in LokiUnits, AddLokiUnit(r, l)
      PROVE  ActiveNow' # {} => \A c \in connected' : UpToDate(c)' \/ ForwardingOwed(c)'
  <2>1. /\ hooks' = hooks \cup {Joined(r, l)} /\ l \notin seen[r]
        /\ endpoint' = [endpoint EXCEPT ![r][l] = None]
        /\ UNCHANGED <<related, seen, connected>>
    BY <1>9 DEF AddLokiUnit
  <2>2. ASSUME NEW q \in Relations, NEW m \in seen[q]
        PROVE  endpoint'[q][m] = endpoint[q][m]
    BY <2>1 DEF HooksInv, LokiTypeOK
  <2> QED
    BY <1>1, <1>2, <2>1, <2>2, ForwardingKept
<1>10. ASSUME NEW r \in Relations, NEW l \in LokiUnits, Integrate(r, l)
       PROVE  ActiveNow' # {} => \A c \in connected' : UpToDate(c)' \/ ForwardingOwed(c)'
  <2>1. /\ hooks' = hooks \cup {Created(r), Joined(r, l)}
        /\ r \notin related /\ related' = related \cup {r} /\ connected' = connected
        /\ seen' = [seen EXCEPT ![r] = {}]
        /\ endpoint' = [endpoint EXCEPT ![r] = [m \in LokiUnits |-> None]]
    BY <1>10 DEF Integrate
  <2>2. /\ seen'[r] = {}
        /\ \A q \in Relations :
              q # r => (q \in related <=> q \in related') /\ seen'[q] = seen[q] /\ endpoint'[q] = endpoint[q]
    BY <2>1 DEF HooksInv, LokiTypeOK
  <2> QED
    BY <1>1, <1>2, <2>1, <2>2, ForwardingKept
<1> QED
  BY LokiSteps, <1>5, <1>6, <1>7, <1>8, <1>9, <1>10

LEMMA ForwardingStep ==
    ASSUME HooksInv, HooksInv', ForwardingInv, [Next]_vars
    PROVE  ForwardingInv'
<1>1. ForwarderTypeOK'
  BY ForwarderTypes DEF ForwardingInv
<1>2. ASSUME NEW k \in HookKinds, RunHook(k) PROVE ForwardingInv'
  BY <1>1, <1>2, ForwardingAfterHook DEF ForwardingInv
<1>3. CASE LokiStep
  BY <1>1, <1>3, ForwardingAfterLoki DEF ForwardingInv
<1>4. ASSUME UNCHANGED <<related, seen, endpoint, hooks>>,
             \A c \in connected' :
                PebbleReady(c) \in hooks' \/ (c \in connected /\ target'[c] = target[c])
      PROVE  ForwardingInv'
  <2>1. \A r \in LoggingRelations : r \in Relations
    BY DEF Relations
  <2> QED
    BY <1>1, <1>4, <2>1, ForwardingKept DEF ForwardingInv
<1>5. ASSUME NEW k \in HookKinds, HookRaises(k) PROVE ForwardingInv'
  BY <1>4, <1>5 DEF HookRaises, Raise, relationVars, lokiVars
<1>6. ASSUME NEW c \in Containers, ContainerStarts(c) PROVE ForwardingInv'
  <2>1. /\ hooks' = hooks \cup {PebbleReady(c)} /\ connected' = connected \cup {c}
        /\ UNCHANGED <<related, seen, endpoint, target>>
    BY <1>6 DEF ContainerStarts, StartContainer, relationVars, lokiVars
  <2> QED
    BY <1>1, <2>1, ForwardingKept DEF ForwardingInv
<1>7. ASSUME NEW c \in Containers, ContainerStops(c) PROVE ForwardingInv'
  <2>1. /\ connected' = connected \ {c}
        /\ UNCHANGED <<related, seen, endpoint, hooks>>
        /\ target' = [target EXCEPT ![c] = [t \in LogTargets |-> None]]
    BY <1>7 DEF ContainerStops, LoseContainer, ForwarderContainer, relationVars, lokiVars
  <2>2. \A d \in connected' : d \in connected /\ target'[d] = target[d]
    BY <2>1 DEF HooksInv, LokiTypeOK, ForwardingInv, ForwarderTypeOK
  <2> QED
    BY <1>4, <2>1, <2>2
<1>8. CASE UNCHANGED vars
  BY <1>4, <1>8 DEF vars, jujuVars, relationVars, lokiVars
<1> QED
  BY <1>2, <1>3, <1>5, <1>6, <1>7, <1>8 DEF Next

LEMMA ForwardingSafe == HooksInv /\ ForwardingInv => SettledForwarding
<1>1. SUFFICES ASSUME HooksInv, ForwardingInv, Settled, Active # {}, NEW c \in Containers
               PROVE  /\ Forwarding(c) = Active
                      /\ \A t \in Active : target[c][t] = endpoint[t[1]][t[2]]
  BY DEF SettledForwarding
<1>2. Active = ActiveNow
  <2>1. \A r \in LoggingRelations : seen[r] = members[r] /\ (r \in related <=> Alive(r))
    BY <1>1, HooksDone DEF Settled, Relations
  <2> QED
    BY <2>1 DEF Active, ActiveNow, LogTargets
<1>3. UpToDate(c)
  BY <1>1, <1>2 DEF Settled, ForwardingInv, ForwardingOwed
<1>4. \A t \in ActiveNow : endpoint[t[1]][t[2]] \in Urls
  <2>1. ASSUME NEW t \in ActiveNow PROVE endpoint[t[1]][t[2]] \in Urls
    <3>1. t[1] \in Relations /\ t[2] \in LokiUnits /\ endpoint[t[1]][t[2]] # None
      BY <2>1 DEF ActiveNow, LogTargets, Ready, Relations
    <3> QED
      BY <1>1, <3>1 DEF HooksInv, LokiTypeOK
  <2> QED
    BY <2>1
<1>5. \A t \in LogTargets : t \in Forwarding(c) <=> t \in ActiveNow
  BY <1>3, <1>4, OffAssumption, UrlsAssumption DEF UpToDate, Forwarding, ActiveNow
<1> QED
  BY <1>2, <1>3, <1>5 DEF Forwarding, ActiveNow, UpToDate

-----------------------------------------------------------------------------
(* LogProxyConsumer.                                                         *)
LEMMA PromtailInit == Init => PromtailInv
<1>1. SUFFICES ASSUME Init PROVE PromtailInv
  OBVIOUS
<1>2. Proxy \in Relations /\ ~Alive(Proxy)
  BY <1>1 DEF Relations, Init, LokiInit, Alive
<1> QED
  BY <1>1, <1>2 DEF Init, ProxyInit, PromtailInv, ProxyTypeOK, RunningInv,
     ConfiguredInv, Configurable

LEMMA ClientsAreUrls ==
    ASSUME HooksInv, NEW k \in HookKinds
    PROVE  ClientsIn(k) \subseteq Urls
<1>1. Proxy \in Relations
  BY DEF Relations
<1>2. SeenIn(k)[Proxy] \subseteq LokiUnits
  BY <1>1, SeenInHook DEF HooksInv, LokiTypeOK
<1> QED
  BY <1>1, <1>2 DEF ClientsIn, HooksInv, LokiTypeOK

(* What a hook of the "log-proxy" integration or of the workload container   *)
(* does to promtail.                                                         *)
LEMMA SetupCases ==
    ASSUME NEW k, SetupPromtail(k), binaryUrl[Proxy]
    PROVE  /\ clients' = ClientsIn(k) /\ plan'
           /\ running' = IF ClientsIn(k) # {} THEN binary' ELSE running
BY DEF SetupPromtail

LEMMA PromtailTypes ==
    ASSUME HooksInv, ProxyTypeOK, [Next]_vars
    PROVE  ProxyTypeOK'
<1>1. ASSUME NEW k \in HookKinds, SetupPromtail(k), UNCHANGED attached PROVE ProxyTypeOK'
  BY <1>1, ClientsAreUrls DEF SetupPromtail, EnsureBinary, promtail, ProxyTypeOK
<1>2. ASSUME NEW k \in HookKinds, Restart(k) \/ Stop(k), UNCHANGED attached PROVE ProxyTypeOK'
  BY <1>2, ClientsAreUrls DEF Restart, Stop, ProxyTypeOK
<1>3. ASSUME UNCHANGED proxyVars PROVE ProxyTypeOK'
  BY <1>3 DEF proxyVars, promtail, ProxyTypeOK
<1>4. ASSUME NEW k \in HookKinds, RunHook(k) PROVE ProxyTypeOK'
  <2>1. /\ SetupPromtail(k) \/ Restart(k) \/ Stop(k) \/ ProxyUnchanged
        /\ UNCHANGED attached
    BY <1>4 DEF RunHook, ProxyHook
  <2> QED
    BY <1>1, <1>2, <1>3, <2>1 DEF ProxyUnchanged, proxyVars
<1>5. ASSUME NEW k \in HookKinds, HookRaises(k) PROVE ProxyTypeOK'
  BY <1>5, ClientsAreUrls DEF HookRaises, ProxyRaises, ProxyTypeOK
<1>6. ASSUME NEW c \in Containers, ContainerStops(c) PROVE ProxyTypeOK'
  BY <1>6 DEF ContainerStops, ProxyContainer, promtail, ProxyTypeOK
<1> QED
  BY <1>3, <1>4, <1>5, <1>6, LokiSteps DEF Next, ContainerStarts, vars

(* While promtail runs, what it sends to is not empty: the last unit that    *)
(* departs stops it, and a container that goes takes it along.               *)
LEMMA RunningAfterHook ==
    ASSUME HooksInv, PromtailInv, NEW k \in HookKinds, RunHook(k)
    PROVE  RunningInv'
<1>1. /\ seen' = SeenIn(k) /\ related' = VisibleIn(k) /\ endpoint' = endpoint
      /\ connected' = connected /\ ProxyHook(k) /\ Runs(k)
  BY DEF RunHook, Dequeue, lokiVars
<1>2. ClientsNow' = ClientsIn(k)
  BY <1>1 DEF ClientsNow, ClientsIn
<1>3. Proxy \in Relations
  BY DEF Relations
<1>4. SUFFICES ASSUME running' PROVE ClientsIn(k) # {} /\ Workload \in connected
  BY <1>1, <1>2 DEF RunningInv
<1>5. ASSUME ~IsDeparted(k), running PROVE ClientsIn(k) # {} /\ Workload \in connected
  <2>1. ClientsNow # {} /\ Workload \in connected
    BY <1>5 DEF PromtailInv, RunningInv
  <2>2. Proxy \in related /\ seen[Proxy] # {}
    BY <2>1 DEF ClientsNow
  <2>3. k # Broken(Proxy)
    BY <1>1, <1>3, <2>2, BrokenLast
  <2>4. Proxy \in VisibleIn(k)
    BY <2>2, <2>3, HookNames DEF VisibleIn
  <2>5. seen[Proxy] \subseteq SeenIn(k)[Proxy]
    <3>1. CASE \E l \in LokiUnits : k = Joined(Proxy, l)
      BY <3>1, <1>3, SeenInHook
    <3>2. CASE ~\E l \in LokiUnits : k = Joined(Proxy, l)
      BY <3>2, <1>3, <1>5, SeenInHook DEF IsDeparted
    <3> QED
      BY <3>1, <3>2
  <2>6. ClientsNow \subseteq ClientsIn(k)
    BY <2>4, <2>5 DEF ClientsNow, ClientsIn
  <2> QED
    BY <2>1, <2>6
<1>6. CASE k \in {Created(Proxy), PebbleReady(Workload)}
  <2>1. ~IsDeparted(k) /\ k # Changed(Proxy)
    BY <1>6, HookNames DEF IsDeparted
  <2>2. CASE running
    BY <1>5, <2>1, <2>2
  <2>3. CASE ~running
    BY <1>1, <1>4, <1>6, <2>1, <2>3 DEF ProxyHook, SetupPromtail, ProxyUnchanged, promtail
  <2> QED
    BY <2>2, <2>3
<1>7. CASE k = Changed(Proxy)
  <2>1. ~IsDeparted(k) /\ k \notin {Created(Proxy), PebbleReady(Workload)}
    BY <1>7, HookNames DEF IsDeparted
  <2>2. CASE running
    BY <1>5, <2>1, <2>2
  <2>3. CASE ~running
    BY <1>1, <1>4, <1>7, <2>1, <2>3 DEF ProxyHook, SetupPromtail, Restart, ProxyUnchanged, promtail
  <2> QED
    BY <2>2, <2>3
<1>8. CASE IsDeparted(k)
  <2>1. k \notin {Created(Proxy), PebbleReady(Workload), Changed(Proxy)}
    BY <1>8, HookNames DEF IsDeparted
  <2>2. Workload \in connected
    BY <1>1, <1>4, <1>8, <2>1 DEF ProxyHook, ProxyUnchanged, promtail, PromtailInv, RunningInv
  <2>3. IF ClientsIn(k) = {} THEN Stop(k) ELSE Restart(k)
    BY <1>1, <1>8, <2>1, <2>2 DEF ProxyHook
  <2> QED
    BY <1>4, <2>2, <2>3 DEF Stop
<1>9. CASE ~IsDeparted(k) /\ k \notin {Created(Proxy), PebbleReady(Workload), Changed(Proxy)}
  BY <1>1, <1>4, <1>5, <1>9 DEF ProxyHook, ProxyUnchanged, promtail
<1> QED
  BY <1>6, <1>7, <1>8, <1>9

LEMMA RunningKept ==
    ASSUME RunningInv, UNCHANGED running, UNCHANGED connected,
           Proxy \in related => Proxy \in related' /\ seen'[Proxy] = seen[Proxy],
           \A l \in seen[Proxy] : endpoint[Proxy][l] # None => endpoint'[Proxy][l] # None
    PROVE  RunningInv'
<1>1. SUFFICES ASSUME running' PROVE ClientsNow' # {} /\ Workload \in connected'
  BY DEF RunningInv
<1>2. ClientsNow # {} /\ Workload \in connected
  BY <1>1 DEF RunningInv
<1>3. PICK l \in seen[Proxy] : endpoint[Proxy][l] # None /\ Proxy \in related
  BY <1>2 DEF ClientsNow
<1>4. Proxy \in related' /\ l \in seen'[Proxy] /\ endpoint'[Proxy][l] # None
  BY <1>3
<1>5. endpoint'[Proxy][l] \in ClientsNow'
  BY <1>4 DEF ClientsNow
<1> QED
  BY <1>2, <1>5

LEMMA RunningStep ==
    ASSUME HooksInv, PromtailInv, [Next]_vars
    PROVE  RunningInv'
<1>1. Proxy \in Relations /\ RunningInv
  BY DEF Relations, PromtailInv
<1>2. ASSUME UNCHANGED <<running, connected, related, seen, endpoint>> PROVE RunningInv'
  BY <1>1, <1>2, RunningKept
<1>3. ASSUME NEW k \in HookKinds, RunHook(k) PROVE RunningInv'
  BY <1>3, RunningAfterHook
<1>4. ASSUME NEW k \in HookKinds, HookRaises(k) PROVE RunningInv'
  BY <1>4 DEF HookRaises, ProxyRaises, RunningInv
<1>5. CASE LokiStep
  <2>1. running' = running
    BY <1>5, LokiSteps DEF proxyVars, promtail
  <2>2. ASSUME NEW r \in Relations, PublishBinaryUrl(r) \/ Remove(r)
        PROVE  UNCHANGED <<connected, related, seen, endpoint>>
    BY <2>2 DEF PublishBinaryUrl, Remove, relationVars, lokiVars
  <2>3. ASSUME NEW r \in Relations, NEW l \in LokiUnits, RemoveLokiUnit(r, l)
        PROVE  UNCHANGED <<connected, related, seen, endpoint>>
    BY <2>3 DEF RemoveLokiUnit, relationVars, lokiVars
  <2>4. ASSUME NEW r \in Relations, NEW l \in LokiUnits, FirstEndpoint(r, l) \/ MoveEndpoint(r, l)
        PROVE  RunningInv'
    <3>1. PICK url \in Urls : PublishEndpoint(r, l, url)
      BY <2>4, UrlsAssumption DEF FirstEndpoint, MoveEndpoint
    <3>2. \A m \in seen[Proxy] : endpoint[Proxy][m] # None => endpoint'[Proxy][m] # None
      BY <1>1, <3>1, UrlsAssumption DEF PublishEndpoint, HooksInv, LokiTypeOK
    <3>3. UNCHANGED <<connected, related, seen>>
      BY <3>1 DEF PublishEndpoint, relationVars
    <3> QED
      BY <1>1, <2>1, <3>2, <3>3, RunningKept
  <2>5. ASSUME NEW r \in Relations, NEW l \in LokiUnits, AddLokiUnit(r, l)
        PROVE  RunningInv'
    <3>1. \A m \in seen[Proxy] : endpoint'[Proxy][m] = endpoint[Proxy][m]
      BY <1>1, <2>5 DEF AddLokiUnit, HooksInv, LokiTypeOK
    <3>2. UNCHANGED <<connected, related, seen>>
      BY <2>5 DEF AddLokiUnit
    <3> QED
      BY <1>1, <2>1, <3>1, <3>2, RunningKept
  <2>6. ASSUME NEW r \in Relations, NEW l \in LokiUnits, Integrate(r, l)
        PROVE  RunningInv'
    <3>1. /\ r \notin related /\ related' = related \cup {r} /\ connected' = connected
          /\ r # Proxy => seen'[Proxy] = seen[Proxy] /\ endpoint'[Proxy] = endpoint[Proxy]
      BY <1>1, <2>6 DEF Integrate, HooksInv, LokiTypeOK
    <3>2. CASE r = Proxy
      BY <1>1, <2>1, <3>1, <3>2 DEF RunningInv, ClientsNow
    <3>3. CASE r # Proxy
      BY <1>1, <2>1, <3>1, <3>3, RunningKept
    <3> QED
      BY <3>2, <3>3
  <2> QED
    BY <1>2, <1>5, <2>1, <2>2, <2>3, <2>4, <2>5, <2>6, LokiSteps
<1>6. ASSUME NEW c \in Containers, ContainerStarts(c) PROVE RunningInv'
  <2>1. UNCHANGED <<running, related, seen, endpoint>> /\ connected' = connected \cup {c}
    BY <1>6 DEF ContainerStarts, StartContainer, relationVars, lokiVars, proxyVars, promtail
  <2> QED
    BY <1>1, <2>1 DEF RunningInv, ClientsNow
<1>7. ASSUME NEW c \in Containers, ContainerStops(c) PROVE RunningInv'
  <2>1. UNCHANGED <<related, seen, endpoint>> /\ connected' = connected \ {c}
    BY <1>7 DEF ContainerStops, LoseContainer, relationVars, lokiVars
  <2>2. IF c = Workload THEN ~running' ELSE running' = running
    BY <1>7 DEF ContainerStops, ProxyContainer, promtail
  <2> QED
    BY <1>1, <2>1, <2>2 DEF RunningInv, ClientsNow
<1>8. CASE UNCHANGED vars
  BY <1>2, <1>8 DEF vars, jujuVars, relationVars, lokiVars, proxyVars, promtail
<1> QED
  BY <1>3, <1>4, <1>5, <1>6, <1>7, <1>8 DEF Next

(* A hook that LogProxyConsumer handles gives promtail its configuration, if *)
(* the workload container answers.                                           *)
LEMMA ConfiguredAfterHook ==
    ASSUME HooksInv, PromtailInv, NEW k \in HookKinds, RunHook(k)
    PROVE  ConfiguredInv'
<1>1. /\ seen' = SeenIn(k) /\ related' = VisibleIn(k) /\ dying' = dying \cap related'
      /\ endpoint' = endpoint /\ binaryUrl' = binaryUrl /\ connected' = connected
      /\ ProxyHook(k) /\ Dequeue(k)
  BY DEF RunHook, Dequeue, lokiVars
<1>2. ClientsNow' = ClientsIn(k)
  BY <1>1 DEF ClientsNow, ClientsIn
<1>3. Proxy \in Relations
  BY DEF Relations
<1>4. SUFFICES ASSUME Configurable', ~PromtailOwed'
               PROVE  plan' /\ clients' = ClientsIn(k) /\ (ClientsIn(k) # {} => running')
  BY <1>2 DEF ConfiguredInv, Configured
<1>5. /\ Proxy \in VisibleIn(k) /\ Alive(Proxy) /\ Workload \in connected /\ binaryUrl[Proxy]
      /\ plan' => binary'
  BY <1>1, <1>4 DEF Configurable, Alive, VisibleIn
<1>6. /\ Changed(Proxy) \notin hooks' /\ PebbleReady(Workload) \notin hooks'
      /\ \A l \in LokiUnits : Departed(Proxy, l) \notin hooks'
      /\ seen'[Proxy] # {}
  BY <1>4 DEF PromtailOwed, Changed, PebbleReady, Departed
<1>7. CASE k \in {Created(Proxy), PebbleReady(Workload)}
  <2>1. ~IsDeparted(k) /\ k # Changed(Proxy)
    BY <1>7, HookNames DEF IsDeparted
  <2> QED
    BY <1>1, <1>5, <1>7, <2>1, SetupCases DEF ProxyHook
<1>8. CASE k = Changed(Proxy)
  <2>1. ~IsDeparted(k) /\ k \notin {Created(Proxy), PebbleReady(Workload)}
    BY <1>8, HookNames DEF IsDeparted
  <2>2. IF ~plan THEN SetupPromtail(k) ELSE Restart(k)
    BY <1>1, <1>5, <1>8, <2>1 DEF ProxyHook
  <2> QED
    BY <1>5, <2>2, SetupCases DEF Restart
<1>9. CASE IsDeparted(k)
  <2>1. k \notin {Created(Proxy), PebbleReady(Workload), Changed(Proxy)}
    BY <1>9, HookNames DEF IsDeparted
  <2>2. IF ClientsIn(k) = {} THEN Stop(k) ELSE Restart(k)
    BY <1>1, <1>5, <1>9, <2>1 DEF ProxyHook
  <2>3. CASE ClientsIn(k) = {}
    BY <2>2, <2>3 DEF Stop
  <2>4. CASE ClientsIn(k) # {}
    <3>1. Restart(k)
      BY <2>2, <2>4
    <3>2. plan /\ plan' = plan /\ clients' = ClientsIn(k)
      BY <2>4, <3>1 DEF Restart
    <3>3. running' = (ClientsIn(k) # {} \/ running)
      BY <3>1 DEF Restart
    <3> QED
      BY <2>4, <3>2, <3>3
  <2> QED
    BY <2>3, <2>4
<1>10. CASE ~IsDeparted(k) /\ k \notin {Created(Proxy), PebbleReady(Workload), Changed(Proxy)}
  <2>1. UNCHANGED <<plan, binary, clients, running>>
    BY <1>1, <1>10 DEF ProxyHook, ProxyUnchanged, promtail
  <2>2. \A l \in LokiUnits : k # Joined(Proxy, l) /\ k # Departed(Proxy, l)
    BY <1>1, <1>3, <1>6, <1>10, DequeueHooks DEF IsDeparted
  <2>3. SeenIn(k)[Proxy] = seen[Proxy]
    BY <1>3, <2>2, SeenInHook
  <2>4. ClientsNow = ClientsIn(k)
    BY <1>5, <2>3 DEF ClientsNow, ClientsIn, Alive
  <2>5. /\ Changed(Proxy) \notin hooks /\ PebbleReady(Workload) \notin hooks
        /\ \A l \in LokiUnits : Departed(Proxy, l) \notin hooks
    BY <1>1, <1>3, <1>6, <1>10, <2>2, DequeueHooks DEF Dequeue
  <2>6. ~PromtailOwed
    BY <1>1, <1>6, <2>3, <2>5 DEF PromtailOwed
  <2>7. Configurable
    BY <1>5, <2>1 DEF Configurable
  <2> QED
    BY <2>1, <2>4, <2>6, <2>7 DEF PromtailInv, ConfiguredInv, Configured
<1> QED
  BY <1>7, <1>8, <1>9, <1>10

LEMMA ConfiguredKept ==
    ASSUME ConfiguredInv, UNCHANGED <<plan, binary, clients, running>>,
           Workload \in connected' => Workload \in connected \/ PebbleReady(Workload) \in hooks',
           \/ PromtailOwed'
           \/ /\ PromtailOwed => PromtailOwed'
              /\ Alive(Proxy)' => /\ Alive(Proxy) /\ seen'[Proxy] = seen[Proxy]
                                  /\ binaryUrl'[Proxy] => binaryUrl[Proxy]
                                  /\ \A l \in seen[Proxy] : endpoint'[Proxy][l] = endpoint[Proxy][l]
    PROVE  ConfiguredInv'
<1>1. SUFFICES ASSUME Configurable', ~PromtailOwed' PROVE Configured'
  BY DEF ConfiguredInv
<1>2. /\ Alive(Proxy) /\ seen'[Proxy] = seen[Proxy] /\ ~PromtailOwed
      /\ binaryUrl'[Proxy] => binaryUrl[Proxy]
      /\ \A l \in seen[Proxy] : endpoint'[Proxy][l] = endpoint[Proxy][l]
  BY <1>1 DEF Configurable
<1>3. Workload \in connected
  BY <1>1 DEF Configurable, PromtailOwed, PebbleReady
<1>4. Configurable
  BY <1>1, <1>2, <1>3 DEF Configurable
<1>5. ClientsNow' = ClientsNow
  BY <1>1, <1>2 DEF ClientsNow, Configurable, Alive
<1> QED
  BY <1>2, <1>4, <1>5 DEF ConfiguredInv, Configured

(* A URL that comes or moves is a hook that is owed, unless no unit has      *)
(* joined yet.                                                               *)
LEMMA ConfiguredAfterLoki ==
    ASSUME HooksInv, PromtailInv, LokiStep
    PROVE  ConfiguredInv'
<1>1. /\ Proxy \in Relations /\ ConfiguredInv
      /\ UNCHANGED <<plan, binary, clients, running>>
  BY LokiSteps DEF Relations, PromtailInv, proxyVars, promtail
<1>2. Workload \in Containers
  BY ContainersAssumption
<1>3. ASSUME NEW r \in Relations, Publish(r), UNCHANGED <<related, dying, seen, connected>>,
             r # Proxy => UNCHANGED <<binaryUrl[Proxy], endpoint[Proxy]>>
      PROVE  ConfiguredInv'
  <2>1. hooks' = hooks \cup (IF seen[r] # {} THEN {Changed(r)} ELSE {})
    BY <1>3 DEF Publish
  <2>2. CASE r = Proxy
    <3>1. PromtailOwed'
      BY <1>3, <2>1, <2>2 DEF PromtailOwed, Changed
    <3> QED
      BY <1>1, <1>3, <3>1, ConfiguredKept
  <2>3. CASE r # Proxy
    <3>1. PromtailOwed => PromtailOwed'
      BY <1>3, <2>1 DEF PromtailOwed, Changed, PebbleReady, Departed
    <3>2. Alive(Proxy)' => Alive(Proxy)
      BY <1>3 DEF Alive
    <3> QED
      BY <1>1, <1>3, <2>3, <3>1, <3>2, ConfiguredKept
  <2> QED
    BY <2>2, <2>3
<1>4. ASSUME NEW r \in Relations, NEW l \in LokiUnits, FirstEndpoint(r, l) \/ MoveEndpoint(r, l)
      PROVE  ConfiguredInv'
  <2>1. PICK url : PublishEndpoint(r, l, url)
    BY <1>4 DEF FirstEndpoint, MoveEndpoint
  <2>2. /\ Publish(r) /\ UNCHANGED <<related, dying, seen, connected>>
        /\ r # Proxy => UNCHANGED <<binaryUrl[Proxy], endpoint[Proxy]>>
    BY <1>1, <2>1 DEF PublishEndpoint, relationVars, HooksInv, LokiTypeOK
  <2> QED
    BY <1>3, <2>2
<1>5. ASSUME NEW r \in Relations, PublishBinaryUrl(r) PROVE ConfiguredInv'
  <2>1. /\ Publish(r) /\ UNCHANGED <<related, dying, seen, connected>>
        /\ r # Proxy => UNCHANGED <<binaryUrl[Proxy], endpoint[Proxy]>>
    BY <1>1, <1>5 DEF PublishBinaryUrl, relationVars, HooksInv, LokiTypeOK
  <2> QED
    BY <1>3, <2>1
<1>6. ASSUME NEW r \in Relations, Remove(r) PROVE ConfiguredInv'
  <2>1. /\ hooks' = (Leaving(r, members[r]) \ ({Changed(r)} \ {failed})) \cup {Broken(r)}
        /\ UNCHANGED <<related, seen, endpoint, binaryUrl, connected>>
        /\ dying' = dying \cup {r}
    BY <1>6 DEF Remove, Dying, lokiVars
  <2>2. CASE r = Proxy
    <3>1. ~Alive(Proxy)'
      BY <2>1, <2>2 DEF Alive
    <3> QED
      BY <3>1 DEF ConfiguredInv, Configurable
  <2>3. CASE r # Proxy
    <3>1. /\ Changed(Proxy) \in hooks => Changed(Proxy) \in hooks'
          /\ PebbleReady(Workload) \in hooks => PebbleReady(Workload) \in hooks'
          /\ \A l \in LokiUnits : Departed(Proxy, l) \in hooks => Departed(Proxy, l) \in hooks'
      BY <1>1, <1>2, <2>1, <2>3, LeavingHooks, HookNames
    <3>2. PromtailOwed => PromtailOwed'
      BY <2>1, <3>1 DEF PromtailOwed, Changed, PebbleReady, Departed
    <3>3. Alive(Proxy)' => Alive(Proxy)
      BY <2>1 DEF Alive
    <3> QED
      BY <1>1, <2>1, <3>2, <3>3, ConfiguredKept
  <2> QED
    BY <2>2, <2>3
<1>7. ASSUME NEW r \in Relations, NEW l \in LokiUnits, RemoveLokiUnit(r, l)
      PROVE  ConfiguredInv'
  <2>1. /\ hooks' = Leaving(r, {l}) /\ {l} \in SUBSET members[r]
        /\ UNCHANGED <<related, dying, seen, endpoint, binaryUrl, connected>>
    BY <1>7 DEF RemoveLokiUnit, lokiVars
  <2>2. /\ Changed(Proxy) \in hooks => Changed(Proxy) \in hooks'
        /\ PebbleReady(Workload) \in hooks => PebbleReady(Workload) \in hooks'
        /\ \A m \in LokiUnits : Departed(Proxy, m) \in hooks => Departed(Proxy, m) \in hooks'
    BY <1>1, <1>2, <2>1, LeavingHooks
  <2>3. PromtailOwed => PromtailOwed'
    BY <2>1, <2>2 DEF PromtailOwed, Changed, PebbleReady, Departed
  <2>4. Alive(Proxy)' => Alive(Proxy)
    BY <2>1 DEF Alive
  <2> QED
    BY <1>1, <2>1, <2>3, <2>4, ConfiguredKept
<1>8. ASSUME NEW r \in Relations, NEW l \in LokiUnits, AddLokiUnit(r, l)
      PROVE  ConfiguredInv'
  <2>1. /\ hooks' = hooks \cup {Joined(r, l)}
        /\ UNCHANGED <<related, dying, seen, binaryUrl, connected>>
    BY <1>8 DEF AddLokiUnit
  <2>2. \A m \in seen[Proxy] : endpoint'[Proxy][m] = endpoint[Proxy][m]
    BY <1>1, <1>8 DEF AddLokiUnit, HooksInv, LokiTypeOK
  <2>3. PromtailOwed => PromtailOwed'
    BY <2>1 DEF PromtailOwed, Changed, PebbleReady, Departed
  <2>4. Alive(Proxy)' => Alive(Proxy)
    BY <2>1 DEF Alive
  <2> QED
    BY <1>1, <2>1, <2>2, <2>3, <2>4, ConfiguredKept
<1>9. ASSUME NEW r \in Relations, NEW l \in LokiUnits, Integrate(r, l)
      PROVE  ConfiguredInv'
  <2>1. /\ hooks' = hooks \cup {Created(r), Joined(r, l)}
        /\ related' = related \cup {r} /\ UNCHANGED <<dying, connected>>
        /\ r = Proxy => seen'[Proxy] = {}
        /\ r # Proxy => UNCHANGED <<seen[Proxy], endpoint[Proxy], binaryUrl[Proxy]>>
    BY <1>1, <1>9 DEF Integrate, HooksInv, LokiTypeOK
  <2>2. CASE r = Proxy
    <3>1. PromtailOwed'
      BY <2>1, <2>2 DEF PromtailOwed
    <3> QED
      BY <1>1, <2>1, <3>1, ConfiguredKept
  <2>3. CASE r # Proxy
    <3>1. PromtailOwed => PromtailOwed'
      BY <2>1, <2>3 DEF PromtailOwed, Changed, PebbleReady, Departed
    <3>2. Alive(Proxy)' => Alive(Proxy)
      BY <2>1, <2>3 DEF Alive
    <3> QED
      BY <1>1, <2>1, <2>3, <3>1, <3>2, ConfiguredKept
  <2> QED
    BY <2>2, <2>3
<1> QED
  BY LokiSteps, <1>4, <1>5, <1>6, <1>7, <1>8, <1>9

LEMMA PromtailStep ==
    ASSUME HooksInv, PromtailInv, [Next]_vars
    PROVE  PromtailInv'
<1>1. ProxyTypeOK' /\ RunningInv'
  BY PromtailTypes, RunningStep DEF PromtailInv
<1>2. ConfiguredInv /\ Workload \in Containers
  BY ContainersAssumption DEF PromtailInv
<1>3. ASSUME UNCHANGED <<relationVars, lokiVars>>, UNCHANGED <<plan, binary, clients, running>>,
             hooks \subseteq hooks',
             Workload \in connected' => Workload \in connected \/ PebbleReady(Workload) \in hooks'
      PROVE  ConfiguredInv'
  <2>1. PromtailOwed => PromtailOwed'
    BY <1>3 DEF PromtailOwed, Changed, PebbleReady, Departed, relationVars
  <2>2. /\ Alive(Proxy)' => Alive(Proxy)
        /\ UNCHANGED <<seen, endpoint, binaryUrl>>
    BY <1>3 DEF Alive, relationVars, lokiVars
  <2> QED
    BY <1>2, <1>3, <2>1, <2>2, ConfiguredKept
<1>4. ASSUME NEW k \in HookKinds, RunHook(k) PROVE ConfiguredInv'
  BY <1>4, ConfiguredAfterHook
<1>5. ASSUME NEW k \in HookKinds, HookRaises(k) PROVE ConfiguredInv'
  <2>1. /\ UNCHANGED <<relationVars, lokiVars, hooks, connected, plan, binary>>
        /\ k \in hooks /\ (k = Changed(Proxy) \/ IsDeparted(k))
    BY <1>5 DEF HookRaises, Raise, Runs, ProxyRaises
  <2>2. PromtailOwed'
    BY <2>1 DEF PromtailOwed, IsDeparted, Changed, Departed, PebbleReady
  <2> QED
    BY <2>2 DEF ConfiguredInv
<1>6. ASSUME LokiStep PROVE ConfiguredInv'
  BY <1>6, ConfiguredAfterLoki
<1>7. ASSUME NEW c \in Containers, ContainerStarts(c) PROVE ConfiguredInv'
  <2>1. /\ UNCHANGED <<relationVars, lokiVars, plan, binary, clients, running>>
        /\ connected' = connected \cup {c} /\ hooks' = hooks \cup {PebbleReady(c)}
    BY <1>7 DEF ContainerStarts, StartContainer, proxyVars, promtail
  <2> QED
    BY <1>3, <2>1
<1>8. ASSUME NEW c \in Containers, ContainerStops(c) PROVE ConfiguredInv'
  <2>1. /\ UNCHANGED <<relationVars, lokiVars, hooks>> /\ connected' = connected \ {c}
        /\ c # Workload => UNCHANGED <<plan, binary, clients, running>>
    BY <1>8 DEF ContainerStops, LoseContainer, ProxyContainer, promtail
  <2>2. CASE c = Workload
    BY <2>1, <2>2 DEF ConfiguredInv, Configurable
  <2>3. CASE c # Workload
    BY <1>3, <2>1, <2>3
  <2> QED
    BY <2>2, <2>3
<1>9. ASSUME UNCHANGED vars PROVE ConfiguredInv'
  BY <1>3, <1>9 DEF vars, jujuVars, proxyVars, promtail
<1>10. ConfiguredInv'
  BY <1>4, <1>5, <1>6, <1>7, <1>8, <1>9 DEF Next
<1> QED
  BY <1>1, <1>10 DEF PromtailInv

LEMMA PromtailSafe == HooksInv /\ PromtailInv => SettledPromtail /\ PromtailStops
<1>1. SUFFICES ASSUME HooksInv, PromtailInv PROVE SettledPromtail /\ PromtailStops
  OBVIOUS
<1>2. Proxy \in Relations /\ Workload \in Containers
  BY ContainersAssumption DEF Relations
<1>3. PromtailStops
  BY <1>1 DEF PromtailStops, PromtailInv, RunningInv, ClientsNow
<1>4. SettledPromtail
  <2>1. SUFFICES ASSUME Settled, Alive(Proxy), binaryUrl[Proxy], plan => binary
                 PROVE  plan /\ clients = Clients /\ running = (Clients # {})
    BY DEF SettledPromtail
  <2>2. hooks = {} /\ Workload \in connected
    BY <1>2, <2>1 DEF Settled
  <2>3. seen[Proxy] = members[Proxy] /\ seen[Proxy] # {} /\ Proxy \in related
    BY <1>1, <1>2, <2>1, <2>2, HooksDone DEF HooksInv, MembersAlive, Alive
  <2>4. ClientsNow = Clients
    BY <2>3 DEF ClientsNow, Clients
  <2>5. Configured
    BY <1>1, <2>1, <2>2, <2>3 DEF PromtailInv, ConfiguredInv, Configurable, PromtailOwed
  <2>6. running \in BOOLEAN /\ (running => Clients # {})
    BY <1>1, <2>4 DEF PromtailInv, RunningInv, ProxyTypeOK
  <2> QED
    BY <2>4, <2>5, <2>6 DEF Configured
<1> QED
  BY <1>3, <1>4

-----------------------------------------------------------------------------

(* The types of all three modules, from the same invariants.                 *)
LEMMA LibrariesSafe == Spec => [](HooksInv /\ ForwardingInv /\ PromtailInv)
<1> DEFINE Inv == HooksInv /\ ForwardingInv /\ PromtailInv
<1>1. Init => Inv
  BY HooksInit, ForwardingInit, PromtailInit
<1>2. Inv /\ [Next]_vars => Inv'
  BY HooksStep, ForwardingStep, PromtailStep
<1>3. Spec => []Inv
  <2> HIDE DEF Inv
  <2> QED
    BY <1>1, <1>2, PTL DEF Spec
<1> QED
  BY <1>3

(* In every behaviour, for any integrations with Loki, units of theirs and   *)
(* containers of the charm, every variable keeps its type.                   *)
THEOREM TypeCorrect == Spec => []TypeOK
<1>1. HooksInv /\ ForwardingInv /\ PromtailInv => TypeOK
  BY DEF TypeOK, HooksInv, ForwardingInv, PromtailInv
<1> QED
  BY <1>1, LibrariesSafe, PTL

(* Once the hooks have run, every container forwards to the present URL of   *)
(* every published Loki unit and to no other, however units came, left or    *)
(* moved and containers restarted meanwhile (_update_logging,                *)
(* disable_inactive_endpoints).                                              *)
THEOREM ForwardingSettles == Spec => []SettledForwarding
<1>1. HooksInv /\ ForwardingInv => SettledForwarding
  BY ForwardingSafe
<1> QED
  BY <1>1, LibrariesSafe, PTL

(* Once the hooks have run, promtail has exactly the URLs of the units there *)
(* are, and runs if there is one, unless its binary could not be had         *)
(* (_on_relation_changed, _setup_promtail).                                  *)
THEOREM PromtailSettles == Spec => []SettledPromtail
<1>1. HooksInv /\ PromtailInv => SettledPromtail
  BY PromtailSafe
<1> QED
  BY <1>1, LibrariesSafe, PTL

(* promtail never outlives the integration, although the library observes no *)
(* relation-broken: the last relation-departed has stopped it                *)
(* (_on_relation_departed).                                                  *)
THEOREM PromtailIsStopped == Spec => []PromtailStops
<1>1. HooksInv /\ PromtailInv => PromtailStops
  BY PromtailSafe
<1> QED
  BY <1>1, LibrariesSafe, PTL
=============================================================================
