---------------------------- MODULE LogForwarder ----------------------------
(***************************************************************************)
(* LogForwarder and its Pebble client: the log targets of every container,  *)
(* one for each Loki unit of the "logging" integrations.                    *)
(***************************************************************************)
EXTENDS LokiRelations

CONSTANT Off        \* a target that is disabled

ASSUME OffAssumption == Off \notin Urls

LogTargets == LoggingRelations \X LokiUnits

VARIABLE
    target          \* per container and Loki unit, the URL forwarded to, Off or None

ForwarderInit == target = [c \in Containers |-> [t \in LogTargets |-> None]]

ForwarderTypeOK == target \in [Containers -> [LogTargets -> Urls \cup {Off, None}]]

(* is_ready: a single unit without endpoint makes _extract_urls raise, and   *)
(* the integration counts as not ready.                                      *)
Ready(r, units) == units # {} /\ \A l \in units : endpoint[r][l] # None

(* _retrieve_endpoints_from_relation during hook k. *)
ActiveIn(k) ==
    {t \in LogTargets :
        t[1] \in VisibleIn(k) /\ Ready(t[1], SeenIn(k)[t[1]]) /\ t[2] \in SeenIn(k)[t[1]]}

(* A fault: targets that are no longer published are not disabled. *)
UpdateEndpointsKeeping(old, active) ==
    [t \in LogTargets |-> IF t \in active THEN endpoint[t[1]][t[2]] ELSE old[t]]

(* _update_endpoints: disable_inactive_endpoints, then enable_endpoints.     *)
UpdateEndpoints(old, active) ==
    [t \in LogTargets |->
        IF t \in active THEN endpoint[t[1]][t[2]]
        ELSE IF old[t] = None THEN None ELSE Off]

(* _update_logging observes every event of the integrations except created.  *)
UpdatesLogging(k) == k[1] \in LoggingRelations /\ k[2] # "created"

(* A fault: pebble-ready is not observed. *)
ForwarderHookWithoutReady(k) ==
    target' = [c \in Containers |->
        IF ActiveIn(k) # {} /\ UpdatesLogging(k) /\ c \in connected
        THEN UpdateEndpoints(target[c], ActiveIn(k)) ELSE target[c]]

(* Without endpoints nothing is done, neither in a relation's hook nor in    *)
(* pebble-ready.                                                             *)
ForwarderHook(k) ==
    target' = [c \in Containers |->
        IF /\ ActiveIn(k) # {}
           /\ (UpdatesLogging(k) /\ c \in connected) \/ k = PebbleReady(c)
        THEN UpdateEndpoints(target[c], ActiveIn(k)) ELSE target[c]]

(* A new container has an empty plan. *)
ForwarderContainer(c) == target' = [target EXCEPT ![c] = [t \in LogTargets |-> None]]

-----------------------------------------------------------------------------
Active == {t \in LogTargets : Alive(t[1]) /\ Ready(t[1], members[t[1]]) /\ t[2] \in members[t[1]]}

Forwarding(c) == {t \in LogTargets : target[c][t] \notin {Off, None}}

(* Whatever units of Loki came, left or moved, and whichever container was   *)
(* restarted meanwhile, in the end each container forwards to the present    *)
(* URL of every published unit and to no other, as long as there is one      *)
(* (_update_logging, disable_inactive_endpoints).                            *)
SettledForwarding ==
    Settled /\ Active # {} => \A c \in Containers :
        /\ Forwarding(c) = Active
        /\ \A t \in Active : target[c][t] = endpoint[t[1]][t[2]]
=============================================================================
