--------------------------- MODULE MetricsEndpoint ---------------------------
(***************************************************************************)
(* The metrics-endpoint integration: MetricsEndpointProvider in the charm   *)
(* and MetricsEndpointConsumer in Prometheus. The charm has one job, whose  *)
(* target is the wildcard of the server's port, and no alert rules here.    *)
(***************************************************************************)
EXTENDS CharmHooks

VARIABLES
    scrapeJobs,     \* scrape_metadata and scrape_jobs are in the application's databag
    scrapeUnit,     \* per unit, prometheus_scrape_unit_address, or None
    targets,        \* the addresses Prometheus scrapes
    stale,          \* the databags changed since Prometheus read them
    leaderMissed    \* the leadership moved since the leader last published

metricsVars == <<scrapeJobs, scrapeUnit, targets, stale, leaderMissed>>

MetricsInit ==
    /\ scrapeJobs = FALSE
    /\ scrapeUnit = [u \in Units |-> None]
    /\ targets = {}
    /\ stale = FALSE
    /\ leaderMissed = FALSE

MetricsTypeOK ==
    /\ scrapeJobs \in BOOLEAN
    /\ scrapeUnit \in [Units -> Addresses \cup {None}]
    /\ targets \in SUBSET (Units \X Addresses)
    /\ stale \in BOOLEAN
    /\ leaderMissed \in BOOLEAN

(* What set_scrape_job_spec observes: the charm passes config-changed as its *)
(* refresh event.                                                            *)
Refreshing(k) == k \in {<<"metrics-endpoint", "joined">>, <<"config-changed">>}

(* set_scrape_job_spec and _set_unit_ip. *)
SetScrapeJobSpec(u) ==
    /\ scrapeUnit' = [scrapeUnit EXCEPT ![u] = ip[u]]
    /\ scrapeJobs' = (scrapeJobs \/ u = leader)
    /\ leaderMissed' = (leaderMissed /\ u # leader)
    /\ stale' = (stale \/ scrapeUnit'[u] # scrapeUnit[u] \/ scrapeJobs' # scrapeJobs)

(* A fault: the address is published when the unit joins, once and for all. *)
MetricsHookJoinedOnly(u, k) ==
    /\ IF k = <<"metrics-endpoint", "joined">> THEN SetScrapeJobSpec(u)
       ELSE UNCHANGED <<scrapeJobs, scrapeUnit, stale, leaderMissed>>
    /\ UNCHANGED targets

MetricsHook(u, k) ==
    /\ IF Refreshing(k) /\ "metrics-endpoint" \in Visible(u, k) THEN SetScrapeJobSpec(u)
       ELSE UNCHANGED <<scrapeJobs, scrapeUnit, stale, leaderMissed>>
    /\ UNCHANGED targets

(* _relation_hosts: the units that have published their address. *)
Hosts == [u \in {v \in Units : scrapeUnit[v] # None} |-> scrapeUnit[u]]

(* expand_wildcard_targets_into_individual_jobs: the charm's only target is  *)
(* a wildcard, so there is a job for each host, named after the unit.        *)
Expanded(hosts) == {<<u, hosts[u]>> : u \in DOMAIN hosts}

(* jobs(): none without scrape_jobs in the databag. The names of the jobs    *)
(* differ, so that none is merged with another.                              *)
Jobs == IF scrapeJobs THEN Expanded(Hosts) ELSE {}

(* relation-changed in Prometheus: targets_changed. *)
TargetsChanged ==
    /\ "metrics-endpoint" \in related \ dying
    /\ stale
    /\ targets' = Jobs
    /\ stale' = FALSE
    /\ UNCHANGED <<juju, scrapeJobs, scrapeUnit, leaderMissed>>

NewMetrics(e) ==
    IF e = "metrics-endpoint" THEN
        /\ scrapeJobs' = FALSE
        /\ scrapeUnit' = [u \in Units |-> None]
        /\ targets' = {}
        /\ stale' = FALSE
        /\ leaderMissed' = FALSE
    ELSE UNCHANGED metricsVars

(* The library observes no leader-elected. *)
MetricsElect ==
    /\ leaderMissed' = ("metrics-endpoint" \in related /\ ~scrapeJobs)
    /\ UNCHANGED <<scrapeJobs, scrapeUnit, targets, stale>>

-----------------------------------------------------------------------------
(* Once everything has run, Prometheus scrapes every unit at its present     *)
(* address and nothing else, whichever pods were replaced; unless the        *)
(* leadership moved before the leader's relation-joined had run              *)
(* (set_scrape_job_spec, _relation_hosts).                                   *)
SettledScraped ==
    Settled /\ "metrics-endpoint" \in related \ dying /\ ~stale /\ ~leaderMissed =>
        targets = {<<u, ip[u]>> : u \in Units}
=============================================================================
