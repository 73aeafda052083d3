--------------------------- MODULE MCLivepatchCharm ---------------------------
(* Instances of LivepatchCharm for TLC. *)
EXTENDS LivepatchCharm, TLC
CONSTANTS u1, u2, c1, c2

OnPrem == [hosted |-> FALSE, sync_token |-> TRUE, url |-> TRUE, otel |-> FALSE]
NoUrl == [OnPrem EXCEPT !.url = FALSE]
Hosted == [OnPrem EXCEPT !.sync_token = FALSE, !.hosted = TRUE]
Gated == [OnPrem EXCEPT !.sync_token = FALSE, !.otel = TRUE]

OneConfig == {OnPrem}
UrlConfigs == {OnPrem, NoUrl}
HostedConfigs == {OnPrem, Hosted}
GatedConfigs == {Gated}

NoLinks == [airgapped |-> FALSE, otlp |-> "absent"]
OneLink == {NoLinks}
AllLinks == LinkRecords

(* The lease stays while a legacy database is integrated. *)
SteadySpec == Deployed /\ [][Next /\ (rel["database_legacy"] # "absent" => leader' = leader)]_vars

(* Units and connection strings are interchangeable. *)
Symmetry == Permutations({u1, u2}) \cup Permutations({c1, c2})
=============================================================================
