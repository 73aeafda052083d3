--------------------------- MODULE MCIntegrations ---------------------------
(* Instances of Integrations for TLC. *)
EXTENDS Integrations
CONSTANTS u1, u2

(* The files of a revision: one is removed by the second, one is broken. *)
MCFiles == {"livepatch-metrics", "livepatch-logs", "unparsable"}
MCFilesOf == [r \in Revisions |-> IF r = 1 THEN MCFiles ELSE MCFiles \ {"livepatch-logs"}]
MCUnparsable == {"unparsable"}

MCScenarios == {{e} : e \in Endpoints \ Links}

WorkloadScenarios == {{e} : e \in Links}

MCOptionSets == {{}, {"token", "otel"}, {"sync", "postgres", "proxy"}}

(* The units are interchangeable: u1 leads first. A server without options   *)
(* starts without a resource token, the others with one.                     *)
MCInit == Init /\ leader = u1 /\ resourceToken = (options # {})
MCSpec == MCInit /\ [][Next]_vars
MCFairSpec == MCSpec /\ Fairness

AllOffers == {{"otlp_grpc", "otlp_http"}, {"otlp_grpc"}, {"otlp_http"}}
=============================================================================
