------------------------------ MODULE MCLogging ------------------------------
(* Instances of Logging for TLC: two Loki applications over logging, or one  *)
(* over log-proxy.                                                           *)
EXTENDS Logging

MCScenarios == {{"logging:1", "logging:2"}, {"log-proxy"}}
MCUrls == 1..2
=============================================================================
