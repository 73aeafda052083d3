-------------------------- MODULE MCDatabaseClient --------------------------
(* The instance of DatabaseClient for TLC. *)
EXTENDS DatabaseClient
CONSTANTS u1, u2, s1
=============================================================================
