------------------------- MODULE PublishedConnection -------------------------
(***************************************************************************)
(* What the charm promises about one stored connection string: it is always *)
(* a connection that the database has published as a whole, never one made  *)
(* of the credentials of one publication and the endpoint of another, and   *)
(* never one that was not published; or there is none.                       *)
(***************************************************************************)
CONSTANTS
    Connections,    \* the connections a database can publish
    NoConnection    \* nothing is published, or nothing is stored

VARIABLES
    published,      \* every connection published so far
    stored          \* the connection in the charm's databag

Init == published = {} /\ stored = NoConnection

(* The database publishes connections; none is ever taken back. *)
Publish ==
    /\ published \subseteq published'
    /\ published' \subseteq Connections
    /\ UNCHANGED stored

(* The charm stores a connection that is published by then. *)
Store ==
    /\ stored' \in published
    /\ UNCHANGED published

(* The integration is removed. *)
Clear ==
    /\ stored' = NoConnection
    /\ UNCHANGED published

Next == Publish \/ Store \/ Clear

Spec == Init /\ [][Next]_<<published, stored>>
=============================================================================
