--------------------------- MODULE MCConnectionMgr ---------------------------
(***************************************************************************)
(* Instances of ConnectionMgr for TLC: two announcements and a search go   *)
(* to the network host, a request for an identity to another user.         *)
(***************************************************************************)
EXTENDS ConnectionMgr

CONSTANTS a, b, q, i

MCTo == [s \in Sessions |-> IF s = i THEN "other" ELSE "host"]

=============================================================================
