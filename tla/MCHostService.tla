--------------------------- MODULE MCHostService ---------------------------
(***************************************************************************)
(* Instances of HostService for TLC.  A user's first socket has the name   *)
(* of the user; the sockets in Extra belong to the user Returning, who     *)
(* comes back while the host still has his old socket.                     *)
(***************************************************************************)
EXTENDS HostService, TLC

CONSTANTS Extra, Returning

MCSkts == Users \union Extra

MCOwner == [s \in Users \union Extra |-> IF s \in Extra THEN Returning ELSE s]

(* Without extra sockets users are interchangeable. *)
Symmetry == Permutations(Users)
=============================================================================
