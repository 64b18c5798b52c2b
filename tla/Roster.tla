------------------------------- MODULE Roster -------------------------------
(***************************************************************************)
(* What a host promises its members, without the handlers, locks, lists    *)
(* and broadcasts that bring it about: a user joins in one step, and from  *)
(* then on all members see him and he sees all members, until he goes.     *)
(***************************************************************************)
CONSTANT Users

VARIABLES
    roster, \* the members
    sees    \* the other members each of them sees

vars == <<roster, sees>>

AllSee(members) == [u \in Users |-> IF u \in members THEN members \ {u} ELSE {}]

Become(members) == roster' = members /\ sees' = AllSee(members)

Init == roster = {} /\ sees = AllSee({})

Join(u) == u \notin roster /\ Become(roster \union {u})

(* He leaves, is lost, or is no longer granted access when he asks again. *)
Go(u) == u \in roster /\ Become(roster \ {u})

(* The host stops: nobody is a member. *)
Stop == Become({})

Next == Stop \/ \E u \in Users : Join(u) \/ Go(u)

Spec == Init /\ [][Next]_vars
=============================================================================
