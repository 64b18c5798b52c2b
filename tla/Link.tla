-------------------------------- MODULE Link --------------------------------
(***************************************************************************)
(* What sockets promise to whoever handles their packets, without the      *)
(* threads, lists and locks that bring it about: a socket is connected at  *)
(* most until it is dropped, handles one packet at a time, and is only     *)
(* reported as lost when it is dropped and none of its packets is being    *)
(* handled any more; from then on none is.                                 *)
(***************************************************************************)
CONSTANT Skts

VARIABLES
    link,    \* "down", "up", or "lost": dropped, and not yet reported as lost
    handling \* the sockets whose thread is handling a packet

vars == <<link, handling>>

AllDown == [s \in Skts |-> "down"]

Init == link = AllDown /\ handling = {}

Become(s, state) == link' = [link EXCEPT ![s] = state] /\ UNCHANGED handling

Connect(s) == link[s] = "down" /\ s \notin handling /\ Become(s, "up")

Drop(s) == link[s] = "up" /\ Become(s, "lost")

(* Data may still be there to be read when the socket has been dropped.    *)
Handle(s) ==
    /\ link[s] # "down" /\ s \notin handling
    /\ handling' = handling \union {s}
    /\ UNCHANGED link

Finish(s) ==
    /\ s \in handling
    /\ handling' = handling \ {s}
    /\ UNCHANGED link

(* onConnectionLost has run. *)
Lost(s) == link[s] = "lost" /\ s \notin handling /\ Become(s, "down")

(* The program stops. *)
Stop == link' = AllDown /\ handling' = {}

Next == Stop \/ \E s \in Skts : Connect(s) \/ Drop(s) \/ Handle(s) \/ Finish(s) \/ Lost(s)

Spec == Init /\ [][Next]_vars
=============================================================================
