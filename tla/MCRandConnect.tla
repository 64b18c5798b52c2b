---------------------------- MODULE MCRandConnect ----------------------------
(***************************************************************************)
(* Instances of RandConnect for TLC: s1 is an offer of A to B, s2 one of B *)
(* to A, so that the two may cross; C, if there, is a bystander.           *)
(***************************************************************************)
EXTENDS RandConnect

CONSTANTS A, B, s1, s2

MCFrom == [s \in Sessions |-> IF s = s1 THEN A ELSE B]
MCTo   == [s \in Sessions |-> IF s = s1 THEN B ELSE A]

=============================================================================
