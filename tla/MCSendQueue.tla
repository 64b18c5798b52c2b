---------------------------- MODULE MCSendQueue ----------------------------
(***************************************************************************)
(* Instances of SendQueue for TLC: messages are interchangeable unless one *)
(* of them is a file, and users where no fairness tells them apart.        *)
(***************************************************************************)
EXTENDS SendQueue, TLC

Symmetry ==
    Permutations(Users) \union Permutations(Files) \union Permutations(Assets \ Files)
=============================================================================
