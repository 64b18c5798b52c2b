---------------------------- MODULE MCAssetXfer ----------------------------
(***************************************************************************)
(* Instances of AssetXfer for TLC: model values for the connections.       *)
(***************************************************************************)
EXTENDS AssetXfer

CONSTANTS k1, k2

=============================================================================
