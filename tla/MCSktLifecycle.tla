--------------------------- MODULE MCSktLifecycle ---------------------------
(***************************************************************************)
(* Instances of SktLifecycle for TLC: model values for sockets and         *)
(* threads.                                                                *)
(***************************************************************************)
EXTENDS SktLifecycle

CONSTANTS a, b, gui

=============================================================================
