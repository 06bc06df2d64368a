------------------------- MODULE MCAutoNodeStatus -------------------------
(***************************************************************************)
(* AutoNodeStatus for TLC.                                                 *)
(***************************************************************************)
EXTENDS AutoNodeStatus
=============================================================================
