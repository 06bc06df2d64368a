--------------------------- MODULE MCEC2NodeClass ---------------------------
(***************************************************************************)
(* EC2NodeClass for TLC.                                                   *)
(***************************************************************************)
EXTENDS EC2NodeClass
=============================================================================
