------------------------- MODULE MCClusterOperator -------------------------
(***************************************************************************)
(* ClusterOperator for TLC.                                                *)
(***************************************************************************)
EXTENDS ClusterOperator
=============================================================================
