--------------------------- MODULE MCHCPDeletion ---------------------------
(***************************************************************************)
(* HCPDeletion for TLC.                                                    *)
(***************************************************************************)
EXTENDS HCPDeletion
=============================================================================
