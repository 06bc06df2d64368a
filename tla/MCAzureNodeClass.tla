-------------------------- MODULE MCAzureNodeClass --------------------------
(***************************************************************************)
(* AzureNodeClass for TLC.                                                 *)
(***************************************************************************)
EXTENDS AzureNodeClass
=============================================================================
