------------------------- MODULE MCManagedObjects -------------------------
(***************************************************************************)
(* ManagedObjects for TLC.                                                *)
(***************************************************************************)
EXTENDS ManagedObjects
=============================================================================
