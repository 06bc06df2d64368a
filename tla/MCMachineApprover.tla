------------------------- MODULE MCMachineApprover -------------------------
(***************************************************************************)
(* MachineApprover for TLC.                                                *)
(***************************************************************************)
EXTENDS MachineApprover
=============================================================================
