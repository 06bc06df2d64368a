------------------------- MODULE MCOperand -------------------------
(***************************************************************************)
(* Operand for TLC.                                                *)
(***************************************************************************)
EXTENDS Operand
=============================================================================
