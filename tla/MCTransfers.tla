----------------------------- MODULE MCTransfers ------------------------------
(* An instance of Transfers for TLC: the central makes the requests of its   *)
(* calls and no other (Inputs <- CallInputs).                                *)
EXTENDS Transfers
===============================================================================
