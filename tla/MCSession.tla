------------------------------ MODULE MCSession ------------------------------
(***************************************************************************)
(* One participant for TLC.                                                *)
(***************************************************************************)
EXTENDS Session
===============================================================================
