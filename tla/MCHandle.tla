------------------------------ MODULE MCHandle ------------------------------
(***************************************************************************)
(* Two threads sharing one node, for TLC.                                  *)
(***************************************************************************)
EXTENDS Handle
===============================================================================
