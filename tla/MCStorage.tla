------------------------------ MODULE MCStorage ------------------------------
(***************************************************************************)
(* Storage for TLC: two processes that open one directory, each as a node  *)
(* of its own; a process that died opens it again.                         *)
(***************************************************************************)
EXTENDS Storage

CONSTANTS a, b

OtherNode == [p \in Process |-> IF p = a THEN "node 1" ELSE "node 2"]
===============================================================================
