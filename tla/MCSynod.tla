-------------------------------- MODULE MCSynod -------------------------------
(***************************************************************************)
(* A small instance of Synod for TLC.                                      *)
(***************************************************************************)
EXTENDS Synod, TLC

\* Voters, values and slots are interchangeable in Synod; ballots are not.
Symmetry == Permutations(Acceptor) \cup Permutations(Values) \cup Permutations(Slots)
===============================================================================
