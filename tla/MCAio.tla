-------------------------------- MODULE MCAio --------------------------------
(***************************************************************************)
(* One AsyncSession and its tasks for TLC.                                 *)
(***************************************************************************)
EXTENDS Aio
===============================================================================
