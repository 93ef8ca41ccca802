------------------------------- MODULE MCPool -------------------------------
(***************************************************************************)
(* Pool with small blocks.  All constants are numbers, given in pool.cfg.   *)
(***************************************************************************)
EXTENDS Pool
=============================================================================
