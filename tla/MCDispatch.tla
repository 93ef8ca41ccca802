----------------------------- MODULE MCDispatch -----------------------------
(***************************************************************************)
(* Dispatch on small instances.  All constants are given in dispatch.cfg.   *)
(***************************************************************************)
EXTENDS Dispatch
=============================================================================
