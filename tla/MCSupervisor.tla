---------------------------- MODULE MCSupervisor ----------------------------
(***************************************************************************)
(* Supervisor on small instances.  All constants are given in sup_*.cfg.    *)
(***************************************************************************)
EXTENDS Supervisor
=============================================================================
