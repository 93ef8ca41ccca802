------------------------------- MODULE MCUsers -------------------------------
(***************************************************************************)
(* Users on a small instance.  All constants are given in users.cfg.        *)
(***************************************************************************)
EXTENDS Users
=============================================================================
