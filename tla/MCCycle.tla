------------------------------- MODULE MCCycle ------------------------------
(***************************************************************************)
(* The error_log directives TLC gives to Cycle.                             *)
(***************************************************************************)
EXTENDS Cycle

\* No directive, one, two files, stderr before and after a file, and a file named twice.
Lists == {<<>>, <<"a">>, <<"a", "b">>, <<"stderr">>, <<"stderr", "a">>, <<"a", "stderr">>, <<"a", "a">>, <<"a", "error.log", "b">>}
=============================================================================
