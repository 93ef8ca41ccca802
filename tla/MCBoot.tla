------------------------------- MODULE MCBoot -------------------------------
(***************************************************************************)
(* The configurations and command lines TLC gives to Boot.                  *)
(***************************************************************************)
EXTENDS Boot

C(pid, daemon, master) == [pid |-> pid, daemon |-> daemon, master |-> master]

\* A daemon, the same in the foreground, and a single process with another pid file.
Files == {C("a", TRUE, TRUE), C("a", FALSE, TRUE), C("b", FALSE, FALSE)}

Commands == {{"t"}, {"s"}, {"t", "s"}, {"v", "s"}}
=============================================================================
