-------------------------------- MODULE Boot --------------------------------
(***************************************************************************)
(* The program from its command line to its pid file: main (ntrig.c), the  *)
(* first ntg_init_cycle and the pid file functions (utils/ntg_cycle.c),    *)
(* ntg_daemon, the change of the binary, and the commands that test the    *)
(* configuration or send a signal.  Several instances may run and share    *)
(* the configuration file and the pid files.  What a master does with its  *)
(* children is Supervisor.                                                 *)
(*                                                                         *)
(* Pids are not used again.  ntg_init_cycle runs once in a process: the    *)
(* master has no reconfiguration, and a single process never looks at its  *)
(* signals, because they are libevent events and it does not run the loop. *)
(***************************************************************************)
EXTENDS Integers, FiniteSets, FiniteSetsExt

CONSTANTS
  NPid,      \* bound: processes
  Paths,     \* pid file names
  Confs,     \* what a process may find in the configuration file, which is edited at any time
  Args,      \* the command lines of commands
  Faults     \* what may fail: "fork", "write" (the pid file), "crash"

ASSUME BootAssumption ==
  /\ NPid \in Nat \ {0} /\ Paths # {} /\ Args \subseteq SUBSET {"bad", "v", "t", "s"}
  /\ \A c \in Confs : c.pid \in Paths /\ {c.daemon, c.master} \subseteq BOOLEAN

Pid     == 1 .. NPid
Init1   == 0             \* the init process
Shell   == -1            \* any other process that is not an instance
None    == 0
Invalid == -1            \* NTG_INVALID_PID
Name    == Paths \X {"pid", "old"}
Absent  == -2
Blank   == 0             \* an empty file
Gone    == <<>>          \* a file that has no name

VARIABLES
  file,      \* the pid files: Absent, Blank or a pid
  proc,      \* the instances
  shared     \* pid file names that two instances had that are not an old and its new binary

vars == <<file, proc, shared>>

\* listed: the slot of the new binary is below ntg_last_process; handle: where the file is that
\* the instance has open and will write its pid to.
Fresh(parent) ==
  [st |-> "boot", path |-> CHOOSE p \in Paths : TRUE, master |-> FALSE, parent |-> parent,
   newbin |-> None, listed |-> FALSE, handle |-> Gone, stop |-> FALSE]

Unborn   == [Fresh(Shell) EXCEPT !.st = "unborn"]
States   == {"unborn", "boot", "fork", "create", "write", "run", "zombie", "crashed", "dead"}
Alive(p) == proc[p].st \in {"boot", "fork", "create", "write", "run"}
Runs(p)  == proc[p].st = "run"
PidOf(p) == <<proc[p].path, "pid">>
OldOf(p) == <<proc[p].path, "old">>

TypeOK ==
  /\ file \in [Name -> Pid \cup {Absent, Blank}]
  /\ \A p \in Pid : /\ proc[p].st \in States /\ proc[p].path \in Paths
                    /\ proc[p].parent \in Pid \cup {Init1, Shell}
                    /\ proc[p].newbin \in Pid \cup {None, Invalid} /\ proc[p].listed \in BOOLEAN
                    /\ Runs(p) /\ proc[p].newbin \in Pid => proc[proc[p].newbin].parent = p
                    /\ proc[p].st = "zombie" => proc[p].parent \in Pid /\ Runs(proc[p].parent)
  /\ shared \subseteq Paths

Init ==
  /\ file = [f \in Name |-> Absent] /\ proc = [p \in Pid |-> Unborn]
  /\ shared = {}
-----------------------------------------------------------------------------
\* The pid of a new process.
Next1 == Min({p \in Pid : proc[p].st = "unborn"})
Room  == \E p \in Pid : proc[p].st = "unborn"

\* What becomes of the process table when p ends: init takes its children; a master has to
\* reap p.
End(ps, p, how) ==
  LET left == [Fresh(ps[p].parent) EXCEPT !.newbin = IF ps[p].newbin = Invalid THEN Invalid ELSE None]
  IN
  [q \in Pid |->
     CASE q = p -> [left EXCEPT !.st = IF ps[p].parent \in Pid /\ how = "dead" THEN "zombie" ELSE how]
       [] q # p /\ ps[q].parent = p -> [ps[q] EXCEPT !.parent = Init1, !.st = IF @ = "zombie" THEN "dead" ELSE @]
       [] OTHER -> ps[q]]

Ends(p) == proc' = End(proc, p, "dead")

\* An instance is started by hand.
Launch ==
  /\ Room /\ proc' = [proc EXCEPT ![Next1] = Fresh(Shell)]
  /\ UNCHANGED <<file, shared>>

\* main up to the event base: ntg_init_cycle parses, tests the lock file, opens the logs and
\* initializes the modules; then the urls are read.
Boot(p) ==
  /\ proc[p].st = "boot"
  /\ \E c \in Confs :
       proc' = [proc EXCEPT ![p].st = IF c.daemon THEN "fork" ELSE "create", ![p].path = c.pid, ![p].master = c.master]
  /\ UNCHANGED <<file, shared>>

\* The configuration is refused, or memory, a log file, a module or the urls fail.
BootFails(p) ==
  /\ proc[p].st = "boot"
  /\ Ends(p) /\ UNCHANGED <<file, shared>>

\* ntg_daemon: the child goes on with its own pid, the parent ends.
Forked(p) ==
  LET c  == Next1
      ps == [proc EXCEPT ![c] = [proc[p] EXCEPT !.st = "create", !.parent = p]]
  IN End(ps, p, "dead")

Daemon(p) ==
  /\ proc[p].st = "fork" /\ Room
  /\ proc' = Forked(p) /\ UNCHANGED <<file, shared>>

\* fork fails, or setsid or /dev/null in the child.
DaemonFails(p) ==
  /\ proc[p].st = "fork" /\ "fork" \in Faults
  /\ Ends(p) /\ UNCHANGED <<file, shared>>
-----------------------------------------------------------------------------
\* Mutant: a test of the configuration truncates as well.
OpenedTruncated(f, test) == [file EXCEPT ![f] = Blank]

\* The open in ntg_create_pidfile: a test only creates the file.
Opened(f, test) == [file EXCEPT ![f] = IF test /\ @ # Absent THEN @ ELSE Blank]

\* Two instances other than an old binary and its new one use the name.
Shares(p) ==
  \E q \in Pid \ {p} : proc[q].st \in {"write", "run"} /\ proc[q].path = proc[p].path /\ proc[q].newbin # p

\* ntg_create_pidfile, in two steps: the file is truncated, then the pid is written.
PidOpen(p) ==
  /\ proc[p].st = "create"
  /\ file' = Opened(PidOf(p), FALSE)
  /\ proc' = [proc EXCEPT ![p].st = "write", ![p].handle = PidOf(p)]
  /\ shared' = IF Shares(p) THEN shared \cup {proc[p].path} ELSE shared

PidOpenFails(p) ==
  /\ proc[p].st = "create" /\ "write" \in Faults
  /\ Ends(p) /\ UNCHANGED <<file, shared>>

\* A file that was replaced or removed meanwhile is written to all the same.
PidWrite(p) ==
  /\ proc[p].st = "write"
  /\ file' = IF proc[p].handle = Gone THEN file ELSE [file EXCEPT ![proc[p].handle] = p]
  /\ proc' = [proc EXCEPT ![p].st = "run", ![p].handle = Gone]
  /\ UNCHANGED shared

PidWriteFails(p) ==
  /\ proc[p].st = "write" /\ "write" \in Faults
  /\ Ends(p) /\ UNCHANGED <<file, shared>>

\* unlink and rename; a handle follows its file.
Unlinked(f) == [file EXCEPT ![f] = Absent]
Renamed(f, g) == IF file[f] = Absent THEN file ELSE [file EXCEPT ![f] = Absent, ![g] = file[f]]
HandleMoved(ps, f, g) ==
  IF file[f] = Absent THEN ps
  ELSE [q \in Pid |-> [ps[q] EXCEPT !.handle = IF @ = f THEN g ELSE IF @ = g THEN Gone ELSE @]]
HandleCut(ps, f) == [q \in Pid |-> [ps[q] EXCEPT !.handle = IF @ = f THEN Gone ELSE @]]
-----------------------------------------------------------------------------
\* Mutant: always the pid file.
DeletesAlways(p) == PidOf(p)

\* ntg_delete_pidfile: the old name while there is a new binary.
Deletes(p) == IF proc[p].newbin # None THEN OldOf(p) ELSE PidOf(p)

\* ntg_master_process_exit.
MasterExit(p) ==
  /\ Runs(p) /\ proc[p].master /\ proc[p].stop
  /\ file' = Unlinked(Deletes(p)) /\ proc' = HandleCut(End(proc, p, "dead"), Deletes(p))
  /\ UNCHANGED shared

\* The signal to change the binary: ignored in a process that has a parent other than init,
\* and while there is a new binary.
MayChange(p) == Runs(p) /\ proc[p].master /\ ~proc[p].stop /\ proc[p].parent = Init1 /\ proc[p].newbin \notin Pid

\* ntg_exec_new_binary: the pid file is renamed, and the new binary is a child.  It gets the
\* first vacant slot; when there is none it gets slot ntg_last_process, which only a traffic
\* process advances (ntg_spawn_process).  Supervisor has the slots.
ChangeBinary(p) ==
  /\ MayChange(p) /\ Room /\ file[PidOf(p)] # Absent
  /\ file' = Renamed(PidOf(p), OldOf(p))
  /\ \E vacant \in BOOLEAN :
       proc' = HandleMoved([proc EXCEPT ![p].newbin = Next1, ![p].listed = vacant, ![Next1] = Fresh(p)], PidOf(p), OldOf(p))
  /\ UNCHANGED shared

\* The rename or the fork fails; the name is given back.
ChangeFails(p) ==
  /\ MayChange(p) /\ (file[PidOf(p)] = Absent \/ "fork" \in Faults)
  /\ proc' = [proc EXCEPT ![p].newbin = Invalid]
  /\ UNCHANGED <<file, shared>>

\* Mutant: a new binary that was killed is not noticed.
EndedByExit(c) == proc[c].st = "zombie"

Ended(c) == proc[c].st \in {"zombie", "crashed"}

\* rename(oldpid, pid) in ntg_reap_children.
GivenBack(p) == Renamed(OldOf(p), PidOf(p))

AfterReap(p) == None

\* The new binary has ended and is in the table: its end is recognised.
Reap(p) ==
  /\ Runs(p) /\ proc[p].newbin \in Pid /\ proc[p].listed /\ Ended(proc[p].newbin)
  /\ proc[proc[p].newbin].parent = p
  /\ LET c == proc[p].newbin
         st == IF proc[c].st = "zombie" THEN "dead" ELSE "crashed"
     IN /\ file' = GivenBack(p)
        /\ proc' = HandleMoved([proc EXCEPT ![p].newbin = AfterReap(p), ![p].listed = FALSE, ![c].st = st, ![c].parent = Init1],
                               OldOf(p), PidOf(p))
  /\ UNCHANGED shared

\* It is not in the table: waitpid takes it, but no loop comes to its slot and ntg_new_binary
\* stays (ntg_process_get_status).
EndUnseen(p) ==
  /\ Runs(p) /\ proc[p].newbin \in Pid /\ ~proc[p].listed /\ proc[proc[p].newbin].st = "zombie"
  /\ proc' = [proc EXCEPT ![proc[p].newbin].st = "dead"] /\ UNCHANGED <<file, shared>>

\* An instance is killed or fails.  Before it runs this is as one of the failures above.
Crash(p) ==
  /\ "crash" \in Faults /\ Runs(p)
  /\ proc' = End(proc, p, "crashed") /\ UNCHANGED <<file, shared>>
-----------------------------------------------------------------------------
\* ntg_get_options and the early returns of main: an option that is not known ends the
\* program; -v ends it without -t; a test never sends the signal, and with -s never gets as
\* far as the pid file.
Kind(args) ==
  CASE "bad" \in args -> "none"
    [] "v" \in args /\ "t" \notin args -> "none"
    [] {"t", "s"} \subseteq args -> "none"
    [] "t" \in args -> "test"
    [] "s" \in args -> "signal"
    [] OTHER -> "none"

\* A command that tests the configuration.
Test ==
  /\ \E a \in Args : Kind(a) = "test"
  /\ \E c \in Confs : file' = Opened(<<c.pid, "pid">>, TRUE)
  /\ UNCHANGED <<proc, shared>>

\* ntg_signal_process: stop or quit goes to the process the pid file names; by hand it is
\* sent to the old one, too.  A single process never sees it.
Signal ==
  /\ \E a \in Args : Kind(a) = "signal"
  /\ \E f \in Name :
       /\ file[f] \in Pid /\ Runs(file[f])
       /\ proc' = [proc EXCEPT ![file[f]].stop = TRUE]
  /\ UNCHANGED <<file, shared>>

Instance(p) ==
  \/ Boot(p) \/ BootFails(p) \/ Daemon(p) \/ DaemonFails(p) \/ PidOpen(p) \/ PidOpenFails(p)
  \/ PidWrite(p) \/ PidWriteFails(p) \/ MasterExit(p) \/ ChangeBinary(p) \/ ChangeFails(p)
  \/ Reap(p) \/ EndUnseen(p) \/ Crash(p)

Next == Launch \/ Test \/ Signal \/ \E p \in Pid : Instance(p)

Spec == Init /\ [][Next]_vars

\* An instance that starts goes on, and a master gets the signals sent to it.
FairSpec ==
  Spec /\ \A p \in Pid : WF_vars(Boot(p) \/ BootFails(p)) /\ WF_vars(PidOpen(p)) /\ WF_vars(PidWrite(p))
                         /\ WF_vars(MasterExit(p)) /\ WF_vars(Reap(p))
-----------------------------------------------------------------------------
\* A pid file that instances do not share names a process that runs, or one that was killed,
\* or one whose last change of the binary failed and that deleted the old name instead
\* (ntg_create_pidfile after ntg_daemon, ntg_delete_pidfile, ntg_exec_new_binary,
\* ntg_reap_children).
NamesLiving ==
  /\ TypeOK
  /\ \A f \in Name : f[1] \notin shared /\ file[f] \in Pid =>
       LET p == file[f] IN Runs(p) \/ proc[p].st = "crashed" \/ proc[p].newbin = Invalid

\* An instance that runs can be found: its pid is in the pid file of its configuration, or in
\* the old one while it has a new binary, whatever was tested, edited, upgraded or killed
\* meanwhile, unless another instance took its name.  A new binary in the table that was waited
\* for is no longer the instance's; one that is not in the table is for ever.
Found ==
  \A p \in Pid : Runs(p) /\ proc[p].path \notin shared =>
    \/ file[PidOf(p)] = p
    \/ /\ file[OldOf(p)] = p /\ proc[p].newbin \in Pid
       /\ proc[p].listed => proc[proc[p].newbin].st # "dead"

\* When a new binary that is in the table ends, for any reason and however far it got, the old
\* one gets its name back (ntg_process_get_status, ntg_reap_children).  One that got the slot
\* behind the table is not looked at: the old binary then keeps the old name.
NameComesBack ==
  \A p \in Pid :
    (Runs(p) /\ proc[p].newbin \in Pid /\ proc[p].listed /\ ~Alive(proc[p].newbin))
      ~> (~Runs(p) \/ proc[p].path \in shared \/ file[PidOf(p)] = p)
=============================================================================
