------------------------------- MODULE Cycle --------------------------------
(***************************************************************************)
(* What main (ntrig.c) and ntg_init_cycle (utils/ntg_cycle.c) own on the   *)
(* way to the process cycle: memory pools, descriptors and the log that    *)
(* messages go to.  Any step may fail, and what was taken so far is given  *)
(* back before ntg_init_cycle answers NULL.  What the configuration means  *)
(* is Conf, the instances and their pid files are Boot, a pool is Pool.    *)
(***************************************************************************)
EXTENDS Integers, Sequences, FiniteSets, FiniteSetsExt, TLC

CONSTANTS
  Modes,     \* "run", "test" (-t), "signal" (-s)
  LogLists,  \* the error_log directives of a configuration: file names or "stderr"
  MaxFd      \* bound: the largest descriptor

ASSUME CycleAssumption == MaxFd >= 3 /\ Modes \subseteq {"run", "test", "signal"}

Stderr  == 2
Invalid == -1
Default == "error.log"     \* NTG_ERROR_LOG_PATH

VARIABLES
  pc, mode, daemon,
  fds,       \* what a descriptor leads to, "" if it is closed
  pools,     \* the pools that exist: "init", "cycle", "temp"
  builtin,   \* the descriptor of the log that ntg_log_init opens
  conf,      \* the logs of the configuration, in the order of their chain
  files,     \* cycle->open_files
  log,       \* the log in use: "old" or "new"
  i          \* the file to open next

vars == <<pc, mode, daemon, fds, pools, builtin, conf, files, log, i>>

Fds       == 0 .. MaxFd
Open(f)   == fds[f] # ""
Lowest    == Min({f \in Fds : ~Open(f)})
Inherited == [f \in Fds |-> CASE f = 0 -> "stdin" [] f = 1 -> "stdout" [] f = 2 -> "console" [] OTHER -> ""]

Init ==
  /\ pc = "strerror" /\ mode \in Modes /\ daemon \in BOOLEAN
  /\ fds = Inherited /\ pools = {} /\ builtin = Invalid
  /\ conf = <<>> /\ files = <<>> /\ log = "old" /\ i = 1

To(p) == pc' = p /\ UNCHANGED <<mode, daemon>>
Exit  == To("exit") /\ UNCHANGED <<fds, pools, builtin, conf, files, log, i>>

\* A step that keeps nothing the rest depends on: it succeeds, or the program ends.
OrExit(from, to) == pc = from /\ (Exit \/ (To(to) /\ UNCHANGED <<fds, pools, builtin, conf, files, log, i>>))
-----------------------------------------------------------------------------
(* main, before ntg_init_cycle.                                            *)
-----------------------------------------------------------------------------

OnFailure == Stderr

\* ntg_strerror_init copies the texts of all errors.
StrerrorInit == OrExit("strerror", "getopt")

\* ntg_get_options; -v and -h end the program unless a test was asked for.
GetOptions == OrExit("getopt", "log_init")

\* ntg_log_init: messages go to stderr if the file cannot be opened.
LogInit ==
  /\ pc = "log_init"
  /\ \/ fds' = [fds EXCEPT ![Lowest] = Default] /\ builtin' = Lowest
     \/ fds' = fds /\ builtin' = OnFailure
  /\ To("init_pool") /\ UNCHANGED <<pools, conf, files, log, i>>

InitPool ==
  /\ pc = "init_pool"
  /\ \/ pools' = {"init"} /\ To("argv") /\ UNCHANGED <<fds, builtin, conf, files, log, i>>
     \/ Exit

SaveArgv       == OrExit("argv", "options")
ProcessOptions == OrExit("options", "os")
OsInit         == OrExit("os", "pools")
-----------------------------------------------------------------------------
(* ntg_init_cycle.                                                         *)
-----------------------------------------------------------------------------
Null(gone) ==
  /\ To("null") /\ pools' = pools \ gone
  /\ UNCHANGED <<fds, builtin, conf, files, log, i>>

\* The cycle's pool and everything that is allocated in it, up to create_conf and conf.args.
CyclePool ==
  /\ pc = "pools"
  /\ \/ Null({})
     \/ To("create") /\ pools' = pools \cup {"cycle"} /\ UNCHANGED <<fds, builtin, conf, files, log, i>>

CreateConf ==
  /\ pc = "create"
  /\ \/ Null({"cycle"})
     \/ To("parse") /\ pools' = pools \cup {"temp"} /\ UNCHANGED <<fds, builtin, conf, files, log, i>>

Both == {"cycle", "temp"}       \* ntg_destroy_cycle_pools

Entry(name) == [name |-> name, fd |-> IF name = "stderr" THEN Stderr ELSE Invalid]

\* ntg_conf_open_file: a file is listed once, stderr every time.
Listed(fs, name) == IF name # "stderr" /\ \E k \in DOMAIN fs : fs[k].name = name THEN fs ELSE Append(fs, Entry(name))

\* The chain of the logs: their levels decide on the order.
Chains(ls) == {[k \in DOMAIN ls |-> ls[p[k]]] : p \in Permutations(DOMAIN ls)}

\* ntg_conf_param, ntg_conf_parse and init_conf of the modules.
Parse ==
  /\ pc = "parse"
  /\ \/ Null(Both)
     \/ \E ls \in LogLists :
          LET all[k \in 0 .. Len(ls)] == IF k = 0 THEN <<>> ELSE Listed(all[k - 1], ls[k])
          IN /\ conf' \in Chains(ls) /\ files' = all[Len(ls)]
             /\ To(CASE mode = "signal" -> "cycle" [] mode = "test" -> "test_pid" [] OTHER -> "paths")
             /\ UNCHANGED <<fds, pools, builtin, log, i>>

Fails == To("failed") /\ UNCHANGED <<fds, pools, builtin, conf, files, log, i>>

\* A step that keeps nothing: it succeeds, or ntg_init_cycle fails.
OrFail(from, to) == pc = from /\ (Fails \/ (To(to) /\ UNCHANGED <<fds, pools, builtin, conf, files, log, i>>))

\* A test sees whether the pid file can be opened, and closes it.
TestPid     == OrFail("test_pid", "paths")
CreatePaths == OrFail("paths", "default")

\* ntg_log_open_default.
OpenDefault ==
  /\ pc = "default"
  /\ \/ Fails
     \/ /\ conf' = IF conf = <<>> THEN <<Default>> ELSE conf
        /\ files' = IF conf = <<>> THEN <<Entry(Default)>> ELSE files
        /\ To("open") /\ UNCHANGED <<fds, pools, builtin, log, i>>

\* The new files are opened in turn; fcntl may fail when the file is open.
OpenNext ==
  /\ pc = "open" /\ i <= Len(files)
  /\ \/ files[i].name = "stderr" /\ To("open") /\ i' = i + 1 /\ UNCHANGED <<fds, files>>
     \/ files[i].name # "stderr" /\ To("failed") /\ UNCHANGED <<fds, files, i>>
     \/ /\ files[i].name # "stderr"
        /\ fds' = [fds EXCEPT ![Lowest] = files[i].name] /\ files' = [files EXCEPT ![i].fd = Lowest]
        /\ \/ To("open") /\ i' = i + 1
           \/ To("failed") /\ UNCHANGED i
  /\ UNCHANGED <<pools, builtin, conf, log>>

\* Mutant: the last file that was opened is left out.
RollbackLess == {files[k].fd : k \in 1 .. i - 1} \ {Invalid, Stderr}

\* The descriptors that are closed after a failure.
Rollback == {files[k].fd : k \in DOMAIN files} \ {Invalid, Stderr}

Failed ==
  /\ pc = "failed"
  /\ fds' = [f \in Fds |-> IF f \in Rollback THEN "" ELSE fds[f]]
  /\ To("null") /\ pools' = pools \ Both
  /\ UNCHANGED <<builtin, conf, files, log, i>>

\* The new log is used, the modules are initialized; the first cycle has no old files.
Commit ==
  /\ pc = "open" /\ i > Len(files)
  /\ \/ log' = "new" /\ To("cycle") /\ pools' = pools \ {"temp", "init"} /\ UNCHANGED <<fds, builtin, conf, files, i>>
     \/ log' = "new" /\ To("exit") /\ UNCHANGED <<fds, pools, builtin, conf, files, i>>

\* main says which file the test was about.
Refused == pc = "null" /\ Exit
-----------------------------------------------------------------------------
(* main, after ntg_init_cycle.                                             *)
-----------------------------------------------------------------------------
\* A test ends here; a signal is sent to the pid in the pid file.
Ready ==
  /\ pc = "cycle"
  /\ \/ mode # "run" /\ Exit
     \/ mode = "run" /\ To("urls") /\ UNCHANGED <<fds, pools, builtin, conf, files, log, i>>

\* ntg_read_url_file: the file is closed again; it must have a url.
ReadUrls == OrExit("urls", "base")

\* ntg_init_base_and_signals: the event base, which keeps descriptors, before the daemon is forked.
InitBase ==
  /\ pc = "base"
  /\ \/ Exit
     \/ /\ fds' = [fds EXCEPT ![Lowest] = "base"]
        /\ To(IF daemon THEN "daemon" ELSE "pid") /\ UNCHANGED <<pools, builtin, conf, files, log, i>>

\* ntg_daemon, in the child: /dev/null becomes stdin and stdout.
Daemon ==
  /\ pc = "daemon"
  /\ \/ Exit
     \/ fds' = [fds EXCEPT ![0] = "null", ![1] = "null"] /\ To("pid") /\ UNCHANGED <<pools, builtin, conf, files, log, i>>

PidFile == OrExit("pid", "redirect")

\* The descriptor of the j-th log.
FdOf(j) ==
  IF conf[j] = "stderr" THEN Stderr
  ELSE files[CHOOSE k \in DOMAIN files : files[k].name = conf[j]].fd

UsesStderr == \E j \in DOMAIN conf : conf[j] = "stderr"    \* cycle->log_use_stderr

\* Mutant: log_use_stderr is not looked at.
StderrAfterAlways == [fds EXCEPT ![Stderr] = files[Len(files)].name]

\* ntg_log_redirect_stderr: stderr follows a log file unless a log is stderr itself.
StderrAfter == IF UsesStderr \/ FdOf(1) = Stderr THEN fds ELSE [fds EXCEPT ![Stderr] = fds[FdOf(1)]]

Redirect ==
  /\ pc = "redirect"
  /\ Exit \/ (fds' = StderrAfter /\ To("builtin") /\ UNCHANGED <<pools, builtin, conf, files, log, i>>)

\* Mutant: the descriptor is left open.
BuiltinClosedNever == fds

BuiltinClosed == IF builtin # Stderr THEN [fds EXCEPT ![builtin] = ""] ELSE fds

CloseBuiltin ==
  /\ pc = "builtin"
  /\ fds' = BuiltinClosed /\ To("process") /\ UNCHANGED <<pools, builtin, conf, files, log, i>>

Next ==
  \/ StrerrorInit \/ GetOptions \/ LogInit \/ InitPool \/ SaveArgv \/ ProcessOptions \/ OsInit
  \/ CyclePool \/ CreateConf \/ Parse \/ TestPid \/ CreatePaths \/ OpenDefault \/ OpenNext \/ Failed \/ Commit \/ Refused
  \/ Ready \/ ReadUrls \/ InitBase \/ Daemon \/ PidFile \/ Redirect \/ CloseBuiltin

Spec == Init /\ [][Next]_vars
-----------------------------------------------------------------------------
TypeOK ==
  /\ fds \in [Fds -> {"", "stdin", "stdout", "console", "null", "base", Default} \cup UNION {{ls[k] : k \in DOMAIN ls} : ls \in LogLists}]
  /\ pools \subseteq {"init", "cycle", "temp"} /\ log \in {"old", "new"}
  /\ pools # {} => builtin \in Fds

\* A message can be written at any time: the log in use has its descriptors, and they lead to
\* its files (ntg_log_init, the order of opening, committing and closing in ntg_init_cycle and main).
LogsLead ==
  /\ TypeOK
  /\ log = "old" /\ builtin # Invalid => IF builtin = Stderr THEN Open(Stderr) ELSE fds[builtin] = Default
  /\ log = "new" => \A j \in DOMAIN conf : IF conf[j] = "stderr" THEN fds[Stderr] = "console" ELSE fds[FdOf(j)] = conf[j]

\* ntg_init_cycle that fails gives back all it took and nothing else: main still reads a name
\* in the first pool, and the built-in log is still there.
GivesBack ==
  pc = "null" => /\ pools = {"init"}
                 /\ {f \in Fds : Open(f)} = {0, 1, 2, builtin}

\* The process cycle starts with one pool, the event base and the descriptors of its logs, each once.
StartsClean ==
  pc = "process" =>
    /\ pools = {"cycle"}
    /\ {f \in Fds : Open(f)} = {0, 1, 2} \cup {f \in Fds : fds[f] = "base"} \cup {FdOf(j) : j \in DOMAIN conf}
    /\ \A j, k \in DOMAIN conf : conf[j] # conf[k] => FdOf(j) # FdOf(k)
    /\ UsesStderr \/ fds[Stderr] = conf[1]
=============================================================================
