----------------------------- MODULE Supervisor -----------------------------
(***************************************************************************)
(* The master process of ntrig and the children it supervises              *)
(* (utils/ntg_process.c, utils/ntg_process_cycle.c, utils/ntg_channel.c).  *)
(*                                                                         *)
(* The master keeps a table of child processes, ntg_processes[], of which  *)
(* the entries below ntg_last_process are in use.  Slot 0 belongs to the   *)
(* virtual-user process, the slots from ntg_start_process on to the        *)
(* traffic processes; a new binary is started detached in a free slot.     *)
(* Every child that is not detached has a socket pair to the master, its   *)
(* channel.  Operator signals, SIGCHLD and SIGALRM are libevent events:    *)
(* their handlers run inside event_base_loop (mpc = "wait") and only set   *)
(* flags, which the body of the loop then acts on.                         *)
(*                                                                         *)
(* Of the contents of a channel this module keeps only whether a command   *)
(* to stop is on its way; a write may find the channel full at any time.   *)
(* The OPEN and CLOSE messages the same steps send are in Dispatch.        *)
(*                                                                         *)
(* The master's body is cut into steps (one per table slot visited), so    *)
(* that children run in between.                                           *)
(***************************************************************************)
EXTENDS Integers, FiniteSetsExt

CONSTANTS
  Workers,    \* ccf->worker_processes
  MaxSlots,   \* NTG_MAX_PROCESSES
  AffinityN,  \* ccf->cpu_affinity_n, an unsigned integer
  Word,       \* 2^w of the unsigned arithmetic on AffinityN
  MaxFds,     \* socket pairs the descriptor limit of the master allows
  FirstDelay, \* 50: the first delay of a termination, in ms
  KillDelay,  \* 1000: beyond this delay children are killed
  SigioRounds, \* worker_processes + 2: events let pass before children are signalled again
  MaxCrash,   \* bound: children that die on their own and may be respawned
  MaxFail,    \* bound: failing system calls of the master
  MaxAdd      \* bound: ADD and CHANGEBIN signals the operator sends

ASSUME SupervisorAssumption ==
  /\ Workers \in Nat /\ MaxSlots \in Nat /\ MaxSlots > 1
  /\ AffinityN \in Nat /\ Word \in Nat /\ Word > 2 /\ AffinityN < Word
  /\ MaxFds \in Nat
  /\ FirstDelay \in Nat \ {0} /\ KillDelay \in Nat /\ FirstDelay <= KillDelay
  /\ SigioRounds \in Nat \ {0}
  /\ MaxCrash \in Nat /\ MaxFail \in Nat /\ MaxAdd \in Nat

StartProcess == 1                        \* ntg_start_process
Slot   == 0 .. MaxSlots                  \* one more than the array: ntg_last_process
MaxPid == 1 + Workers + MaxCrash + MaxAdd
Pid    == 1 .. MaxPid                    \* a fresh number for every child forked
Fd     == 1 .. MaxFds                    \* descriptors of socket pairs in the master

\* `cpu_affinity_n - 2' is computed unsigned: it wraps for 0 and 1.
CpuLimit == (AffinityN + Word - 2) % Word

VARIABLES
  \* ntg_processes[] of the master, a field per variable, and its globals
  pid,        \* -1 free, 0 never used, else a Pid
  type,       \* "NONE", "VIRTUAL" or "TRAFFIC"
  chan,       \* -1, 0 (static initialisation) or the number of a socket pair
  respawn, detached, exiting, exited,
  last,       \* ntg_last_process
  slot,       \* ntg_process_slot
  newBinary,  \* ntg_new_binary: 0 none, -1 failed, else the Pid of the new binary
  renamed,    \* the pid file carries its .oldbin name
  \* flags and locals of ntg_master_process_cycle
  mpc,        \* where the master is
  todo,       \* traffic processes still to start
  ri,         \* loop index over the table
  sig,        \* the signal being passed on
  live, delay, sigio,
  reap, terminate, quit, add, change, sigalrm,
  woken,      \* event_base_loop has handled an event
  \* the kernel
  fdt,        \* fdt[f]: the child whose socket pair is open as f in the master
  np,         \* number of children forked so far
  \* the children
  st,         \* "none", "init", "run", "zombie", "fatal" (zombie, code 2), "gone"
  kind,       \* what each child is
  home,       \* the slot each child was forked for
  told,       \* a QUIT or TERMINATE is in its channel, or its ntg_quit or ntg_terminate is set
  \* budgets of the environment
  crashes, fails, adds

table == <<pid, type, chan, respawn, detached, exiting, exited, last, slot>>
loop  == <<mpc, todo, ri, sig, live, delay, sigio>>
flags == <<reap, terminate, quit, add, change, sigalrm, woken>>
bin   == <<newBinary, renamed>>
kids  == <<st, kind, home, told>>
budget == <<crashes, fails, adds>>
vars  == <<table, loop, flags, bin, fdt, np, kids, budget>>

Alive   == {"init", "run"}
Zombie  == {"zombie", "fatal"}
MasterAt == {"virtual", "traffic", "top", "wait", "reap", "respawn", "check",
             "signal", "binary", "exit", "killed"}

\* What ntg_spawn_process may change.
SpawnTypeOK ==
  /\ pid \in [Slot -> -1 .. MaxPid] /\ type \in [Slot -> {"NONE", "VIRTUAL", "TRAFFIC"}]
  /\ chan \in [Slot -> -1 .. MaxFds]
  /\ respawn \in [Slot -> BOOLEAN] /\ detached \in [Slot -> BOOLEAN]
  /\ exiting \in [Slot -> BOOLEAN] /\ exited \in [Slot -> BOOLEAN]
  /\ last \in Slot /\ slot \in Slot
  /\ fdt \in [Fd -> 0 .. MaxPid] /\ np \in 0 .. MaxPid
  /\ st \in [Pid -> {"none", "gone"} \cup Alive \cup Zombie]
  /\ kind \in [Pid -> {"NONE", "VIRTUAL", "TRAFFIC"}] /\ home \in [Pid -> Slot]
  /\ told \in [Pid -> BOOLEAN]
  /\ fails \in 0 .. MaxFail

LoopTypeOK ==
  /\ newBinary \in -1 .. MaxPid /\ renamed \in BOOLEAN
  /\ mpc \in MasterAt /\ todo \in 0 .. Workers /\ ri \in Slot
  /\ sig \in {"QUIT", "TERMINATE", "KILL"}
  /\ live \in BOOLEAN /\ delay \in 0 .. 2 * KillDelay /\ sigio \in 0 .. SigioRounds
  /\ reap \in BOOLEAN /\ terminate \in BOOLEAN /\ quit \in BOOLEAN /\ add \in BOOLEAN
  /\ change \in BOOLEAN /\ sigalrm \in BOOLEAN /\ woken \in BOOLEAN
  /\ crashes \in 0 .. MaxCrash /\ adds \in 0 .. MaxAdd

\* The state has its type: indices stay inside ntg_processes[], the delay inside its bound.
TypeOK == SpawnTypeOK /\ LoopTypeOK

Init ==
  /\ pid = [s \in Slot |-> 0] /\ type = [s \in Slot |-> "NONE"]
  /\ chan = [s \in Slot |-> 0]
  /\ respawn = [s \in Slot |-> FALSE] /\ detached = [s \in Slot |-> FALSE]
  /\ exiting = [s \in Slot |-> FALSE] /\ exited = [s \in Slot |-> FALSE]
  /\ last = StartProcess /\ slot = 0
  /\ newBinary = 0 /\ renamed = FALSE
  /\ mpc = "virtual" /\ todo = Workers /\ ri = 0 /\ sig = "QUIT"
  /\ live = TRUE /\ delay = 0 /\ sigio = 0
  /\ reap = FALSE /\ terminate = FALSE /\ quit = FALSE /\ add = FALSE
  /\ change = FALSE /\ sigalrm = FALSE /\ woken = FALSE
  /\ fdt = [f \in Fd |-> 0] /\ np = 0
  /\ st = [p \in Pid |-> "none"] /\ kind = [p \in Pid |-> "NONE"]
  /\ home = [p \in Pid |-> 0] /\ told = [p \in Pid |-> FALSE]
  /\ crashes = 0 /\ fails = 0 /\ adds = 0
-----------------------------------------------------------------------------
\* The child that reads what is written to socket pair f; 0: the write fails.
Reader(f) == IF f \in Fd THEN fdt[f] ELSE 0

\* socketpair() takes the lowest free descriptors.
FdFree   == \E f \in Fd : fdt[f] = 0
LowestFd == Min({f \in Fd : fdt[f] = 0})
-----------------------------------------------------------------------------
(***************************************************************************)
(* ntg_spawn_process.  The mode is "RESPAWN" or "DETACHED" for a new       *)
(* process, "AGAIN" for the respawn of the process that was in slot s.     *)
(***************************************************************************)

\* The slot of a new process: a freed one, else the next one.
FreeSlot ==
  LET holes == {s \in StartProcess .. last - 1 : pid[s] = -1}
  IN  IF holes # {} THEN Min(holes)
      ELSE IF last > StartProcess THEN last ELSE StartProcess

\* Mutant: the test against NTG_MAX_PROCESSES is off by one.
NoRoomOffByOne(s) == s > MaxSlots \/ s > CpuLimit

NoRoom(s) == s = MaxSlots \/ s > CpuLimit

SpawnRefused(s) ==
  /\ NoRoom(s)
  /\ UNCHANGED <<table, fdt, np, kids, fails>>

\* A system call fails.  socketpair() must when no descriptor is left; after a failing
\* ioctl() or fcntl(), and after a failing fork(), the pair is closed again but its numbers
\* stay in the table.
SpawnFails(s, ty, mode) ==
  /\ ~NoRoom(s)
  /\ fails' = IF FdFree \/ mode = "DETACHED" THEN fails + 1 ELSE fails
  /\ fails' <= MaxFail
  /\ type' = [type EXCEPT ![s] = ty]
  /\ \/ /\ mode # "DETACHED"                             \* socketpair()
        /\ UNCHANGED <<chan, slot>>
     \/ /\ mode # "DETACHED" /\ FdFree                   \* ioctl(), fcntl()
        /\ chan' = [chan EXCEPT ![s] = LowestFd]
        /\ UNCHANGED slot
     \/ /\ mode = "DETACHED" \/ FdFree                   \* fork()
        /\ chan' = [chan EXCEPT ![s] = IF mode = "DETACHED" THEN -1 ELSE LowestFd]
        /\ slot' = s
  /\ UNCHANGED <<pid, respawn, detached, exiting, exited, last, fdt, np, kids>>

SpawnSucceeds(s, ty, mode) ==
  /\ ~NoRoom(s) /\ np < MaxPid /\ (mode = "DETACHED" \/ FdFree)
  /\ LET p == np + 1 IN
       /\ np' = p
       /\ pid' = [pid EXCEPT ![s] = p]
       /\ fdt' = IF mode = "DETACHED" THEN fdt ELSE [fdt EXCEPT ![LowestFd] = p]
       /\ st' = [st EXCEPT ![p] = IF mode = "DETACHED" THEN "run" ELSE "init"]
       /\ kind' = [kind EXCEPT ![p] = ty]
       /\ home' = [home EXCEPT ![p] = s]
  /\ type' = [type EXCEPT ![s] = ty]
  /\ chan' = [chan EXCEPT ![s] = IF mode = "DETACHED" THEN -1 ELSE LowestFd]
  /\ slot' = s
  /\ exited' = [exited EXCEPT ![s] = FALSE]
  /\ IF mode = "AGAIN"
       THEN UNCHANGED <<respawn, detached, exiting, last>>
       ELSE /\ respawn' = [respawn EXCEPT ![s] = (mode = "RESPAWN")]
            /\ detached' = [detached EXCEPT ![s] = (mode = "DETACHED")]
            /\ exiting' = [exiting EXCEPT ![s] = FALSE]
            /\ last' = IF s = last /\ ty = "TRAFFIC" THEN last + 1 ELSE last
  /\ UNCHANGED <<told, fails>>

SpawnProcess(s, ty, mode) ==
  SpawnRefused(s) \/ SpawnFails(s, ty, mode) \/ SpawnSucceeds(s, ty, mode)
-----------------------------------------------------------------------------
(***************************************************************************)
(* Start-up.                                                               *)
(***************************************************************************)
StartVirtualProcess ==
  /\ mpc = "virtual"
  /\ SpawnProcess(0, "VIRTUAL", "RESPAWN")
  /\ mpc' = "traffic"
  /\ UNCHANGED <<todo, ri, sig, live, delay, sigio, flags, bin, crashes, adds>>

\* One round of ntg_start_traffic_processes: the result of the spawn is not looked at.
StartTrafficProcess ==
  /\ mpc = "traffic" /\ todo > 0
  /\ SpawnProcess(FreeSlot, "TRAFFIC", "RESPAWN")
  /\ todo' = todo - 1
  /\ UNCHANGED <<mpc, ri, sig, live, delay, sigio, flags, bin, crashes, adds>>

\* ntg_remote_init, the channel event and the affinity: a failure asks for termination.
InitMaster ==
  /\ mpc = "traffic" /\ todo = 0
  /\ \/ UNCHANGED <<terminate, fails>>
     \/ fails < MaxFail /\ fails' = fails + 1 /\ terminate' = TRUE
  /\ mpc' = "top"
  /\ UNCHANGED <<table, todo, ri, sig, live, delay, sigio, reap, quit, add, change,
                 sigalrm, woken, bin, fdt, np, kids, crashes, adds>>
-----------------------------------------------------------------------------
(***************************************************************************)
(* The loop of ntg_master_process_cycle.                                   *)
(***************************************************************************)

\* Mutant: the delay is not doubled.
NotDoubled(d) == d

\* Only the comparison with KillDelay matters once delay is beyond it.
Doubled(d) == IF d > KillDelay THEN d ELSE 2 * d

LoopTop ==
  /\ mpc = "top"
  /\ IF delay = 0
       THEN UNCHANGED <<delay, sigio, sigalrm>>
       ELSE /\ delay' = IF sigalrm THEN Doubled(delay) ELSE delay
            /\ sigio' = IF sigalrm THEN 0 ELSE sigio
            /\ sigalrm' = FALSE                 \* and setitimer(delay)
  /\ mpc' = "wait"
  /\ UNCHANGED <<table, todo, ri, sig, live, reap, terminate, quit, add, change,
                 woken, bin, fdt, np, kids, budget>>

\* event_base_loop returns after at least one event; ntg_reap_children starts.
WakeUp ==
  /\ mpc = "wait" /\ woken
  /\ woken' = FALSE
  /\ ri' = 0
  /\ IF reap
       THEN mpc' = "reap" /\ reap' = FALSE /\ live' = FALSE
       ELSE mpc' = "check" /\ UNCHANGED <<reap, live>>
  /\ UNCHANGED <<table, todo, sig, delay, sigio, terminate, quit, add, change, sigalrm,
                 bin, fdt, np, kids, budget>>

(***************************************************************************)
(* ntg_reap_children, one slot per step.                                   *)
(***************************************************************************)
\* Mutant: only a child that is stopping counts.
CountsLiveExiting(i) == exiting[i]

CountsLive(i) == exiting[i] \/ ~detached[i]

ReapSkip ==
  /\ mpc = "reap" /\ ri < last
  /\ pid[ri] = -1 \/ ~exited[ri]
  /\ live' = (live \/ (pid[ri] # -1 /\ CountsLive(ri)))
  /\ ri' = ri + 1
  /\ UNCHANGED <<table, mpc, todo, sig, delay, sigio, flags, bin, fdt, np, kids, budget>>

\* Close the channel of the exited child.
ReapClose ==
  /\ mpc = "reap" /\ ri < last
  /\ pid[ri] # -1 /\ exited[ri]
  /\ mpc' = "respawn"
  /\ IF detached[ri]
       THEN UNCHANGED <<chan, fdt>>
       ELSE /\ fdt' = IF chan[ri] \in Fd THEN [fdt EXCEPT ![chan[ri]] = 0] ELSE fdt
            /\ chan' = [chan EXCEPT ![ri] = -1]
  /\ UNCHANGED <<pid, type, respawn, detached, exiting, exited, last, slot, todo, ri, sig,
                 live, delay, sigio, flags, bin, np, kids, budget>>

\* Mutant: a child that dies while the master quits is started again.
MayRespawnInQuit(i) == respawn[i] /\ ~exiting[i] /\ ~terminate

MayRespawn(i) == respawn[i] /\ ~exiting[i] /\ ~terminate /\ ~quit

ReapRespawn ==
  /\ mpc = "respawn" /\ MayRespawn(ri)
  /\ SpawnProcess(ri, type[ri], "AGAIN")
  /\ live' = (live \/ np' # np)                      \* np' # np: the spawn succeeded
  /\ ri' = ri + 1 /\ mpc' = "reap"
  /\ UNCHANGED <<todo, sig, delay, sigio, flags, bin, crashes, adds>>

\* Mutant: ntg_last_process shrinks whichever slot is given up.
DropAnySlot(i) == last' = last - 1 /\ UNCHANGED pid

\* Slot i is given up: the last one is cut off, any other is left as a hole.
DropSlot(i) ==
  IF i = last - 1
    THEN last' = last - 1 /\ UNCHANGED pid
    ELSE pid' = [pid EXCEPT ![i] = -1] /\ UNCHANGED last

\* Mutant: the new binary is not recognised.
ForgetBinaryNever(i) == UNCHANGED bin

\* The new binary ended: its pid is forgotten and the pid file renamed back, which may fail.
ForgetBinary(i) ==
  IF pid[i] = newBinary THEN newBinary' = 0 /\ renamed' \in BOOLEAN ELSE UNCHANGED bin

ReapDrop ==
  /\ mpc = "respawn" /\ ~MayRespawn(ri)
  /\ ForgetBinary(ri)
  /\ DropSlot(ri)
  /\ ri' = ri + 1 /\ mpc' = "reap"
  /\ UNCHANGED <<type, chan, respawn, detached, exiting, exited, slot, todo, sig, live,
                 delay, sigio, flags, fdt, np, kids, budget>>

ReapDone ==
  /\ mpc = "reap" /\ ri >= last
  /\ mpc' = "check" /\ ri' = 0
  /\ UNCHANGED <<table, todo, sig, live, delay, sigio, flags, bin, fdt, np, kids, budget>>
-----------------------------------------------------------------------------
(***************************************************************************)
(* What the body of the loop does with the flags.                          *)
(***************************************************************************)
\* Mutant: the flag of a graceful shutdown is forgotten.
MayEndTerminate == ~live /\ terminate

MayEnd == ~live /\ (terminate \/ quit)

MasterExit ==
  /\ mpc = "check" /\ MayEnd
  /\ mpc' = "exit"
  /\ UNCHANGED <<table, todo, ri, sig, live, delay, sigio, flags, bin, fdt, np, kids, budget>>

OnTerminate ==
  /\ mpc = "check" /\ live /\ terminate
  /\ delay' = IF delay = 0 THEN FirstDelay ELSE delay
  /\ IF sigio > 0
       THEN sigio' = sigio - 1 /\ mpc' = "top" /\ UNCHANGED <<sig, ri>>
       ELSE /\ sigio' = SigioRounds /\ mpc' = "signal" /\ ri' = 0
            /\ sig' = IF delay' > KillDelay THEN "KILL" ELSE "TERMINATE"
  /\ UNCHANGED <<table, todo, live, flags, bin, fdt, np, kids, budget>>

OnQuit ==
  /\ mpc = "check" /\ live /\ ~terminate /\ quit
  /\ mpc' = "signal" /\ ri' = 0 /\ sig' = "QUIT"
  /\ UNCHANGED <<table, todo, live, delay, sigio, flags, bin, fdt, np, kids, budget>>

\* Nothing ends the program: ntg_add starts one traffic process, then the binary.
OnAdd ==
  /\ mpc = "check" /\ ~terminate /\ ~quit
  /\ mpc' = IF change THEN "binary" ELSE "top"
  /\ add' = FALSE
  /\ IF add THEN SpawnProcess(FreeSlot, "TRAFFIC", "RESPAWN")
            ELSE UNCHANGED <<table, fdt, np, kids, fails>>
  /\ UNCHANGED <<todo, ri, sig, live, delay, sigio, reap, terminate, quit, change, sigalrm,
                 woken, bin, crashes, adds>>

(***************************************************************************)
(* ntg_exec_new_binary: rename the pid file, start the new binary detached *)
(* and rename the file back when that fails.                               *)
(***************************************************************************)
ExecNewBinary ==
  /\ mpc = "binary"
  /\ change' = FALSE /\ mpc' = "top"
  /\ \/ /\ fails < MaxFail /\ fails' = fails + 1    \* no memory, or rename() fails
        /\ newBinary' = -1
        /\ UNCHANGED <<renamed, table, fdt, np, kids>>
     \/ /\ SpawnProcess(FreeSlot, "NONE", "DETACHED")
        /\ newBinary' = IF np' # np THEN np' ELSE -1
        /\ renamed' \in BOOLEAN /\ (np' # np => renamed')   \* renaming back may fail
  /\ UNCHANGED <<todo, ri, sig, live, delay, sigio, reap, terminate, quit, add, sigalrm,
                 woken, crashes, adds>>

-----------------------------------------------------------------------------
(***************************************************************************)
(* ntg_signal_worker_processes, one slot per step.                         *)
(***************************************************************************)
SignalSkips(i) == detached[i] \/ pid[i] = -1 \/ (exiting[i] /\ sig = "QUIT")

SignalSkip ==
  /\ mpc = "signal" /\ ri < last /\ SignalSkips(ri)
  /\ ri' = ri + 1
  /\ UNCHANGED <<table, mpc, todo, sig, live, delay, sigio, flags, bin, fdt, np, kids, budget>>

\* ntg_write_channel() returns NTG_OK.
SignalByChannel ==
  /\ mpc = "signal" /\ ri < last /\ ~SignalSkips(ri)
  /\ sig # "KILL" /\ Reader(chan[ri]) # 0
  /\ told' = [told EXCEPT ![Reader(chan[ri])] = TRUE]
  /\ exiting' = [exiting EXCEPT ![ri] = TRUE]
  /\ ri' = ri + 1
  /\ UNCHANGED <<pid, type, chan, respawn, detached, exited, last, slot, mpc, todo, sig,
                 live, delay, sigio, flags, bin, fdt, np, st, kind, home, budget>>

\* Processes kill(p, signal) reaches; kill(0, ...) reaches the whole process group.
Group(p) == IF p = 0 THEN {q \in Pid : st[q] \in Alive \cup Zombie}
            ELSE {q \in {p} : st[q] \in Alive \cup Zombie}

\* SIGKILL, or the channel is closed or full.
SignalByKill ==
  /\ mpc = "signal" /\ ri < last /\ ~SignalSkips(ri)
  /\ LET hit == {q \in Group(pid[ri]) : st[q] \in Alive} IN
       /\ st' = [q \in Pid |-> IF q \in hit /\ sig = "KILL" THEN "zombie" ELSE st[q]]
       /\ told' = [q \in Pid |-> told[q] \/ (q \in hit /\ sig # "KILL")]
  /\ IF pid[ri] # 0 /\ Group(pid[ri]) = {}           \* ESRCH
       THEN /\ exited' = [exited EXCEPT ![ri] = TRUE]
            /\ exiting' = [exiting EXCEPT ![ri] = FALSE]
            /\ reap' = TRUE
       ELSE /\ exiting' = [exiting EXCEPT ![ri] = TRUE]
            /\ UNCHANGED <<exited, reap>>
  /\ mpc' = IF pid[ri] = 0 /\ sig = "KILL" THEN "killed" ELSE mpc
  /\ woken' = (woken \/ pid[ri] = 0)                  \* the master is in the group
  /\ ri' = ri + 1
  /\ UNCHANGED <<pid, type, chan, respawn, detached, last, slot, todo, sig, live, delay,
                 sigio, terminate, quit, add, change, sigalrm, bin, fdt, np,
                 kind, home, budget>>

SignalDone ==
  /\ mpc = "signal" /\ ri >= last
  /\ mpc' = "top" /\ ri' = 0 /\ sig' = "QUIT"
  /\ UNCHANGED <<table, todo, live, delay, sigio, flags, bin, fdt, np, kids, budget>>
-----------------------------------------------------------------------------
(***************************************************************************)
(* Events of the master: ntg_signal_handler and ntg_process_get_status.    *)
(***************************************************************************)

\* SIGCHLD: wait for every dead child and mark its slot.  A child that is not in the table
\* leaves the index at ntg_last_process, whose respawn flag a fatal code clears.
SigChld ==
  LET dead  == {p \in Pid : st[p] \in Zombie}
      found(p) == {i \in 0 .. last - 1 : pid[i] = p}
  IN
  /\ mpc = "wait" /\ dead # {}
  /\ st' = [p \in Pid |-> IF p \in dead THEN "gone" ELSE st[p]]
  /\ exited' = [i \in Slot |-> exited[i] \/ (i < last /\ pid[i] \in dead)]
  /\ respawn' = [i \in Slot |->
       /\ respawn[i]
       /\ ~(i < last /\ pid[i] \in dead /\ st[pid[i]] = "fatal")
       /\ ~(i = last /\ \E p \in dead : st[p] = "fatal" /\ found(p) = {})]
  /\ reap' = TRUE /\ woken' = TRUE
  /\ told' = [p \in Pid |-> told[p] /\ p \notin dead]
  /\ UNCHANGED <<pid, type, chan, detached, exiting, last, slot, loop, terminate, quit, add,
                 change, sigalrm, bin, fdt, np, kind, home, budget>>

\* The timer was set at the top of the loop.
SigAlrm ==
  /\ mpc = "wait" /\ delay # 0 /\ ~sigalrm
  /\ sigalrm' = TRUE /\ woken' = TRUE
  /\ UNCHANGED <<table, loop, reap, terminate, quit, add, change, bin, fdt, np, kids, budget>>

SigTerminate ==
  /\ mpc = "wait"
  /\ terminate' = TRUE /\ woken' = TRUE
  /\ UNCHANGED <<table, loop, reap, quit, add, change, sigalrm, bin, fdt, np, kids, budget>>

SigQuit ==
  /\ mpc = "wait"
  /\ quit' = TRUE /\ woken' = TRUE
  /\ UNCHANGED <<table, loop, reap, terminate, add, change, sigalrm, bin, fdt, np, kids, budget>>

SigAdd ==
  /\ mpc = "wait" /\ adds < MaxAdd
  /\ add' = TRUE /\ woken' = TRUE /\ adds' = adds + 1
  /\ UNCHANGED <<table, loop, reap, terminate, quit, change, sigalrm, bin, fdt, np, kids,
                 crashes, fails>>

\* The daemon's parent is init; a new binary that runs already makes the master ignore it.
SigChangeBin ==
  /\ mpc = "wait" /\ adds < MaxAdd
  /\ change' = (change \/ ~(newBinary > 0))
  /\ woken' = TRUE /\ adds' = adds + 1
  /\ UNCHANGED <<table, loop, reap, terminate, quit, add, sigalrm, bin, fdt, np, kids,
                 crashes, fails>>

\* SIGIO, SIGHUP (ntg_reconfigure is only reset) or a remote connection.
OtherEvent ==
  /\ mpc = "wait" /\ ~woken
  /\ woken' = TRUE
  /\ UNCHANGED <<table, loop, reap, terminate, quit, add, change, sigalrm, bin, fdt, np,
                 kids, budget>>
-----------------------------------------------------------------------------
(***************************************************************************)
(* The children.                                                           *)
(***************************************************************************)
Child(p) == kind[p] # "NONE"              \* not the detached new binary

\* ntg_worker_process_init succeeds, or the child exits with the fatal code 2.
ChildInit(p) ==
  /\ st[p] = "init"
  /\ st' = [st EXCEPT ![p] = "run"]
  /\ UNCHANGED <<table, loop, flags, bin, fdt, np, kind, home, told, budget>>

ChildFatal(p) ==
  /\ st[p] = "init"
  /\ st' = [st EXCEPT ![p] = "fatal"]
  /\ UNCHANGED <<table, loop, flags, bin, fdt, np, kind, home, told, budget>>

\* ntg_channel_handler or ntg_signal_handler sets ntg_terminate or ntg_quit; the cycle of the
\* child then exits, after ntg_quit by way of ntg_exiting.
ChildExit(p) ==
  /\ st[p] = "run" /\ Child(p) /\ told[p]
  /\ st' = [st EXCEPT ![p] = "zombie"]
  /\ UNCHANGED <<table, loop, flags, bin, fdt, np, kind, home, told, budget>>

\* A child dies by itself (a crash, an external kill, the new binary ends).
ChildDies(p) ==
  /\ st[p] \in Alive /\ crashes < MaxCrash
  /\ crashes' = crashes + 1
  /\ st' = [st EXCEPT ![p] = "zombie"]
  /\ UNCHANGED <<table, loop, flags, bin, fdt, np, kind, home, told, fails, adds>>
-----------------------------------------------------------------------------
Boot   == StartVirtualProcess \/ StartTrafficProcess \/ InitMaster
Reap   == ReapSkip \/ ReapClose \/ ReapRespawn \/ ReapDrop \/ ReapDone
Signal == SignalSkip \/ SignalByChannel \/ SignalByKill \/ SignalDone
Body   == MasterExit \/ OnTerminate \/ OnQuit \/ OnAdd \/ ExecNewBinary
Master == Boot \/ LoopTop \/ WakeUp \/ Reap \/ Signal \/ Body
Events == SigTerminate \/ SigQuit \/ SigAdd \/ SigChangeBin \/ OtherEvent
Work(p) == ChildInit(p) \/ ChildExit(p)

\* The program is over.
Done == mpc \in {"exit", "killed"} /\ UNCHANGED vars

Next ==
  \/ Master
  \/ Events
  \/ SigChld
  \/ SigAlrm
  \/ \E p \in Pid : Work(p) \/ ChildFatal(p) \/ ChildDies(p)
  \/ Done

Spec == Init /\ [][Next]_vars

\* The master and the children run.  A pending SIGCHLD is handled by the next call of
\* event_base_loop, whatever else is pending (strong fairness: the master keeps leaving
\* "wait").  The timer is set anew in every round: that it expires in the end assumes that
\* other events do not come faster than it forever.
Fairness ==
  /\ WF_vars(Master)
  /\ SF_vars(SigChld)
  /\ SF_vars(SigAlrm)
  /\ \A p \in Pid : WF_vars(Work(p))

FairSpec == Spec /\ Fairness
-----------------------------------------------------------------------------
(***************************************************************************)
(* Properties.                                                             *)
(***************************************************************************)
Unwaited(p) == Child(p) /\ st[p] \in Alive \cup Zombie

\* The table covers the children: a child that has not been waited for is the occupant of
\* the slot it was forked for, below ntg_last_process and not marked as exited, so that
\* SIGCHLD, the reap pass and the signal pass all find it.  It holds as long as
\* ntg_last_process has not fallen below ntg_start_process.  ntg_reap_children lets that
\* happen when slot 0 is the last one it drops; a traffic process started later then stays
\* above ntg_last_process.
ChildrenInTable ==
  last >= StartProcess =>
    \A p \in Pid : Unwaited(p) =>
      /\ home[p] < last /\ pid[home[p]] = p
      /\ ~exited[home[p]] /\ ~detached[home[p]]

\* ntg_reap_children returns 0 only when no child is left: at the end of a pass that found
\* nothing live, every child has been waited for.
ReapVerdict ==
  mpc = "reap" /\ ri >= last /\ ~live /\ last >= StartProcess =>
    \A p \in Pid : ~Unwaited(p)

\* Once the master has been told to terminate or to quit, no step forks a child: neither a
\* respawn, nor ADD, nor a new binary.
NoForkInShutdown == [][terminate \/ quit => np' = np]_vars

\* A new binary that took the slot of a child given up before is recognised when it ends:
\* when a pass is over and the pid of an ended binary is still remembered, its slot has not
\* been given up, unless a later process had it.  (One that took slot ntg_last_process,
\* which only traffic processes advance, is never found: its pid is remembered for good.)
NewBinaryForgotten ==
  mpc = "wait" /\ ~reap /\ newBinary > 0 /\ st[newBinary] = "gone" =>
    \/ pid[home[newBinary]] # -1
    \/ \E p \in newBinary + 1 .. np : home[p] = home[newBinary]

Over == mpc \in {"exit", "killed"}

\* A TERM signal ends the program: children that do not obey are killed in the end.
TermEndsProgram == (terminate /\ woken) ~> Over

\* A QUIT signal ends the program, although nothing escalates, unless a system call fails:
\* a stale descriptor number may then take the command to another child.
QuitEndsProgram == (quit /\ woken) ~> (Over \/ fails > 0)
=============================================================================
