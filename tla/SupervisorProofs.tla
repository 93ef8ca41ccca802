------------------------- MODULE SupervisorProofs -------------------------
(***************************************************************************)
(* Theorems about Supervisor for every number of workers, slots,           *)
(* descriptors, crashes, failures and operator signals.  The inductive     *)
(* invariant IndInv joins the type invariant, ChildrenInTable, the facts   *)
(* about the master's position that make ChildrenInTable inductive, and    *)
(* where the new binary is.                                                *)
(***************************************************************************)
EXTENDS Supervisor, NatLemmas

\* Numbers of processes are given out in order.
FreshPids == \A p \in Pid : st[p] # "none" => p <= np

\* Where the master is says what it has done and checked.
BootFirst   == mpc = "virtual" => np = 0
RespawnSlot == mpc = "respawn" => ri < last /\ exited[ri] /\ pid[ri] # -1
MayFork     == mpc \in {"virtual", "traffic", "binary"} => ~terminate /\ ~quit

\* Only a child of the master itself is respawned.
RespawnMine == \A i \in Slot : respawn[i] => ~detached[i]

\* A reap pass that has found nothing live has passed no child.
PassedNone ==
  mpc \in {"reap", "respawn"} /\ ~live /\ last >= StartProcess =>
    \A p \in Pid : Unwaited(p) => home[p] >= ri

\* The new binary is in the slot it was started in until a later process takes that slot.
BinaryInSlot ==
  newBinary > 0 =>
    /\ newBinary <= np
    /\ \/ pid[home[newBinary]] = newBinary
       \/ \E p \in newBinary + 1 .. np : home[p] = home[newBinary]

IndInv ==
  /\ TypeOK /\ ChildrenInTable
  /\ FreshPids /\ BootFirst /\ RespawnSlot /\ MayFork /\ RespawnMine /\ PassedNone /\ BinaryInSlot
-----------------------------------------------------------------------------
(***************************************************************************)
(* The helpers.                                                            *)
(***************************************************************************)

\* socketpair() returns descriptors that were free.
LEMMA LowestFdFree ==
  ASSUME SupervisorAssumption, SpawnTypeOK, FdFree
  PROVE  LowestFd \in Fd /\ fdt[LowestFd] = 0
<1> DEFINE S == {f \in Fd : fdt[f] = 0}
<1>1. S \subseteq Nat /\ S # {}
  BY DEF FdFree, Fd, SupervisorAssumption
<1>2. Min(S) \in S
  <2> HIDE DEF S
  <2> QED BY <1>1, MinNat
<1> QED BY <1>2 DEF LowestFd

\* The slot ntg_spawn_process takes for a new process is inside the array, is never that of
\* the virtual process, and is a freed one or the next one.
LEMMA FreeSlotVacant ==
  ASSUME SupervisorAssumption, SpawnTypeOK
  PROVE  /\ FreeSlot \in Slot /\ FreeSlot >= StartProcess
         /\ FreeSlot < last => pid[FreeSlot] = -1
         /\ last >= StartProcess => FreeSlot <= last
<1> DEFINE H == {s \in StartProcess .. last - 1 : pid[s] = -1}
<1>1. last \in Nat /\ last <= MaxSlots /\ MaxSlots \in Nat /\ MaxSlots > 1
  BY DEF SpawnTypeOK, Slot, SupervisorAssumption
<1>2. FreeSlot = IF H # {} THEN Min(H)
                 ELSE IF last > StartProcess THEN last ELSE StartProcess
  BY DEF FreeSlot
<1>3. CASE H # {}
  <2>1. H \subseteq Nat
    BY <1>1 DEF StartProcess
  <2>2. Min(H) \in H
    <3> HIDE DEF H
    <3> QED BY <1>3, <2>1, MinNat
  <2>3. FreeSlot \in H
    BY <1>2, <1>3, <2>2
  <2> QED BY <1>1, <2>3 DEF Slot, StartProcess
<1>4. CASE H = {}
  <2>1. FreeSlot = IF last > StartProcess THEN last ELSE StartProcess
    BY <1>2, <1>4
  <2> QED BY <1>1, <2>1 DEF Slot, StartProcess
<1> QED BY <1>3, <1>4
-----------------------------------------------------------------------------
(***************************************************************************)
(* ntg_spawn_process.                                                      *)
(***************************************************************************)

\* Where a process may be started: for a new one a freed slot or the next one, and slot 0
\* only for the virtual process; for a respawn the slot of a child of the master.
Target(s, ty, mode) ==
  /\ s \in Slot /\ ty \in {"NONE", "VIRTUAL", "TRAFFIC"}
  /\ mode \in {"RESPAWN", "DETACHED", "AGAIN"}
  /\ mode = "AGAIN" => s < last /\ respawn[s]
  /\ mode = "RESPAWN" => /\ ty # "NONE"
                         /\ ty = "TRAFFIC" => s >= StartProcess
                         /\ ty = "VIRTUAL" => s = 0
  /\ mode = "DETACHED" => ty = "NONE"
  /\ last >= StartProcess => s <= last /\ \A p \in Pid : Unwaited(p) => home[p] # s

\* Whatever becomes of a spawn, the table and the children keep their types.
LEMMA SpawnType ==
  ASSUME SupervisorAssumption, SpawnTypeOK, NEW s, NEW ty, NEW mode,
         s \in Slot, ty \in {"NONE", "VIRTUAL", "TRAFFIC"}, SpawnProcess(s, ty, mode)
  PROVE  SpawnTypeOK'
<1>0. FdFree => LowestFd \in Fd /\ LowestFd \in -1 .. MaxFds
  <2>1. FdFree => LowestFd \in Fd
    BY LowestFdFree
  <2> QED BY <2>1, SupervisorAssumption DEF Fd, SupervisorAssumption
<1> USE DEF SpawnTypeOK, table, kids
<1>1. CASE SpawnRefused(s)
  BY <1>1 DEF SpawnRefused
<1>2. CASE SpawnFails(s, ty, mode)
  <2>1. fails' \in 0 .. MaxFail
    BY <1>2 DEF SpawnFails, SupervisorAssumption
  <2>2. chan' \in [Slot -> -1 .. MaxFds]
    <3>1. \/ chan' = chan
          \/ chan' = [chan EXCEPT ![s] = -1]
          \/ FdFree /\ chan' = [chan EXCEPT ![s] = LowestFd]
      BY <1>2 DEF SpawnFails
    <3> QED BY <1>0, <3>1, SupervisorAssumption DEF SupervisorAssumption
  <2> QED BY <1>2, <2>1, <2>2 DEF SpawnFails
<1>3. CASE SpawnSucceeds(s, ty, mode)
  <2> DEFINE p == np + 1
  <2>1. p \in Pid /\ p \in 0 .. MaxPid /\ p \in -1 .. MaxPid
    BY <1>3 DEF SpawnSucceeds, Pid, MaxPid, SupervisorAssumption
  <2>2. mode # "DETACHED" => LowestFd \in Fd /\ LowestFd \in -1 .. MaxFds
    BY <1>0, <1>3 DEF SpawnSucceeds
  <2>3. last' \in Slot
    BY <1>3, SMTT(30) DEF SpawnSucceeds, NoRoom, Slot, SupervisorAssumption
  <2>4. /\ pid' \in [Slot -> -1 .. MaxPid]
        /\ type' \in [Slot -> {"NONE", "VIRTUAL", "TRAFFIC"}]
        /\ chan' \in [Slot -> -1 .. MaxFds]
        /\ fdt' \in [Fd -> 0 .. MaxPid] /\ np' \in 0 .. MaxPid
        /\ slot' \in Slot
    BY <1>3, <2>1, <2>2 DEF SpawnSucceeds, SupervisorAssumption
  <2>5. /\ respawn' \in [Slot -> BOOLEAN] /\ detached' \in [Slot -> BOOLEAN]
        /\ exiting' \in [Slot -> BOOLEAN] /\ exited' \in [Slot -> BOOLEAN]
    BY <1>3 DEF SpawnSucceeds
  <2>6. /\ st' \in [Pid -> {"none", "gone"} \cup Alive \cup Zombie]
        /\ kind' \in [Pid -> {"NONE", "VIRTUAL", "TRAFFIC"}] /\ home' \in [Pid -> Slot]
        /\ told' \in [Pid -> BOOLEAN]
        /\ fails' \in 0 .. MaxFail
    BY <1>3, <2>1 DEF SpawnSucceeds, Alive, Zombie
  <2> QED BY <2>3, <2>4, <2>5, <2>6
<1> QED BY <1>1, <1>2, <1>3 DEF SpawnProcess

\* A spawn into a vacant slot keeps every child findable in the table.
LEMMA SpawnKeepsChildren ==
  ASSUME SupervisorAssumption, SpawnTypeOK, ChildrenInTable, FreshPids, RespawnMine,
         NEW s, NEW ty, NEW mode, Target(s, ty, mode), SpawnProcess(s, ty, mode)
  PROVE  ChildrenInTable' /\ FreshPids' /\ RespawnMine'
<1>1. CASE SpawnRefused(s)
  BY <1>1 DEF SpawnRefused, table, kids, ChildrenInTable, FreshPids, RespawnMine,
     Unwaited, Child
<1>2. CASE SpawnFails(s, ty, mode)
  BY <1>2 DEF SpawnFails, kids, ChildrenInTable, FreshPids, RespawnMine, Unwaited, Child
<1>3. CASE SpawnSucceeds(s, ty, mode)
  <2> DEFINE p == np + 1
  <2>1. p \in Pid
    BY <1>3 DEF SpawnSucceeds, SpawnTypeOK, Pid, MaxPid, SupervisorAssumption
  <2>2. st[p] = "none"
    BY <2>1 DEF FreshPids, SpawnTypeOK, MaxPid, SupervisorAssumption
  <2>3. FreshPids'
    <3> SUFFICES ASSUME NEW q \in Pid, st'[q] # "none" PROVE q <= np'
      BY DEF FreshPids
    <3>1. q = p \/ st[q] # "none"
      BY <1>3, <2>1 DEF SpawnSucceeds, SpawnTypeOK
    <3>2. np' = np + 1 /\ np \in Nat
      BY <1>3 DEF SpawnSucceeds, SpawnTypeOK, MaxPid, SupervisorAssumption
    <3>3. st[q] # "none" => q <= np
      BY DEF FreshPids
    <3> QED BY <3>1, <3>2, <3>3 DEF Pid, MaxPid, SupervisorAssumption
  <2>4. RespawnMine'
    BY <1>3 DEF SpawnSucceeds, RespawnMine, SpawnTypeOK, Target
  <2>5. ChildrenInTable'
    <3> SUFFICES ASSUME last' >= StartProcess, NEW q \in Pid, Unwaited(q)'
                 PROVE  /\ home'[q] < last' /\ pid'[home'[q]] = q
                        /\ ~exited'[home'[q]] /\ ~detached'[home'[q]]
      BY DEF ChildrenInTable
    <3>1. last \in Nat /\ last' \in Nat /\ s \in Nat
      <4>1. SpawnTypeOK'
        BY SpawnType, SupervisorAssumption DEF Target
      <4> QED BY <4>1, SupervisorAssumption DEF SpawnTypeOK, Slot, Target,
                 SupervisorAssumption
    <3>2. last >= StartProcess /\ last' >= last
      BY <1>3, <3>1 DEF SpawnSucceeds, Target, StartProcess
    <3>3. s <= last /\ (Unwaited(q) => home[q] # s)
      BY <3>2 DEF Target
    <3>4. CASE q = p
      <4>1. home'[q] = s /\ pid'[s] = q /\ ~exited'[s] /\ kind'[q] = ty
        BY <1>3, <2>1, <3>4 DEF SpawnSucceeds, SpawnTypeOK, Target
      <4>2. ty # "NONE" /\ mode # "DETACHED"
        BY <4>1 DEF Unwaited, Child, Target
      <4>3. ~detached'[s]
        <5>1. CASE mode = "AGAIN"
          BY <1>3, <5>1 DEF SpawnSucceeds, Target, RespawnMine
        <5>2. CASE mode # "AGAIN"
          BY <1>3, <4>2, <5>2 DEF SpawnSucceeds, SpawnTypeOK, Target
        <5> QED BY <5>1, <5>2
      <4>4. s < last'
        BY <1>3, <3>1, <3>2, <3>3, <4>2 DEF SpawnSucceeds, Target, StartProcess
      <4> QED BY <4>1, <4>3, <4>4
    <3>5. CASE q # p
      <4>1. st'[q] = st[q] /\ kind'[q] = kind[q] /\ home'[q] = home[q]
        BY <1>3, <2>1, <3>5 DEF SpawnSucceeds, SpawnTypeOK
      <4>2. Unwaited(q)
        BY <4>1 DEF Unwaited, Child
      <4>3. /\ home[q] < last /\ pid[home[q]] = q
            /\ ~exited[home[q]] /\ ~detached[home[q]]
        BY <3>2, <4>2 DEF ChildrenInTable
      <4>4. home[q] \in Slot /\ home[q] # s
        BY <3>3, <4>2 DEF SpawnTypeOK
      <4>5. /\ pid'[home[q]] = pid[home[q]] /\ exited'[home[q]] = exited[home[q]]
            /\ detached'[home[q]] = detached[home[q]]
        BY <1>3, <4>4 DEF SpawnSucceeds, SpawnTypeOK
      <4>6. home[q] < last'
        BY <3>1, <3>2, <4>3, <4>4 DEF Slot, SupervisorAssumption
      <4> QED BY <4>1, <4>3, <4>5, <4>6
    <3> QED BY <3>4, <3>5
  <2> QED BY <2>3, <2>4, <2>5
<1> QED BY <1>1, <1>2, <1>3 DEF SpawnProcess
-----------------------------------------------------------------------------
(***************************************************************************)
(* The type invariant, action by action.                                   *)
(***************************************************************************)

\* A new process is started in a slot where it may be.
LEMMA FreeTarget ==
  ASSUME SupervisorAssumption, SpawnTypeOK, ChildrenInTable
  PROVE  Target(FreeSlot, "TRAFFIC", "RESPAWN") /\ Target(FreeSlot, "NONE", "DETACHED")
<1>1. /\ FreeSlot \in Slot /\ FreeSlot >= StartProcess
      /\ FreeSlot < last => pid[FreeSlot] = -1
      /\ last >= StartProcess => FreeSlot <= last
  BY FreeSlotVacant
<1>2. ASSUME last >= StartProcess, NEW p \in Pid, Unwaited(p), home[p] = FreeSlot
      PROVE  FALSE
  <2>1. home[p] < last /\ pid[home[p]] = p
    BY <1>2 DEF ChildrenInTable
  <2>2. pid[home[p]] = -1
    BY <1>1, <1>2, <2>1
  <2> QED BY <2>1, <2>2, SupervisorAssumption DEF Pid, MaxPid, SupervisorAssumption
<1> QED BY <1>1, <1>2 DEF Target

\* The virtual process is started in slot 0, before any other.
LEMMA VirtualTarget ==
  ASSUME SupervisorAssumption, SpawnTypeOK, FreshPids, np = 0
  PROVE  Target(0, "VIRTUAL", "RESPAWN")
<1>1. \A p \in Pid : ~Unwaited(p)
  BY SupervisorAssumption
     DEF FreshPids, Unwaited, Pid, MaxPid, Alive, Zombie, SupervisorAssumption
<1> QED BY <1>1, SupervisorAssumption
           DEF Target, Slot, SpawnTypeOK, StartProcess, SupervisorAssumption

\* A respawn takes the slot of the child that exited.
LEMMA RespawnTarget ==
  ASSUME SupervisorAssumption, SpawnTypeOK, LoopTypeOK, ChildrenInTable, RespawnSlot,
         mpc = "respawn", MayRespawn(ri)
  PROVE  Target(ri, type[ri], "AGAIN")
<1>1. ri \in Slot /\ ri < last /\ exited[ri] /\ respawn[ri]
  BY DEF RespawnSlot, MayRespawn, LoopTypeOK
<1>2. type[ri] \in {"NONE", "VIRTUAL", "TRAFFIC"}
  BY <1>1 DEF SpawnTypeOK
<1>3. last >= StartProcess => \A p \in Pid : Unwaited(p) => home[p] # ri
  BY <1>1 DEF ChildrenInTable
<1>4. ri <= last
  BY <1>1, SupervisorAssumption DEF Slot, SpawnTypeOK, SupervisorAssumption
<1> QED BY <1>1, <1>2, <1>3, <1>4 DEF Target

\* Every step of the loop keeps its variables typed, given that a spawn keeps np typed.
LEMMA LoopType ==
  ASSUME SupervisorAssumption, TypeOK, RespawnSlot, Next, SpawnTypeOK'
  PROVE  LoopTypeOK'
<1>0. LoopTypeOK /\ last \in Slot /\ np' \in 0 .. MaxPid
  BY DEF TypeOK, SpawnTypeOK
<1> USE DEF LoopTypeOK, MasterAt, flags, bin, loop, budget
<1>1. CASE Boot
  <2>1. CASE StartVirtualProcess
    BY <1>0, <2>1 DEF StartVirtualProcess
  <2>2. CASE StartTrafficProcess
    BY <1>0, <2>2, SupervisorAssumption DEF StartTrafficProcess, SupervisorAssumption
  <2>3. CASE InitMaster
    BY <1>0, <2>3, ZenonT(30) DEF InitMaster
  <2> QED BY <1>1, <2>1, <2>2, <2>3 DEF Boot
<1>2. CASE LoopTop
  <2>1. delay' \in 0 .. 2 * KillDelay
    BY <1>0, <1>2, SupervisorAssumption DEF LoopTop, Doubled, SupervisorAssumption
  <2>2. sigio' \in 0 .. SigioRounds
    BY <1>0, <1>2, SupervisorAssumption DEF LoopTop, SupervisorAssumption
  <2>3. sigalrm' \in BOOLEAN
    BY <1>0, <1>2, Zenon DEF LoopTop
  <2> QED BY <1>0, <1>2, <2>1, <2>2, <2>3 DEF LoopTop
<1>3. CASE WakeUp
  <2>1. mpc' \in MasterAt /\ reap' \in BOOLEAN /\ live' \in BOOLEAN
    BY <1>0, <1>3 DEF WakeUp
  <2>2. 0 \in Slot
    BY SupervisorAssumption DEF Slot, SupervisorAssumption
  <2> QED BY <1>0, <1>3, <2>1, <2>2 DEF WakeUp
<1>4. CASE Reap
  <2>0. /\ 0 \in Slot
        /\ ri < last => ri + 1 \in Slot
    BY <1>0, SupervisorAssumption DEF Slot, SupervisorAssumption
  <2>1. CASE ReapSkip
    BY <1>0, <2>0, <2>1 DEF ReapSkip
  <2>2. CASE ReapClose
    BY <1>0, <2>2 DEF ReapClose
  <2>3. CASE ReapRespawn
    BY <1>0, <2>0, <2>3 DEF ReapRespawn, RespawnSlot
  <2>4. CASE ReapDrop
    <3>1. newBinary' \in -1 .. MaxPid
      BY <1>0, <2>4, SupervisorAssumption
         DEF ReapDrop, ForgetBinary, bin, MaxPid, SupervisorAssumption
    <3>2. renamed' \in BOOLEAN
      BY <1>0, <2>4, Zenon DEF ReapDrop, ForgetBinary, bin
    <3> QED BY <1>0, <2>0, <2>4, <3>1, <3>2 DEF ReapDrop, RespawnSlot
  <2>5. CASE ReapDone
    BY <1>0, <2>0, <2>5 DEF ReapDone
  <2> QED BY <1>4, <2>1, <2>2, <2>3, <2>4, <2>5 DEF Reap
<1>5. CASE Signal
  <2>0. /\ 0 \in Slot
        /\ ri < last => ri + 1 \in Slot
    BY <1>0, SupervisorAssumption DEF Slot, SupervisorAssumption
  <2>1. CASE SignalSkip
    BY <1>0, <2>0, <2>1 DEF SignalSkip
  <2>2. CASE SignalByChannel
    BY <1>0, <2>0, <2>2 DEF SignalByChannel
  <2>3. CASE SignalByKill
    <3>1. mpc' \in MasterAt
      BY <1>0, <2>3 DEF SignalByKill
    <3>2. reap' \in BOOLEAN /\ woken' \in BOOLEAN
      BY <1>0, <2>3 DEF SignalByKill
    <3> QED BY <1>0, <2>0, <2>3, <3>1, <3>2 DEF SignalByKill
  <2>4. CASE SignalDone
    BY <1>0, <2>0, <2>4 DEF SignalDone
  <2> QED BY <1>5, <2>1, <2>2, <2>3, <2>4 DEF Signal
<1>6. CASE Body
  <2>0. 0 \in Slot
    BY SupervisorAssumption DEF Slot, SupervisorAssumption
  <2>1. CASE MasterExit
    BY <1>0, <2>1 DEF MasterExit
  <2>2. CASE OnTerminate
    <3>1. delay' \in 0 .. 2 * KillDelay
      BY <1>0, <2>2, SupervisorAssumption DEF OnTerminate, SupervisorAssumption
    <3>2. sigio' \in 0 .. SigioRounds
      BY <1>0, <2>2, SupervisorAssumption DEF OnTerminate, SupervisorAssumption
    <3>3. mpc' \in MasterAt /\ ri' \in Slot /\ sig' \in {"QUIT", "TERMINATE", "KILL"}
      BY <1>0, <2>0, <2>2 DEF OnTerminate
    <3> QED BY <1>0, <2>2, <3>1, <3>2, <3>3 DEF OnTerminate
  <2>3. CASE OnQuit
    BY <1>0, <2>0, <2>3 DEF OnQuit
  <2>4. CASE OnAdd
    BY <1>0, <2>4 DEF OnAdd
  <2>5. CASE ExecNewBinary
    <3>1. newBinary' \in -1 .. MaxPid
      BY <1>0, <2>5, SupervisorAssumption DEF ExecNewBinary, MaxPid, SupervisorAssumption
    <3>2. renamed' \in BOOLEAN
      BY <1>0, <2>5 DEF ExecNewBinary
    <3> QED BY <1>0, <2>5, <3>1, <3>2 DEF ExecNewBinary
  <2> QED BY <1>6, <2>1, <2>2, <2>3, <2>4, <2>5 DEF Body
<1>7. CASE Events
  <2>1. CASE SigTerminate \/ SigQuit \/ OtherEvent
    <3>1. terminate' \in BOOLEAN /\ quit' \in BOOLEAN /\ woken' \in BOOLEAN
      BY <1>0, <2>1, Zenon DEF SigTerminate, SigQuit, OtherEvent
    <3> QED BY <1>0, <2>1, <3>1 DEF SigTerminate, SigQuit, OtherEvent
  <2>2. CASE SigAdd \/ SigChangeBin
    <3>1. adds' \in 0 .. MaxAdd
      BY <1>0, <2>2, SupervisorAssumption DEF SigAdd, SigChangeBin, SupervisorAssumption
    <3>2. add' \in BOOLEAN /\ change' \in BOOLEAN
      BY <1>0, <2>2 DEF SigAdd, SigChangeBin
    <3> QED BY <1>0, <2>2, <3>1, <3>2 DEF SigAdd, SigChangeBin
  <2> QED BY <1>7, <2>1, <2>2 DEF Events
<1>8. CASE SigChld
  BY <1>0, <1>8 DEF SigChld
<1>9. CASE SigAlrm
  BY <1>0, <1>9 DEF SigAlrm
<1>10. ASSUME NEW p \in Pid, Work(p) \/ ChildFatal(p) \/ ChildDies(p)
       PROVE  LoopTypeOK'
  <2>1. crashes' \in 0 .. MaxCrash
    BY <1>0, <1>10, SupervisorAssumption
       DEF Work, ChildInit, ChildExit, ChildFatal, ChildDies, SupervisorAssumption
  <2> QED BY <1>0, <1>10, <2>1 DEF Work, ChildInit, ChildExit, ChildFatal, ChildDies
<1>11. CASE Done
  BY <1>0, <1>11 DEF Done, vars
<1> QED BY <1>1, <1>2, <1>3, <1>4, <1>5, <1>6, <1>7, <1>8, <1>9, <1>10, <1>11
       DEF Next, Master

\* Every step keeps the table and the children typed.
LEMMA TableType ==
  ASSUME SupervisorAssumption, IndInv, Next
  PROVE  SpawnTypeOK'
<1>0. SpawnTypeOK /\ LoopTypeOK
  BY DEF IndInv, TypeOK
<1>1. CASE StartVirtualProcess
  <2>1. 0 \in Slot
    BY SupervisorAssumption DEF Slot, SupervisorAssumption
  <2> QED BY <1>0, <1>1, <2>1, SpawnType DEF StartVirtualProcess
<1>2. CASE StartTrafficProcess \/ OnAdd \/ ExecNewBinary
  <2>1. FreeSlot \in Slot
    BY <1>0, FreeSlotVacant
  <2>2. CASE SpawnProcess(FreeSlot, "TRAFFIC", "RESPAWN")
    BY <1>0, <2>1, <2>2, SpawnType
  <2>3. CASE SpawnProcess(FreeSlot, "NONE", "DETACHED")
    BY <1>0, <2>1, <2>3, SpawnType
  <2>4. CASE UNCHANGED <<table, fdt, np, kids, fails>>
    BY <1>0, <2>4 DEF SpawnTypeOK, table, kids
  <2>5. CASE UNCHANGED <<table, fdt, np, kids>> /\ fails < MaxFail /\ fails' = fails + 1
    <3>1. fails' \in 0 .. MaxFail
      BY <1>0, <2>5, SupervisorAssumption DEF SpawnTypeOK, SupervisorAssumption
    <3> QED BY <1>0, <2>5, <3>1 DEF SpawnTypeOK, table, kids
  <2> QED BY <1>2, <2>2, <2>3, <2>4, <2>5, Zenon
             DEF StartTrafficProcess, OnAdd, ExecNewBinary
<1>3. CASE ReapRespawn
  <2>1. ri \in Slot /\ type[ri] \in {"NONE", "VIRTUAL", "TRAFFIC"}
    BY <1>0 DEF SpawnTypeOK, LoopTypeOK
  <2> QED BY <1>0, <1>3, <2>1, SpawnType DEF ReapRespawn
<1>4. CASE InitMaster \/ ReapDrop
  <2>1. fails' \in 0 .. MaxFail
    BY <1>0, <1>4, SupervisorAssumption
       DEF InitMaster, ReapDrop, budget, SpawnTypeOK, SupervisorAssumption
  <2>2. CASE InitMaster
    BY <1>0, <2>1, <2>2 DEF InitMaster, SpawnTypeOK, table, kids
  <2>3. CASE ReapDrop
    <3>1. last' \in Slot
      BY <1>0, <2>3, SupervisorAssumption
         DEF ReapDrop, DropSlot, SpawnTypeOK, LoopTypeOK, Slot, SupervisorAssumption
    <3>2. pid' \in [Slot -> -1 .. MaxPid]
      BY <1>0, <2>3, SupervisorAssumption
         DEF ReapDrop, DropSlot, SpawnTypeOK, MaxPid, SupervisorAssumption
    <3> QED BY <1>0, <2>1, <2>3, <3>1, <3>2 DEF ReapDrop, DropSlot, SpawnTypeOK, kids
  <2> QED BY <1>4, <2>2, <2>3
<1>5. CASE ReapClose
  <2>1. fdt' \in [Fd -> 0 .. MaxPid]
    BY <1>0, <1>5, SupervisorAssumption
       DEF ReapClose, SpawnTypeOK, MaxPid, SupervisorAssumption
  <2>2. chan' \in [Slot -> -1 .. MaxFds]
    BY <1>0, <1>5, SupervisorAssumption
       DEF ReapClose, SpawnTypeOK, MaxPid, SupervisorAssumption
  <2> QED BY <1>0, <1>5, <2>1, <2>2 DEF ReapClose, SpawnTypeOK, kids, budget
<1>6. CASE SignalByChannel
  BY <1>0, <1>6 DEF SignalByChannel, SpawnTypeOK, budget
<1>7. CASE SignalByKill
  <2>1. st' \in [Pid -> {"none", "gone"} \cup Alive \cup Zombie]
    BY <1>0, <1>7 DEF SignalByKill, SpawnTypeOK, Zombie
  <2>2. told' \in [Pid -> BOOLEAN]
    BY <1>0, <1>7 DEF SignalByKill, SpawnTypeOK
  <2>3. exited' \in [Slot -> BOOLEAN] /\ exiting' \in [Slot -> BOOLEAN]
    BY <1>0, <1>7 DEF SignalByKill, SpawnTypeOK
  <2> QED BY <1>0, <1>7, <2>1, <2>2, <2>3 DEF SignalByKill, SpawnTypeOK, budget
<1>8. CASE SigChld
  <2>1. st' \in [Pid -> {"none", "gone"} \cup Alive \cup Zombie]
    BY <1>0, <1>8 DEF SigChld, SpawnTypeOK
  <2>2. told' \in [Pid -> BOOLEAN]
    BY <1>0, <1>8 DEF SigChld, SpawnTypeOK
  <2>3. exited' \in [Slot -> BOOLEAN]
    BY <1>0, <1>8 DEF SigChld, SpawnTypeOK
  <2>4. respawn' \in [Slot -> BOOLEAN]
    BY <1>0, <1>8 DEF SigChld, SpawnTypeOK
  <2> QED BY <1>0, <1>8, <2>1, <2>2, <2>3, <2>4 DEF SigChld, SpawnTypeOK, budget
<1>9. ASSUME NEW p \in Pid, Work(p) \/ ChildFatal(p) \/ ChildDies(p)
      PROVE  SpawnTypeOK'
  <2>1. st' \in [Pid -> {"none", "gone"} \cup Alive \cup Zombie]
    BY <1>0, <1>9 DEF Work, ChildInit, ChildExit, ChildFatal, ChildDies, SpawnTypeOK,
       Alive, Zombie
  <2> QED BY <1>0, <1>9, <2>1 DEF Work, ChildInit, ChildExit, ChildFatal, ChildDies,
             SpawnTypeOK, table, kids, budget
<1>10. CASE UNCHANGED <<table, fdt, np, kids, fails>>
  BY <1>0, <1>10 DEF SpawnTypeOK, table, kids
<1>11. \/ StartVirtualProcess \/ StartTrafficProcess \/ OnAdd \/ ExecNewBinary
       \/ ReapRespawn \/ InitMaster \/ ReapDrop \/ ReapClose
       \/ SignalByChannel \/ SignalByKill \/ SigChld
       \/ \E p \in Pid : Work(p) \/ ChildFatal(p) \/ ChildDies(p)
       \/ UNCHANGED <<table, fdt, np, kids, fails>>
  BY Zenon DEF Next, Master, Boot, Reap, Signal, Body, Events, LoopTop, WakeUp, ReapSkip,
     ReapDone, SignalSkip, SignalDone, MasterExit, OnTerminate, OnQuit, SigAlrm,
     SigTerminate, SigQuit, SigAdd, SigChangeBin, OtherEvent, Done, vars, budget
<1> QED BY <1>1, <1>2, <1>3, <1>4, <1>5, <1>6, <1>7, <1>8, <1>9, <1>10, <1>11
-----------------------------------------------------------------------------
(***************************************************************************)
(* The children stay findable in the table.                                *)
(***************************************************************************)

\* A step that forks and waits for no child and leaves the slots alone.
Quiet ==
  /\ UNCHANGED <<pid, exited, detached, respawn, last, np, kind, home>>
  /\ \A p \in Pid : \/ st'[p] = st[p]
                    \/ st[p] \in Alive \cup Zombie /\ st'[p] \in Alive \cup Zombie

\* A quiet step keeps the children findable.
LEMMA QuietKeepsChildren ==
  ASSUME ChildrenInTable, FreshPids, RespawnMine, Quiet
  PROVE  /\ ChildrenInTable' /\ FreshPids' /\ RespawnMine'
         /\ \A p \in Pid : Unwaited(p)' <=> Unwaited(p)
<1>1. \A p \in Pid : Unwaited(p)' <=> Unwaited(p)
  BY DEF Quiet, Unwaited, Child, Alive, Zombie
<1>2. ChildrenInTable' /\ RespawnMine'
  BY <1>1 DEF Quiet, ChildrenInTable, RespawnMine
<1>3. FreshPids'
  BY DEF Quiet, FreshPids, Alive, Zombie
<1> QED BY <1>1, <1>2, <1>3

\* The steps that are quiet.
LEMMA QuietSteps ==
  ASSUME TypeOK,
         \/ InitMaster \/ LoopTop \/ WakeUp \/ ReapSkip \/ ReapClose \/ ReapDone
         \/ SignalSkip \/ SignalByChannel \/ SignalDone
         \/ MasterExit \/ OnTerminate \/ OnQuit \/ Events \/ SigAlrm \/ Done
         \/ \E p \in Pid : Work(p) \/ ChildFatal(p) \/ ChildDies(p)
  PROVE  Quiet
<1> USE DEF Quiet, table, kids
<1>1. CASE InitMaster \/ LoopTop \/ WakeUp \/ ReapSkip \/ ReapDone \/ SignalSkip
           \/ SignalDone \/ MasterExit \/ OnTerminate \/ OnQuit \/ SigAlrm \/ Done
  BY <1>1, Zenon DEF InitMaster, LoopTop, WakeUp, ReapSkip, ReapDone, SignalSkip,
     SignalDone, MasterExit, OnTerminate, OnQuit, SigAlrm, Done, vars
<1>2. CASE ReapClose
  BY <1>2 DEF ReapClose
<1>3. CASE SignalByChannel
  BY <1>3 DEF SignalByChannel
<1>4. CASE Events
  BY <1>4, Zenon DEF Events, SigTerminate, SigQuit, SigAdd, SigChangeBin, OtherEvent
<1>5. ASSUME NEW p \in Pid, Work(p) \/ ChildFatal(p) \/ ChildDies(p)
      PROVE  Quiet
  <2>1. UNCHANGED <<pid, exited, detached, respawn, last, np, kind, home>>
    BY <1>5 DEF Work, ChildInit, ChildExit, ChildFatal, ChildDies
  <2>2. \A q \in Pid : \/ st'[q] = st[q]
                       \/ st[q] \in Alive \cup Zombie /\ st'[q] \in Alive \cup Zombie
    BY <1>5 DEF Work, ChildInit, ChildExit, ChildFatal, ChildDies, TypeOK, SpawnTypeOK,
       Alive, Zombie
  <2> QED BY <2>1, <2>2
<1> QED BY <1>1, <1>2, <1>3, <1>4, <1>5

\* Every step of the specification leaves every child where SIGCHLD, the reap pass and the
\* signal pass look for it.
LEMMA StepKeepsChildren ==
  ASSUME SupervisorAssumption, IndInv, Next
  PROVE  ChildrenInTable' /\ FreshPids' /\ RespawnMine'
<1>0. /\ TypeOK /\ SpawnTypeOK /\ LoopTypeOK /\ ChildrenInTable /\ FreshPids
      /\ BootFirst /\ RespawnSlot /\ RespawnMine
  BY DEF IndInv, TypeOK
<1>1. CASE Quiet
  BY <1>0, <1>1, QuietKeepsChildren
<1>2. CASE StartVirtualProcess
  <2>1. np = 0
    BY <1>0, <1>2 DEF StartVirtualProcess, BootFirst
  <2>2. Target(0, "VIRTUAL", "RESPAWN")
    BY <1>0, <2>1, VirtualTarget
  <2> QED BY <1>0, <1>2, <2>2, SpawnKeepsChildren DEF StartVirtualProcess
<1>3. CASE StartTrafficProcess \/ OnAdd \/ ExecNewBinary
  <2>1. Target(FreeSlot, "TRAFFIC", "RESPAWN") /\ Target(FreeSlot, "NONE", "DETACHED")
    BY <1>0, FreeTarget
  <2>2. CASE SpawnProcess(FreeSlot, "TRAFFIC", "RESPAWN")
    BY <1>0, <2>1, <2>2, SpawnKeepsChildren
  <2>3. CASE SpawnProcess(FreeSlot, "NONE", "DETACHED")
    BY <1>0, <2>1, <2>3, SpawnKeepsChildren
  <2>4. CASE UNCHANGED <<table, fdt, np, kids>>
    <3>1. Quiet
      BY <2>4 DEF Quiet, table, kids
    <3> QED BY <1>0, <3>1, QuietKeepsChildren
  <2> QED BY <1>3, <2>2, <2>3, <2>4, Zenon
             DEF StartTrafficProcess, OnAdd, ExecNewBinary
<1>4. CASE ReapRespawn
  <2>1. Target(ri, type[ri], "AGAIN")
    BY <1>0, <1>4, RespawnTarget DEF ReapRespawn
  <2> QED BY <1>0, <1>4, <2>1, SpawnKeepsChildren DEF ReapRespawn
<1>5. CASE ReapDrop
  <2>1. ri < last /\ exited[ri] /\ ri \in Slot /\ last \in Slot
    BY <1>0, <1>5 DEF ReapDrop, RespawnSlot, LoopTypeOK, SpawnTypeOK
  <2>2. \A p \in Pid : Unwaited(p)' <=> Unwaited(p)
    BY <1>5 DEF ReapDrop, DropSlot, kids, Unwaited, Child
  <2>3. FreshPids' /\ RespawnMine'
    BY <1>0, <1>5 DEF ReapDrop, DropSlot, kids, FreshPids, RespawnMine
  <2>4. ChildrenInTable'
    <3> SUFFICES ASSUME last' >= StartProcess, NEW p \in Pid, Unwaited(p)
                 PROVE  /\ home'[p] < last' /\ pid'[home'[p]] = p
                        /\ ~exited'[home'[p]] /\ ~detached'[home'[p]]
      BY <2>2 DEF ChildrenInTable
    <3>1. last >= StartProcess
      BY <1>5, <2>1, SupervisorAssumption
         DEF ReapDrop, DropSlot, Slot, StartProcess, SupervisorAssumption
    <3>2. /\ home[p] < last /\ pid[home[p]] = p /\ home[p] \in Slot
          /\ ~exited[home[p]] /\ ~detached[home[p]]
      BY <1>0, <3>1 DEF ChildrenInTable, SpawnTypeOK
    <3>3. home[p] # ri
      BY <2>1, <3>2
    <3>4. home[p] < last'
      BY <1>5, <2>1, <3>2, <3>3, SupervisorAssumption
         DEF ReapDrop, DropSlot, Slot, SupervisorAssumption
    <3>5. pid'[home[p]] = pid[home[p]]
      BY <1>0, <1>5, <3>2, <3>3 DEF ReapDrop, DropSlot, SpawnTypeOK
    <3> QED BY <1>5, <3>2, <3>4, <3>5 DEF ReapDrop, DropSlot, kids
  <2> QED BY <2>3, <2>4
<1>6. CASE SignalByKill
  <2>1. \A p \in Pid : \/ st'[p] = st[p]
                       \/ st[p] \in Alive \cup Zombie /\ st'[p] \in Alive \cup Zombie
    BY <1>6 DEF SignalByKill, Zombie
  <2>2. UNCHANGED <<pid, detached, respawn, last, np, kind, home>>
    BY <1>6 DEF SignalByKill
  <2>3. \A p \in Pid : Unwaited(p)' <=> Unwaited(p)
    BY <2>1, <2>2 DEF Unwaited, Child, Alive, Zombie
  <2>4. FreshPids'
    BY <1>0, <2>1, <2>2 DEF FreshPids, Alive, Zombie
  <2>5. RespawnMine'
    BY <1>0, <2>2 DEF RespawnMine
  <2>6. ChildrenInTable'
    <3> SUFFICES ASSUME last >= StartProcess, NEW p \in Pid, Unwaited(p)
                 PROVE  /\ home[p] < last /\ pid[home[p]] = p
                        /\ ~exited'[home[p]] /\ ~detached[home[p]]
      BY <2>2, <2>3 DEF ChildrenInTable
    <3>1. /\ home[p] < last /\ pid[home[p]] = p /\ home[p] \in Slot
          /\ ~exited[home[p]] /\ ~detached[home[p]]
      BY <1>0 DEF ChildrenInTable, SpawnTypeOK
    <3>2. ~exited'[home[p]]
      <4>1. CASE home[p] = ri
        <5>1. p # 0 /\ st[p] \in Alive \cup Zombie
          BY SupervisorAssumption DEF Unwaited, Pid, MaxPid, SupervisorAssumption
        <5>2. Group(pid[ri]) # {}
          BY <3>1, <4>1, <5>1 DEF Group
        <5> QED BY <1>6, <3>1, <5>2 DEF SignalByKill
      <4>2. CASE home[p] # ri
        BY <1>0, <1>6, <3>1, <4>2 DEF SignalByKill, SpawnTypeOK
      <4> QED BY <4>1, <4>2
    <3> QED BY <3>1, <3>2
  <2> QED BY <2>4, <2>5, <2>6
<1>7. CASE SigChld
  <2>1. UNCHANGED <<pid, detached, last, np, kind, home>>
    BY <1>7 DEF SigChld
  <2>2. \A p \in Pid : st'[p] = IF st[p] \in Zombie THEN "gone" ELSE st[p]
    BY <1>7 DEF SigChld
  <2>3. \A i \in Slot : exited'[i] <=> exited[i] \/ (i < last /\ pid[i] \in Pid
                                                     /\ st[pid[i]] \in Zombie)
    BY <1>7 DEF SigChld
  <2>4. \A i \in Slot : respawn'[i] => respawn[i]
    BY <1>7 DEF SigChld
  <2>5. FreshPids'
    BY <1>0, <2>1, <2>2 DEF FreshPids, Zombie
  <2>6. RespawnMine'
    BY <1>0, <2>1, <2>4 DEF RespawnMine
  <2>7. ChildrenInTable'
    <3> SUFFICES ASSUME last >= StartProcess, NEW p \in Pid, Unwaited(p)'
                 PROVE  /\ home[p] < last /\ pid[home[p]] = p
                        /\ ~exited'[home[p]] /\ ~detached[home[p]]
      BY <2>1 DEF ChildrenInTable
    <3>1. Unwaited(p) /\ st[p] \notin Zombie
      BY <2>1, <2>2 DEF Unwaited, Child, Alive, Zombie
    <3>2. /\ home[p] < last /\ pid[home[p]] = p /\ home[p] \in Slot
          /\ ~exited[home[p]] /\ ~detached[home[p]]
      BY <1>0, <3>1 DEF ChildrenInTable, SpawnTypeOK
    <3> QED BY <2>3, <3>1, <3>2
  <2> QED BY <2>5, <2>6, <2>7
<1>8. Quiet \/ StartVirtualProcess \/ StartTrafficProcess \/ OnAdd \/ ExecNewBinary
      \/ ReapRespawn \/ ReapDrop \/ SignalByKill \/ SigChld
  BY <1>0, QuietSteps, Zenon DEF Next, Master, Boot, Reap, Signal, Body
<1> QED BY <1>1, <1>2, <1>3, <1>4, <1>5, <1>6, <1>7, <1>8

\* Every step keeps what the position of the master says.
LEMMA StepKeepsPosition ==
  ASSUME SupervisorAssumption, IndInv, Next
  PROVE  BootFirst' /\ RespawnSlot' /\ MayFork'
<1>0. BootFirst /\ RespawnSlot /\ MayFork
  BY DEF IndInv
<1>1. CASE UNCHANGED <<mpc, np, ri, last, exited, pid, terminate, quit>>
  BY <1>0, <1>1 DEF BootFirst, RespawnSlot, MayFork
<1>2. CASE Boot \/ LoopTop \/ WakeUp
  <2>1. mpc' # "virtual" /\ mpc' # "respawn" /\ mpc' # "binary"
    BY <1>2 DEF Boot, StartVirtualProcess, StartTrafficProcess, InitMaster, LoopTop, WakeUp
  <2>2. mpc' = "traffic" => mpc \in {"virtual", "traffic"} /\ UNCHANGED <<terminate, quit>>
    BY <1>2 DEF Boot, StartVirtualProcess, StartTrafficProcess, InitMaster, LoopTop, WakeUp,
       flags
  <2> QED BY <1>0, <2>1, <2>2 DEF BootFirst, RespawnSlot, MayFork
<1>3. CASE ReapClose
  BY <1>3 DEF ReapClose, BootFirst, RespawnSlot, MayFork
<1>4. CASE ReapSkip \/ ReapRespawn \/ ReapDrop \/ ReapDone
  BY <1>4 DEF ReapSkip, ReapRespawn, ReapDrop, ReapDone, BootFirst, RespawnSlot, MayFork
<1>5. CASE Signal
  <2>1. mpc' \in {"signal", "killed", "top"}
    BY <1>5 DEF Signal, SignalSkip, SignalByChannel, SignalByKill, SignalDone
  <2> QED BY <2>1 DEF BootFirst, RespawnSlot, MayFork
<1>6. CASE MasterExit \/ OnTerminate \/ OnQuit \/ ExecNewBinary
  <2>1. mpc' \in {"exit", "signal", "top"}
    BY <1>6 DEF MasterExit, OnTerminate, OnQuit, ExecNewBinary
  <2> QED BY <2>1 DEF BootFirst, RespawnSlot, MayFork
<1>7. CASE OnAdd
  <2>1. /\ mpc' \in {"binary", "top"}
        /\ ~terminate /\ ~quit /\ terminate' = terminate /\ quit' = quit
    BY <1>7 DEF OnAdd
  <2> QED BY <2>1 DEF BootFirst, RespawnSlot, MayFork
<1>8. CASE Events \/ SigChld \/ SigAlrm
  <2>1. mpc' = "wait"
    BY <1>8 DEF Events, SigTerminate, SigQuit, SigAdd, SigChangeBin, OtherEvent, SigChld,
       SigAlrm, loop
  <2> QED BY <2>1 DEF BootFirst, RespawnSlot, MayFork
<1>9. (\E p \in Pid : Work(p) \/ ChildFatal(p) \/ ChildDies(p)) \/ Done
      => UNCHANGED <<mpc, np, ri, last, exited, pid, terminate, quit>>
  BY DEF Work, ChildInit, ChildExit, ChildFatal, ChildDies, Done, vars, table, loop, flags
<1> QED BY <1>1, <1>2, <1>3, <1>4, <1>5, <1>6, <1>7, <1>8, <1>9
           DEF Next, Master, Reap, Body

\* A reap pass that goes on without finding anything live goes past no child.
LEMMA StepKeepsPass ==
  ASSUME SupervisorAssumption, IndInv, Next, TypeOK', ChildrenInTable'
  PROVE  PassedNone'
<1>0. /\ TypeOK /\ SpawnTypeOK /\ LoopTypeOK /\ ChildrenInTable /\ FreshPids
      /\ RespawnSlot /\ RespawnMine /\ PassedNone
  BY DEF IndInv, TypeOK
<1> SUFFICES ASSUME mpc' \in {"reap", "respawn"}, ~live', last' >= StartProcess,
                    NEW p \in Pid, Unwaited(p)'
             PROVE  home'[p] >= ri'
  BY DEF PassedNone
<1>1. CASE WakeUp
  <2>1. ri' = 0 /\ home'[p] \in Slot
    BY <1>0, <1>1 DEF WakeUp, kids, SpawnTypeOK
  <2> QED BY <2>1, SupervisorAssumption DEF Slot, SupervisorAssumption
<1>2. CASE ReapSkip
  <2>1. /\ Unwaited(p) /\ home'[p] = home[p] /\ last' = last /\ ri' = ri + 1
        /\ ~live /\ mpc = "reap"
        /\ pid[ri] # -1 => detached[ri]
    BY <1>2 DEF ReapSkip, CountsLive, Unwaited, Child, kids, table
  <2>2. home[p] >= ri /\ pid[home[p]] = p /\ ~detached[home[p]]
    BY <1>0, <2>1 DEF PassedNone, ChildrenInTable
  <2>3. home[p] # ri
    BY <2>1, <2>2, SupervisorAssumption DEF Pid, MaxPid, SupervisorAssumption
  <2>4. home[p] \in Nat /\ ri \in Nat
    BY <1>0, SupervisorAssumption DEF SpawnTypeOK, LoopTypeOK, Slot, SupervisorAssumption
  <2> QED BY <2>1, <2>2, <2>3, <2>4
<1>3. CASE ReapClose \/ (\E q \in Pid : Work(q) \/ ChildFatal(q) \/ ChildDies(q)) \/ Done
  <2>1. /\ last' = last /\ ri' = ri /\ live' = live
        /\ mpc \in {"reap", "respawn"} /\ home' = home
    BY <1>3 DEF ReapClose, Work, ChildInit, ChildExit, ChildFatal, ChildDies, Done, vars,
       table, loop, kids
  <2>2. Quiet
    BY <1>0, <1>3, QuietSteps
  <2>3. Unwaited(p)
    BY <1>0, <2>2, QuietKeepsChildren
  <2> QED BY <1>0, <2>1, <2>3 DEF PassedNone
<1>4. CASE ReapRespawn \/ ReapDrop
  <2>1. mpc = "respawn" /\ ri' = ri + 1 /\ ~live
    <3>1. mpc = "respawn" /\ ri' = ri + 1
      BY <1>4 DEF ReapRespawn, ReapDrop
    <3>2. live' = live \/ live' = (live \/ np' # np)
      BY <1>4 DEF ReapRespawn, ReapDrop
    <3>3. live \in BOOLEAN
      BY <1>0 DEF LoopTypeOK
    <3> QED BY <3>1, <3>2, <3>3
  <2>2. st' = st /\ kind' = kind /\ home' = home /\ last \in Slot /\ last' \in Slot
        /\ last' <= last
    <3>1. CASE ReapDrop
      <4>1. st' = st /\ kind' = kind /\ home' = home
        BY <3>1, Zenon DEF ReapDrop, DropSlot, kids
      <4>2. last' = last - 1 \/ last' = last
        BY <3>1, Zenon DEF ReapDrop, DropSlot
      <4>3. last \in Slot /\ last' \in Slot
        BY <1>0 DEF TypeOK, SpawnTypeOK
      <4> QED BY <4>1, <4>2, <4>3, SupervisorAssumption DEF Slot, SupervisorAssumption
    <3>2. CASE ReapRespawn
      <4>1. np' = np /\ np \in Int
        <5>1. np' = np
          BY <3>2, Zenon DEF ReapRespawn
        <5> QED BY <1>0, <5>1, SupervisorAssumption
                   DEF SpawnTypeOK, MaxPid, SupervisorAssumption
      <4>2. ~SpawnSucceeds(ri, type[ri], "AGAIN")
        BY <4>1 DEF SpawnSucceeds
      <4>3. UNCHANGED <<last, st, kind, home>>
        BY <3>2, <4>2 DEF ReapRespawn, SpawnProcess, SpawnRefused, SpawnFails, table, kids
      <4> QED BY <1>0, <4>3, SupervisorAssumption
                 DEF SpawnTypeOK, Slot, SupervisorAssumption
    <3> QED BY <1>4, <3>1, <3>2
  <2>3. Unwaited(p) /\ last >= StartProcess
    BY <2>2, SupervisorAssumption
       DEF Unwaited, Child, Slot, StartProcess, SupervisorAssumption
  <2>4. home[p] >= ri /\ ~exited[home[p]] /\ exited[ri]
    BY <1>0, <2>1, <2>3 DEF PassedNone, ChildrenInTable, RespawnSlot
  <2>5. home[p] \in Nat /\ ri \in Nat /\ home[p] # ri
    BY <1>0, <2>4, SupervisorAssumption
       DEF SpawnTypeOK, LoopTypeOK, Slot, SupervisorAssumption
  <2> QED BY <2>1, <2>2, <2>4, <2>5
<1>5. Boot \/ LoopTop \/ ReapDone \/ Signal \/ Body \/ Events \/ SigChld \/ SigAlrm
      => mpc' \notin {"reap", "respawn"}
  BY DEF Boot, StartVirtualProcess, StartTrafficProcess, InitMaster, LoopTop, ReapDone,
     Signal, SignalSkip, SignalByChannel, SignalByKill, SignalDone, Body, MasterExit,
     OnTerminate, OnQuit, OnAdd, ExecNewBinary, Events, SigTerminate, SigQuit, SigAdd,
     SigChangeBin, OtherEvent, SigChld, SigAlrm, loop
<1> QED BY <1>1, <1>2, <1>3, <1>4, <1>5, Zenon DEF Next, Master, Reap
\* A spawn leaves the new binary in its slot or takes that slot for a later process.
LEMMA SpawnKeepsBinary ==
  ASSUME SupervisorAssumption, TypeOK, BinaryInSlot, newBinary > 0, NEW s, NEW ty, NEW mode,
         s \in Slot, SpawnProcess(s, ty, mode)
  PROVE  /\ newBinary <= np'
         /\ \/ pid'[home'[newBinary]] = newBinary
            \/ \E p \in newBinary + 1 .. np' : home'[p] = home'[newBinary]
<1> DEFINE b == newBinary
<1>0. b \in Pid /\ np \in Nat /\ home[b] \in Slot /\ b <= np
  BY SupervisorAssumption
     DEF BinaryInSlot, TypeOK, SpawnTypeOK, LoopTypeOK, Pid, MaxPid, SupervisorAssumption
<1>1. CASE SpawnRefused(s) \/ SpawnFails(s, ty, mode)
  <2>1. UNCHANGED <<np, pid, home>>
    BY <1>1 DEF SpawnRefused, SpawnFails, table, kids
  <2> QED BY <2>1 DEF BinaryInSlot
<1>2. CASE SpawnSucceeds(s, ty, mode)
  <2>1. /\ np' = np + 1 /\ np + 1 \in Pid
        /\ pid' = [pid EXCEPT ![s] = np + 1] /\ home' = [home EXCEPT ![np + 1] = s]
    BY <1>0, <1>2, SupervisorAssumption DEF SpawnSucceeds, Pid, MaxPid, SupervisorAssumption
  <2>2. /\ home'[b] = home[b] /\ b <= np'
        /\ \A p \in b + 1 .. np : p \in b + 1 .. np' /\ home'[p] = home[p]
    BY <1>0, <2>1 DEF TypeOK, SpawnTypeOK, Pid
  <2>3. CASE \E p \in b + 1 .. np : home[p] = home[b]
    BY <2>2, <2>3
  <2>4. CASE pid[home[b]] = b /\ home[b] # s
    BY <1>0, <2>1, <2>2, <2>4 DEF TypeOK, SpawnTypeOK
  <2>5. CASE home[b] = s
    <3>1. home'[np + 1] = home'[b] /\ np + 1 \in b + 1 .. np'
      BY <1>0, <2>1, <2>2, <2>5 DEF TypeOK, SpawnTypeOK, Pid
    <3> QED BY <2>2, <3>1
  <2> QED BY <2>2, <2>3, <2>4, <2>5 DEF BinaryInSlot
<1> QED BY <1>1, <1>2 DEF SpawnProcess

\* Every step knows where the new binary is.
LEMMA StepKeepsBinary ==
  ASSUME SupervisorAssumption, IndInv, Next, TypeOK'
  PROVE  BinaryInSlot'
<1>0. TypeOK /\ BinaryInSlot /\ ri \in Slot /\ RespawnSlot
  BY DEF IndInv, TypeOK, LoopTypeOK
<1>1. CASE UNCHANGED <<newBinary, np, pid, home>>
  BY <1>0, <1>1 DEF BinaryInSlot
<1>2. ASSUME newBinary' = newBinary, NEW s \in Slot, NEW ty, NEW mode,
             SpawnProcess(s, ty, mode)
      PROVE  BinaryInSlot'
  BY <1>0, <1>2, SpawnKeepsBinary DEF BinaryInSlot
<1>3. 0 \in Slot /\ FreeSlot \in Slot
  BY <1>0, FreeSlotVacant, SupervisorAssumption DEF TypeOK, Slot, SupervisorAssumption
<1>4. CASE StartVirtualProcess \/ StartTrafficProcess \/ OnAdd \/ ReapRespawn
  <2>1. CASE StartVirtualProcess
    BY <1>2, <1>3, <2>1 DEF StartVirtualProcess, bin
  <2>2. CASE StartTrafficProcess
    BY <1>2, <1>3, <2>2 DEF StartTrafficProcess, bin
  <2>3. CASE OnAdd
    BY <1>1, <1>2, <1>3, <2>3 DEF OnAdd, bin, table, kids
  <2>4. CASE ReapRespawn
    BY <1>0, <1>2, <2>4 DEF ReapRespawn, bin
  <2> QED BY <1>4, <2>1, <2>2, <2>3, <2>4
<1>5. CASE ExecNewBinary
  <2>1. CASE newBinary' = -1
    BY <2>1 DEF BinaryInSlot
  <2>2. CASE newBinary' = np' /\ np' # np
    <3>1. SpawnSucceeds(FreeSlot, "NONE", "DETACHED")
      BY <1>5, <2>2, Zenon DEF ExecNewBinary, SpawnProcess, SpawnRefused, SpawnFails
    <3>2. /\ np' = np + 1 /\ np + 1 \in Pid
          /\ pid' = [pid EXCEPT ![FreeSlot] = np + 1]
          /\ home' = [home EXCEPT ![np + 1] = FreeSlot]
      BY <1>0, <3>1, SupervisorAssumption
         DEF SpawnSucceeds, Pid, TypeOK, SpawnTypeOK, MaxPid, SupervisorAssumption
    <3>3. pid'[home'[np']] = np' /\ np' <= np'
      BY <1>0, <1>3, <3>2 DEF TypeOK, SpawnTypeOK, Pid
    <3> QED BY <2>2, <3>3 DEF BinaryInSlot
  <2> QED BY <1>5, <2>1, <2>2, Zenon DEF ExecNewBinary
<1>6. CASE ReapDrop
  <2>1. CASE pid[ri] = newBinary
    BY <1>6, <2>1 DEF ReapDrop, ForgetBinary, BinaryInSlot
  <2>2. CASE pid[ri] # newBinary
    <3>1. newBinary' = newBinary /\ np' = np /\ home' = home
      BY <1>6, <2>2 DEF ReapDrop, ForgetBinary, bin, kids
    <3>2. newBinary > 0 => home[newBinary] \in Slot
      BY <1>0, SupervisorAssumption, SMTT(30)
         DEF TypeOK, SpawnTypeOK, LoopTypeOK, Pid, MaxPid, SupervisorAssumption
    <3>3. newBinary > 0 /\ pid[home[newBinary]] = newBinary => pid'[home[newBinary]] = newBinary
      BY <1>0, <1>6, <2>2, <3>2 DEF ReapDrop, DropSlot, TypeOK, SpawnTypeOK
    <3> QED BY <1>0, <3>1, <3>3 DEF BinaryInSlot
  <2> QED BY <2>1, <2>2
<1>7. StartVirtualProcess \/ StartTrafficProcess \/ OnAdd \/ ReapRespawn \/ ExecNewBinary
      \/ ReapDrop \/ UNCHANGED <<newBinary, np, pid, home>>
  BY Zenon
     DEF Next, Master, Boot, Reap, Signal, Body, Events, Work, InitMaster, LoopTop,
     WakeUp, ReapSkip, ReapClose, ReapDone, MasterExit, OnTerminate,
     OnQuit, SignalSkip, SignalByChannel, SignalByKill, SignalDone, SigChld,
     SigAlrm, SigTerminate, SigQuit, SigAdd, SigChangeBin, OtherEvent, ChildInit,
     ChildFatal, ChildExit, ChildDies, Done, vars, bin, table, kids
<1> QED BY <1>1, <1>4, <1>5, <1>6, <1>7
-----------------------------------------------------------------------------
(***************************************************************************)
(* The theorems.                                                           *)
(***************************************************************************)

\* The table is empty when the master starts.
LEMMA InitInd == Init => IndInv
<1> SUFFICES ASSUME Init PROVE IndInv
  OBVIOUS
<1>1. SpawnTypeOK
  BY SupervisorAssumption DEF Init, SpawnTypeOK, Slot, StartProcess, Fd, Pid, MaxPid, Alive,
     Zombie, SupervisorAssumption
<1>2. LoopTypeOK
  <2>1. /\ newBinary \in -1 .. MaxPid /\ todo \in 0 .. Workers /\ ri \in Slot
        /\ delay \in 0 .. 2 * KillDelay /\ sigio \in 0 .. SigioRounds
        /\ crashes \in 0 .. MaxCrash /\ adds \in 0 .. MaxAdd
    BY SupervisorAssumption DEF Init, Slot, MaxPid, SupervisorAssumption
  <2> QED BY <2>1 DEF Init, LoopTypeOK, MasterAt
<1>3. \A p \in Pid : ~Unwaited(p)
  BY DEF Init, Unwaited, Child
<1>4. ChildrenInTable /\ FreshPids /\ PassedNone
  BY <1>3 DEF Init, ChildrenInTable, FreshPids, PassedNone
<1>5. BootFirst /\ RespawnSlot /\ MayFork /\ RespawnMine /\ BinaryInSlot
  BY DEF Init, BootFirst, RespawnSlot, MayFork, RespawnMine, BinaryInSlot
<1> QED BY <1>1, <1>2, <1>4, <1>5 DEF IndInv, TypeOK

\* IndInv is inductive.
LEMMA StepInd == IndInv /\ [Next]_vars => IndInv'
<1> SUFFICES ASSUME IndInv, [Next]_vars PROVE IndInv'
  OBVIOUS
<1>1. CASE Next
  <2>1. SpawnTypeOK'
    BY <1>1, TableType, SupervisorAssumption
  <2>2. TypeOK'
    BY <1>1, <2>1, LoopType, SupervisorAssumption DEF IndInv, TypeOK
  <2>3. ChildrenInTable' /\ FreshPids' /\ RespawnMine'
    BY <1>1, StepKeepsChildren, SupervisorAssumption
  <2>4. BootFirst' /\ RespawnSlot' /\ MayFork'
    BY <1>1, StepKeepsPosition, SupervisorAssumption
  <2>5. PassedNone'
    BY <1>1, <2>2, <2>3, StepKeepsPass, SupervisorAssumption
  <2>6. BinaryInSlot'
    BY <1>1, <2>2, StepKeepsBinary, SupervisorAssumption
  <2> QED BY <2>2, <2>3, <2>4, <2>5, <2>6 DEF IndInv
<1>2. CASE UNCHANGED vars
  BY <1>2 DEF vars, table, loop, flags, bin, kids, budget, IndInv, TypeOK, SpawnTypeOK,
     LoopTypeOK, ChildrenInTable, FreshPids, BootFirst, RespawnSlot, MayFork, RespawnMine,
     PassedNone, BinaryInSlot, Unwaited, Child
<1> QED BY <1>1, <1>2

\* IndInv holds in every reachable state.
LEMMA Invariance == Spec => []IndInv
  BY InitInd, StepInd, PTL DEF Spec

\* Indices stay inside ntg_processes[] and the state keeps its type, whatever the number of
\* workers, crashes, failures and signals.
THEOREM TypeCorrect == Spec => []TypeOK
<1>1. IndInv => TypeOK
  BY DEF IndInv
<1> QED BY <1>1, Invariance, PTL

\* No child is ever lost: until it has been waited for it is in its slot, below
\* ntg_last_process, unless ntg_last_process has fallen below ntg_start_process.
THEOREM ChildrenCovered == Spec => []ChildrenInTable
<1>1. IndInv => ChildrenInTable
  BY DEF IndInv
<1> QED BY <1>1, Invariance, PTL

\* What ntg_reap_children returns is right: 0 means that no child is left.
THEOREM ReapVerdictRight == Spec => []ReapVerdict
<1>1. IndInv => ReapVerdict
  <2> SUFFICES ASSUME IndInv, mpc = "reap", ri >= last, ~live, last >= StartProcess,
                      NEW p \in Pid, Unwaited(p)
               PROVE  FALSE
    BY DEF ReapVerdict
  <2>1. home[p] >= ri /\ home[p] < last
    BY DEF IndInv, PassedNone, ChildrenInTable
  <2>2. home[p] \in Nat /\ ri \in Nat /\ last \in Nat
    BY SupervisorAssumption
       DEF IndInv, TypeOK, SpawnTypeOK, LoopTypeOK, Slot, SupervisorAssumption
  <2> QED BY <2>1, <2>2
<1> QED BY <1>1, Invariance, PTL

\* No child is forked once termination or quitting has been asked for.
THEOREM NoForkWhenStopping == Spec => NoForkInShutdown
<1>1. IndInv /\ [Next]_vars => [terminate \/ quit => np' = np]_vars
  <2> SUFFICES ASSUME IndInv, Next, terminate \/ quit PROVE np' = np
    BY DEF vars
  <2>1. MayFork
    BY DEF IndInv
  <2>2. ~StartVirtualProcess /\ ~StartTrafficProcess /\ ~ExecNewBinary
    BY <2>1 DEF MayFork, StartVirtualProcess, StartTrafficProcess, ExecNewBinary
  <2>3. ~OnAdd /\ ~ReapRespawn
    BY DEF OnAdd, ReapRespawn, MayRespawn
  <2> QED BY <2>2, <2>3, Zenon
             DEF Next, Master, Boot, Reap, Signal, Body, Events, Work, InitMaster, LoopTop,
             WakeUp, ReapSkip, ReapClose, ReapDrop, DropSlot, ReapDone, MasterExit, OnTerminate,
             OnQuit, SignalSkip, SignalByChannel, SignalByKill, SignalDone, SigChld,
             SigAlrm, SigTerminate, SigQuit, SigAdd, SigChangeBin, OtherEvent, ChildInit,
             ChildFatal, ChildExit, ChildDies, Done, vars
<1> QED BY <1>1, Invariance, PTL DEF Spec, NoForkInShutdown

\* A new binary is recognised when it ends: its slot is given up only together with the pid
\* that is remembered of it, unless a later process had taken the slot.
THEOREM BinaryForgotten == Spec => []NewBinaryForgotten
<1>1. IndInv => NewBinaryForgotten
  <2> SUFFICES ASSUME IndInv, newBinary > 0, pid[home[newBinary]] = -1
               PROVE  \E p \in newBinary + 1 .. np : home[p] = home[newBinary]
    BY DEF NewBinaryForgotten
  <2>1. newBinary # -1
    BY SupervisorAssumption DEF IndInv, TypeOK, LoopTypeOK, MaxPid, SupervisorAssumption
  <2> QED BY <2>1 DEF IndInv, BinaryInSlot
<1> QED BY <1>1, Invariance, PTL
=============================================================================
