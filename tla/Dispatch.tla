------------------------------ MODULE Dispatch ------------------------------
(***************************************************************************)
(* How the virtual-user process learns which traffic processes exist and   *)
(* sends them requests (user/ntg_user_balance.c, the OPEN, CLOSE and       *)
(* FEEDBACK messages of utils/ntg_process_cycle.c, http/ntg_http.c).       *)
(*                                                                         *)
(* The virtual process is forked before the traffic processes, so its copy *)
(* of ntg_processes[] starts empty; the master sends it OPEN and CLOSE     *)
(* messages over its channel whenever it starts or reaps a child.  From    *)
(* the copy the balancer picks the process a request is sent to.  Channels *)
(* are non-blocking datagram sockets: a queue holds a few messages and a   *)
(* write to a full one fails.                                              *)
(*                                                                         *)
(* Of the master this module has what Supervisor shows in detail: boot,    *)
(* ADD, the reap pass.  The program is not shutting down and the virtual   *)
(* process does not die.                                                   *)
(***************************************************************************)
EXTENDS Integers, Sequences, FiniteSetsExt

CONSTANTS
  Policies,  \* the balancers that may be configured: "dynamic", "polling"
  NSlots,    \* slots for traffic processes
  Boot,      \* ccf->worker_processes
  QLen,      \* messages a channel to a traffic process holds
  InLen,     \* messages the channel to the virtual process holds
  Pool,      \* request_n, request objects of a traffic process
  Interval,  \* NTG_FEEDBACK_INTERVAL
  Warmup,    \* calls of the polling balancer that only count
  MaxCrash, MaxExtra, MaxReq   \* bounds: crashes, failing calls and additions, requests

ASSUME DispatchAssumption ==
  /\ Policies \subseteq {"dynamic", "polling"}
  /\ NSlots \in Nat \ {0} /\ Boot \in Nat
  /\ QLen \in Nat /\ InLen \in Nat /\ Pool \in Nat
  /\ Interval \in Nat \ {0} /\ Warmup \in Nat \ {0}
  /\ MaxCrash \in Nat /\ MaxExtra \in Nat /\ MaxReq \in Nat

MaxPid == Boot + MaxCrash + MaxExtra
Pid    == 1 .. MaxPid
Start  == 1                                \* ntg_start_process
Slot   == Start .. NSlots + 1              \* one more than the slots: ntg_last_process
\* The virtual process counts every OPEN, so its ntg_last_process passes the slots in use.  The
\* count is not compared with the size of ntg_processes[]: here the table is as long as the
\* bounds of the run need, in the code it has NTG_MAX_PROCESSES entries (see LastProcessCounts).
VSlot  == Start .. NSlots + 4 * MaxPid + MaxReq + 2

VARIABLES
  policy,  \* cycle->blc_type
  \* the master
  mpid,    \* -1 free, 0 never used, else the child of the slot
  mopen,   \* the socket pair of the slot is open in the master
  exited, mlast, pslot,
  mpc, ri, \* "idle" or "reap", and the slot the pass is at
  cmd, cfd,  \* command and descriptor of the message ntg_reap_children sends
  todo,    \* traffic processes to start: at boot, then by ADD
  np, crashes, fails, adds,
  \* the traffic processes
  st,      \* "none", "run", "dead" or "fatal" (dead, with code 2)
  home,    \* the slot of each
  queue,   \* requests in its channel
  busy,    \* request_n - free_req_n
  final,   \* requests ended since the last feedback
  \* the virtual process
  vin,     \* its channel
  lost,    \* an OPEN or CLOSE did not fit into it
  vpid, vfd,  \* its copy of the table: 0 never set; vfd is -1 or the child reached
  vexit, reqs, vlast,
  cur, bn, minr,  \* blc->cur_slot, n, min_reqs
  cp, calls,      \* ntg_current_process and `count' of the polling balancer
  users,          \* a simulation command has been handled: users ask for pages
  vpc, tried,     \* "send" inside the loop of a request, and the slots it has tried
  rq              \* requests so far

master == <<mpid, mopen, exited, mlast, pslot, mpc, ri, cmd, cfd, todo, np, crashes, fails, adds>>
kids   == <<st, home, queue, busy, final>>
blc    == <<cur, bn, minr, cp, calls, users, vpc, tried, rq>>
view   == <<vpid, vfd, vexit, reqs, vlast>>
vars   == <<policy, master, kids, vin, lost, view, blc>>

Msg == [cmd : {"OPEN", "CLOSE", "FEEDBACK", "SIMULATION"}, slot : Slot, pid : -1 .. MaxPid,
        fd : -1 .. MaxPid, reqs : 0 .. Pool]

TypeOK ==
  /\ mpid \in [Slot -> -1 .. MaxPid] /\ mopen \in [Slot -> BOOLEAN]
  /\ exited \in [Slot -> BOOLEAN] /\ mlast \in Slot /\ pslot \in 0 .. NSlots
  /\ mpc \in {"idle", "reap"} /\ ri \in Slot /\ cmd \in {"OPEN", "CLOSE"}
  /\ cfd \in -1 .. MaxPid /\ todo \in 0 .. Boot + MaxExtra /\ np \in 0 .. MaxPid
  /\ crashes \in 0 .. MaxCrash /\ fails \in 0 .. MaxExtra /\ adds \in 0 .. MaxExtra
  /\ st \in [Pid -> {"none", "run", "dead", "fatal"}] /\ home \in [Pid -> 0 .. NSlots]
  /\ queue \in [Pid -> 0 .. QLen] /\ busy \in [Pid -> 0 .. Pool]
  /\ final \in [Pid -> 0 .. Interval]
  /\ vin \in Seq(Msg) /\ Len(vin) <= InLen /\ lost \in BOOLEAN
  /\ vpid \in [VSlot -> -1 .. MaxPid] /\ vfd \in [VSlot -> -1 .. MaxPid]
  /\ vexit \in [VSlot -> BOOLEAN] /\ reqs \in [VSlot -> 0 .. MaxReq + Pool]
  /\ vlast \in VSlot /\ cur \in VSlot /\ bn \in Int /\ minr \in 0 .. MaxReq + Pool
  /\ cp \in VSlot /\ calls \in 0 .. Warmup /\ vpc \in {"idle", "send"}
  /\ users \in BOOLEAN /\ tried \subseteq VSlot /\ rq \in 0 .. MaxReq

Init ==
  /\ policy \in Policies
  /\ mpid = [s \in Slot |-> 0] /\ mopen = [s \in Slot |-> FALSE]
  /\ exited = [s \in Slot |-> FALSE] /\ mlast = Start /\ pslot = 0
  /\ mpc = "idle" /\ ri = Start /\ cmd = "CLOSE" /\ cfd = -1
  /\ todo = Boot /\ np = 0 /\ crashes = 0 /\ fails = 0 /\ adds = 0
  /\ st = [p \in Pid |-> "none"] /\ home = [p \in Pid |-> 0]
  /\ queue = [p \in Pid |-> 0] /\ busy = [p \in Pid |-> 0] /\ final = [p \in Pid |-> 0]
  /\ vin = <<>> /\ lost = FALSE
  /\ vpid = [i \in VSlot |-> 0] /\ vfd = [i \in VSlot |-> 0]
  /\ vexit = [i \in VSlot |-> FALSE] /\ reqs = [i \in VSlot |-> 0]
  /\ vlast = Start /\ cur = Start /\ bn = -1 /\ minr = 0
  /\ cp = Start /\ calls = 0 /\ users = FALSE /\ vpc = "idle" /\ tried = {} /\ rq = 0
-----------------------------------------------------------------------------
(***************************************************************************)
(* The master: messages to the virtual process.                            *)
(***************************************************************************)
ChannelMsg(c, s, p, f) == [cmd |-> c, slot |-> s, pid |-> p, fd |-> f, reqs |-> 0]

\* A message that does not fit is dropped ("TODO: NTG_AGAIN").
Push(q, m) == IF Len(q) < InLen THEN Append(q, m) ELSE q

Pass1(m)     == vin' = Push(vin, m) /\ lost' = (lost \/ Len(vin') < Len(vin) + 1)
Pass2(m1, m2) == /\ vin' = Push(Push(vin, m1), m2)
                 /\ lost' = (lost \/ Len(vin') < Len(vin) + 2)

FreeSlot ==
  LET holes == {s \in Start .. mlast - 1 : mpid[s] = -1}
  IN  IF holes # {} THEN Min(holes) ELSE mlast

\* A fork for slot s.
Fork(s) ==
  /\ np < MaxPid /\ np' = np + 1
  /\ mpid' = [mpid EXCEPT ![s] = np + 1] /\ mopen' = [mopen EXCEPT ![s] = TRUE]
  /\ exited' = [exited EXCEPT ![s] = FALSE] /\ pslot' = s
  /\ st' = [st EXCEPT ![np + 1] = "run"] /\ home' = [home EXCEPT ![np + 1] = s]
  /\ UNCHANGED <<queue, busy, final, fails>>

\* ntg_start_traffic_processes: start a process and pass its channel on.
StartTraffic ==
  /\ mpc = "idle" /\ todo > 0 /\ FreeSlot <= NSlots
  /\ todo' = todo - 1
  /\ Fork(FreeSlot)
  /\ mlast' = IF FreeSlot = mlast THEN mlast + 1 ELSE mlast
  /\ Pass1(ChannelMsg("OPEN", FreeSlot, np + 1, np + 1))
  /\ UNCHANGED <<mpc, ri, cmd, cfd, crashes, adds, view, blc>>

\* The spawn fails or there is no slot.  Its result is not looked at: the message names the
\* slot of the process started last (the virtual process itself is skipped).  A failing
\* fork() has made the new slot that one and closed its channel, which cannot be passed.
StartTrafficFails ==
  /\ mpc = "idle" /\ todo > 0
  /\ fails' = IF FreeSlot <= NSlots THEN fails + 1 ELSE fails
  /\ fails' + adds <= MaxExtra
  /\ todo' = todo - 1
  /\ \/ /\ IF pslot # 0 /\ mopen[pslot] /\ mpid[pslot] \in Pid
             THEN Pass1(ChannelMsg("OPEN", pslot, mpid[pslot], mpid[pslot]))
             ELSE UNCHANGED <<vin, lost>>
        /\ UNCHANGED pslot
     \/ FreeSlot <= NSlots /\ pslot' = FreeSlot /\ UNCHANGED <<vin, lost>>
  /\ UNCHANGED <<mpid, mopen, exited, mlast, mpc, ri, cmd, cfd, np, crashes, adds,
                 kids, view, blc>>

SigAdd ==
  /\ mpc = "idle" /\ todo = 0 /\ fails + adds < MaxExtra
  /\ adds' = adds + 1 /\ todo' = 1
  /\ UNCHANGED <<mpid, mopen, exited, mlast, pslot, mpc, ri, cmd, cfd, np, crashes, fails,
                 kids, vin, lost, view, blc>>

\* A remote client's simulation command, which the master passes on after boot.
PassSimulation ==
  /\ mpc = "idle" /\ todo = 0 /\ ~users
  /\ \A k \in DOMAIN vin : vin[k].cmd # "SIMULATION"
  /\ Len(vin) < InLen
  /\ vin' = Append(vin, ChannelMsg("SIMULATION", Start, -1, -1))
  /\ UNCHANGED <<master, kids, lost, view, blc>>

\* SIGCHLD: the slots of dead children are marked, ntg_reap_children starts.
ReapStart ==
  LET dead == {s \in Start .. mlast - 1 : mpid[s] \in Pid /\ st[mpid[s]] # "run"}
  IN
  /\ mpc = "idle" /\ todo = 0 /\ dead # {}
  /\ \E s \in dead : ~exited[s]
  /\ exited' = [s \in Slot |-> exited[s] \/ s \in dead]
  /\ mpc' = "reap" /\ ri' = Start
  /\ cmd' = "CLOSE" /\ cfd' = -1
  /\ UNCHANGED <<mpid, mopen, mlast, pslot, todo, np, crashes, fails, adds, kids, vin, lost,
                 view, blc>>

ReapSkip ==
  /\ mpc = "reap" /\ ri < mlast /\ (mpid[ri] = -1 \/ ~exited[ri])
  /\ ri' = ri + 1
  /\ UNCHANGED <<mpid, mopen, exited, mlast, pslot, mpc, cmd, cfd, todo, np, crashes, fails,
                 adds, kids, vin, lost, view, blc>>

\* The message about a child that exited.  The same variable is used for the OPEN after a
\* respawn and not reset: later children of the same pass are announced by an OPEN that
\* carries the descriptor of the one respawned before.
ExitMsg == ChannelMsg(cmd, ri, mpid[ri], cfd)

\* Mutant: the channel of the new child is not passed on.
ReapRespawnSilently ==
  /\ mpc = "reap" /\ ri < mlast /\ mpid[ri] # -1 /\ exited[ri]
  /\ st[mpid[ri]] # "fatal"
  /\ Fork(ri)
  /\ Pass1(ExitMsg)
  /\ cmd' = "OPEN" /\ cfd' = np + 1
  /\ ri' = ri + 1
  /\ UNCHANGED <<mlast, mpc, todo, crashes, adds, view, blc>>

ReapRespawn ==
  /\ mpc = "reap" /\ ri < mlast /\ mpid[ri] # -1 /\ exited[ri]
  /\ st[mpid[ri]] # "fatal"
  /\ Fork(ri)
  /\ Pass2(ExitMsg, ChannelMsg("OPEN", ri, np + 1, np + 1))
  /\ cmd' = "OPEN" /\ cfd' = np + 1
  /\ ri' = ri + 1
  /\ UNCHANGED <<mlast, mpc, todo, crashes, adds, view, blc>>

ReapRespawnFails ==
  /\ mpc = "reap" /\ ri < mlast /\ mpid[ri] # -1 /\ exited[ri]
  /\ st[mpid[ri]] # "fatal" /\ fails + adds < MaxExtra
  /\ fails' = fails + 1
  /\ mopen' = [mopen EXCEPT ![ri] = FALSE]
  /\ pslot' \in {pslot, ri}                           \* ri: fork() was reached
  /\ Pass1(ExitMsg)
  /\ ri' = ri + 1
  /\ UNCHANGED <<mpid, exited, mlast, mpc, cmd, cfd, todo, np, crashes, adds, kids, view,
                 blc>>

\* A fatal exit code: the slot is given up.
ReapDrop ==
  /\ mpc = "reap" /\ ri < mlast /\ mpid[ri] # -1 /\ exited[ri]
  /\ st[mpid[ri]] = "fatal"
  /\ mopen' = [mopen EXCEPT ![ri] = FALSE]
  /\ IF ri = mlast - 1
       THEN mlast' = mlast - 1 /\ UNCHANGED mpid
       ELSE mpid' = [mpid EXCEPT ![ri] = -1] /\ UNCHANGED mlast
  /\ Pass1(ExitMsg)
  /\ ri' = ri + 1
  /\ UNCHANGED <<exited, pslot, mpc, cmd, cfd, todo, np, crashes, fails, adds, kids, view,
                 blc>>

ReapDone ==
  /\ mpc = "reap" /\ ri >= mlast
  /\ mpc' = "idle" /\ ri' = Start
  /\ UNCHANGED <<mpid, mopen, exited, mlast, pslot, cmd, cfd, todo, np, crashes, fails, adds,
                 kids, vin, lost, view, blc>>
-----------------------------------------------------------------------------
(***************************************************************************)
(* The virtual process: ntg_channel_handler.                               *)
(***************************************************************************)
Pros(ve, vl) == {i \in Start .. vl - 1 : vpid[i] # -1 /\ ~ve[i]}

\* Mutant: the first live process found is not counted.
UpdateSkipsFirst(ve, rs, vl) ==
  LET pros  == Pros(ve, vl)
      least == {i \in pros : \A j \in pros : rs[i] <= rs[j]}
      c     == IF pros = {} THEN Start ELSE Min(least)
  IN  bn' = Cardinality(pros \ {Start}) /\ cur' = c /\ minr' = rs[c]

\* ntg_user_balance_update: the live process with the fewest requests, the first of several.
Update(ve, rs, vl) ==
  LET pros  == Pros(ve, vl)
      least == {i \in pros : \A j \in pros : rs[i] <= rs[j]}
      c     == IF pros = {} THEN Start ELSE Min(least)
  IN  bn' = Cardinality(pros) /\ cur' = c /\ minr' = rs[c]

\* ntg_read_channel: the next message, if it is this command; the process reads between its callbacks.
ReadChannel(c) == vpc = "idle" /\ vin # <<>> /\ Head(vin).cmd = c /\ vin' = Tail(vin)

HandleOpen ==
  /\ ReadChannel("OPEN")
  /\ vpid' = [vpid EXCEPT ![Head(vin).slot] = Head(vin).pid]
  /\ vfd' = [vfd EXCEPT ![Head(vin).slot] = Head(vin).fd]
  /\ vlast' = vlast + 1 /\ bn' = vlast' - Start
  /\ UNCHANGED <<master, kids, lost, vexit, reqs, cur, minr, cp, calls, users, vpc, tried, rq>>

HandleClose ==
  /\ ReadChannel("CLOSE")
  /\ vfd' = [vfd EXCEPT ![Head(vin).slot] = -1]
  /\ UNCHANGED <<master, kids, lost, vpid, vexit, reqs, vlast, blc>>

HandleSimulation ==
  /\ ReadChannel("SIMULATION")
  /\ users' = TRUE
  /\ UNCHANGED <<master, kids, lost, view, cur, bn, minr, cp, calls, vpc, tried, rq>>

HandleFeedback ==
  /\ ReadChannel("FEEDBACK")
  /\ reqs' = [reqs EXCEPT ![Head(vin).slot] = Head(vin).reqs]
  /\ IF minr > Head(vin).reqs THEN Update(vexit, reqs', vlast) ELSE UNCHANGED <<bn, cur, minr>>
  /\ UNCHANGED <<master, kids, lost, vpid, vfd, vexit, vlast, cp, calls, users, vpc, tried, rq>>
-----------------------------------------------------------------------------
(***************************************************************************)
(* Requests.                                                               *)
(***************************************************************************)

\* A write reaches the socket of child f as long as somebody holds its other end.
Peer(f) == f \in Pid /\ (st[f] = "run" \/ (mpid[home[f]] = f /\ mopen[home[f]]))

Accepts(i) == Peer(vfd[i]) /\ queue[vfd[i]] < QLen

\* A user asks for a page: ntg_user_balance_process_request.
Request ==
  /\ policy = "dynamic" /\ users /\ vpc = "idle" /\ rq < MaxReq
  /\ vpc' = "send" /\ tried' = {} /\ rq' = rq + 1
  /\ UNCHANGED <<master, kids, vin, lost, view, cur, bn, minr, cp, calls, users>>

SendOk ==
  /\ vpc = "send" /\ Accepts(cur)
  /\ queue' = [queue EXCEPT ![vfd[cur]] = @ + 1]
  /\ reqs' = [reqs EXCEPT ![cur] = @ + 1]
  /\ Update(vexit, reqs', vlast)
  /\ vpc' = "idle"
  /\ UNCHANGED <<master, st, home, busy, final, vin, lost, vpid, vfd, vexit, vlast, cp,
                 calls, users, tried, rq>>

\* Mutant: the process that does not accept the message is not marked.
MarkNobody(i) == vexit

Mark(i) == [vexit EXCEPT ![i] = TRUE]

\* The write fails: mark the process as exiting and try the next one, if any is left.
SendFails ==
  /\ vpc = "send" /\ ~Accepts(cur)
  /\ vexit' = Mark(cur)
  /\ reqs' = [reqs EXCEPT ![cur] = 0]
  /\ Update(vexit', reqs', vlast)
  /\ tried' = tried \cup {cur}
  /\ vpc' = IF bn' # 0 THEN "send" ELSE "idle"
  /\ UNCHANGED <<master, kids, vin, lost, vpid, vfd, vlast, cp, calls, users, rq>>

\* The OPEN handler does not set the type of a slot.
TypeInVirtual(i) == "NONE"

\* ntg_user_balance_polling: the next valid process from ntg_current_process on, then from
\* the start; where the search ends if there is none.
PollTarget ==
  LET valid(i) == vpid[i] # -1 /\ ~vexit[i] /\ TypeInVirtual(i) = "TRAFFIC"
      after  == {i \in cp .. vlast - 1 : valid(i)}
      before == {i \in Start .. cp - 1 : valid(i)}
      i      == IF after # {} THEN Min(after) ELSE IF cp <= vlast THEN vlast ELSE cp
  IN  IF i # vlast THEN i ELSE IF before # {} THEN Min(before) ELSE cp

Poll ==
  /\ policy = "polling" /\ users /\ rq < MaxReq
  /\ rq' = rq + 1
  /\ IF calls + 1 < Warmup
       THEN calls' = calls + 1 /\ UNCHANGED <<cp, queue, vexit>>
       ELSE /\ calls' = Warmup
            /\ cp' = IF PollTarget + 1 = vlast THEN Start ELSE PollTarget + 1
            /\ IF Accepts(PollTarget)
                 THEN queue' = [queue EXCEPT ![vfd[PollTarget]] = @ + 1] /\ UNCHANGED vexit
                 ELSE vexit' = Mark(PollTarget) /\ UNCHANGED queue
  /\ UNCHANGED <<master, st, home, busy, final, vin, lost, vpid, vfd, reqs, vlast, cur, bn,
                 minr, users, vpc, tried>>
-----------------------------------------------------------------------------
(***************************************************************************)
(* The traffic processes.                                                  *)
(***************************************************************************)

\* ntg_http_start takes a request object; without one the request is dropped.
TakeRequest(p) ==
  /\ st[p] = "run" /\ queue[p] > 0
  /\ queue' = [queue EXCEPT ![p] = @ - 1]
  /\ busy' = [busy EXCEPT ![p] = IF @ < Pool THEN @ + 1 ELSE @]
  /\ UNCHANGED <<master, st, home, final, vin, lost, view, blc>>

\* ntg_http_final_process: every Interval ends the load is fed back; the object is freed
\* unless the request goes on with another url.
EndRequest(p) ==
  /\ st[p] = "run" /\ busy[p] > 0
  /\ IF policy = "dynamic" /\ final[p] + 1 >= Interval
       THEN /\ final' = [final EXCEPT ![p] = 0]
            /\ vin' = Push(vin, [cmd |-> "FEEDBACK", slot |-> home[p], pid |-> p, fd |-> -1,
                                 reqs |-> busy[p]])
       ELSE /\ final' = IF policy = "dynamic" THEN [final EXCEPT ![p] = @ + 1] ELSE final
            /\ UNCHANGED vin
  /\ \E more \in BOOLEAN : busy' = IF more THEN busy ELSE [busy EXCEPT ![p] = @ - 1]
  /\ UNCHANGED <<master, st, home, queue, lost, view, blc>>

Die(p, how) ==
  /\ st[p] = "run" /\ crashes < MaxCrash
  /\ crashes' = crashes + 1
  /\ st' = [st EXCEPT ![p] = how]
  /\ UNCHANGED <<mpid, mopen, exited, mlast, pslot, mpc, ri, cmd, cfd, todo, np, fails, adds,
                 home, queue, busy, final, vin, lost, view, blc>>
-----------------------------------------------------------------------------
Master  == StartTraffic \/ StartTrafficFails \/ SigAdd \/ PassSimulation \/ ReapStart \/ ReapSkip
           \/ ReapRespawn \/ ReapRespawnFails \/ ReapDrop \/ ReapDone
Virtual == HandleOpen \/ HandleClose \/ HandleSimulation \/ HandleFeedback
           \/ Request \/ SendOk \/ SendFails \/ Poll
Traffic == \E p \in Pid : \/ TakeRequest(p) \/ EndRequest(p)
                          \/ \E how \in {"dead", "fatal"} : Die(p, how)

Next == (Master \/ Virtual \/ Traffic) /\ UNCHANGED policy

Spec == Init /\ [][Next]_vars
-----------------------------------------------------------------------------
(***************************************************************************)
(* Properties.                                                             *)
(***************************************************************************)

\* The copy of the table catches up: when the master is not in a reap pass, every message
\* has been handled and none was dropped, the virtual process reaches every live traffic
\* process through the slot the master has it in.
Reachable ==
  mpc = "idle" /\ vin = <<>> /\ ~lost =>
    \A s \in Start .. mlast - 1 :
      mpid[s] \in Pid /\ st[mpid[s]] = "run" => s < vlast /\ vfd[s] = mpid[s]

\* The loop that looks for a process to take a request tries no slot twice, so it ends.
NoSlotTriedTwice == vpc = "send" => cur \notin tried

\* How far ntg_last_process of the virtual process can be ahead: by what the master has started,
\* tried to start and given up since it runs.  Nothing brings it back (ntg_channel_handler).
LastProcessCounts == vlast <= Start + 3 * np + (Boot + adds - todo) + fails

\* The balancer gives a request up only when every slot it knows of is marked.
GivesUpOnlyWhenAllMarked ==
  [][vpc = "send" /\ vpc' = "idle" /\ queue' = queue =>
       \A i \in Start .. vlast - 1 : vexit'[i]]_vars
=============================================================================
