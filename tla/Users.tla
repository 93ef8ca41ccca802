------------------------------- MODULE Users -------------------------------
(***************************************************************************)
(* Virtual-user management in the virtual-user process: consumers, groups  *)
(* of users and the timers that make users ask for pages                   *)
(* (user/ntg_user_manage.c, ntg_user_group.c, ntg_user.c).                 *)
(*                                                                         *)
(* User objects are a fixed pool.  A simulation command takes users from   *)
(* it for a new group and puts the group into the list of tasks; once a    *)
(* second the task callback makes some of its users live, that is, starts  *)
(* their timers.  A group under a scene then follows a curve: its control  *)
(* callback adds and drops live users.  A control command deletes a group  *)
(* or ends a consumer with all its groups.                                 *)
(*                                                                         *)
(* Everything is a callback of one event loop: a callback with a loop is   *)
(* cut into steps, during which pc is not "idle" and nothing else runs.    *)
(* Groups are allocated and freed, and pointers to freed ones remain.      *)
(* Where the code then follows a NULL pointer, links a freed group or      *)
(* takes the sentinel of an empty queue for a user, `up' becomes FALSE:    *)
(* the process is gone, or nothing is said of it, until the master starts  *)
(* another one.  Where it only reads a freed group, it may also go on.     *)
(***************************************************************************)
EXTENDS HashTable

CONSTANTS
  UserN,     \* mg->user_n
  NCsm,      \* mg->csm_n; the table has as many nodes: NodeN
  Ids,       \* consumer ids in commands
  GroupIds,  \* group ids in commands
  NGroup,    \* group objects the allocator may return
  Scenes,    \* whether groups have a scene: a subset of BOOLEAN
  Batch,     \* NTG_MAX_ACTIVATE_NUM
  MaxSim, MaxCtl, MaxFail   \* bounds: simulation and control commands, failing calls

User  == 1 .. UserN
Csm   == 1 .. NCsm
Group == 1 .. NGroup

ASSUME UsersAssumption ==
  /\ UserN \in Nat /\ NCsm \in Nat /\ NGroup \in Nat /\ Batch \in Nat \ {0}
  /\ Ids \subseteq Nat /\ GroupIds \subseteq Nat /\ Scenes \subseteq BOOLEAN
  /\ MaxSim \in Nat /\ MaxCtl \in Nat /\ MaxFail \in Nat

VARIABLES
  pool, freeN,   \* mg->free_users, head first, and free_user_n
  usr,           \* the user objects
  grp,           \* the group objects
  csms,          \* mg->free_csms
  cid, gps,      \* csm->id and csm->gps
  table,         \* mg->csm_table
  tasks, taskN,  \* mg->tasks, head first, and task_n
  taskFlag, evTask,  \* mg->task_flag; the task event is pending
  pc, cur, left, \* the callback that runs, the group it is at (the consumer that quits), the
                 \* rest of its loop
  ti, kept,      \* i and tmp_gp of the task callback
  up, sims, ctls, fails

users == <<pool, freeN, usr>>
owner == <<csms, cid, gps, table>>
queue == <<tasks, taskN, taskFlag, evTask>>
loop  == <<pc, cur, left, ti, kept>>
budget == <<sims, ctls, fails>>
vars  == <<users, grp, owner, queue, loop, up, budget>>

NoGroup == [on |-> FALSE, csm |-> 0, gid |-> 0, n |-> 0, scene |-> FALSE, start |-> 0,
            freeQ |-> <<>>, liveQ |-> <<>>, liveN |-> 0, active |-> FALSE, armed |-> FALSE]
NoUser  == [grp |-> 0, enable |-> FALSE, live |-> FALSE, timer |-> FALSE]

TypeOK ==
  /\ pool \in Seq(User) /\ freeN \in 0 .. UserN
  /\ usr \in [User -> [grp : 0 .. NGroup, enable : BOOLEAN, live : BOOLEAN, timer : BOOLEAN]]
  /\ grp \in [Group -> [on : BOOLEAN, csm : 0 .. NCsm, gid : {0} \cup GroupIds, n : 0 .. UserN,
                        scene : BOOLEAN, start : 0 .. UserN, freeQ : Seq(User),
                        liveQ : Seq(User), liveN : 0 .. UserN, active : BOOLEAN,
                        armed : BOOLEAN]]
  /\ csms \in Seq(Csm) /\ cid \in [Csm -> {0} \cup Ids]
  /\ gps \in [Csm -> [GroupIds -> 0 .. NGroup]]
  /\ table.chain \in [Bucket -> Seq(Csm)] /\ table.free \in 0 .. NodeN
  /\ tasks \in Seq(Group) /\ kept \in Seq(Group) /\ taskN \in 0 .. MaxSim /\ ti \in 0 .. MaxSim
  /\ taskFlag \in BOOLEAN /\ evTask \in BOOLEAN /\ up \in BOOLEAN
  /\ pc \in {"idle", "task", "activate", "add", "drop", "quit"}
  /\ cur \in IF pc = "quit" THEN Csm ELSE 0 .. NGroup
  /\ left \in 0 .. UserN
  /\ sims \in 0 .. MaxSim /\ ctls \in 0 .. MaxCtl /\ fails \in 0 .. MaxFail

\* ntg_user_manage_init
Init ==
  /\ pool = [k \in 1 .. UserN |-> k] /\ freeN = UserN
  /\ usr = [u \in User |-> NoUser] /\ grp = [g \in Group |-> NoGroup]
  /\ csms = [k \in 1 .. NCsm |-> k] /\ cid = [c \in Csm |-> 0]
  /\ gps = [c \in Csm |-> [i \in GroupIds |-> 0]] /\ table = EmptyTable
  /\ tasks = <<>> /\ taskN = 0 /\ taskFlag = FALSE /\ evTask = FALSE
  /\ pc = "idle" /\ cur = 0 /\ left = 0 /\ ti = 0 /\ kept = <<>>
  /\ up = TRUE /\ sims = 0 /\ ctls = 0 /\ fails = 0
-----------------------------------------------------------------------------
\* The process is gone.
Break == up' = FALSE /\ UNCHANGED <<users, grp, owner, queue, loop, fails>>

Idle == up /\ pc = "idle"

\* One more system or library call fails.
Fails == fails < MaxFail /\ fails' = fails + 1
-----------------------------------------------------------------------------
(***************************************************************************)
(* Simulation commands.                                                    *)
(***************************************************************************)
Known(i)      == Found(table, cid, i)
ConsumerOf(i) == IF Known(i) THEN FindNode(table, cid, i) ELSE Head(csms)
HasConsumer(i) == Known(i) \/ (csms # <<>> /\ CanInsert(table))

\* gps of the consumer, which ntg_user_get_consumer has zeroed if it is new.
GpsOf(i) == IF Known(i) THEN gps ELSE [gps EXCEPT ![ConsumerOf(i)] = [j \in GroupIds |-> 0]]

\* Look the consumer up or take a new one.
TakeConsumer(i) ==
  IF Known(i)
    THEN UNCHANGED <<csms, cid, table>>
    ELSE /\ csms' = Tail(csms)
         /\ cid' = [cid EXCEPT ![Head(csms)] = i]
         /\ table' = InsertNode(table, i, Head(csms))

\* The note on ntg_user_simulation_process: the front end makes sure that the group of the
\* command is not in use.
Command(i, gid) ==
  /\ Idle /\ sims < MaxSim /\ sims' = sims + 1
  /\ Known(i) => gps[ConsumerOf(i)][gid] = 0

\* No consumer object is left.
SimulationNoConsumer(i, gid) ==
  /\ Command(i, gid) /\ ~HasConsumer(i)
  /\ csms' = IF csms = <<>> THEN csms ELSE Tail(csms)
  /\ UNCHANGED <<users, grp, cid, gps, table, queue, loop, up, ctls, fails>>

\* No memory for the group, or its scene cannot be set up: ntg_user_group_free gives the
\* users back in the order they had.
SimulationFails(i, gid) ==
  /\ Command(i, gid) /\ HasConsumer(i) /\ Fails
  /\ TakeConsumer(i) /\ gps' = GpsOf(i)
  /\ UNCHANGED <<users, grp, queue, loop, up, ctls>>

\* ntg_user_group_init finds too few users and returns before the queues of the group are
\* initialised; ntg_user_group_free then follows their NULL pointers.
SimulationTooMany(i, gid, n) ==
  /\ Command(i, gid) /\ HasConsumer(i) /\ freeN < n
  /\ Break /\ UNCHANGED ctls

\* The group object g is new.  If it has the address of a freed group that is still in the
\* list of tasks, linking it damages the list.
Simulation(i, gid, n, g, scene, start) ==
  /\ Command(i, gid) /\ HasConsumer(i) /\ freeN >= n /\ ~grp[g].on
  /\ IF g \in Range(tasks) THEN Break ELSE
     /\ TakeConsumer(i) /\ gps' = [GpsOf(i) EXCEPT ![ConsumerOf(i)][gid] = g]
     /\ pool' = SubSeq(pool, n + 1, Len(pool)) /\ freeN' = freeN - n
     /\ grp' = [grp EXCEPT ![g] =
          [NoGroup EXCEPT !.on = TRUE, !.csm = ConsumerOf(i), !.gid = gid, !.n = n,
                          !.scene = scene, !.start = start, !.active = TRUE,
                          !.freeQ = Reverse(SubSeq(pool, 1, n))]]
     /\ tasks' = <<g>> \o tasks /\ taskN' = taskN + 1
     /\ \/ taskFlag /\ UNCHANGED <<taskFlag, evTask, fails>>
        \/ ~taskFlag /\ taskFlag' = TRUE /\ evTask' = TRUE /\ UNCHANGED fails
        \/ ~taskFlag /\ Fails /\ UNCHANGED <<taskFlag, evTask>>     \* event_add()
     /\ UNCHANGED <<usr, loop, up>>
  /\ UNCHANGED ctls
-----------------------------------------------------------------------------
(***************************************************************************)
(* Control commands.                                                       *)
(***************************************************************************)

\* The timers of the users of g are stopped.
Quiet(g) == [u \in User |-> IF u \in Range(grp[g].freeQ \o grp[g].liveQ)
                              THEN [usr[u] EXCEPT !.timer = FALSE] ELSE usr[u]]

\* Mutant: the live users are not given back.
GivenBackFree(g) == Reverse(grp[g].freeQ)

GivenBack(g) == Reverse(grp[g].freeQ \o grp[g].liveQ)

\* Mutant: the consumer keeps the pointer.
DisownNothing(g) == gps

Disown(g) == [gps EXCEPT ![grp[g].csm][grp[g].gid] = 0]

\* ntg_user_group_free.  A group whose flag `active' is set leaves the list of tasks, but
\* task_n stays.
GroupFree(g) ==
  /\ gps' = Disown(g)
  /\ tasks' = IF grp[g].active THEN RemoveFirst(tasks, g) ELSE tasks
  /\ usr' = Quiet(g)
  /\ pool' = GivenBack(g) \o pool /\ freeN' = freeN + Len(GivenBack(g))
  /\ grp' = [grp EXCEPT ![g] = NoGroup]
  /\ UNCHANGED <<taskN, taskFlag, evTask>>

Delete(i, gid) ==
  /\ Idle /\ ctls < MaxCtl /\ ctls' = ctls + 1
  /\ Known(i) /\ gps[ConsumerOf(i)][gid] # 0
  /\ GroupFree(gps[ConsumerOf(i)][gid])
  /\ UNCHANGED <<csms, cid, table, loop, up, sims, fails>>

\* The consumer leaves the table; its object goes to mg->consumers, from where
\* ntg_user_get_consumer does not take any.
Quit(i) ==
  /\ Idle /\ ctls < MaxCtl /\ ctls' = ctls + 1
  /\ Known(i)
  /\ table' = DeleteNode(table, cid, i)
  /\ pc' = "quit" /\ cur' = ConsumerOf(i)
  /\ UNCHANGED <<users, grp, csms, cid, gps, queue, left, ti, kept, up, sims, fails>>

QuitGroup ==
  LET ids == {j \in GroupIds : gps[cur][j] # 0}
  IN
  /\ up /\ pc = "quit"
  /\ IF ids # {}
       THEN GroupFree(gps[cur][Min(ids)]) /\ UNCHANGED <<pc, cur>>
       ELSE pc' = "idle" /\ cur' = 0 /\ UNCHANGED <<users, grp, gps, queue>>
  /\ UNCHANGED <<csms, cid, table, left, ti, kept, up, budget>>
-----------------------------------------------------------------------------
(***************************************************************************)
(* ntg_group_enable_user and the loops that call it.                       *)
(***************************************************************************)

\* The user at the head of free_q of the group becomes live.  A user that was enabled before,
\* maybe in another group, keeps the pointer to that group.
EnableUser(g) ==
  LET u == Head(grp[g].freeQ)
      v == IF usr[u].enable THEN usr[u] ELSE [usr[u] EXCEPT !.grp = g]
  IN
  \/ /\ grp[g].freeQ = <<>> \/ ~grp[v.grp].on     \* ntg_user_get_session_num(u->group)
     /\ Break
  \/ /\ grp[g].freeQ # <<>>
     /\ \/ /\ usr' = [usr EXCEPT ![u] = [v EXCEPT !.enable = TRUE, !.timer = TRUE, !.live = TRUE]]
           /\ grp' = [grp EXCEPT ![g].freeQ = Tail(@), ![g].liveQ = <<u>> \o @, ![g].liveN = @ + 1]
           /\ UNCHANGED fails
        \/ /\ Fails                                 \* event_new() or evtimer_add()
           /\ \E e \in {v.enable, TRUE} : usr' = [usr EXCEPT ![u] = [v EXCEPT !.enable = e]]
           /\ grp' = [grp EXCEPT ![g].freeQ = Append(Tail(@), u)]
     /\ left' = left - 1
     /\ UNCHANGED <<pool, freeN, owner, queue, pc, cur, ti, kept, up>>

\* ntg_user_manage_process_task: the task event fires.
TaskStart ==
  /\ Idle /\ evTask
  /\ evTask' = FALSE /\ pc' = "task" /\ ti' = 0 /\ kept' = <<>>
  /\ UNCHANGED <<users, grp, owner, tasks, taskN, taskFlag, cur, left, up, budget>>

Target(g) == IF grp[g].scene THEN grp[g].start ELSE grp[g].n

\* The users to make live this time.
BatchOf(g) == Min({Target(g) - grp[g].liveN, Batch})

\* The next group, if there is one.
TaskGroup ==
  /\ up /\ pc = "task" /\ ti < taskN
  /\ IF tasks = <<>> \/ ~grp[Head(tasks)].on THEN Break ELSE
     /\ cur' = Head(tasks) /\ tasks' = Tail(tasks)
     /\ pc' = "activate" /\ left' = BatchOf(Head(tasks))
     /\ UNCHANGED <<users, grp, owner, taskN, taskFlag, evTask, ti, kept, up, fails>>
  /\ UNCHANGED <<sims, ctls>>

Activate ==
  /\ up /\ pc = "activate" /\ left > 0
  /\ EnableUser(cur)
  /\ UNCHANGED <<sims, ctls>>

Started(g) == grp[g].liveN \in {Target(g), grp[g].n}

\* A group that is not complete is kept for the next time, but no longer marked as active.
ActivateDone ==
  /\ up /\ pc = "activate" /\ left = 0
  /\ kept' = IF Started(cur) THEN kept ELSE <<cur>> \o kept
  /\ LET arms == grp[cur].scene /\ grp[cur].liveN = grp[cur].start
     IN
     \/ /\ grp' = [grp EXCEPT ![cur].active = FALSE, ![cur].armed = @ \/ arms]
        /\ UNCHANGED fails
     \/ /\ arms /\ Fails                           \* evtimer_add(), result only printed
        /\ grp' = [grp EXCEPT ![cur].active = FALSE]
  /\ pc' = "task" /\ cur' = 0 /\ ti' = ti + 1
  /\ UNCHANGED <<users, owner, queue, left, up, sims, ctls>>

\* Mutant: the event is not added again.
AgainNever(more) == evTask' = FALSE /\ UNCHANGED fails

\* The event is added again if groups are left; the result is not looked at.
Again(more) == \/ evTask' = more /\ UNCHANGED fails
               \/ more /\ Fails /\ evTask' = FALSE

TaskDone ==
  /\ up /\ pc = "task" /\ ti >= taskN
  /\ tasks' = kept /\ taskN' = Len(kept) /\ taskFlag' = (kept # <<>>)
  /\ Again(kept # <<>>)
  /\ pc' = "idle" /\ ti' = 0 /\ kept' = <<>>
  /\ UNCHANGED <<users, grp, owner, cur, left, up, sims, ctls>>

\* ntg_group_user_control_cb: the curve asks for n live users.
Control(g, n) ==
  /\ Idle /\ grp[g].on /\ grp[g].armed /\ n <= grp[g].n /\ n # grp[g].liveN
  /\ cur' = g
  /\ IF n > grp[g].liveN THEN pc' = "add" /\ left' = n - grp[g].liveN
                         ELSE pc' = "drop" /\ left' = grp[g].liveN - n
  /\ UNCHANGED <<users, grp, owner, queue, ti, kept, up, budget>>

ControlAdd ==
  /\ up /\ pc = "add" /\ left > 0
  /\ EnableUser(cur)
  /\ UNCHANGED <<sims, ctls>>

\* A user that is dropped keeps its timer.
ControlDrop ==
  LET u == Last(grp[cur].liveQ)
  IN
  /\ up /\ pc = "drop" /\ left > 0
  /\ IF grp[cur].liveQ = <<>> THEN Break ELSE
     /\ usr' = [usr EXCEPT ![u].live = FALSE]
     /\ grp' = [grp EXCEPT ![cur].liveQ = Front(@), ![cur].freeQ = Append(@, u),
                           ![cur].liveN = @ - 1]
     /\ left' = left - 1
     /\ UNCHANGED <<pool, freeN, owner, queue, pc, cur, ti, kept, up, fails>>
  /\ UNCHANGED <<sims, ctls>>

ControlDone ==
  /\ up /\ pc \in {"add", "drop"} /\ left = 0
  /\ pc' = "idle" /\ cur' = 0
  /\ UNCHANGED <<users, grp, owner, queue, left, ti, kept, up, budget>>
-----------------------------------------------------------------------------
(***************************************************************************)
(* ntg_user_timeout_cb: the timer of user u.                               *)
(***************************************************************************)
\* The timer is added again, unless event_add() fails, which is only printed.
Rearm(u, live) ==
  \/ usr' = [usr EXCEPT ![u].live = live] /\ UNCHANGED fails
  \/ usr' = [usr EXCEPT ![u].live = live, ![u].timer = FALSE] /\ Fails

\* A user that is live asks for a page; its last session may be over.  A user that is not
\* live starts again, or under a scene is moved to free_q of its group; live_n stays.
Timeout(u) ==
  LET g == usr[u].grp
  IN
  /\ Idle /\ usr[u].timer
  /\ \/ ~grp[g].on /\ Break
     \/ /\ \/ usr[u].live /\ (\E more \in BOOLEAN : Rearm(u, more)) /\ UNCHANGED grp
           \/ ~usr[u].live /\ ~grp[g].scene /\ Rearm(u, TRUE) /\ UNCHANGED grp
           \/ /\ ~usr[u].live /\ grp[g].scene
              /\ usr' = [usr EXCEPT ![u].timer = FALSE]
              /\ grp' = [h \in Group |->
                   [grp[h] EXCEPT !.liveQ = RemoveFirst(@, u),
                                  !.freeQ = IF h = g THEN Append(RemoveFirst(@, u), u)
                                                     ELSE RemoveFirst(@, u)]]
              /\ UNCHANGED fails
        /\ UNCHANGED <<pool, freeN, owner, queue, loop, up>>
  /\ UNCHANGED <<sims, ctls>>

\* The master starts another virtual-user process.
Respawn ==
  /\ ~up /\ sims < MaxSim
  /\ pool' = [k \in 1 .. UserN |-> k] /\ freeN' = UserN
  /\ usr' = [u \in User |-> NoUser] /\ grp' = [g \in Group |-> NoGroup]
  /\ csms' = [k \in 1 .. NCsm |-> k] /\ cid' = [c \in Csm |-> 0]
  /\ gps' = [c \in Csm |-> [i \in GroupIds |-> 0]] /\ table' = EmptyTable
  /\ tasks' = <<>> /\ taskN' = 0 /\ taskFlag' = FALSE /\ evTask' = FALSE
  /\ pc' = "idle" /\ cur' = 0 /\ left' = 0 /\ ti' = 0 /\ kept' = <<>>
  /\ up' = TRUE /\ UNCHANGED budget
-----------------------------------------------------------------------------
Commands ==
  \E i \in Ids, gid \in GroupIds :
    \/ SimulationNoConsumer(i, gid) \/ SimulationFails(i, gid) \/ Delete(i, gid) \/ Quit(i)
    \/ \E n \in User : SimulationTooMany(i, gid, n)
    \/ \E n \in User, g \in Group, scene \in Scenes : \E start \in IF scene THEN 0 .. n ELSE {0} :
         Simulation(i, gid, n, g, scene, start)
Callback == QuitGroup \/ TaskGroup \/ Activate \/ ActivateDone \/ TaskDone \/ ControlAdd
            \/ ControlDrop \/ ControlDone

Next ==
  \/ Commands \/ TaskStart \/ Callback \/ Respawn
  \/ \E g \in Group, n \in 0 .. UserN : Control(g, n)
  \/ \E u \in User : Timeout(u)

Spec == Init /\ [][Next]_vars

\* Callbacks run to their end, and the timer of the task event expires.
Fairness == WF_vars(Callback) /\ SF_vars(TaskStart)

FairSpec == Spec /\ Fairness
-----------------------------------------------------------------------------
(***************************************************************************)
(* Properties.                                                             *)
(***************************************************************************)

\* Where users are: the pool is place 0, a group has two queues.
Held(g) == IF g = 0 THEN pool ELSE grp[g].freeQ \o grp[g].liveQ

Places(u) == UNION {{<<g, k>> : k \in {j \in DOMAIN Held(g) : Held(g)[j] = u}} : g \in 0 .. NGroup}

\* Every user object is in exactly one place, the pool or one queue of one group, and
\* free_user_n counts the pool: none is lost or handed out twice ("when a group ends, the
\* users it holds must be given back to the pool", ntg_user_group.c).
UsersConserved ==
  /\ TypeOK
  /\ up => /\ freeN = Len(pool)
           /\ \A u \in User : Cardinality(Places(u)) = 1

\* A freed group is not used: no consumer keeps a pointer to it, and no timer of a user in the
\* pool is pending, whose callback would use the group the user had (ntg_user_group_free stops
\* the timers of dropped users too).  Every group can be reached from its consumer.
GroupsOwned ==
  up => /\ \A k \in DOMAIN pool : ~usr[pool[k]].timer
        /\ \A g \in Group : grp[g].on => gps[grp[g].csm][grp[g].gid] = g
        /\ \A c \in Csm, i \in GroupIds : gps[c][i] # 0 => grp[gps[c][i]].on

\* Not all users of g have been made live: g is in the list of tasks or being served.
Starting(g) == /\ grp[g].on
               /\ g \in Range(tasks) \cup Range(kept) \/ (pc = "activate" /\ cur = g)

\* Every group gets the users it starts with live, over as many batches as it needs, unless
\* it is freed, a call fails or the process is gone: the event that drives
\* ntg_user_manage_process_task is not lost while groups are left.
GroupsStart == \A g \in Group : Starting(g) ~> (~Starting(g) \/ fails > 0 \/ ~up)
=============================================================================
