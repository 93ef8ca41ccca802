# A TLA+ verification of ntrig

ntrig (`src/ntrig/src`, about 30,000 lines of C) generates HTTP traffic. It is
built on the process model, the containers and the configuration of nginx, and
on libevent. A master process supervises one virtual-user process and several
traffic processes. A remote front end sends the master simulation and control
commands as JSON. The virtual-user process simulates users: groups of timers
that fire when a user would click. Each click becomes a request message to one
of the traffic processes, which fetch the pages and report back how busy they
are.

This directory has TLA+ models of that system, TLC runs that check them on
small instances, and TLAPS proofs, for instances of any size, of the safety
properties of seven components.

## 1. Inventory

### Components, their state and their operations

| Component | Source | State | Operations |
|---|---|---|---|
| master and process table | `utils/ntg_process.c`, `ntg_process_cycle.c` | `ntg_processes[]`, `ntg_last_process`, `ntg_process_slot`, the signal flags, `live`, `delay`, `sigio`, `ntg_new_binary` | spawn, reap, respawn, signal the children, ADD, CHANGEBIN, TERM, QUIT |
| channels | `utils/ntg_channel.c`, `message/` | one datagram socket pair per child | write (may find it full or closed), read, pass a descriptor |
| load balancer | `user/ntg_user_balance.c` | the virtual-user process's copy of the table, requests per slot, `cur_slot`, `n`, `min_reqs` | update, request, feedback, polling |
| remote control | `utils/ntg_remote.c` | connections, table of waiting connections by id | accept, read, write, event and result callbacks |
| chained hash table | `utils/ntg_table.c` | chains, pool of nodes | find, insert, delete |
| virtual-user management | `user/ntg_user_manage.c`, `ntg_user_group.c`, `ntg_user_consumer.c` | pools of users and consumers, groups with two queues, list of tasks | simulate, delete, quit, task callback, scene control callback |
| user module | `user/ntg_user.c` | a user's timer, clicks, sessions | timer callback, set-up of the process, directives |
| user behaviour | `user/ntg_user_behavior.c`, `ntg_user_math.c`, `ntg_user_spline.c`, `ntg_user_random_module.c` | - | random numbers, splines |
| http requests | `http/ntg_http.c`, `ntg_http_request.c`, `ntg_http_recv.c`, `ntg_tcp_socket.c` | pool of request objects; of each its urls, host, address, descriptor, events, keep-alive | start, next url, resolve, connect, send, receive, time out, final |
| http parser, body discard | `http/ntg_http_parse.c`, `ntg_http_discard.c` | parser state, header buffer, rest of the body | status line, header line, chunk, discard |
| start-up, pid file, upgrade | `ntrig.c`, `utils/ntg_cycle.c`, `ntg_daemon.c`, `ntg_posix_init.c` | pid files, pools, descriptors, the log in use | options, init cycle with rollback, daemon, -t, -s, change of the binary |
| configuration | `utils/ntg_conf_file.c`, `ntg_parse.c` | calls, files, buffer, context, values | read a token, block, include, set a value |
| memory pools, containers | `utils/ntg_palloc.c`, `ntg_array.c`, `ntg_list.c` | blocks, large allocations, clean-ups | allocate, free, push, destroy |
| time and logging | `utils/ntg_times.c`, `ntg_log.c`, `ntg_string.c` | cached time in a ring of slots, chain of logs, `disk_full_time` | update, format, write |
| record ring | `record/` | - | never started |
| the rest of `utils/` | hashes, red-black tree, addresses, buffers, files | | from nginx, mostly unused |

### Interactions

The master forks the virtual-user process first, then the traffic processes,
and tells every child about the others with OPEN messages that carry a
descriptor, and with CLOSE messages when one has ended. Nothing else keeps the
copies of the process table alike. Commands travel front end -> master ->
virtual-user process, results the other way; requests travel virtual-user
process -> traffic process, and a feedback every `NTG_FEEDBACK_INTERVAL`
finished requests the other way. All of it is datagrams on non-blocking
sockets; most writers do not look at the result. Instances of the program meet
in the pid files and through signals.

Within a process everything is a callback of one libevent loop. There are no
threads and no shared memory. What interleaves is the processes, the signals
between two turns of a loop, and the order in which callbacks fire.

### What is hard

* children die, are respawned, added and told to stop in any order, and the
  master's knowledge of them (`live`, `exiting`, the descriptor numbers) is
  refreshed only at some of these moments;
* messages that do not fit are dropped;
* the table of waiting connections is searched by ids that clients choose;
* users, groups and consumers are linked by pointers and freed on command while
  timers are pending;
* a request keeps a descriptor, two events, a host name and an address that are
  renewed at different moments, and any call in between may fail;
* responses arrive in pieces, and the reader must stop at the last byte;
* an old and a new binary, tests and signals meet in one pid file;
* start-up and shutdown must end, and give back what they took, although a step
  fails on the way.

`PROJECT.json` lists these hazards line by line, with the properties that watch
them.

### What correctness means

* master: the table covers every child; the verdict "nothing lives" is right;
  no fork during a shutdown; TERM and QUIT end the program;
* balancer: the search for a process ends, and gives up only when every slot is
  marked; the copy of the table catches up with the master;
* remote control: no dangling connection, one entry per id, no node lost but
  behind a deleted head, every command passed on is answered;
* users: no user lost or handed out twice, no timer of a user in the pool
  pending, no stale group pointer in a consumer, every group starts;
* requests: every descriptor has one owner, a url goes to a server of its host,
  every request ends if nothing trickles for ever; a response is complete exactly with its last byte;
* start-up: a running instance can be found by its pid file, a failed upgrade
  gives the name back, a failed start gives everything back;
* configuration: the size of the buffer is invisible, context and files are
  restored, what was given is kept, times are the ones written;
* pools: regions are disjoint, everything is freed once;
* logs: a line is whole or visibly cut, and the cached time is right.

## 2. Modules

| Module | Models | Uses |
|---|---|---|
| `Supervisor` | the master, its table and signals, the children as the master sees them | - |
| `SupervisorProofs` | inductive invariant and theorems about `Supervisor` | `Supervisor` |
| `Dispatch` | master messages, the copy of the table, balancer, request queues | - |
| `HashTable` | `ntg_table.c` as operators on a record | - |
| `Remote` | the master's remote control and the command path | `HashTable` |
| `Users` | consumers, groups, users and timers | `HashTable` |
| `Http` | request objects, their connections and urls | - |
| `HttpParse` | the parsers, as step functions on one byte | - |
| `HttpResponse` | reading one response | `HttpParse`, implements `HttpMessage` |
| `HttpWire` | the bytes of a response | - |
| `HttpMessage` | what the reader of responses promises (abstract) | `HttpWire` |
| `Boot` | instances, pid files, daemon, -t, -s, upgrade | - |
| `Cycle` | pools, descriptors and logs from `main` to the process cycle | - |
| `ConfToken` | the token reader and the conversions of values | - |
| `Conf` | the parser with its calls, directives and logs | `ConfToken` |
| `Pool` | memory pool, array, list, clean-ups | - |
| `Format` | `ntg_vslprintf` | - |
| `Calendar` | `ntg_gmtime`, and a calendar counted day by day | - |
| `Log` | cached time, lines, chains of logs, full disks | `Format`, `Calendar` |
| `NatLemmas` | what `Min` and `Max` return, and a counting lemma | - |
| `DispatchProofs`, `RemoteProofs`, `UsersProofs`, `HttpProofs`, `BootProofs`, `PoolProofs` | inductive invariants and theorems | the module each is named after, `NatLemmas` |
| `MC...` | instances for TLC: inputs that are too large for a cfg | the module each is named after |

### Supervisor

`ntg_processes[]` is a function per field over `Slot`; the variable names follow
the fields. `mpc` is where the master is: its body is cut into one step per table
slot visited, because children may die in between. Signals are
libevent events, so their handlers are actions enabled only while the master
waits (`mpc = "wait"`), and only set flags.

`SpawnProcess` is `ntg_spawn_process` with all its exits: no room, a failing
`socketpair`, a failing `ioctl` or `fcntl`, a failing `fork`, success. After the
middle ones the socket pair is closed but its numbers remain in the table. Since
the kernel hands out the lowest free descriptor, such a stale number may come to
name the channel of another child: `fdt` is the kernel's descriptor table and
`Reader` says who really reads a write.

The reap pass is `ReapSkip`, `ReapClose`, `ReapRespawn`, `ReapDrop`, `ReapDone`;
the body of the loop is `MasterExit`, `OnTerminate`, `OnQuit`, `OnAdd` and
`ExecNewBinary`; the signal pass is `SignalSkip`, `SignalByChannel`,
`SignalByKill`, `SignalDone`. `pid[ri] = 0` (a slot never used) makes
`kill(0, ...)` hit the whole process group, as it would. The unsigned
`cpu_affinity_n - 2` wraps modulo `Word`.

Abstractions: of a channel only "a command to stop is on its way" is kept; a
write may find it full at any time. `delay` is doubled only until it is beyond
`KillDelay`, because nothing else is read from it. The callback for errors of
the listening socket sets `ntg_terminate`, which `SigTerminate` covers.

### Dispatch

The master with boot, ADD and the reap pass, but each with the messages it
sends; the virtual-user process with `ntg_channel_handler` and both balancers;
traffic processes as a queue, a pool and a feedback counter. The reap pass reuses
one message variable (`cmd`, `cfd`), as the code does. A request is the loop of
`ntg_user_balance_process_request`: `SendOk`, or `SendFails`, which marks the
slot and looks for another one. The virtual-user process does not die here and
the program does not shut down; a slot whose spawn failed has no channel.
`VSlot`, the indices of the copy, is not a bound of the code's: it is as long as
the bounds of a run need, because the OPEN handler increments `ntg_last_process`
and compares it with nothing (`ntg_process_cycle.c:1524`). What does bound it is
`LastProcessCounts`.

### HashTable and Remote

Deleting the head of a chain sets the bucket to NULL (`ntg_hash_delete_node`),
so the nodes behind it leave with it; that is what `DeleteNode` does. Key and
comparison use the id an object has now, so all operators take the function
`id`.

`Remote` has one action per callback. Of a message only its kind is kept: a
command with an id, one that is too short or not JSON, and one of unknown type.
Objects are assumed to have the fields their type needs and to fit the buffer of
1024 bytes. The virtual-user process reads a command when its answer can be
written (`Serve`), or it fails to write it and the front end hears nothing
(`ServeFails`); that and the death of the process are the `faults` a run allows.
After the virtual-user process has been respawned, whether the
master's read event still works depends on libevent's method and on the
descriptor number: `listening` becomes either.

### Users

A simulation command takes a consumer (by id) and users from the pool for a new
group and puts the group into the list of tasks. Callbacks with a loop are cut
into steps with `pc`, `cur`, `left`. `Control` chooses any level of the curve
between 0 and the size of the group (a spline that overshoots is excluded). Group
objects have addresses which the allocator may reuse. Where the code follows a
NULL pointer, links a freed group or takes the sentinel of an empty queue for a
user, `up` becomes FALSE and nothing is said until the master has started another
process; where it merely reads a freed group, it may also go on. The note in the
code that the front end does not send a command for a group in use is a guard of
`Command`; groups have at least one user. Fields read before they are written
(`u->enable`, `u->event`, `mg->ev_task`) are taken to be zero, as fresh memory is.
The test for an empty pool of nodes in `HasConsumer` never fires: the table has
as many nodes as there are consumers, and consumers are not reused.

### Http

One action per callback of `ntg_http.c`; the loop over the next urls in
`ntg_http_final_process` is cut into steps with `loop`, during which nothing else
runs in the process. A step of it is one of the exits of the loop body: no url
left, a bad url, a name that is not resolved, a request that is not built, a
connection reused, a connect begun, a failing `socket` or `connect`. The kernel
hands out the lowest free descriptor, so a number a request still remembers may
come to be another request's connection (`evfd` against `sock`). A server may
accept, refuse, answer, close, reset or stay silent, and an answer may come in any
number of parts: `Again` is the branch for NTG_AGAIN, which adds the event once
more with a fresh timeout. `due` are the requests whose timeout has passed (`Tick`);
`Again` takes a request out of it. A url is a host and a port; `Address` is what a
request stores, and it is stored only when the name differs, so the port of a later
url of the same host is not read. Hosts have a relation `Shorter` for `strncmp`'s
prefixes. `skipped` is history: requests that gave up a url after its host had been
stored.

### HttpParse, HttpResponse, HttpMessage

A parser is a function from the parser's fields and one byte to the new fields;
a buffer is a fold. Words that the parser treats as one letter are one symbol.
`HttpResponse` takes any part of the response at a time, as `recv` may, and has
the two readers (header and body), end of file, time-out and a failing
`event_add`. `HttpMessage` says what this should amount to: nothing but the last
byte, a lost connection or a header that does not fit ends a well-formed
response, and the status and the fate of the connection are those the server
sent. `Delivers` is the refinement: bytes read are bytes taken, and `outcome`
with `lost` gives the verdict. A 204 or 304 has no body on the wire whatever its
headers say (`Bodiless` in `HttpWire`). The code has a test for them
(`ntg_http.c:1082`) on `headers_in.status_n`, which nothing sets; `NoBody` has the test
with the value that field keeps. `HttpMessage` therefore leaves it open how a 204
or 304 that announces a body ends, and is exact for all others.

### Boot and Cycle

`Boot` has several instances of the program, each with its configuration read at
an arbitrary moment, and the pid files they share; a crash is possible at every
step. `listed` says whether the new binary of an instance got a vacant slot of the
process table or the one behind its end: the loops of `ntg_process_get_status` and
`ntg_reap_children` do not reach the latter, so its end goes unseen (`EndUnseen`) and
only that of the former is recognised (`Reap`). `Cycle` is one start of one instance: every step of `main` and
`ntg_init_cycle` that takes a descriptor or a pool, each with its failure and the
rollback. The meaning of the configuration is in `Conf`; `Cycle` takes from it a
list of logs only. `ntg_init_cycle` runs once in a process: the code that would
reconfigure a running master is commented out, and the branches of
`ntg_init_cycle` for an old cycle that is not the initial one are therefore
outside the model.

### ConfToken and Conf

`ReadByte` is one turn of the loop of `ntg_conf_read_token`, with its flags.
`Conf` drives it over a buffer that is refilled, with the calls of
`ntg_conf_parse` as a stack. Directives have names of one letter (listed with
their real names in `CoreCommands` and its neighbours), values are checked and
converted as their setters do. An include is a call of its own that opens one file
after another; each opening may fail, also that of the second file of a pattern.
`BufferInvisible` compares every token with the
one read from a text without a buffer.

### Pool

Blocks are intervals, a region is a part of one. `s` passes through
`ntg_palloc`, `ntg_palloc_block` and `ntg_palloc_large` as the code passes the
pool, with the number of system allocations that will still succeed chosen
beforehand: every call may be the one that fails. A clean-up closes its file, or
closes and deletes it (`deleted`, as `ntg_create_temp_file` asks);
`ntg_pool_run_cleanup_file` runs the first kind only. Nothing in this program
registers a file or runs a clean-up early: `ClosedOnce` is about the library.

### Format, Calendar, Log

`Format` is the loop of `ntg_vslprintf` with a buffer that ends anywhere.
`Gmtime` is the code's formula, `Civil` counts years and months. `Log` has the
ring of cached times, `ntg_log_error_core` with its reserve for the number of an
error, the chain with levels and disks that fill, and the console. A log with a
`writer` is one whose file never fills and is not the console; `log->handler` is set by
nothing and NTG_LOG_DEBUG_CONNECTION by no log, so those two branches of
`ntg_log_error_core` are never taken.

## 3. Runs

| Run | Checks | Bounds |
|---|---|---|
| `sup_safety` | `TypeOK`, `ChildrenInTable`, `ReapVerdict`, `NewBinaryForgotten`, `NoForkInShutdown` | 2 workers, 3 slots, 3 socket pairs, a crash, an ADD or CHANGEBIN |
| `sup_end` | `TermEndsProgram`, `QuitEndsProgram`, with fairness | 1 worker, 2 slots, 1 CPU (the limit wraps), a crash, a failing call, an ADD or CHANGEBIN |
| `dispatch` | `NoSlotTriedTwice`, `GivesUpOnlyWhenAllMarked`, `Reachable` | both balancers, 2 processes, queues of 1, 3 messages per channel, 2 crashes, a failing call or an ADD, 2 requests |
| `remote` | `NoDangling`, `NodesConserved`, `CommandAnswered`, with fairness | 3 connections, sharing two ids in one bucket (with malformed messages or without) or with an id and bucket each, 2 nodes, a respawn or a failing write, one message per connection |
| `users` | `UsersConserved`, `GroupsOwned`, `GroupsStart`, with fairness | 2 users, 2 groups, 1 consumer, 2 simulations, 1 control, a failing call, with and without a scene |
| `http` | `FdOwned`, `RightServer`, `LoopEnds`, `RequestEnds`, with fairness | 2 requests, of 3 urls and of 1, over 2 hosts, one name a prefix of the other and one with 2 ports; every call may fail, every answer may trickle |
| `http_response` | `AsksNoMore`, `Delivers` (refinement) | well-formed responses of 4 statuses in both versions and line ends, 8 lists of headers, lengths 0, 3, 33, chunks, extensions, trailers; responses with one wrong byte; buffer of 29 |
| `boot` | `NamesLiving`, `Found`, `NameComesBack`, with fairness | 4 processes, 3 configurations with 2 pid files, 4 command lines, failing fork and write, crashes |
| `cycle` | `LogsLead`, `GivesBack`, `StartsClean` | 3 modes, daemon or not, 8 lists of logs, every step failing |
| `conf` | `BufferInvisible`, `Restored`, `GivenKept`, `TimesExact`, `EveryLogHears`, `ParseEnds`, with fairness | every text of up to 4 bytes over 9 bytes with a buffer of 2; 23 longer texts with buffers of 4 and 9; 5 -g parameters; integers of 20 bits |
| `pool` | `Disjoint`, `ElementsInside`, `LargeOwned`, `ClosedOnce` | 4 blocks of 12 units, 2 large allocations, 6 regions, an array and a list, a file |
| `log` | `LineWhole`, `TimesAgree` | lines of 64 bytes with messages of 0 to 40 and all directives; 3 logs, 2 disks, 3 seconds around midnight, 2 zones; the month ends of 140 years |

The bounds are the smallest at which the interesting cases happen: two children
so that one reap pass can meet two dead ones, fewer slots than processes asked
for, a queue of one message so that it is full at once, two ids in one bucket,
more users than a batch makes live, a group freed while another one waits; two
requests so that a descriptor number can change its owner, and a third url so
that a connection kept after a failure is used again; a host with two ports, so that
the second is asked for over the connection of the first; a buffer that the longest
fitting header fills exactly; four processes for an old binary, its new one, a
third instance and a daemon's child; a buffer of two bytes, so that every pair
of bytes is cut somewhere; blocks so small that every branch of the allocator is
a few requests away (`FailLimit` is 4 and `LargeTries` 5 in the code, 0 and 2
here: what matters is that `current` moves past a block, and that entries are
not looked at any more); 140 years, because 2100 is not a leap year.
`CHECK_DEADLOCK FALSE` is used where the program or its environment ends or
waits, as each cfg says. `Supervisor` is checked for deadlock; once the program
is over it stutters (`Done`).

Each property is paired with a mutant (a definition next to the one it mutates)
that violates it. Type invariants of the modules other than `Supervisor` are
conjuncts of a property each.

### Fairness

* `Supervisor`: the master's own steps and those of the children are weakly fair.
  A pending SIGCHLD is handled by the next turn of the event loop although the
  master keeps leaving "wait", hence strong fairness. The timer is set anew in
  every round; strong fairness of `SigAlrm` assumes that other events do not
  come faster than the timer for ever. Nothing is assumed of the operator.
* `Remote`: both processes read what has arrived; an answer leaves the master or
  its connection is closed.
* `Users`: a callback runs to its end, and the pending task event fires.
* `Http`: the loop over the urls goes on, time passes, and a timer that is due
  fires unless its event is added again before. Nothing is assumed of the servers:
  they may never answer. One that sends a little now and then holds a request for
  ever, since each part starts the timeout again, so `RequestEnds` is about the
  behaviours in which that stops (`<>[][~Again(r)]_vars`).
* `Boot`: an instance that starts goes on (or fails), a master handles SIGCHLD
  and the signal to stop. Nothing is assumed of operators and crashes.
* `Conf`: the parser goes on.

### What the code does that a reader may not expect

The models have this behaviour, and the properties are stated around it.

Master and channels:

* `live` is not set when ADD starts a child, so that after a pass that found
  nothing live an ADD followed by QUIT makes the master exit and leave the child
  (`ntg_process_cycle.c:274`);
* `ntg_last_process` falls below `ntg_start_process` when slot 0 is dropped as
  the last one; traffic processes started afterwards are outside the table
  (the premise of `ChildrenInTable`);
* a new binary in slot `ntg_last_process` is never recognised when it ends (the
  premise of `NewBinaryForgotten`), so later CHANGEBIN signals are ignored;
* after a failing `fcntl` or `fork`, stale descriptor numbers make the master
  close the channel of another child or tell the wrong one to stop, so QUIT may
  never end (the exception in `QuitEndsProgram`);
* a failure during start-up is noticed only after the next event;
* when two children end before one reap pass, the second is announced by an OPEN
  with the channel of the successor of the first, until its own OPEN arrives;
* a full request queue marks a process for good, and a request is refused when
  all processes are marked although all live;
* the virtual-user process counts each OPEN in `ntg_last_process` and nothing brings
  it back: after enough respawns it passes the 1024 entries of `ntg_processes[]`
  (`ntg_process_cycle.c:1524`);
* `cur_slot` is not recomputed on OPEN, and the polling balancer's test of the
  process type never holds in the virtual-user process, where the type is not
  set.

Remote control and users:

* deleting the head of a chain loses the rest of it and drains the pool (the
  second case of `NodesConserved`), and the connections in it are not answered;
* releasing a refused connection removes the entry of the one that waits under
  the same id, which is then not answered either (both are the exception in
  `CommandAnswered`);
* a result the virtual-user process cannot write is given up, and the front end
  waits for it (`ntg_user_manage.c:183`);
* a second command on a connection overwrites the id it is filed under and leaves
  a dangling entry (`remote` has one message per connection);
* a group deleted while it waits is still counted in `task_n`, and the task
  callback runs past the end of its list;
* a user object taken from the pool again keeps the pointer to its former group;
* in a scene `live_n` counts users that ended by themselves, so that the control
  callback drops users from an empty queue;
* a group that needs another round is no longer marked `active`, so freeing it
  leaves it in the list of tasks;
* a consumer that quit is not put back where new ones are taken from;
* a simulation that asks for more users than there are crashes the virtual-user
  process.

Requests:

* a host is stored before its name is resolved; when that fails, the next url of
  the same host goes to the connection of the host before (the exception in
  `RightServer`), and a host whose name is a prefix of the stored one counts as
  the same;
* ports are not compared (`ntg_http.c:396`): after `h:80` the url `h:8080` goes to
  port 80, over the old connection or a new one. `RightServer` is therefore about
  the host; `OwnServerAsked` says which lists of urls are safe;
* each part of a response starts the timeout again (`ntg_http.c:774`,
  `ntg_http_discard.c:103`, `142`): there is no limit to the time of a request;
* `status_n` is never set, so a 204 or 304 that announces a length, as a 304 may, is
  waited for until the connection closes or times out (`ntg_http.c:1082`, whose
  comment says otherwise);
* after a failing `connect` the events still belong to the closed descriptor and
  the result of `event_add` is ignored: such a request may never end (the
  exception in `RequestEnds`);
* `keepalive` survives a time-out: over a connection used again, a late answer
  is taken for that of the next url.

Start-up, configuration and logs:

* a new binary daemonizes, so that its parent is init and it obeys CHANGEBIN
  although its old binary still runs (`ntg_process.c:480`);
* after a failed upgrade (`ntg_new_binary` is -1) the master deletes the old name
  when it ends and leaves its pid file (the exception in `NamesLiving`);
* nothing keeps two instances from sharing a pid file;
* a single process (`master_process off`) never looks at its signals;
* `ntg_create_pidfile` does not close the file when the write fails;
* in the ordinary upgrade the new binary gets the slot behind the table: when it
  dies, the old one does not notice and keeps the old name (the premise of
  `NameComesBack`);
* `worker_priority 0` or `-0` and the listen address 0.0.0.0 may be given again (the
  exception in `GivenKept`);
* `ntg_atoi` looks at the sign once, after the last digit: a number that wraps past
  it to a value that is not negative is accepted, although the comment
  (`ntg_string.c:912`) says that an overflow returns NTG_ERROR. Only times are checked
  part by part, which is why `TimesExact` is about them alone;
* a failing `ntg_pstrdup` in `ntg_conf_include` returns without `ntg_close_glob`
  (`ntg_conf_file.c:837`);
* a file that includes itself is read until the descriptors run out;
* a configuration without a `users` block leaves a NULL pointer that the user
  module's initialisation follows;
* a log whose disk is full is skipped until the cached time changes, which may be
  long after the second of which the comment speaks, because the time is read
  before a process waits for events;
* `%p` and `%A` take no argument, and a fraction that rounds up to one keeps its
  integral part.

## 4. Proofs

Each theorem holds for every value of the constants that satisfies the `ASSUME` of
its module: any number of processes, slots, requests, connections, files and
failures.

| Module | Theorem | States |
|---|---|---|
| `SupervisorProofs` | `TypeCorrect` | `Spec => []TypeOK` |
| | `ChildrenCovered` | `Spec => []ChildrenInTable` |
| | `ReapVerdictRight` | `Spec => []ReapVerdict` |
| | `NoForkWhenStopping` | `Spec => NoForkInShutdown` |
| | `BinaryForgotten` | `Spec => []NewBinaryForgotten` |
| `DispatchProofs` | `TriesEachOnce` | `Spec => []NoSlotTriedTwice` |
| | `CountIsOfForks` | `Spec => []LastProcessCounts` |
| | `CopyCatchesUp` | `Spec => []Reachable` |
| | `NobodyPassedOver` | `Spec => GivesUpOnlyWhenAllMarked` |
| `RemoteProofs` | `NothingDangles` | `Spec => [](Steady => NoDangling)` |
| | `NodesKept` | `Spec => NodesConserved` |
| | `OwnIdsLoseNothing` | `Spec => [](OwnIds => Nodes(table) = NodeN)` |
| `UsersProofs` | `UsersKept` | `Spec => []UsersConserved` |
| | `GroupsReached` | `Spec => []GroupsOwned` |
| `HttpProofs` | `DescriptorsOwned` | `Spec => []FdOwned` |
| | `AskedRightServer` | `Spec => []RightServer` |
| | `OwnServerAsked` | `OneServerPerName` gives `Spec => []ExactServer` |
| `BootProofs` | `PidFilesTrue` | `Spec => []NamesLiving` |
| | `InstancesFound` | `Spec => []Found` |
| `PoolProofs` | `RegionsDisjoint` | `Spec => []Disjoint` |
| | `ElementsFit` | `Spec => []ElementsInside` |
| | `LargeFreedOnce` | `Spec => []LargeOwned` |
| | `FilesClosedOnce` | `Spec => []ClosedOnce` |

None of these invariants is inductive as it stands. Each module has an `IndInv`
that TLC checked on the instance of the run before it was proved, a lemma per
helper and per action, and `Inductive` (or `Invariance`, `NextInv`), from which the theorems
follow. `NatLemmas` shows with the well-foundedness of the naturals that `Min`
returns a least element, and that a holder without a descriptor finds a free one
when there are as many as holders and nobody has two.

### Supervisor

A spawn must not hit the slot of a living child, and a drop must not cut one off.
`IndInv` adds what the position of the master says:

* `FreshPids`: process numbers are given out in order, so a new one is nobody
  else's;
* `BootFirst`: nothing has been forked when the virtual-user process is started,
  so slot 0 is vacant;
* `RespawnSlot`: between closing a channel and the decision on the slot, the slot
  is below `ntg_last_process`, marked as exited and not free; its child has been
  waited for, so neither a respawn nor a drop touches a living one;
* `RespawnMine`: only children that are not detached are respawned;
* `PassedNone`: a pass that has found nothing live has passed no child, which
  gives `ReapVerdict` when the pass ends;
* `MayFork`: the states from which a fork can happen are entered only without
  `terminate` and `quit`, which gives `NoForkInShutdown`.

There is one lemma for each outcome of `ntg_spawn_process`.

### Dispatch

What the virtual-user process will know depends on the messages still in its
channel, so the invariant is about the queue. `Told` says that the last OPEN or
CLOSE for a slot is the OPEN of its present child, or, if there is none in the
queue, that the copy has it already. `AtMost` and `AtLeast` say what
`ntg_last_process` of the copy will be when the queue is empty: at most `Top`, at
least that of the master. A sum over a queue would need induction; both are
stated by a function on its positions that grows by at most (at least) the OPENs,
and `Append` and `Tail` extend or shift it. `Top` counts the OPENs ever sent: one
per start that was due, at most two per child, one per failing call and one per
slot given up. That is what `CountIsOfForks` states, and all that can be said: no
step compares the count with the size of the table. `VSlot` ends where the bounds of
the model put `Top` (and `MaxReq` further for the polling balancer, whose index moves
on by one per request). `Loop` says that the slots tried are marked; `LoadT`
bounds the requests counted for a slot by those made and the size of the pool.

### Remote

A connection is deleted from the table under the id it has at that moment, so
everything rests on ids that do not change while they are in the table. `Steady`
is exactly that: one message per connection, or one id per connection and no null
messages. `NothingDangles` is proved for `Steady` front ends; for the others it is
false (the hazard at `ntg_remote.c:272`).

The invariant has two parts. `Base` holds for any front end: the types, and that the
nodes in the chains and the pool are not more than there are (`Counted`). `Good` holds
for steady ones: chains are sorted under their buckets without a repeated id
(`Sorted`), and the id of an entry came with a command (`Came`). `NodesConserved` needs
`Base` only, so `NodesKept` covers shared, colliding and changing ids: it counts places
in the chains (`Places`), what insertion and deletion do to that set is proved for any
chain, and `Kept` says of each action that it loses nothing or exactly the nodes
behind a deleted head (`Lost`). `OwnIdsLoseNothing` is the case in which every chain
has one node at most.

### Users

`UsersConserved` counts the places of a user; the proof works with sets. `Sole`
says that the pool and the two queues of each group are sequences without
repetition whose ranges are disjoint and together hold every user, and `OnePlace`
that each user then has one place. What each operation of `ntg_queue.h` does to
the range of a queue and to its having no repetition is a lemma about any sequence
(`ConsQ`, `AppendQ`, `TailQ`, `FrontQ`, `SplitQ`, `ReverseQ`, `UnlinkQ`); a step then
moves users between the pool and one group (`SwapSole`) or, when a timer
finds a user in a queue of any group, to the group it points to (`HopSole`). That
`free_user_n` never passes the number of users is the pigeonhole principle.

`IndInv` adds what makes those steps happen in that way:

* `Linked`: consumer and group point to each other, so freeing a group clears the
  one pointer to it, and a command for an unused group id finds the pointer NULL;
* `Plain`, `Stopped`, `Pointed`: a freed group holds nobody, a user in the pool
  has no timer, and a user with a timer points to a group object, if maybe a freed
  one;
* `Spare`, `Filed`: a consumer not yet taken has no groups and is not in the
  table; an object is in one chain of the table once, and the objects there and the
  free nodes are not more than the nodes, also after the head of a chain was
  deleted together with the nodes behind it;
* `Listed`: a group is in the list of tasks once, what the callback keeps is not
  more than it has served, and a group that waits there is not yet under its scene;
* `Looping`: the group a loop is at exists, and the turns left do not take more
  users than it may have live, which bounds `live_n`.

The proof corrected the type invariant: `cur` is a consumer, not a group, while a
consumer quits.

### Http

`FdOwned` counts the owners of a descriptor; the proof works with `OneOwner` (no
two requests have the same), `Owned` and `OpenSock`. That `socket()` finds a
descriptor is itself a lemma (`NewFdFree`): there are as many as requests, and the
caller has just closed its own. `Pooled`, `InLoop` and `Pending` say what is known
of a request that is in the pool, in the loop, or waits. `Served` ties the stored
host, the address and the peer of the connection together for every request that
skipped nothing: the address is that of a url of the list whose name begins with the
name of the present url. With `OneServerPerName` there is one such url, which gives
`OwnServerAsked`.

### Boot

`Kin` is about the processes alone: a child of an instance is the new binary of a
master that runs, and only a process about to write has a pid file open. `Names`
relates processes and files that are not shared: where the pid of each instance
is, that two instances with one name are an old and a new binary, and what a pid
found in a file says of its process. Both are predicates of a process table, so
that the functions of the model (`End`, `HandleMoved`, `HandleCut`) are reasoned
about one at a time. An instance whose new binary is not `listed` stays under the old
name. The assumption asks for at least one path.

### Pool

An operation is a chain of allocations, each a function of the pool and of what
`malloc` still gives. `Sound` is what they keep and `Answer` what they return:
NULL, or memory nobody had. The lemmas go up from `ntg_align_ptr` over a block, a
new block and a large allocation to `ntg_palloc`, and the actions compose them.
The arithmetic that carries the proof is that alignment does not pass the end of
a block whose size is aligned, which is what the unsigned comparison of
`ntg_palloc` relies on. The assumptions are those of the code's sizes: headers
are not empty and fit into a block, sizes are multiples of the alignment. Regions
of no bytes are not recorded as held.

### Only model-checked

* Liveness (`TermEndsProgram`, `QuitEndsProgram`, `CommandAnswered`,
  `GroupsStart`, `LoopEnds`, `RequestEnds`, `NameComesBack`, `ParseEnds`): needs
  fairness and ENABLED.
* What the folds and recursive functions of `HttpParse`, `ConfToken`, `Format` and
  `Calendar` compute: needs induction over data, which the prover cannot do with
  the installed back ends. So `AsksNoMore`, `Delivers`, `BufferInvisible`,
  `Restored`, `GivenKept`, `TimesExact`, `EveryLogHears`, `LineWhole` and
  `TimesAgree` stay with TLC.
* `LogsLead`, `GivesBack`, `StartsClean` (`Cycle`): the start runs once, one step
  after another, and its length depends on the list of the configured files, which
  is what a recursive function returns. TLC runs every order of failures for eight
  lists; see section 6.

## 5. Not modelled

* Random numbers, distributions and splines: floating point without state. The
  models take any number that may come out of them.
* The contents of JSON messages, process titles, most of the wording of messages.
* The record process: its start is commented out.
* The database and thin wrappers of system calls: input and output only.
* Code taken from nginx that nothing on the program's paths calls: `ntg_reset_pool`,
  `ntg_reopen_files`, the reconfiguration in `ntg_init_cycle`, the red-black tree,
  nginx's hash, the output chain, temporary files (but for their clean-ups, which are
  part of `Pool`) and the file manager of `ntg_file.c`, URL and address parsing in `ntg_inet.c`, MD5 and CRC, escaping,
  base64 and UTF-8 in `ntg_string.c`, the signal-safe time update. A model of it
  would say nothing about this program.
* Headers with declarations only.

## 6. What could be added

* `Cycle`: theorems need a step per directive instead of the recursive function in
  `Parse`, an assumption that there are descriptors for all files, and an invariant
  that says at each step of the start which descriptors are open and what they
  lead to.
* The hazards without a property in `PROJECT.json`, each with the reason.
