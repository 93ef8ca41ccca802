------------------------------- MODULE Remote -------------------------------
(***************************************************************************)
(* The remote control of ntrig (utils/ntg_remote.c): the master accepts    *)
(* connections of the front end, reads one command per connection, passes  *)
(* it to the virtual-user process over its channel and answers when the    *)
(* result comes back.  Between the two the connection is kept in a hash    *)
(* table under the consumer's id; the result is matched to a connection    *)
(* by that id alone.  A connection is released when its answer has been    *)
(* written or when the front end closes it.                                *)
(*                                                                         *)
(* All handlers are callbacks of one event loop and run to completion.     *)
(* Connection objects are memory blocks: a released one may be handed out  *)
(* again by the next accept, and until then what is read from it is        *)
(* arbitrary.  JSON objects have the fields their type needs.              *)
(***************************************************************************)
EXTENDS HashTable

CONSTANTS
  NConn,     \* connection objects
  FrontEnds, \* how the front end may behave: ids, the ids that commands on each connection
             \* carry, and kinds, what it sends: "command", "short" (not a JSON object, a part
             \* of one), "null" (a JSON object of a type the handler does not know)
  ChanLen,   \* messages the channel holds in each direction
  MaxConn,   \* bound: connections accepted
  MaxMsg,    \* bound: messages on one connection
  MaxFault   \* bound: deaths of the virtual-user process and results it fails to write

Conn == 1 .. NConn
Id   == {0} \cup UNION {f.ids[c] : f \in FrontEnds, c \in Conn}   \* 0: the id of a new object
Code == {100, 101, 102, 103, 200}

ASSUME RemoteAssumption ==
  /\ NConn \in Nat /\ ChanLen \in Nat
  /\ \A f \in FrontEnds : f.ids \in [Conn -> SUBSET Nat] /\ f.kinds \subseteq {"command", "short", "null"}
  /\ MaxConn \in Nat /\ MaxMsg \in Nat /\ MaxFault \in Nat

VARIABLES
  front,      \* the front end
  open,       \* the connection objects in use
  id,         \* cnt->id
  out,        \* answers written and not yet flushed
  sent,       \* messages read from the connection
  waiting,    \* the last command on the connection has been passed on
  table,      \* rmt->cnt_table
  toV, toM,   \* the channel, in each direction: ids of commands, results
  listening,  \* the master's event on the channel reports what arrives
  conns, faults

vars == <<front, open, id, out, sent, waiting, table, toV, toM, listening, conns, faults>>

Command == [id : Id, kind : {"command", "null"}]
Result  == [id : Id, ok : BOOLEAN]

TypeOK ==
  /\ open \subseteq Conn /\ id \in [Conn -> Id] /\ sent \in [Conn -> 0 .. MaxMsg]
  /\ out \in [Conn -> Seq(Code)] /\ waiting \subseteq open
  /\ table.chain \in [Bucket -> Seq(Conn)] /\ table.free \in 0 .. NodeN
  /\ toV \in Seq(Command) /\ Len(toV) <= ChanLen /\ toM \in Seq(Result) /\ Len(toM) <= ChanLen
  /\ listening \in BOOLEAN /\ conns \in 0 .. MaxConn /\ faults \in 0 .. MaxFault

Init ==
  /\ front \in FrontEnds
  /\ open = {} /\ id = [c \in Conn |-> 0] /\ out = [c \in Conn |-> <<>>]
  /\ sent = [c \in Conn |-> 0] /\ waiting = {} /\ table = EmptyTable
  /\ toV = <<>> /\ toM = <<>> /\ listening = TRUE /\ conns = 0 /\ faults = 0
-----------------------------------------------------------------------------
\* ntg_accept_cb: a zeroed object.
Accept(c) ==
  /\ c \notin open /\ conns < MaxConn
  /\ open' = open \cup {c} /\ conns' = conns + 1
  /\ id' = [id EXCEPT ![c] = 0] /\ sent' = [sent EXCEPT ![c] = 0]
  /\ out' = [out EXCEPT ![c] = <<>>]
  /\ UNCHANGED <<waiting, table, toV, toM, listening, faults>>

Respond(c, code) == out' = [out EXCEPT ![c] = Append(@, code)]

\* ntg_remote_read_cb, the message is too short or not JSON.
ReadShort(c) ==
  /\ "short" \in front.kinds /\ c \in open /\ sent[c] < MaxMsg
  /\ sent' = [sent EXCEPT ![c] = @ + 1]
  /\ Respond(c, 100)
  /\ UNCHANGED <<open, id, waiting, table, toV, toM, listening, conns, faults>>

\* A connection with this id is in the table.
Exists(ids, k) == Found(table, ids, k)

\* ntg_remote_message_handler: the id is stored in the object first, then the table is
\* searched.  A command the channel does not take leaves the object in the table.
Handle(c, k, kind) ==
  /\ c \in open /\ sent[c] < MaxMsg
  /\ sent' = [sent EXCEPT ![c] = @ + 1]
  /\ id' = [id EXCEPT ![c] = k]
  /\ \/ Exists(id', k) /\ Respond(c, 101) /\ UNCHANGED <<table, toV, waiting>>
     \/ ~Exists(id', k) /\ ~CanInsert(table) /\ Respond(c, 102) /\ UNCHANGED <<table, toV, waiting>>
     \/ /\ ~Exists(id', k) /\ CanInsert(table)
        /\ table' = InsertNode(table, k, c)
        /\ IF Len(toV) < ChanLen
             THEN toV' = Append(toV, [id |-> k, kind |-> kind])
                  /\ waiting' = waiting \cup {c} /\ UNCHANGED out
             ELSE Respond(c, 103) /\ UNCHANGED <<toV, waiting>>
  /\ UNCHANGED <<open, toM, listening, conns, faults>>

\* A simulation or control message; a message of another type keeps the id of the object.
ReadCommand(c) == "command" \in front.kinds /\ \E k \in front.ids[c] : Handle(c, k, "command")
ReadNull(c)    == "null" \in front.kinds /\ Handle(c, id[c], "null")

\* Mutant: the connection stays in the table.
ForgetNothing(c) == table

\* ntg_hash_delete_node(cnt_table, cnt): the node with the id of c goes, whoever's it is.
Forget(c) == DeleteNode(table, id, id[c])

\* The object and its bufferevent are freed.
Release(c) ==
  /\ table' = Forget(c)
  /\ open' = open \ {c} /\ waiting' = waiting \ {c} /\ out' = [out EXCEPT ![c] = <<>>]
  /\ \E garbage \in IF c \in Objects(table') THEN Id ELSE {0} : id' = [id EXCEPT ![c] = garbage]
  /\ UNCHANGED <<sent, toV, toM, listening, conns, faults>>

\* ntg_remote_write_cb: the answer is out.
Flush(c) == c \in open /\ out[c] # <<>> /\ Release(c)

\* ntg_remote_event_cb: end of file or an error.
Disconnect(c) == c \in open /\ Release(c)

\* The virtual-user process handles a command and writes the result until there is room
\* (ntg_user_message_handler); it ignores a message without a type.
Serve ==
  /\ toV # <<>> /\ toV' = Tail(toV)
  /\ \/ Head(toV).kind = "null" /\ UNCHANGED toM
     \/ /\ Head(toV).kind = "command" /\ Len(toM) < ChanLen
        /\ \E ok \in BOOLEAN : toM' = Append(toM, [id |-> Head(toV).id, ok |-> ok])
  /\ UNCHANGED <<open, id, out, sent, waiting, table, listening, conns, faults>>

\* The command is handled, but writing the result fails with another error than a full
\* channel: there is no result, and nobody is told.
ServeFails ==
  /\ toV # <<>> /\ Head(toV).kind = "command" /\ toV' = Tail(toV)
  /\ faults < MaxFault /\ faults' = faults + 1
  /\ UNCHANGED <<open, id, out, sent, waiting, table, toM, listening, conns>>

\* Mutant: the result is taken from the channel and nobody is answered.
AnswerNobody(r) == UNCHANGED <<out, waiting>>

\* ntg_remote_result_handler, when the id is found.
Answer(r) ==
  LET c == FindNode(table, id, r.id)
  IN  IF c \in open THEN Respond(c, IF r.ok THEN 200 ELSE 103) /\ waiting' = waiting \ {c}
                    ELSE UNCHANGED <<out, waiting>>

ReadResult ==
  /\ listening /\ toM # <<>> /\ toM' = Tail(toM)
  /\ IF Found(table, id, Head(toM).id) THEN Answer(Head(toM)) ELSE UNCHANGED <<out, waiting>>
  /\ UNCHANGED <<open, id, sent, table, toV, listening, conns, faults>>

\* The virtual-user process dies and is respawned with a new channel; the master's event
\* is not registered again.  Whether it still works depends on the method libevent uses and
\* on the number of the new descriptor.
VirtualRespawn ==
  /\ faults < MaxFault /\ faults' = faults + 1
  /\ toV' = <<>> /\ toM' = <<>>
  /\ listening' \in BOOLEAN
  /\ UNCHANGED <<open, id, out, sent, waiting, table, conns>>

Next ==
  /\ \/ \E c \in Conn : Accept(c) \/ ReadShort(c) \/ ReadCommand(c) \/ ReadNull(c)
                        \/ Flush(c) \/ Disconnect(c)
     \/ Serve \/ ServeFails \/ ReadResult \/ VirtualRespawn
  /\ UNCHANGED front

Spec == Init /\ [][Next]_vars

\* Both processes read what has arrived, and answers leave the master: the front end reads
\* them or closes the connection.
Fairness ==
  /\ WF_vars(Serve /\ UNCHANGED front) /\ WF_vars(ReadResult /\ UNCHANGED front)
  /\ \A c \in Conn : WF_vars(Flush(c) /\ UNCHANGED front)

FairSpec == Spec /\ Fairness
-----------------------------------------------------------------------------
(***************************************************************************)
(* Properties.                                                             *)
(***************************************************************************)

\* No two entries have the same id, and each is in the chain a search for its id looks at.
OneEntryPerId ==
  \A b \in Bucket : \A i, j \in DOMAIN table.chain[b] :
    /\ id[table.chain[b][i]] % Size = b
    /\ i # j => id[table.chain[b][i]] # id[table.chain[b][j]]

\* No released connection is in the table, although a release deletes by id and not by
\* object (ntg_remote_write_cb, ntg_remote_event_cb: "delete the connection object from the
\* hash table"), and a result can be meant for one entry only.
NoDangling == TypeOK /\ Objects(table) \subseteq open /\ OneEntryPerId

\* The nodes in the chains, a bucket and a position each, and those in the pool.
Places(t) == UNION {{b} \X DOMAIN t.chain[b] : b \in Bucket}
Nodes(t)  == Cardinality(Places(t)) + t.free

\* The chain of b loses its head and all that is behind it.
Severed(b) == Len(table.chain[b]) > 1 /\ table'.chain[b] = <<>>

\* Whatever ids the connections share and whatever is refused, answered, evicted and closed in
\* whatever order, a node leaves the table and its pool in one way only: a release deletes the
\* head of a chain with others behind it (ntg_hash_delete_node sets the bucket to NULL), and
\* then exactly those behind it are lost.
NodesConserved ==
  /\ Nodes(table) = NodeN
  /\ [][\/ Nodes(table') = Nodes(table)
        \/ \E b \in Bucket : Severed(b) /\ Nodes(table') = Nodes(table) - (Len(table.chain[b]) - 1)]_vars

\* A connection whose command was passed on is answered or closed, unless it is evicted from
\* the table meanwhile (a connection before it in its chain is released) or the virtual-user
\* process dies or fails to write: ids shared with other connections, late results for them
\* and a full channel do not keep the answer from it (ntg_remote_result_handler).
CommandAnswered ==
  \A c \in Conn :
    ("null" \notin front.kinds /\ faults = 0 /\ c \in waiting /\ c \in Objects(table))
      ~> (c \notin waiting \/ c \notin Objects(table) \/ faults > 0)
=============================================================================
