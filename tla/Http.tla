-------------------------------- MODULE Http --------------------------------
(***************************************************************************)
(* The life of the request objects of a traffic process (http/ntg_http.c   *)
(* and http/ntg_http_request.c): a request fetches a list of urls one      *)
(* after another over one connection at a time, keeps the connection for   *)
(* the next url of the same host if the server does, and goes back to the  *)
(* pool at the end.  How a response is read is HttpResponse; here it comes *)
(* in any number of parts (`Again') and has the outcomes of that module.   *)
(*                                                                         *)
(* One event loop serves all requests, every callback runs to completion;  *)
(* the loop over the next urls in ntg_http_final_process is taken in steps *)
(* (`loop'), during which nothing else runs.  The kernel hands out the     *)
(* lowest free descriptor.  The events of a request are made for a         *)
(* descriptor number; libevent accepts an event if that number is open,    *)
(* whoever's connection it is, and fires its timeout in any case.          *)
(*                                                                         *)
(* A url is the name of a host and a port.  The names are compared, the    *)
(* ports are not.                                                          *)
(***************************************************************************)
EXTENDS Integers, FiniteSets, FiniteSetsExt

CONSTANTS
  NReq,       \* request objects (cycle->request_n)
  Hosts,      \* the names of hosts
  Ports,      \* the ports
  Urls,       \* the list of urls: pairs of a name and a port (80 if the url has none)
  Shorter,    \* pairs <<h, g>>: the name h is a prefix of the name g
  Counts,     \* how many urls each request may have (ntg_math2_get_lnline_num() + 1)
  MaxUrl,     \* bound: urls of one request
  MaxStart,   \* bound: requests started
  Faults      \* what may fail: "url", "dns", "build", "socket", "connect"

Req    == 1 .. NReq
Fd     == 1 .. NReq
None   == 0

ASSUME HttpAssumption ==
  /\ NReq \in Nat \ {0} /\ MaxUrl \in Nat /\ Counts \in [Req -> SUBSET (1 .. MaxUrl)]
  /\ MaxStart \in Nat
  /\ None \notin Hosts /\ Shorter \subseteq Hosts \X Hosts /\ Urls \subseteq Hosts \X Ports

VARIABLES
  live,      \* requests that are not in the pool
  index, urlN,
  url,       \* the url being fetched
  host,      \* rq->hostname
  addr,      \* rq->addr: the host whose address it holds, and the port
  sock,      \* rq->sock, None for -1
  evfd,      \* the descriptor number of ev_write and ev_read
  ev,        \* the event that is pending: "none", "write", "read"
  due,       \* requests whose pending event has all but used up its timeout
  keep,      \* rq->keepalive
  link,      \* per descriptor: the connection behind it
  loop,      \* the request whose next-url loop runs
  skipped,   \* requests that gave up a url after its host had been stored
  started

vars == <<live, index, urlN, url, host, addr, sock, evfd, ev, due, keep, link, loop, skipped, started>>

\* wire: how many requests were sent whose responses have not been taken from the connection.
Nowhere == <<None, None>>
Shut    == [st |-> "shut", peer |-> Nowhere, wire |-> 0]
Raw     == [st |-> "raw", peer |-> Nowhere, wire |-> 0]
Dial(a) == [st |-> "connecting", peer |-> a, wire |-> 0]

Address == (Hosts \cup {None}) \X (Ports \cup {None})

TypeOK ==
  /\ live \subseteq Req /\ index \in [Req -> 0 .. MaxUrl] /\ urlN \in [Req -> 0 .. MaxUrl]
  /\ \A r \in Req : index[r] <= urlN[r]
  /\ url \in [Req -> Address] /\ host \in [Req -> Hosts \cup {None}] /\ addr \in [Req -> Address]
  /\ sock \in [Req -> Fd \cup {None}] /\ evfd \in [Req -> Fd \cup {None}]
  /\ ev \in [Req -> {"none", "write", "read"}] /\ due \subseteq Req /\ keep \in [Req -> BOOLEAN]
  /\ link \in [Fd -> [st : {"shut", "raw", "connecting", "up", "eof", "err"},
                     peer : Address, wire : Nat]]
  /\ loop \in Req \cup {None} /\ skipped \subseteq Req /\ started \in 0 .. MaxStart

Init ==
  /\ live = {} /\ index = [r \in Req |-> 0] /\ urlN = [r \in Req |-> 0]
  /\ url = [r \in Req |-> Nowhere] /\ host = [r \in Req |-> None] /\ addr = [r \in Req |-> Nowhere]
  /\ sock = [r \in Req |-> None] /\ evfd = [r \in Req |-> None] /\ ev = [r \in Req |-> "none"]
  /\ due = {}
  /\ keep = [r \in Req |-> FALSE] /\ link = [f \in Fd |-> Shut] /\ loop = None
  /\ skipped = {} /\ started = 0
-----------------------------------------------------------------------------
OpenFd(f) == f # None /\ link[f].st # "shut"
Idle      == loop = None

\* event_free of both events.
FreeEvents(r) == [ev EXCEPT ![r] = "none"]

\* ntg_http_free_request: connection, events and pool go, the object is in the pool again.
\* ntg_http_get_request clears its fields, which nothing reads before that.
FreeRequest(r) ==
  /\ index' = [index EXCEPT ![r] = 0] /\ urlN' = [urlN EXCEPT ![r] = 0] /\ url' = [url EXCEPT ![r] = Nowhere]
  /\ host' = [host EXCEPT ![r] = None] /\ addr' = [addr EXCEPT ![r] = Nowhere]
  /\ keep' = [keep EXCEPT ![r] = FALSE] /\ skipped' = skipped \ {r}
  /\ live' = live \ {r} /\ loop' = None
  /\ link' = IF sock[r] # None THEN [link EXCEPT ![sock[r]] = Shut] ELSE link
  /\ sock' = [sock EXCEPT ![r] = None] /\ evfd' = [evfd EXCEPT ![r] = None]
  /\ ev' = FreeEvents(r) /\ due' = due \ {r}

\* ntg_http_start up to the first url.
Start(r) ==
  /\ Idle /\ r \notin live /\ started < MaxStart
  /\ started' = started + 1 /\ live' = live \cup {r} /\ loop' = r
  /\ \E n \in Counts[r] : urlN' = [urlN EXCEPT ![r] = n]
  /\ UNCHANGED <<index, url, host, addr, sock, evfd, ev, due, keep, link, skipped>>

\* No request object, no memory, no urls: the message is dropped.
StartFails ==
  /\ Idle /\ started < MaxStart /\ started' = started + 1
  /\ UNCHANGED <<live, index, urlN, url, host, addr, sock, evfd, ev, due, keep, link, loop, skipped>>
-----------------------------------------------------------------------------
\* Mutant: a url that cannot be used starts the list again.
CountUrlAgain(r, ok) == IF ok THEN index[r] + 1 ELSE 1

\* rq->index++ comes before everything that may fail.
CountUrl(r, ok) == index[r] + 1

NoMoreUrls(r) == index[r] >= urlN[r]

\* ntg_http_get_next_url has no further url.
UrlsDone(r) == loop = r /\ NoMoreUrls(r) /\ FreeRequest(r) /\ UNCHANGED started

\* strncmp(rq->hostname, host, strlen(host)) = 0: the name alone, or the beginning of it.
Alike(h, g)     == g = h \/ <<h, g>> \in Shorter
Identical(r, u) == Alike(u[1], host[r])

\* The first url ends the request with ntg_http_start.
FirstFails(r) == loop = r /\ index[r] = 0 /\ Faults # {} /\ FreeRequest(r) /\ UNCHANGED started

\* A later url is skipped: the loop goes on with the next one.
Later(r) == loop = r /\ index[r] > 0 /\ ~NoMoreUrls(r)

\* The url cannot be parsed, or has no host or one that is too long.
BadUrl(r) ==
  /\ "url" \in Faults /\ Later(r)
  /\ index' = [index EXCEPT ![r] = CountUrl(r, FALSE)]
  /\ UNCHANGED <<live, urlN, url, host, addr, sock, evfd, ev, due, keep, link, loop, skipped, started>>

\* The name and the port are stored before the name is resolved.
NoAddress(r, u) ==
  /\ "dns" \in Faults /\ Later(r) /\ ~Identical(r, u)
  /\ index' = [index EXCEPT ![r] = CountUrl(r, FALSE)] /\ host' = [host EXCEPT ![r] = u[1]]
  /\ addr' = [addr EXCEPT ![r] = <<@[1], u[2]>>]
  /\ skipped' = skipped \cup {r}
  /\ UNCHANGED <<live, urlN, url, sock, evfd, ev, due, keep, link, loop, started>>

\* The url is taken: name, address and port are those of the last url whose name differed.
TakeUrl(r, u) ==
  /\ loop = r /\ ~NoMoreUrls(r)
  /\ index' = [index EXCEPT ![r] = CountUrl(r, TRUE)] /\ url' = [url EXCEPT ![r] = u]
  /\ host' = IF Identical(r, u) THEN host ELSE [host EXCEPT ![r] = u[1]]
  /\ addr' = IF Identical(r, u) THEN addr ELSE [addr EXCEPT ![r] = u]

\* ntg_http_build_request: the request does not fit its buffer, or the clock fails.
BuildFails(r, u) ==
  /\ "build" \in Faults /\ Later(r) /\ TakeUrl(r, u)
  /\ skipped' = skipped \cup {r}
  /\ UNCHANGED <<live, urlN, sock, evfd, ev, due, keep, link, loop, started>>
-----------------------------------------------------------------------------
\* ntg_http_test_connect: SO_ERROR reports a pending error.
TestConnect(r) == sock[r] # None /\ link[sock[r]].st # "err"

\* Mutant: the host is not compared.
ReusesAnyHost(r, u) == keep[r] /\ TestConnect(r)

Reuses(r, u) == Identical(r, u) /\ keep[r] /\ TestConnect(r)

\* event_add(rq->ev_write); its result is not looked at.
AddWrite(r, fd, ls) == [ev EXCEPT ![r] = IF fd # None /\ ls[fd].st # "shut" THEN "write" ELSE "none"]

\* ntg_http_connect_init on the old connection.
Reuse(r, u) ==
  /\ Reuses(r, u) /\ TakeUrl(r, u)
  /\ ev' = AddWrite(r, evfd[r], link) /\ due' = due \ {r} /\ loop' = None
  /\ UNCHANGED <<live, urlN, sock, evfd, keep, link, skipped, started>>

Closed(r) == IF sock[r] # None THEN [link EXCEPT ![sock[r]] = Shut] ELSE link

\* The descriptor socket() returns.
NewFd(ls) == Min({f \in Fd : ls[f].st = "shut"})

\* ntg_http_connect_init with a new connection, whose events replace the old ones.
Connect(r, u) ==
  /\ ~Reuses(r, u) /\ TakeUrl(r, u)
  /\ LET f == NewFd(Closed(r))
     IN /\ link' = [Closed(r) EXCEPT ![f] = Dial(addr'[r])]
        /\ sock' = [sock EXCEPT ![r] = f] /\ evfd' = [evfd EXCEPT ![r] = f]
        /\ ev' = AddWrite(r, f, link')
  /\ due' = due \ {r} /\ loop' = None
  /\ UNCHANGED <<live, urlN, keep, skipped, started>>

\* Mutant: rq->sock keeps the closed descriptor.
SockAfterFailureKept(r) == sock[r]

SockAfterFailure(r) == None

\* socket() fails: the old connection is closed, the events stay with its number.
SocketFails(r, u) ==
  /\ "socket" \in Faults /\ Later(r) /\ ~Reuses(r, u) /\ TakeUrl(r, u)
  /\ link' = Closed(r)
  /\ sock' = [sock EXCEPT ![r] = SockAfterFailure(r)]
  /\ UNCHANGED <<live, urlN, evfd, ev, due, keep, loop, skipped, started>>

\* connect() fails at once: the new socket stays, the events are those of the old one.
ConnectFails(r, u) ==
  /\ "connect" \in Faults /\ Later(r) /\ ~Reuses(r, u) /\ TakeUrl(r, u)
  /\ LET f == NewFd(Closed(r))
     IN /\ link' = [Closed(r) EXCEPT ![f] = Raw] /\ sock' = [sock EXCEPT ![r] = f]
  /\ UNCHANGED <<live, urlN, evfd, ev, due, keep, loop, skipped, started>>

\* One round of the loop in ntg_http_final_process, or the first url.
NextUrl(r) ==
  \/ UrlsDone(r) \/ FirstFails(r) \/ BadUrl(r)
  \/ \E u \in Urls : \/ NoAddress(r, u) \/ BuildFails(r, u) \/ Reuse(r, u)
                     \/ Connect(r, u) \/ SocketFails(r, u) \/ ConnectFails(r, u)
-----------------------------------------------------------------------------
\* ntg_http_final_process with NTG_REQ_STATE_NEXT.
ToNext(r) ==
  /\ loop' = r /\ ev' = [ev EXCEPT ![r] = "none"] /\ due' = due \ {r}
  /\ UNCHANGED <<live, index, urlN, url, host, addr, sock, evfd, skipped, started>>

\* An error: done if this was the first url ...
Ends(r) == index[r] = 1 /\ FreeRequest(r) /\ UNCHANGED started

\* ... and the next url otherwise, with keepalive as it is or as the header said.
GoesOn(r, keeps) ==
  /\ index[r] # 1 /\ ToNext(r) /\ UNCHANGED link
  /\ \E k \in keeps : keep' = [keep EXCEPT ![r] = k]

HasTimer(r) == ev[r] # "none"

\* Time passes.
Tick(r) ==
  /\ Idle /\ HasTimer(r) /\ r \notin due /\ due' = due \cup {r}
  /\ UNCHANGED <<live, index, urlN, url, host, addr, sock, evfd, ev, keep, link, loop, skipped, started>>

\* The timeout of the pending event.
Timeout(r) ==
  /\ Idle /\ HasTimer(r) /\ r \in due
  /\ \/ Ends(r)
     \/ GoesOn(r, IF ev[r] = "read" THEN BOOLEAN ELSE {keep[r]})

Writable(r) == Idle /\ ev[r] = "write" /\ OpenFd(evfd[r]) /\ link[evfd[r]].st # "connecting"

\* ntg_http_write_cb: the request goes out, and the response is waited for.
Send(r) ==
  /\ Writable(r) /\ sock[r] # None /\ link[sock[r]].st \in {"up", "eof"}
  /\ link' = [link EXCEPT ![sock[r]].wire = IF link[sock[r]].st = "up" THEN @ + 1 ELSE @]
  /\ ev' = [ev EXCEPT ![r] = "read"] /\ due' = due \ {r}
  /\ UNCHANGED <<live, index, urlN, url, host, addr, sock, evfd, keep, loop, skipped, started>>

\* ntg_http_write_cb: send fails.
SendFails(r) ==
  /\ Writable(r) /\ (sock[r] = None \/ link[sock[r]].st \in {"raw", "err", "eof"})
  /\ Ends(r) \/ GoesOn(r, {keep[r]})

Readable(r) == Idle /\ ev[r] = "read" /\ sock[r] # None

HasResponse(r) == Readable(r) /\ link[sock[r]].st = "up" /\ link[sock[r]].wire > 0

\* Mutant: the event, which is gone once it fired, is not added again.
NotAddedAgain(r) == ev' = [ev EXCEPT ![r] = "none"] /\ due' = due \ {r}

\* event_add(rq->ev_read, &rq->timeout), event_add(rq->ev_write, &rq->timeout): the timeout
\* starts again from now.
Restart(r) == ev' = ev /\ due' = due \ {r}

\* NTG_AGAIN: a part of the request went out, or a part of the response came in.
Again(r) ==
  /\ \/ Writable(r) /\ sock[r] # None /\ link[sock[r]].st = "up"
     \/ HasResponse(r)
  /\ Restart(r)
  /\ UNCHANGED <<live, index, urlN, url, host, addr, sock, evfd, keep, link, loop, skipped, started>>

\* A complete response with a body: always the next url.
Response(r) ==
  /\ HasResponse(r) /\ ToNext(r)
  /\ link' = [link EXCEPT ![sock[r]].wire = @ - 1]
  /\ \E k \in BOOLEAN : keep' = [keep EXCEPT ![r] = k]

\* A complete response without a body ends like an error.
EmptyResponse(r) ==
  /\ HasResponse(r)
  /\ \/ Ends(r)
     \/ /\ index[r] # 1 /\ ToNext(r)
        /\ link' = [link EXCEPT ![sock[r]].wire = @ - 1]
        /\ \E k \in BOOLEAN : keep' = [keep EXCEPT ![r] = k]

\* A response that is not understood, too large, or without a length: what is left of it
\* stays in the connection.
BrokenResponse(r) ==
  /\ HasResponse(r) /\ (Ends(r) \/ GoesOn(r, BOOLEAN))

\* recv returns 0 or an error, in a header or in a body.
Closes(r) ==
  /\ Readable(r) /\ link[sock[r]].st \in {"eof", "err", "raw"}
  /\ \/ Ends(r)
     \/ GoesOn(r, {keep[r]})
     \/ /\ link[sock[r]].st # "raw" /\ link[sock[r]].wire > 0
        /\ ToNext(r) /\ UNCHANGED link
        /\ \E k \in BOOLEAN : keep' = [keep EXCEPT ![r] = k]

\* The server: a connection is accepted or refused; it is closed or reset.
Server(f) ==
  /\ Idle
  /\ \/ link[f].st = "connecting" /\ \E s \in {"up", "err"} : link' = [link EXCEPT ![f].st = s]
     \/ link[f].st = "up" /\ \E s \in {"eof", "err"} : link' = [link EXCEPT ![f].st = s]
  /\ UNCHANGED <<live, index, urlN, url, host, addr, sock, evfd, ev, due, keep, loop, skipped, started>>

Callback(r) ==
  \/ Timeout(r) \/ Send(r) \/ SendFails(r) \/ Again(r)
  \/ Response(r) \/ EmptyResponse(r) \/ BrokenResponse(r) \/ Closes(r)

Next ==
  \/ StartFails
  \/ \E r \in Req : Start(r) \/ NextUrl(r) \/ Tick(r) \/ Callback(r)
  \/ \E f \in Fd : Server(f)

Spec == Init /\ [][Next]_vars

\* A callback that runs goes on, time passes, and libevent fires the timeout of a pending
\* event that is not added again first.  Nothing is assumed of the servers: they may never
\* answer, and a part of an answer now and then keeps the timeout from firing for ever.
FairSpec == Spec /\ \A r \in Req : WF_vars(NextUrl(r)) /\ WF_vars(Tick(r)) /\ WF_vars(Timeout(r))
-----------------------------------------------------------------------------
\* A descriptor belongs to one request at most, every open one to a live request, and no
\* request refers to one that is closed: no connection is closed twice or for another
\* request, and none is lost (rq->sock in ntg_http_connect_init, ntg_http_free_request).  No
\* event is pending for a request in the pool: a callback never gets a freed object.
FdOwned ==
  /\ TypeOK
  /\ \A f \in Fd : link[f].st # "shut" => Cardinality({r \in Req : sock[r] = f}) = 1
  /\ \A r \in Req : sock[r] # None => OpenFd(sock[r]) /\ r \in live
  /\ \A r \in Req : ev[r] # "none" => r \in live

\* A request waits for an answer at the address it stored last, which is that of a url of
\* the list with the name of its url or with a longer name that begins so
\* (ntg_http_get_next_url, ntg_http_connect_init).  It may be another port than that of its
\* url: the port is read with a name that differs only.  A request that gave up a url after
\* its host had been stored is excepted: the next url of that host goes to the connection of
\* the host before.
RightServer ==
  \A r \in Req \ skipped :
    ev[r] = "read" /\ link[sock[r]].st = "up"
      => LET peer == link[sock[r]].peer
         IN peer = addr[r] /\ peer \in Urls /\ Alike(url[r][1], peer[1])

\* The loop over the next urls ends, whatever fails.
LoopEnds == \A r \in Req : loop = r ~> loop # r

\* The events of a request belong to a connection that is gone, and none is pending: the
\* ignored result of event_add in ntg_http_connect_init.
Stranded(r) == ev[r] = "none" /\ evfd[r] # sock[r]

\* A request that started ends or is stranded, whatever its servers do, unless a part of a
\* request or of a response moves again and again for ever: each one starts the timeout anew
\* (event_add in ntg_http_handler_header and in ntg_http_discarded_request_body_handler).
RequestEnds ==
  \A r \in Req : <>[][~Again(r)]_vars => (r \in live ~> r \notin live \/ Stranded(r))
=============================================================================
