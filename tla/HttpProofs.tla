----------------------------- MODULE HttpProofs -----------------------------
(***************************************************************************)
(* Theorems about Http for every number of requests, hosts, urls and       *)
(* starts, whatever calls may fail.  IndInv joins the type invariant, the  *)
(* two directions of the ownership of descriptors, what is known of a      *)
(* request in the pool, in the loop and with a pending event, and which    *)
(* server the connection of a request leads to.                            *)
(***************************************************************************)
EXTENDS Http, NatLemmas

\* Two requests never have the same descriptor.
OneOwner == \A r, q \in Req : sock[r] # None /\ sock[r] = sock[q] => r = q

\* An open descriptor is that of a request, and a request's descriptor is open.
Owned    == \A f \in Fd : link[f].st # "shut" => \E r \in Req : sock[r] = f
OpenSock == \A r \in Req : sock[r] # None => link[sock[r]].st # "shut" /\ r \in live

\* A request object in the pool has been cleared.
Pooled == \A r \in Req : r \notin live => index[r] = 0 /\ ev[r] = "none"

\* The request whose loop over the urls runs waits for nothing.
InLoop == loop # None => loop \in live /\ ev[loop] = "none"

\* A pending event: a url has been taken, and what is read from is there.
Pending == \A r \in Req : /\ ev[r] # "none" => index[r] >= 1 /\ url[r] \in Urls
                          /\ ev[r] = "read" => sock[r] # None

\* The name stored for a request is that of its address, which is that of a url of the list;
\* the url has that name or the beginning of it; and the connection, unless connect() failed,
\* leads to the address.
Follows(r) ==
  /\ host[r] = addr[r][1] /\ (addr[r] = Nowhere \/ addr[r] \in Urls)
  /\ Alike(url[r][1], host[r])
  /\ sock[r] # None /\ link[sock[r]].st # "raw" => link[sock[r]].peer = addr[r]

Served == \A r \in Req : r \notin skipped => Follows(r)

IndInv == /\ TypeOK /\ OneOwner /\ Owned /\ OpenSock
          /\ Pooled /\ InLoop /\ Pending /\ Served
-----------------------------------------------------------------------------
(***************************************************************************)
(* The helpers.                                                            *)
(***************************************************************************)
LinkType == [st : {"shut", "raw", "connecting", "up", "eof", "err"},
             peer : Address, wire : Nat]

\* 0 is neither a descriptor nor a request nor a host.
LEMMA NoneApart == None \notin Fd /\ None \notin Req /\ None \notin Hosts
  BY HttpAssumption DEF HttpAssumption, None, Fd, Req

\* A url has the type of an address and the name of a host.
LEMMA UrlValues ==
  /\ Nowhere \in Address /\ Urls \subseteq Address
  /\ \A u \in Urls : u[1] \in Hosts /\ u[2] \in Ports /\ u # Nowhere
<1>1. \A u \in Urls : u \in Hosts \X Ports
  BY HttpAssumption DEF HttpAssumption
<1> QED BY <1>1, NoneApart DEF Nowhere, Address

\* A connection that is made, or is gone, has its type.
LEMMA LinkValues ==
  /\ Shut \in LinkType /\ Raw \in LinkType
  /\ \A a \in Address : Dial(a) \in LinkType
  BY UrlValues DEF Shut, Raw, Dial, LinkType

\* close(rq->sock): its descriptor is free, every other one is what it was.
LEMMA ClosedLinks ==
  ASSUME IndInv, NEW r \in Req
  PROVE  /\ Closed(r) \in [Fd -> LinkType]
         /\ \A f \in Fd : f # sock[r] => Closed(r)[f] = link[f]
         /\ sock[r] # None => Closed(r)[sock[r]] = Shut
<1>1. link \in [Fd -> LinkType] /\ sock[r] \in Fd \cup {None}
  BY DEF IndInv, TypeOK, LinkType
<1> QED BY <1>1, NoneApart, LinkValues DEF Closed

\* socket() always finds a descriptor once the request has closed its own: there are as many
\* as requests, and none has two.
LEMMA NewFdFree ==
  ASSUME IndInv, NEW r \in Req
  PROVE  NewFd(Closed(r)) \in Fd /\ Closed(r)[NewFd(Closed(r))].st = "shut"
<1> DEFINE S == {f \in Fd : Closed(r)[f].st = "shut"}
           g == [sock EXCEPT ![r] = None]
<1>1. NReq \in Nat /\ Req = 1 .. NReq /\ Fd = 1 .. NReq
  BY HttpAssumption DEF HttpAssumption, Req, Fd
<1>2. sock \in [Req -> Fd \cup {None}]
  BY DEF IndInv, TypeOK
<1>3. \E f \in Fd : \A q \in Req : g[q] # f
  <2>1. \A q \in Req : g[q] \in Fd => q # r
    BY <1>2, NoneApart
  <2> HIDE DEF g
  <2> QED BY <1>1, <2>1, OneLeft
<1>4. PICK f \in Fd : \A q \in Req : g[q] # f
  BY <1>3
<1>5. f \in S
  <2>1. \A q \in Req : q # r => sock[q] # f
    BY <1>2, <1>4
  <2>2. CASE f = sock[r]
    BY <1>4, <2>2, ClosedLinks, NoneApart DEF Shut
  <2>3. CASE f # sock[r]
    BY <1>4, <2>1, <2>3, ClosedLinks DEF IndInv, Owned
  <2> QED BY <2>2, <2>3
<1>6. S \subseteq Nat /\ S # {}
  BY <1>1, <1>5
<1>7. Min(S) \in S
  <2> HIDE DEF S
  <2> QED BY <1>6, MinNat
<1> QED BY <1>7 DEF NewFd
-----------------------------------------------------------------------------
(***************************************************************************)
(* The parts of actions.                                                   *)
(***************************************************************************)

\* ntg_http_free_request, of a live request.
LEMMA FreeKeeps ==
  ASSUME IndInv, NEW r \in Req, FreeRequest(r), started' = started
  PROVE  IndInv'
<1>0. /\ TypeOK /\ sock[r] \in Fd \cup {None} /\ link \in [Fd -> LinkType]
      /\ link' = Closed(r)
  BY DEF IndInv, TypeOK, LinkType, FreeRequest, Closed
<1>1. TypeOK'
  <2>1. /\ live' \subseteq Req /\ index' \in [Req -> 0 .. MaxUrl] /\ urlN' \in [Req -> 0 .. MaxUrl]
        /\ \A q \in Req : index'[q] <= urlN'[q]
    BY <1>0, HttpAssumption DEF TypeOK, FreeRequest, HttpAssumption
  <2>2. /\ url' \in [Req -> Address] /\ host' \in [Req -> Hosts \cup {None}]
        /\ addr' \in [Req -> Address]
        /\ sock' \in [Req -> Fd \cup {None}] /\ evfd' \in [Req -> Fd \cup {None}]
        /\ ev' \in [Req -> {"none", "write", "read"}] /\ keep' \in [Req -> BOOLEAN] /\ due' \subseteq Req
        /\ loop' \in Req \cup {None} /\ skipped' \subseteq Req /\ started' \in 0 .. MaxStart
    BY <1>0, UrlValues DEF TypeOK, FreeRequest, FreeEvents
  <2>3. link' \in [Fd -> LinkType]
    BY <1>0, ClosedLinks
  <2> QED BY <2>1, <2>2, <2>3 DEF TypeOK, LinkType
<1>2. \A q \in Req : /\ q = r => sock'[q] = None
                     /\ q # r => sock'[q] = sock[q]
  BY <1>0 DEF TypeOK, FreeRequest
<1>3. OneOwner'
  BY <1>2 DEF IndInv, OneOwner
<1>4. Owned'
  <2> SUFFICES ASSUME NEW f \in Fd, link'[f].st # "shut" PROVE \E q \in Req : sock'[q] = f
    BY DEF Owned
  <2>1. f # sock[r] /\ link[f].st # "shut"
    BY <1>0, ClosedLinks, NoneApart DEF Shut
  <2> QED BY <1>2, <2>1 DEF IndInv, Owned
<1>5. OpenSock'
  <2> SUFFICES ASSUME NEW q \in Req, sock'[q] # None
               PROVE  link'[sock'[q]].st # "shut" /\ q \in live'
    BY DEF OpenSock
  <2>1. q # r /\ sock'[q] = sock[q]
    BY <1>2
  <2>2. sock[q] # sock[r] /\ sock[q] \in Fd
    BY <2>1 DEF IndInv, OneOwner, TypeOK
  <2> QED BY <1>0, <2>1, <2>2, ClosedLinks DEF IndInv, OpenSock, FreeRequest
<1>6. Pooled' /\ InLoop' /\ Pending'
  BY <1>0, <1>2 DEF IndInv, TypeOK, Pooled, InLoop, Pending, FreeRequest, FreeEvents
<1>7. Served'
  <2> SUFFICES ASSUME NEW q \in Req, q \notin skipped' PROVE Follows(q)'
    BY DEF Served
  <2>1. CASE q = r
    BY <1>0, <1>2, <2>1 DEF TypeOK, FreeRequest, Follows, Alike, Nowhere
  <2>2. CASE q # r
    <3>1. Follows(q)
      BY <2>2 DEF IndInv, Served, FreeRequest
    <3>2. url'[q] = url[q] /\ host'[q] = host[q] /\ addr'[q] = addr[q]
      BY <1>0, <2>2 DEF TypeOK, FreeRequest
    <3>3. sock[q] # None => link'[sock[q]] = link[sock[q]]
      BY <1>0, <2>2, ClosedLinks DEF IndInv, OneOwner, TypeOK
    <3> QED BY <1>2, <2>2, <3>1, <3>2, <3>3 DEF Follows
  <2> QED BY <2>1, <2>2
<1> QED BY <1>1, <1>3, <1>4, <1>5, <1>6, <1>7 DEF IndInv

\* The connections stay as they are, but for answers taken from them and for what the
\* servers do: none is opened or closed, none leads elsewhere.
SameLinks ==
  /\ link' \in [Fd -> LinkType]
  /\ \A f \in Fd : /\ link'[f].st = "shut" <=> link[f].st = "shut"
                   /\ link'[f].st = "raw" <=> link[f].st = "raw"
                   /\ link'[f].peer = link[f].peer

\* A step that keeps the connections and whose they are keeps the ownership.
LEMMA SameOwners ==
  ASSUME IndInv, SameLinks, sock' = sock, live \subseteq live'
  PROVE  OneOwner' /\ Owned' /\ OpenSock'
<1>1. sock \in [Req -> Fd \cup {None}]
  BY DEF IndInv, TypeOK
<1>2. OneOwner' /\ Owned'
  BY DEF IndInv, OneOwner, Owned, SameLinks
<1>3. OpenSock'
  BY <1>1 DEF IndInv, OpenSock, SameLinks
<1> QED BY <1>2, <1>3

\* ... and a request that keeps its url, name and address follows them still.
LEMMA SameFollows ==
  ASSUME IndInv, SameLinks, sock' = sock, NEW q \in Req, Follows(q),
         url'[q] = url[q], host'[q] = host[q], addr'[q] = addr[q]
  PROVE  Follows(q)'
<1>1. sock[q] \in Fd \cup {None}
  BY DEF IndInv, TypeOK
<1> QED BY <1>1 DEF Follows, SameLinks

\* Nothing happens to the connections.
LEMMA LinksUnchanged == ASSUME IndInv, link' = link PROVE SameLinks
  BY DEF IndInv, TypeOK, LinkType, SameLinks

\* What ntg_http_get_next_url makes of the fields of the request.
LEMMA TakeUrlEffect ==
  ASSUME IndInv, NEW r \in Req, NEW u \in Urls, TakeUrl(r, u), urlN' = urlN
  PROVE  /\ index' \in [Req -> 0 .. MaxUrl] /\ index'[r] >= 1
         /\ \A q \in Req : index'[q] <= urlN'[q]
         /\ url' \in [Req -> Address] /\ host' \in [Req -> Hosts \cup {None}]
         /\ addr' \in [Req -> Address]
         /\ \A q \in Req : q # r => /\ index'[q] = index[q] /\ url'[q] = url[q]
                                    /\ host'[q] = host[q] /\ addr'[q] = addr[q]
         /\ r \notin skipped => /\ host'[r] = addr'[r][1] /\ addr'[r] \in Urls
                                /\ Alike(url'[r][1], host'[r])
         /\ url'[r] \in Urls
         /\ Identical(r, u) => addr' = addr
         /\ r \in live
<1>0. TypeOK /\ Served /\ InLoop
  BY DEF IndInv
<1>1. /\ index' = [index EXCEPT ![r] = index[r] + 1] /\ ~(index[r] >= urlN[r])
      /\ url' = [url EXCEPT ![r] = u] /\ loop = r
  BY DEF TakeUrl, NoMoreUrls, CountUrl
<1>2. /\ index' \in [Req -> 0 .. MaxUrl] /\ index'[r] >= 1
      /\ \A q \in Req : index'[q] <= urlN'[q]
      /\ \A q \in Req : q # r => index'[q] = index[q]
  BY <1>0, <1>1, HttpAssumption DEF TypeOK, HttpAssumption
<1>3. CASE Identical(r, u)
  <2>1. host' = host /\ addr' = addr
    BY <1>3 DEF TakeUrl
  <2>2. Alike(u[1], host[r]) /\ host[r] # None
    BY <1>3, NoneApart, UrlValues, HttpAssumption DEF Identical, Alike, HttpAssumption
  <2>3. url'[r] = u /\ url' \in [Req -> Address] /\ host' \in [Req -> Hosts \cup {None}]
        /\ addr' \in [Req -> Address] /\ r \in live
        /\ \A q \in Req : q # r => url'[q] = url[q]
    BY <1>0, <1>1, <2>1, NoneApart, UrlValues DEF TypeOK, InLoop
  <2>4. r \notin skipped => host[r] = addr[r][1] /\ addr[r] \in Urls
    BY <1>0, <2>2 DEF Served, Follows, Nowhere
  <2> QED BY <1>2, <2>1, <2>2, <2>3, <2>4
<1>4. CASE ~Identical(r, u)
  <2>1. host' = [host EXCEPT ![r] = u[1]] /\ addr' = [addr EXCEPT ![r] = u]
    BY <1>4 DEF TakeUrl
  <2>2. /\ url' \in [Req -> Address] /\ host' \in [Req -> Hosts \cup {None}]
        /\ addr' \in [Req -> Address] /\ r \in live
        /\ url'[r] = u /\ host'[r] = u[1] /\ addr'[r] = u
        /\ \A q \in Req : q # r => /\ url'[q] = url[q] /\ host'[q] = host[q] /\ addr'[q] = addr[q]
    BY <1>0, <1>1, <2>1, NoneApart, UrlValues DEF TypeOK, InLoop
  <2> QED BY <1>2, <1>4, <2>2 DEF Alike
<1> QED BY <1>3, <1>4

\* ntg_http_final_process with NTG_REQ_STATE_NEXT, of a request with a pending event.
LEMMA ToNextKeeps ==
  ASSUME IndInv, NEW r \in Req, ev[r] # "none", ToNext(r), SameLinks,
         NEW k \in BOOLEAN, keep' = [keep EXCEPT ![r] = k]
  PROVE  IndInv'
<1>0. TypeOK /\ Pooled /\ Pending /\ Served
  BY DEF IndInv
<1>1. TypeOK'
  BY <1>0 DEF TypeOK, ToNext, SameLinks, LinkType
<1>2. OneOwner' /\ Owned' /\ OpenSock'
  BY SameOwners DEF ToNext
<1>3. Pooled' /\ InLoop' /\ Pending'
  BY <1>0 DEF TypeOK, ToNext, Pooled, InLoop, Pending
<1>4. Served'
  BY <1>0, SameFollows DEF ToNext, Served
<1> QED BY <1>1, <1>2, <1>3, <1>4 DEF IndInv

\* An answer is taken from the connection.
LEMMA AnswerTaken ==
  ASSUME IndInv, NEW r \in Req, sock[r] # None, link[sock[r]].wire > 0,
         link' = [link EXCEPT ![sock[r]].wire = @ - 1]
  PROVE  SameLinks
<1>1. link \in [Fd -> LinkType] /\ sock[r] \in Fd
  BY DEF IndInv, TypeOK, LinkType
<1>2. link[sock[r]].wire - 1 \in Nat
  BY <1>1 DEF LinkType
<1> QED BY <1>1, <1>2 DEF SameLinks, LinkType
-----------------------------------------------------------------------------
(***************************************************************************)
(* The actions.                                                            *)
(***************************************************************************)

\* A request is started, or its message is dropped.
LEMMA StartKeeps ==
  ASSUME IndInv, StartFails \/ \E r \in Req : Start(r)
  PROVE  IndInv'
<1>0. TypeOK /\ Pooled /\ Pending /\ Served /\ InLoop
  BY DEF IndInv
<1>1. CASE StartFails
  <2>1. SameLinks /\ sock' = sock /\ live' = live
    BY <1>1, LinksUnchanged DEF StartFails
  <2>2. OneOwner' /\ Owned' /\ OpenSock'
    BY <2>1, SameOwners
  <2>3. started' \in 0 .. MaxStart
    BY <1>0, <1>1, HttpAssumption DEF TypeOK, StartFails, HttpAssumption
  <2>4. TypeOK'
    BY <1>0, <1>1, <2>3 DEF TypeOK, StartFails
  <2>5. Pooled' /\ InLoop' /\ Pending'
    BY <1>0, <1>1 DEF StartFails, Pooled, InLoop, Pending
  <2>6. Served'
    BY <1>0, <1>1, <2>1, SameFollows DEF StartFails, Served
  <2> QED BY <2>2, <2>4, <2>5, <2>6 DEF IndInv
<1>2. ASSUME NEW r \in Req, Start(r) PROVE IndInv'
  <2>1. SameLinks /\ sock' = sock /\ live' = live \cup {r}
    BY <1>2, LinksUnchanged DEF Start
  <2>2. OneOwner' /\ Owned' /\ OpenSock'
    BY <2>1, SameOwners
  <2>3. PICK n \in Counts[r] : urlN' = [urlN EXCEPT ![r] = n]
    BY <1>2 DEF Start
  <2>4. n \in 0 .. MaxUrl /\ index[r] = 0 /\ ev[r] = "none"
    BY <1>0, <1>2, <2>3, HttpAssumption DEF Pooled, Start, HttpAssumption
  <2>5. /\ urlN' \in [Req -> 0 .. MaxUrl] /\ started' \in 0 .. MaxStart
        /\ \A q \in Req : index'[q] <= urlN'[q]
    BY <1>0, <1>2, <2>3, <2>4, HttpAssumption DEF TypeOK, Start, HttpAssumption
  <2>6. TypeOK'
    BY <1>0, <1>2, <2>5 DEF TypeOK, Start
  <2>7. Pooled' /\ InLoop' /\ Pending'
    BY <1>0, <1>2, <2>4 DEF Start, Pooled, InLoop, Pending
  <2>8. Served'
    BY <1>0, <1>2, <2>1, SameFollows DEF Start, Served
  <2> QED BY <2>2, <2>6, <2>7, <2>8 DEF IndInv
<1> QED BY <1>1, <1>2

\* A url is given up before or after it is taken, or goes over the old connection.
LEMMA SameConnection ==
  ASSUME IndInv, NEW r \in Req,
         BadUrl(r) \/ \E u \in Urls : NoAddress(r, u) \/ BuildFails(r, u) \/ Reuse(r, u)
  PROVE  IndInv'
<1>0. TypeOK /\ Pooled /\ Pending /\ Served /\ InLoop
  BY DEF IndInv
<1>1. SameLinks /\ sock' = sock /\ live' = live /\ urlN' = urlN /\ loop = r
  BY LinksUnchanged DEF BadUrl, NoAddress, BuildFails, Reuse, Later, TakeUrl
<1>2. OneOwner' /\ Owned' /\ OpenSock'
  BY <1>1, SameOwners
<1>3. CASE BadUrl(r) \/ \E u \in Urls : NoAddress(r, u)
  <2>0. index' = [index EXCEPT ![r] = index[r] + 1] /\ ~(index[r] >= urlN[r]) /\ r \in live
    BY <1>0, <1>1, <1>3, NoneApart DEF BadUrl, NoAddress, Later, NoMoreUrls, CountUrl, InLoop
  <2>1. /\ index' \in [Req -> 0 .. MaxUrl]
        /\ \A q \in Req : index'[q] <= urlN'[q] /\ index'[q] >= index[q]
        /\ \A q \in Req : q # r => index'[q] = index[q]
    BY <1>0, <1>1, <2>0, HttpAssumption DEF TypeOK, HttpAssumption
  <2>2. /\ UNCHANGED <<url, evfd, ev, due, keep, loop, started>>
        /\ host' \in [Req -> Hosts \cup {None}] /\ addr' \in [Req -> Address]
        /\ skipped' \subseteq Req
        /\ \A q \in Req : q \notin skipped' => /\ q \notin skipped /\ host'[q] = host[q]
                                              /\ addr'[q] = addr[q]
    <3>1. CASE BadUrl(r)
      BY <1>0, <3>1 DEF TypeOK, BadUrl
    <3>2. CASE \E u \in Urls : NoAddress(r, u)
      <4>1. PICK u \in Urls : NoAddress(r, u)
        BY <3>2
      <4>2. /\ UNCHANGED <<url, evfd, ev, due, keep, loop, started>> /\ skipped' = skipped \cup {r}
            /\ host' = [host EXCEPT ![r] = u[1]]
            /\ addr' = [addr EXCEPT ![r] = <<addr[r][1], u[2]>>]
        BY <4>1 DEF NoAddress
      <4>3. <<addr[r][1], u[2]>> \in Address /\ u[1] \in Hosts
        BY <1>0, UrlValues DEF TypeOK, Address
      <4> QED BY <1>0, <4>2, <4>3 DEF TypeOK
    <3> QED BY <1>3, <3>1, <3>2
  <2>3. TypeOK'
    BY <1>0, <1>1, <2>1, <2>2 DEF TypeOK, SameLinks, LinkType
  <2>4. Pooled' /\ InLoop'
    BY <1>0, <1>1, <2>0, <2>1, <2>2 DEF Pooled, InLoop
  <2>5. Pending'
    <3>1. \A q \in Req : index[q] \in Int /\ index'[q] \in Int
      BY <1>0, <2>3 DEF TypeOK
    <3> QED BY <1>0, <1>1, <2>1, <2>2, <3>1 DEF Pending
  <2>6. Served'
    BY <1>0, <1>1, <2>2, SameFollows DEF Served
  <2> QED BY <1>2, <2>3, <2>4, <2>5, <2>6 DEF IndInv
<1>4. ASSUME NEW u \in Urls, BuildFails(r, u) \/ Reuse(r, u) PROVE IndInv'
  <2>1. TakeUrl(r, u)
    BY <1>4 DEF BuildFails, Reuse
  <2>2. /\ index' \in [Req -> 0 .. MaxUrl] /\ index'[r] >= 1
        /\ \A q \in Req : index'[q] <= urlN'[q]
        /\ url' \in [Req -> Address] /\ host' \in [Req -> Hosts \cup {None}]
        /\ addr' \in [Req -> Address]
        /\ \A q \in Req : q # r => /\ index'[q] = index[q] /\ url'[q] = url[q]
                                   /\ host'[q] = host[q] /\ addr'[q] = addr[q]
        /\ r \notin skipped => /\ host'[r] = addr'[r][1] /\ addr'[r] \in Urls
                               /\ Alike(url'[r][1], host'[r])
        /\ url'[r] \in Urls
        /\ Identical(r, u) => addr' = addr
        /\ r \in live
    BY <1>1, <2>1, TakeUrlEffect
  <2>3. CASE BuildFails(r, u)
    <3>1. UNCHANGED <<evfd, ev, due, keep, loop, started>> /\ skipped' = skipped \cup {r}
      BY <2>3 DEF BuildFails
    <3>2. TypeOK'
      BY <1>0, <1>1, <2>2, <3>1 DEF TypeOK, SameLinks, LinkType
    <3>3. Pooled' /\ InLoop' /\ Pending'
      BY <1>0, <1>1, <2>2, <3>1 DEF Pooled, InLoop, Pending
    <3>4. Served'
      BY <1>0, <1>1, <2>2, <3>1, SameFollows DEF Served
    <3> QED BY <1>2, <3>2, <3>3, <3>4 DEF IndInv
  <2>4. CASE Reuse(r, u)
    <3>1. /\ UNCHANGED <<evfd, keep, skipped, started>> /\ loop' = None /\ due' = due \ {r}
          /\ ev' = AddWrite(r, evfd[r], link) /\ Identical(r, u)
      BY <2>4 DEF Reuse, Reuses
    <3>2. /\ ev' \in [Req -> {"none", "write", "read"}] /\ ev'[r] # "read"
          /\ \A q \in Req : q # r => ev'[q] = ev[q]
      BY <1>0, <3>1 DEF AddWrite, TypeOK
    <3>3. TypeOK'
      BY <1>0, <1>1, <2>2, <3>1, <3>2 DEF TypeOK, SameLinks, LinkType
    <3>4. Pooled' /\ InLoop' /\ Pending'
      BY <1>0, <1>1, <2>2, <3>1, <3>2 DEF Pooled, InLoop, Pending
    <3>5. Served'
      <4> SUFFICES ASSUME NEW q \in Req, q \notin skipped PROVE Follows(q)'
        BY <3>1 DEF Served
      <4>1. CASE q # r
        BY <1>0, <1>1, <2>2, <4>1, SameFollows DEF Served
      <4>2. CASE q = r
        <5>1. sock[r] \in Fd \cup {None} /\ Follows(r) /\ addr' = addr
          BY <1>0, <2>2, <3>1, <4>2 DEF TypeOK, Served
        <5> QED BY <1>1, <2>2, <4>2, <5>1 DEF Follows, SameLinks
      <4> QED BY <4>1, <4>2
    <3> QED BY <1>2, <3>3, <3>4, <3>5 DEF IndInv
  <2> QED BY <1>4, <2>3, <2>4
<1> QED BY <1>3, <1>4

\* The old connection is closed and sock is a new descriptor with the connection l, or none.
NewSock(r, f, l) ==
  \/ f = None /\ link' = Closed(r)
  \/ /\ f = NewFd(Closed(r)) /\ l \in LinkType /\ l.st # "shut"
     /\ link' = [Closed(r) EXCEPT ![f] = l]

\* ... which keeps the ownership and every other request's connection.
LEMMA NewSockKeeps ==
  ASSUME IndInv, NEW r \in Req, r \in live, NEW f, NEW l, NewSock(r, f, l),
         sock' = [sock EXCEPT ![r] = f], live' = live
  PROVE  /\ f \in Fd \cup {None}
         /\ link' \in [Fd -> LinkType] /\ sock' \in [Req -> Fd \cup {None}]
         /\ OneOwner' /\ Owned' /\ OpenSock'
         /\ sock'[r] = f /\ (f # None => link'[f] = l)
         /\ \A q \in Req : q # r => /\ sock'[q] = sock[q]
                                    /\ sock[q] # None => link'[sock[q]] = link[sock[q]]
<1> DEFINE c == Closed(r)
<1>0. /\ sock \in [Req -> Fd \cup {None}] /\ OneOwner /\ Owned /\ OpenSock
      /\ link \in [Fd -> LinkType]
  BY DEF IndInv, TypeOK, LinkType
<1>1. /\ c \in [Fd -> LinkType]
      /\ \A g \in Fd : g # sock[r] => c[g] = link[g]
      /\ sock[r] # None => c[sock[r]] = Shut
  BY ClosedLinks
<1>2. f # None => f \in Fd /\ c[f].st = "shut" /\ link' = [c EXCEPT ![f] = l]
                  /\ l \in LinkType /\ l.st # "shut"
  BY NewFdFree DEF NewSock
<1>3. f = None => link' = c
  BY NewFdFree, NoneApart DEF NewSock
<1> HIDE DEF c
<1>4. f \in Fd \cup {None} /\ sock' \in [Req -> Fd \cup {None}] /\ sock'[r] = f
      /\ \A q \in Req : q # r => sock'[q] = sock[q]
  BY <1>0, <1>2
<1>5. link' \in [Fd -> LinkType] /\ (f # None => link'[f] = l)
      /\ \A g \in Fd : g # f => link'[g] = c[g]
  BY <1>1, <1>2, <1>3
<1>6. ASSUME NEW q \in Req, q # r, sock[q] # None
      PROVE  /\ sock[q] \in Fd /\ sock[q] # f /\ link'[sock[q]] = link[sock[q]]
             /\ link[sock[q]].st # "shut" /\ q \in live
  <2>1. /\ sock[q] \in Fd /\ sock[q] # sock[r] /\ link[sock[q]].st # "shut" /\ q \in live
        /\ c[sock[q]] = link[sock[q]]
    BY <1>0, <1>1, <1>6 DEF OneOwner, OpenSock
  <2>2. sock[q] # f
    BY <1>2, <2>1, NoneApart
  <2> QED BY <1>5, <2>1, <2>2
<1>7. OneOwner'
  <2> SUFFICES ASSUME NEW p \in Req, NEW q \in Req, sock'[p] # None, sock'[p] = sock'[q]
               PROVE  p = q
    BY DEF OneOwner
  <2>1. CASE p = r \/ q = r
    BY <1>4, <1>6, <2>1
  <2>2. CASE p # r /\ q # r
    BY <1>0, <1>4, <2>2 DEF OneOwner
  <2> QED BY <2>1, <2>2
<1>8. OpenSock'
  BY <1>2, <1>4, <1>5, <1>6 DEF OpenSock
<1>9. Owned'
  <2> SUFFICES ASSUME NEW g \in Fd, link'[g].st # "shut", g # f
               PROVE  \E q \in Req : sock'[q] = g
    BY <1>4 DEF Owned
  <2>1. g # sock[r] /\ link[g].st # "shut"
    BY <1>1, <1>5, NoneApart DEF Shut
  <2> QED BY <1>0, <1>4, <2>1 DEF Owned
<1> QED BY <1>4, <1>5, <1>6, <1>7, <1>8, <1>9

\* A url for which a new connection is made, or is not made in the end.
LEMMA NewConnection ==
  ASSUME IndInv, NEW r \in Req, NEW u \in Urls,
         Connect(r, u) \/ SocketFails(r, u) \/ ConnectFails(r, u)
  PROVE  IndInv'
<1>0. TypeOK /\ Pooled /\ Pending /\ Served /\ InLoop
  BY DEF IndInv
<1>1. TakeUrl(r, u) /\ UNCHANGED <<live, urlN, keep, skipped, started>> /\ loop = r
  BY DEF Connect, SocketFails, ConnectFails, TakeUrl
<1>2. /\ index' \in [Req -> 0 .. MaxUrl] /\ index'[r] >= 1
      /\ \A q \in Req : index'[q] <= urlN'[q]
      /\ url' \in [Req -> Address] /\ host' \in [Req -> Hosts \cup {None}]
      /\ addr' \in [Req -> Address]
      /\ \A q \in Req : q # r => /\ index'[q] = index[q] /\ url'[q] = url[q]
                                 /\ host'[q] = host[q] /\ addr'[q] = addr[q]
      /\ r \notin skipped => /\ host'[r] = addr'[r][1] /\ addr'[r] \in Urls
                             /\ Alike(url'[r][1], host'[r])
      /\ url'[r] \in Urls
      /\ r \in live
  BY <1>1, TakeUrlEffect
<1>3. Dial(addr'[r]) \in LinkType /\ Raw \in LinkType /\ Dial(addr'[r]).st # "shut" /\ Raw.st # "shut"
  BY <1>2, LinkValues DEF Dial, Raw
<1>4. PICK g, m : /\ NewSock(r, g, m) /\ sock' = [sock EXCEPT ![r] = g]
                  /\ m.st = "raw" \/ m.peer = addr'[r]
                  /\ \/ Connect(r, u) /\ evfd' = [evfd EXCEPT ![r] = g] /\ loop' = None
                        /\ ev' = AddWrite(r, g, link')
                     \/ UNCHANGED <<evfd, ev, loop>>
  <2>1. CASE Connect(r, u)
    <3> DEFINE g == NewFd(Closed(r))
               m == Dial(addr'[r])
    <3>1. /\ sock' = [sock EXCEPT ![r] = g] /\ evfd' = [evfd EXCEPT ![r] = g] /\ loop' = None
          /\ ev' = AddWrite(r, g, link') /\ link' = [Closed(r) EXCEPT ![g] = m]
      BY <2>1 DEF Connect
    <3>2. NewSock(r, g, m) /\ m.peer = addr'[r]
      BY <1>3, <3>1 DEF NewSock, Dial
    <3> HIDE DEF g, m
    <3> QED BY <2>1, <3>1, <3>2
  <2>2. CASE SocketFails(r, u)
    <3>1. NewSock(r, None, Raw) /\ sock' = [sock EXCEPT ![r] = None] /\ Raw.st = "raw"
          /\ UNCHANGED <<evfd, ev, loop>>
      BY <2>2 DEF SocketFails, SockAfterFailure, NewSock, Raw
    <3> QED BY <3>1
  <2>3. CASE ConnectFails(r, u)
    <3> DEFINE g == NewFd(Closed(r))
    <3>1. NewSock(r, g, Raw) /\ sock' = [sock EXCEPT ![r] = g] /\ Raw.st = "raw"
          /\ UNCHANGED <<evfd, ev, loop>>
      BY <1>3, <2>3 DEF ConnectFails, NewSock, Raw
    <3> HIDE DEF g
    <3> QED BY <3>1
  <2> QED BY <2>1, <2>2, <2>3
<1>5. /\ g \in Fd \cup {None}
      /\ link' \in [Fd -> LinkType] /\ sock' \in [Req -> Fd \cup {None}]
      /\ OneOwner' /\ Owned' /\ OpenSock'
      /\ sock'[r] = g /\ (g # None => link'[g] = m)
      /\ \A q \in Req : q # r => /\ sock'[q] = sock[q]
                                 /\ sock[q] # None => link'[sock[q]] = link[sock[q]]
  <2>1. NewSock(r, g, m) /\ sock' = [sock EXCEPT ![r] = g] /\ live' = live /\ r \in live
    BY <1>1, <1>2, <1>4
  <2> QED BY <2>1, NewSockKeeps
<1>6. /\ evfd' \in [Req -> Fd \cup {None}] /\ ev' \in [Req -> {"none", "write", "read"}]
      /\ ev'[r] # "read" /\ \A q \in Req : q # r => ev'[q] = ev[q]
      /\ loop' = None \/ (loop' = r /\ ev'[r] = "none")
  <2>1. CASE UNCHANGED <<evfd, ev, loop>>
    BY <1>0, <1>1, <2>1, NoneApart DEF TypeOK, InLoop
  <2>2. CASE /\ evfd' = [evfd EXCEPT ![r] = g] /\ loop' = None
             /\ ev' = AddWrite(r, g, link')
    BY <1>0, <1>5, <2>2 DEF TypeOK, AddWrite
  <2> QED BY <1>4, <2>1, <2>2
<1>7. TypeOK'
  <2>1. due' \subseteq Req
    BY <1>0 DEF TypeOK, Connect, SocketFails, ConnectFails
  <2> QED BY <1>0, <1>1, <1>2, <1>5, <1>6, <2>1 DEF TypeOK, LinkType
<1>8. Pooled' /\ InLoop'
  BY <1>0, <1>1, <1>2, <1>6 DEF Pooled, InLoop
<1>9. Pending'
  BY <1>0, <1>2, <1>5, <1>6 DEF Pending
<1>10. Served'
  <2> SUFFICES ASSUME NEW q \in Req, q \notin skipped PROVE Follows(q)'
    BY <1>1 DEF Served
  <2>1. CASE q # r
    <3>1. Follows(q)
      BY <1>0 DEF Served
    <3> QED BY <1>2, <1>5, <2>1, <3>1 DEF Follows
  <2>2. CASE q = r
    <3>1. sock'[r] # None => link'[sock'[r]] = m
      BY <1>5
    <3> QED BY <1>2, <1>4, <2>2, <3>1 DEF Follows
  <2> QED BY <2>1, <2>2
<1> QED BY <1>5, <1>7, <1>8, <1>9, <1>10 DEF IndInv

\* Nothing but the timers changes.
LEMMA TimerKeeps ==
  ASSUME IndInv, due' \subseteq Req,
         UNCHANGED <<live, index, urlN, url, host, addr, sock, evfd, ev, keep, link, loop, skipped, started>>
  PROVE  IndInv'
  BY DEF IndInv, TypeOK, OneOwner, Owned, OpenSock, Pooled, InLoop, Pending, Served, Follows

\* The callbacks of a request.
LEMMA CallbackKeeps ==
  ASSUME IndInv, NEW r \in Req, Callback(r)
  PROVE  IndInv'
<1>0. TypeOK /\ Pooled /\ Pending /\ Served /\ InLoop
  BY DEF IndInv
<1>1. ev[r] # "none" /\ sock[r] \in Fd \cup {None} /\ link \in [Fd -> LinkType]
  BY <1>0 DEF Callback, Timeout, HasTimer, Send, SendFails, Writable, Response, EmptyResponse,
     BrokenResponse, HasResponse, Closes, Readable, Again, TypeOK, LinkType
<1>2. CASE Ends(r)
  BY <1>2, FreeKeeps DEF Ends
<1>3. ASSUME ToNext(r), link' = link, NEW k \in BOOLEAN, keep' = [keep EXCEPT ![r] = k]
      PROVE  IndInv'
  BY <1>1, <1>3, ToNextKeeps, LinksUnchanged
<1>4. ASSUME NEW ks, ks \subseteq BOOLEAN, GoesOn(r, ks) PROVE IndInv'
  BY <1>3, <1>4 DEF GoesOn
<1>5. keep[r] \in BOOLEAN
  BY <1>0 DEF TypeOK
<1>6. ASSUME HasResponse(r), ToNext(r), link' = [link EXCEPT ![sock[r]].wire = @ - 1],
             NEW k \in BOOLEAN, keep' = [keep EXCEPT ![r] = k]
      PROVE  IndInv'
  BY <1>1, <1>6, AnswerTaken, ToNextKeeps DEF HasResponse, Readable
<1>7. CASE Timeout(r)
  <2>1. CASE GoesOn(r, IF ev[r] = "read" THEN BOOLEAN ELSE {keep[r]})
    BY <1>4, <1>5, <2>1
  <2> QED BY <1>2, <1>7, <2>1 DEF Timeout
<1>8. CASE SendFails(r)
  <2>1. {keep[r]} \subseteq BOOLEAN
    BY <1>5
  <2> QED BY <1>2, <1>4, <1>8, <2>1 DEF SendFails
<1>9. CASE Response(r)
  BY <1>6, <1>9 DEF Response
<1>10. CASE EmptyResponse(r)
  BY <1>2, <1>6, <1>10 DEF EmptyResponse
<1>11. CASE BrokenResponse(r)
  BY <1>2, <1>4, <1>11 DEF BrokenResponse
<1>12. CASE Closes(r)
  <2>1. {keep[r]} \subseteq BOOLEAN
    BY <1>5
  <2> QED BY <1>2, <1>3, <1>4, <1>12, <2>1 DEF Closes
<1>13. CASE Send(r)
  <2> DEFINE w == link[sock[r]].wire
             n == IF link[sock[r]].st = "up" THEN w + 1 ELSE w
  <2>1. sock[r] \in Fd /\ link[sock[r]] \in LinkType
    BY <1>1, <1>13 DEF Send
  <2>3. n \in Nat
    BY <2>1 DEF LinkType
  <2>4. link' = [link EXCEPT ![sock[r]].wire = n]
    BY <1>13 DEF Send
  <2>5. SameLinks
    <3> HIDE DEF n
    <3> QED BY <1>1, <2>1, <2>3, <2>4 DEF SameLinks, LinkType
  <2>6. /\ UNCHANGED <<live, index, urlN, url, host, addr, sock, evfd, keep, loop, skipped, started>>
        /\ ev' = [ev EXCEPT ![r] = "read"] /\ due' = due \ {r} /\ sock[r] # None /\ loop = None
    BY <1>13 DEF Send, Writable, Idle
  <2>7. OneOwner' /\ Owned' /\ OpenSock'
    BY <2>5, <2>6, SameOwners
  <2>8. TypeOK'
    BY <1>0, <2>5, <2>6 DEF TypeOK, SameLinks, LinkType
  <2>9. Pooled' /\ InLoop' /\ Pending'
    BY <1>0, <1>1, <2>6 DEF TypeOK, Pooled, InLoop, Pending
  <2>10. Served'
    BY <1>0, <2>5, <2>6, SameFollows DEF Served
  <2> QED BY <2>7, <2>8, <2>9, <2>10 DEF IndInv
<1>14. CASE Again(r)
  <2>1. due' \subseteq Req /\ ev' = ev
    BY <1>0, <1>14 DEF TypeOK, Again, Restart
  <2> QED BY <1>14, <2>1, TimerKeeps DEF Again
<1> QED BY <1>7, <1>8, <1>9, <1>10, <1>11, <1>12, <1>13, <1>14 DEF Callback

\* A server accepts, refuses, closes or resets a connection.
LEMMA ServerKeeps ==
  ASSUME IndInv, NEW f \in Fd, Server(f)
  PROVE  IndInv'
<1>0. TypeOK /\ Pooled /\ Pending /\ Served /\ InLoop /\ link \in [Fd -> LinkType]
  BY DEF IndInv, TypeOK, LinkType
<1>1. UNCHANGED <<live, index, urlN, url, host, addr, sock, evfd, ev, due, keep, loop, skipped, started>>
  BY DEF Server
<1>2. PICK s \in {"up", "eof", "err"} : /\ link[f].st \in {"connecting", "up"}
                                        /\ link' = [link EXCEPT ![f].st = s]
  BY DEF Server
<1>3. SameLinks
  BY <1>0, <1>2 DEF SameLinks, LinkType
<1>4. OneOwner' /\ Owned' /\ OpenSock'
  BY <1>1, <1>3, SameOwners
<1>5. TypeOK'
  BY <1>0, <1>1, <1>3 DEF TypeOK, SameLinks, LinkType
<1>6. Pooled' /\ InLoop' /\ Pending'
  BY <1>0, <1>1 DEF Pooled, InLoop, Pending
<1>7. Served'
  BY <1>0, <1>1, <1>3, SameFollows DEF Served
<1> QED BY <1>4, <1>5, <1>6, <1>7 DEF IndInv
-----------------------------------------------------------------------------
(***************************************************************************)
(* The theorems.                                                           *)
(***************************************************************************)

\* All requests are in the pool at first.
LEMMA InitInd == Init => IndInv
<1> SUFFICES ASSUME Init PROVE IndInv
  OBVIOUS
<1>1. link \in [Fd -> LinkType]
  BY LinkValues DEF Init
<1>2. TypeOK
  BY <1>1, UrlValues, HttpAssumption DEF Init, TypeOK, LinkType, HttpAssumption
<1>3. OneOwner /\ OpenSock /\ Owned
  BY DEF Init, OneOwner, OpenSock, Owned, Shut
<1>4. Pooled /\ InLoop /\ Pending
  BY DEF Init, Pooled, InLoop, Pending
<1>5. Served
  BY DEF Init, Served, Follows, Alike, Nowhere
<1> QED BY <1>2, <1>3, <1>4, <1>5 DEF IndInv

\* IndInv is inductive.
LEMMA StepInd == IndInv /\ [Next]_vars => IndInv'
<1> SUFFICES ASSUME IndInv, [Next]_vars PROVE IndInv'
  OBVIOUS
<1>1. ASSUME NEW r \in Req, NextUrl(r) PROVE IndInv'
  <2>1. CASE UrlsDone(r) \/ FirstFails(r)
    BY <2>1, FreeKeeps DEF UrlsDone, FirstFails
  <2>2. CASE BadUrl(r) \/ \E u \in Urls : NoAddress(r, u) \/ BuildFails(r, u) \/ Reuse(r, u)
    BY <2>2, SameConnection
  <2>3. CASE \E u \in Urls : Connect(r, u) \/ SocketFails(r, u) \/ ConnectFails(r, u)
    BY <2>3, NewConnection
  <2> QED BY <1>1, <2>1, <2>2, <2>3, Zenon DEF NextUrl
<1>2. CASE UNCHANGED vars
  BY <1>2 DEF vars, IndInv, TypeOK, OneOwner, Owned, OpenSock, Pooled, InLoop, Pending, Served,
     Follows
<1>3. ASSUME NEW r \in Req, Tick(r) PROVE IndInv'
  <2>1. due' \subseteq Req
    BY <1>3 DEF IndInv, TypeOK, Tick
  <2> QED BY <1>3, <2>1, TimerKeeps DEF Tick
<1> QED BY <1>1, <1>2, <1>3, StartKeeps, CallbackKeeps, ServerKeeps, Zenon DEF Next

\* IndInv holds in every reachable state.
LEMMA Invariance == Spec => []IndInv
  BY InitInd, StepInd, PTL DEF Spec

\* Every open descriptor is that of exactly one live request and no request keeps a closed
\* one, however many requests run and whatever fails: nothing is closed twice, nothing lost.
THEOREM DescriptorsOwned == Spec => []FdOwned
<1>1. IndInv => FdOwned
  <2> SUFFICES ASSUME IndInv PROVE FdOwned
    OBVIOUS
  <2>1. ASSUME NEW f \in Fd, link[f].st # "shut"
        PROVE  Cardinality({r \in Req : sock[r] = f}) = 1
    <3>1. PICK r \in Req : sock[r] = f
      BY <2>1 DEF IndInv, Owned
    <3>2. {q \in Req : sock[q] = f} = {r}
      BY <3>1, NoneApart DEF IndInv, OneOwner
    <3> QED BY <3>2, FS_Singleton
  <2>2. \A r \in Req : sock[r] # None => OpenFd(sock[r]) /\ r \in live
    BY DEF IndInv, OpenSock, OpenFd
  <2>3. \A r \in Req : ev[r] # "none" => r \in live
    BY DEF IndInv, Pooled
  <2> QED BY <2>1, <2>2, <2>3 DEF IndInv, FdOwned
<1> QED BY <1>1, Invariance, PTL

\* A request that waits for an answer waits at the address it stored last, that of a url of
\* the list with the name of its own url, or with a longer name that begins so, unless it
\* gave up a url after storing its host.
THEOREM AskedRightServer == Spec => []RightServer
<1>1. IndInv => RightServer
  <2> SUFFICES ASSUME IndInv, NEW r \in Req, r \notin skipped, ev[r] = "read",
                      link[sock[r]].st = "up"
               PROVE  /\ link[sock[r]].peer = addr[r] /\ link[sock[r]].peer \in Urls
                      /\ Alike(url[r][1], link[sock[r]].peer[1])
    BY DEF RightServer
  <2>1. sock[r] # None /\ Follows(r) /\ url[r] \in Urls
    BY DEF IndInv, Pending, Served
  <2>2. host[r] # None
    BY <2>1, NoneApart, UrlValues, HttpAssumption DEF Follows, Alike, HttpAssumption
  <2> QED BY <2>1, <2>2 DEF Follows, Nowhere
<1> QED BY <1>1, Invariance, PTL

\* Each name of the list has one port, and no name is the beginning of another.
OneServerPerName == \A s, t \in Urls : Alike(s[1], t[1]) => s = t

\* A request that waits for an answer, and gave up no url, waits at the server of its url.
ExactServer ==
  \A r \in Req \ skipped :
    ev[r] = "read" /\ link[sock[r]].st = "up" => link[sock[r]].peer = url[r]

\* What ntg_http_get_next_url leaves to the list of urls: if each name has one port and none
\* is the beginning of another, every request waits at the server of its url.
THEOREM OwnServerAsked == ASSUME OneServerPerName PROVE Spec => []ExactServer
<1>1. IndInv /\ RightServer => ExactServer
  <2> SUFFICES ASSUME IndInv, RightServer, NEW r \in Req, r \notin skipped, ev[r] = "read",
                      link[sock[r]].st = "up"
               PROVE  link[sock[r]].peer = url[r]
    BY DEF ExactServer
  <2>1. url[r] \in Urls
    BY DEF IndInv, Pending
  <2>2. link[sock[r]].peer \in Urls /\ Alike(url[r][1], link[sock[r]].peer[1])
    BY DEF RightServer
  <2> QED BY <2>1, <2>2 DEF OneServerPerName
<1> QED BY <1>1, Invariance, AskedRightServer, PTL
=============================================================================
