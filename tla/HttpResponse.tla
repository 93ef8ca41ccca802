---------------------------- MODULE HttpResponse ----------------------------
(***************************************************************************)
(* How a traffic process reads one response: the read events of            *)
(* http/ntg_http.c (ntg_http_handler_header and what it calls) and of      *)
(* http/ntg_http_discard.c, on top of the parsers of HttpParse.            *)
(*                                                                         *)
(* A step is one recv and the handling of what it returned.  recv may      *)
(* return any part of what has been sent; AGAIN only registers the read    *)
(* event once more and is no step of its own.  `outcome' is how the        *)
(* handler leaves the request to ntg_http_final_process: "next" (the next  *)
(* url) or "rule" (done for the first url, otherwise the next).            *)
(***************************************************************************)
EXTENDS HttpParse

CONSTANTS Messages, InSize

ASSUME HttpResponseAssumption == InSize \in Nat \ {0}

VARIABLES
  msg, stream,   \* the response and its bytes
  read,          \* bytes received
  used,          \* in_buffer.last - in_buffer.start, while the header is read
  q,             \* the parsers' fields of the request
  outcome,
  lost           \* the connection, a timer or a call failed

vars == <<msg, stream, read, used, q, outcome, lost>>

Msg == INSTANCE HttpMessage WITH
         taken   <- read,
         verdict <- CASE outcome = "none" -> "reading"
                      [] lost             -> "cut"
                      [] used = InSize /\ q.rc = "again" -> "refused"
                      [] OTHER            -> "complete",
         kept    <- outcome # "none" /\ ~lost /\ ~(used = InSize /\ q.rc = "again") /\ q.keep,
         code    <- IF outcome # "none" /\ ~lost /\ ~(used = InSize /\ q.rc = "again") THEN q.status ELSE 0

Init ==
  /\ msg \in Messages /\ stream = Msg!Encode(msg)
  /\ read = 0 /\ used = 0 /\ outcome = "none" /\ lost = FALSE
  /\ \E keep \in BOOLEAN : q = Fresh(keep)

TypeOK ==
  /\ read \in 0 .. Len(stream) /\ used \in 0 .. InSize
  /\ q.phase \in {"status", "header", "body"} /\ q.rc \in {"again", "ok", "done", "invalid"}
  /\ q.statusN = 0 /\ q.size \in 0 .. MaxOff /\ q.clen \in -1 .. MaxOff /\ q.count \in 0 .. 3
  /\ Len(q.low) <= LcLen /\ q.i \in 0 .. LcLen - 1
  /\ q.close \in BOOLEAN /\ q.chunked \in BOOLEAN /\ q.keep \in BOOLEAN
  /\ outcome \in {"none", "next", "rule"} /\ lost \in BOOLEAN

\* ntg_http_recv
Bytes(n) == SubSeq(stream, read + 1, read + n)
-----------------------------------------------------------------------------
\* ntg_http_discard_response_body, what came with the header.
Discard(p) ==
  LET f == Filter(p, p.rest)
      size == Len(p.rest)
  IN IF p.clen <= 0 /\ ~p.chunked THEN q' = p /\ outcome' = "rule"
     ELSE IF size = 0 /\ ~p.chunked THEN q' = p /\ outcome' = "none"
     ELSE /\ q' = f
          /\ outcome' = CASE f.clen = 0 -> "next" [] f.rc = "invalid" -> "rule" [] OTHER -> "none"

\* ntg_http_filter_init: r->length is 0 for a 204 or a 304, by status_n, and if the length is
\* 0 or was not sent.
NoBody(p)     == p.statusN \in {204, 304} \/ (~p.chunked /\ p.clen = 0)
FilterInit(p) == IF NoBody(p) THEN [p EXCEPT !.keep = ~p.close] ELSE p

\* ntg_http_handler_header behind a complete header.
HeaderEnds(p) ==
  LET b == [FilterInit(p) EXCEPT !.phase = "body", !.st = "chunk_start"]
  IN IF p.statusN >= 300 \/ NoBody(p) THEN q' = b /\ outcome' = "rule" ELSE Discard(b)

\* in_buffer.end - in_buffer.last
Room == InSize - used

\* ntg_http_handler_header
RecvHeader(n) ==
  /\ outcome = "none" /\ q.phase # "body" /\ n <= Room
  /\ read' = read + n /\ used' = used + n
  /\ LET p == ProcessHeader(q, Bytes(n))
     IN CASE p.rc = "again"   -> q' = p /\ outcome' = IF used' = InSize THEN "rule" ELSE "none"
          [] p.rc = "invalid" -> q' = p /\ outcome' = "rule"
          [] OTHER            -> HeaderEnds(p)
  /\ UNCHANGED <<msg, stream, lost>>

\* ntg_http_read_discarded_request_body.  An invalid chunk ends this read and the next
\* read event goes on (the caller takes every error below 300 for AGAIN).
RecvBody(n) ==
  /\ outcome = "none" /\ q.phase = "body" /\ n <= q.clen /\ n <= InSize
  /\ read' = read + n
  /\ q' = Filter([q EXCEPT !.rest = <<>>], Bytes(n))
  /\ outcome' = IF q'.clen = 0 THEN "next" ELSE "none"
  /\ UNCHANGED <<msg, stream, used, lost>>

\* recv returns 0 or an error: an error in a header, the end of a body.
Eof ==
  /\ outcome = "none"
  /\ outcome' = IF q.phase = "body" THEN "next" ELSE "rule"
  /\ lost' = (read < Len(stream) \/ ~Msg!WellFormed(msg) \/ Msg!Announces(msg))
  /\ UNCHANGED <<msg, stream, read, used, q>>

\* The timeout of the read event; a failing event_add, allocation or clock ends the request
\* in the same way.
Timeout ==
  /\ outcome = "none" /\ outcome' = "rule" /\ lost' = TRUE
  /\ UNCHANGED <<msg, stream, read, used, q>>

\* event_add fails in ntg_http_discarded_request_body_handler.
EventFails ==
  /\ outcome = "none" /\ q.phase = "body" /\ outcome' = "next" /\ lost' = TRUE
  /\ UNCHANGED <<msg, stream, read, used, q>>

Next ==
  \/ \E n \in 1 .. Len(stream) - read : RecvHeader(n) \/ RecvBody(n)
  \/ Eof \/ Timeout \/ EventFails

\* A read event always ends: data arrive, the connection breaks or its timer fires.
Spec == Init /\ [][Next]_vars /\ WF_vars(Next)
-----------------------------------------------------------------------------
\* However a response is cut into pieces, it ends with its last byte, and its status and
\* the fate of the connection are what the server sent (HttpMessage).  A 204 or 304 that
\* announces a body is not seen to be complete: ntg_http_filter_init would, but status_n is
\* never set.
Delivers == Msg!Spec

\* The reader of a body never asks the socket for more than is certain to come: it can
\* never take bytes of the next response for the rest of this one (content_length_n as
\* set by ntg_http_parse_chunked and counted down by the filter), and no counter leaves its
\* range, whatever the response.  A 204 or 304 that announces a body is excepted: the body it
\* has not is asked for.
AsksNoMore ==
  /\ TypeOK
  /\ Msg!WellFormed(msg) /\ ~Msg!Announces(msg) /\ outcome = "none" /\ q.phase = "body" => q.clen \in 1 .. Len(stream) - read
=============================================================================
