----------------------------- MODULE HttpParse -----------------------------
(***************************************************************************)
(* The parsers of ntrig's traffic processes (http/ntg_http_parse.c) and    *)
(* what is done with their results: the status line, the header lines with *)
(* the three headers the program looks at (http/ntg_http_request.c), and   *)
(* the chunks of a body (http/ntg_http_discard.c).                         *)
(*                                                                         *)
(* A response is a sequence of symbols.  A symbol is one byte, except that *)
(* a word that the parsers handle like one letter is a single symbol:      *)
(* "close", "chunked", the names of headers ("content-length" is two).     *)
(* Parsers are resumed with the next bytes, so each is a step function     *)
(* from the fields of the request and one byte to the new fields; a buffer *)
(* is a fold of the step.  `rc' is "again" until the parser has a result,  *)
(* and the bytes behind it are left in `rest'.                             *)
(***************************************************************************)
EXTENDS Integers, Sequences, SequencesExt

CONSTANTS
  MaxOff,   \* NTG_MAX_OFF_T_VALUE
  LcLen     \* NTG_HTTP_LC_HEADER_LEN

ASSUME HttpParseAssumption == MaxOff \in Nat /\ LcLen \in Nat \ {0}

DigitSeq == <<"0", "1", "2", "3", "4", "5", "6", "7", "8", "9">>
HexSeq   == DigitSeq \o <<"a", "b", "c", "d", "e", "f">>
Digit    == Range(DigitSeq)
HexDigit == Range(HexSeq)
ValueOf(ch) == (CHOOSE i \in 1 .. 16 : HexSeq[i] = ch) - 1
Punctuation == {"/", ".", " ", "\t", ":", ";", "_", "CR", "LF", "NUL"}

\* The table `lowcase': bytes that can be in the name of a header.
Lowcase(ch) == ch \notin Punctuation

\* The fields of ntg_http_request_t that the parsers keep; keep is rq->keepalive, which
\* is not cleared between the responses on a connection.  statusN is headers_in.status_n, which
\* is cleared and never set: the status goes to upstream_state->status (`status') alone, and
\* the branches that look at status_n are dead.
Fresh(keep) ==
  [rc |-> "again", phase |-> "status", st |-> "start", rest |-> <<>>,
   major |-> 0, minor |-> 0, code |-> 0, count |-> 0, status |-> 0, statusN |-> 0,
   name |-> <<>>, low |-> <<>>, i |-> 0, value |-> <<>>, vend |-> 0,
   clen |-> 0, close |-> FALSE, chunked |-> FALSE, keep |-> keep,
   size |-> 0, saved |-> "chunk_start"]
-----------------------------------------------------------------------------
\* ntg_http_parse_status_line, one byte.  An answer without a status line is taken for
\* HTTP/0.9 (ntg_http_process_status_line).
Literal == [start |-> <<"H", "H">>, H |-> <<"T", "HT">>, HT |-> <<"T", "HTT">>,
            HTT |-> <<"P", "HTTP">>, HTTP |-> <<"/", "first_major_digit">>]

NoStatusLine(q) == [q EXCEPT !.rc = "ok", !.close = TRUE, !.status = 200]

\* ntg_http_process_status_line, the line is complete: the headers are next.
StatusLineDone(q) ==
  [q EXCEPT !.phase = "header", !.st = "start", !.status = IF @ = 0 THEN q.code ELSE @,
            !.close = @ \/ q.major * 1000 + q.minor < 1001]

StatusByte(q, ch) ==
  LET go(s) == [q EXCEPT !.st = s]
      v     == ValueOf(ch)
  IN CASE q.st \in DOMAIN Literal /\ Literal[q.st][1] = ch -> go(Literal[q.st][2])
       [] q.st = "first_major_digit" /\ ch \in Digit \ {"0"} -> [go("major_digit") EXCEPT !.major = v]
       [] q.st = "major_digit" /\ ch = "."                  -> go("first_minor_digit")
       [] q.st = "major_digit" /\ ch \in Digit              -> [q EXCEPT !.major = @ * 10 + v]
       [] q.st = "first_minor_digit" /\ ch \in Digit        -> [go("minor_digit") EXCEPT !.minor = v]
       [] q.st = "minor_digit" /\ ch = " "                  -> go("status")
       [] q.st = "minor_digit" /\ ch \in Digit              -> [q EXCEPT !.minor = @ * 10 + v]
       [] q.st = "status" /\ ch = " "                       -> q
       [] q.st = "status" /\ ch \in Digit ->
            [q EXCEPT !.code = @ * 10 + v, !.count = @ + 1,
                      !.st = IF q.count = 2 THEN "space_after_status" ELSE @]
       [] q.st = "space_after_status" /\ ch \in {" ", "."}  -> go("status_text")
       [] q.st \in {"space_after_status", "status_text"} /\ ch = "CR" -> go("almost_done")
       [] q.st = "status_text" /\ ch \notin {"CR", "LF"}    -> q
       [] q.st \in {"space_after_status", "status_text", "almost_done"} /\ ch = "LF" -> StatusLineDone(q)
       [] OTHER                                             -> NoStatusLine(q)
-----------------------------------------------------------------------------
\* ntg_atoof.
Atoof(v) ==
  LET value[n \in 0 .. Len(v)] == IF n = 0 THEN 0 ELSE value[n-1] * 10 + ValueOf(v[n])
  IN IF v = <<>> \/ \E n \in 1 .. Len(v) : v[n] \notin Digit THEN -1 ELSE value[Len(v)]

\* ntg_strlcasestrn(value, "close") and (value, "chunked").
HasWord(v, word) == word \in Range(v)

\* ntg_http_headers_in: strncasecmp compares the name in the table with as many bytes of
\* lowcase_header, which is not cut where the name of this header ends.
Matches(q, name) == IsPrefix(name, q.low)

HeadersIn(q) ==
  LET v  == SubSeq(q.value, 1, q.vend)
      q1 == IF Matches(q, <<"content", "-length">>) THEN [q EXCEPT !.clen = Atoof(v)] ELSE q
      q2 == IF Matches(q, <<"connection">>) /\ HasWord(v, "close") THEN [q1 EXCEPT !.close = TRUE] ELSE q1
  IN IF Matches(q, <<"transfer-encoding">>) /\ HasWord(v, "chunked") THEN [q2 EXCEPT !.chunked = TRUE] ELSE q2

\* ntg_http_process_header, the end of a header line and of the header.
HeaderLineDone(q) == [HeadersIn(q) EXCEPT !.st = "start"]
HeaderDone(q) ==
  [q EXCEPT !.rc = "ok", !.st = "start", !.clen = IF q.chunked THEN -1 ELSE @,
            !.keep = q.statusN # 101 /\ ~q.close]

\* r->lowcase_header[i++] = c; i &= NTG_HTTP_LC_HEADER_LEN - 1.
Low(q, k, c) ==
  [q EXCEPT !.low = IF k < Len(@) THEN [@ EXCEPT ![k + 1] = c] ELSE Append(@, c),
            !.i = (k + 1) % LcLen]

Text(q, ch)    == [q EXCEPT !.value = Append(@, ch)]
EndOfValue(q)  == [q EXCEPT !.vend = Len(q.value)]
NoValue(q)     == [q EXCEPT !.value = <<>>, !.vend = 0]
NameByte(q, k, ch) ==
  LET named == [q EXCEPT !.st = "name", !.name = Append(@, ch)]
  IN IF Lowcase(ch) THEN Low(named, k, ch) ELSE named

\* ntg_http_parse_header_line, one byte, underscores not allowed.
HeaderByte(q, ch) ==
  LET go(s)   == [q EXCEPT !.st = s]
      invalid == [q EXCEPT !.rc = "invalid"]
  IN CASE q.st = "start" /\ ch = "CR"  -> go("header_almost_done")
       [] q.st = "start" /\ ch = "LF"  -> HeaderDone(q)
       [] q.st = "start" /\ ch \notin {"CR", "LF", "NUL"} -> NameByte([q EXCEPT !.name = <<>>], IF Lowcase(ch) THEN 0 ELSE q.i, ch)
       [] q.st = "name" /\ ch = ":"    -> go("space_before_value")
       [] q.st = "name" /\ ch = "CR"   -> NoValue(go("almost_done"))
       [] q.st = "name" /\ ch = "LF"   -> HeaderLineDone(NoValue(q))
       [] q.st = "name" /\ ch = "/" /\ q.name = <<"H", "T", "T", "P">> -> go("ignore_line")
       [] q.st = "name" /\ ch \notin {":", "CR", "LF", "NUL"} /\ ~(ch = "/" /\ q.name = <<"H", "T", "T", "P">>) ->
            NameByte(q, q.i, ch)
       [] q.st = "space_before_value" /\ ch = " "  -> q
       [] q.st = "space_before_value" /\ ch = "CR" -> NoValue(go("almost_done"))
       [] q.st = "space_before_value" /\ ch = "LF" -> HeaderLineDone(NoValue(q))
       [] q.st = "space_before_value" /\ ch \notin {" ", "CR", "LF", "NUL"} -> Text(NoValue(go("value")), ch)
       [] q.st = "value" /\ ch = " "   -> Text(EndOfValue(go("space_after_value")), ch)
       [] q.st = "value" /\ ch = "CR"  -> EndOfValue(go("almost_done"))
       [] q.st = "value" /\ ch = "LF"  -> HeaderLineDone(EndOfValue(q))
       [] q.st = "value" /\ ch \notin {" ", "CR", "LF", "NUL"} -> Text(q, ch)
       [] q.st = "space_after_value" /\ ch = " "  -> Text(q, ch)
       [] q.st = "space_after_value" /\ ch = "CR" -> go("almost_done")
       [] q.st = "space_after_value" /\ ch = "LF" -> HeaderLineDone(q)
       [] q.st = "space_after_value" /\ ch \notin {" ", "CR", "LF", "NUL"} -> Text(go("value"), ch)
       [] q.st = "ignore_line"         -> IF ch = "LF" THEN go("start") ELSE q
       [] q.st = "almost_done" /\ ch = "CR" -> q
       [] q.st = "almost_done" /\ ch = "LF" -> HeaderLineDone(q)
       [] q.st = "header_almost_done" /\ ch = "LF" -> HeaderDone(q)
       [] OTHER                        -> invalid

\* rq->process_header over what recv returned.
HeaderStep(q, ch) ==
  CASE q.rc # "again"      -> [q EXCEPT !.rest = Append(@, ch)]
    [] q.phase = "status"  -> StatusByte(q, ch)
    [] OTHER               -> HeaderByte(q, ch)

ProcessHeader(q, bytes) == FoldLeft(HeaderStep, q, bytes)
-----------------------------------------------------------------------------

\* The next digit would not fit.
TooBig(q) == q.size > MaxOff \div 16

\* ntg_http_parse_chunked and the loop of ntg_http_discard_request_body_filter around it,
\* one byte.  The state is stored where the parser returns; an invalid byte returns
\* without storing it, while the size has been written in place.
ChunkByte(q, ch) ==
  LET go(s)   == [q EXCEPT !.st = s]
      again   == IF q.saved = "chunk_data" /\ q.size = 0 THEN "after_data" ELSE q.saved
      invalid == [q EXCEPT !.rc = "invalid", !.st = again]
      size    == q.size * 16 + ValueOf(ch)
  IN CASE q.st = "chunk_start" /\ ch \in HexDigit -> [go("chunk_size") EXCEPT !.size = ValueOf(ch)]
       [] q.st = "chunk_size" /\ TooBig(q) -> invalid
       [] q.st = "chunk_size" /\ ~TooBig(q) /\ ch \in HexDigit -> [q EXCEPT !.size = size]
       [] q.st = "chunk_size" /\ ~TooBig(q) /\ ch = "CR" ->
            go(IF q.size = 0 THEN "last_chunk_extension_almost_done" ELSE "chunk_extension_almost_done")
       [] q.st = "chunk_size" /\ ~TooBig(q) /\ ch = "LF" ->
            IF q.size = 0 THEN go("trailer") ELSE go("chunk_data")
       [] q.st = "chunk_size" /\ ~TooBig(q) /\ ch \in {";", " ", "\t"} ->
            go(IF q.size = 0 THEN "last_chunk_extension" ELSE "chunk_extension")
       [] q.st = "chunk_extension"      -> CASE ch = "CR" -> go("chunk_extension_almost_done")
                                             [] ch = "LF" -> go("chunk_data")
                                             [] OTHER     -> q
       [] q.st = "chunk_extension_almost_done" /\ ch = "LF" -> go("chunk_data")
       [] q.st = "chunk_data" /\ q.size > MaxOff - 5 -> [q EXCEPT !.rc = "invalid", !.saved = "chunk_data"]
       [] q.st = "chunk_data" /\ q.size <= MaxOff - 5 ->
            [q EXCEPT !.size = @ - 1, !.saved = "chunk_data", !.st = IF q.size = 1 THEN "after_data" ELSE @]
       [] q.st = "after_data"           -> CASE ch = "CR" -> go("after_data_almost_done")
                                             [] ch = "LF" -> go("chunk_start")
                                             [] OTHER     -> q
       [] q.st = "after_data_almost_done" /\ ch = "LF" -> go("chunk_start")
       [] q.st = "last_chunk_extension" -> CASE ch = "CR" -> go("last_chunk_extension_almost_done")
                                             [] ch = "LF" -> go("trailer")
                                             [] OTHER     -> q
       [] q.st = "last_chunk_extension_almost_done" /\ ch = "LF" -> go("trailer")
       [] q.st = "trailer" /\ ch = "CR" -> go("trailer_almost_done")
       [] q.st \in {"trailer", "trailer_almost_done"} /\ ch = "LF" -> [q EXCEPT !.rc = "done", !.st = "chunk_start"]
       [] q.st = "trailer" /\ ch \notin {"CR", "LF"} -> go("trailer_header")
       [] q.st = "trailer_header"       -> CASE ch = "CR" -> go("trailer_header_almost_done")
                                             [] ch = "LF" -> go("trailer")
                                             [] OTHER     -> q
       [] q.st = "trailer_header_almost_done" /\ ch = "LF" -> go("trailer")
       [] OTHER                         -> invalid

ChunkStep(q, ch) == IF q.rc # "again" THEN q ELSE ChunkByte(q, ch)

\* Mutant: the line end behind the data of a chunk is forgotten.
ChunkLengthShort(q) ==
  CASE q.st = "chunk_start" -> 3
    [] q.st = "chunk_size"  -> IF q.size > 0 THEN 1 + q.size + 4 ELSE 2
    [] q.st \in {"chunk_extension", "chunk_extension_almost_done"} -> 1 + q.size + 4
    [] q.st = "chunk_data"  -> q.size
    [] q.st \in {"after_data", "after_data_almost_done"} -> 0
    [] q.st \in {"trailer", "trailer_almost_done"} -> 1
    [] OTHER -> 2

\* Mutant: line ends are counted as two bytes.
ChunkLengthCrLf(q) ==
  CASE q.st = "chunk_start" -> 5
    [] q.st = "chunk_size"  -> IF q.size > 0 THEN 2 + q.size + 7 ELSE 4
    [] q.st \in {"chunk_extension", "chunk_extension_almost_done"} -> 2 + q.size + 7
    [] q.st = "chunk_data"  -> q.size + 7
    [] q.st \in {"after_data", "after_data_almost_done"} -> 7
    [] OTHER -> 2

\* ctx->length: how much is still to come at least.
ChunkLength(q) ==
  CASE q.st = "chunk_start" -> 3
    [] q.st = "chunk_size"  -> IF q.size > 0 THEN 1 + q.size + 4 ELSE 2
    [] q.st \in {"chunk_extension", "chunk_extension_almost_done"} -> 1 + q.size + 4
    [] q.st = "chunk_data"  -> q.size + 4
    [] q.st \in {"after_data", "after_data_almost_done"} -> 4
    [] q.st \in {"trailer", "trailer_almost_done"} -> 1
    [] OTHER -> 2

\* ntg_http_discard_request_body_filter.  What is behind the body is dropped.
FilterChunked(q, bytes) ==
  LET p == FoldLeft(ChunkStep, [q EXCEPT !.rc = "again", !.saved = q.st], bytes)
  IN CASE p.rc = "done"    -> [p EXCEPT !.clen = 0, !.keep = ~q.close]
       [] p.rc = "again" /\ p.size <= MaxOff - 5 -> [p EXCEPT !.clen = ChunkLength(p)]
       [] OTHER            -> [p EXCEPT !.rc = "invalid"]

FilterPlain(q, n) ==
  IF n > q.clen THEN [q EXCEPT !.clen = 0, !.keep = ~q.close] ELSE [q EXCEPT !.clen = @ - n]

Filter(q, bytes) == IF q.chunked THEN FilterChunked(q, bytes) ELSE FilterPlain(q, Len(bytes))
=============================================================================
