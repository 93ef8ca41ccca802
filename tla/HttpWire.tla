------------------------------ MODULE HttpWire ------------------------------
(***************************************************************************)
(* Responses as a server sends them: a message is a record of what the     *)
(* server means, Encode its bytes (the symbols of HttpParse).              *)
(***************************************************************************)
EXTENDS Integers, Sequences, SequencesExt

\* The symbols of each header line; a blank is put before and behind a value.
HeaderLine(m, h) ==
  CASE h = "length"  -> <<"content", "-length", ":", " ">> \o m.len \o <<" ">>
    [] h = "close"   -> <<"connection", ":", "close">>
    [] h = "alive"   -> <<"connection", ":", "keep", " ", "alive">>
    [] h = "chunked" -> <<"transfer-encoding", ":", "gzip", ";", "chunked">>
    [] h = "again"   -> <<"H", "T", "T", "P", "/", "1">>
    [] h = "other"   -> <<"_", "x", ":">>

Chunk(m, c) == c.size \o (IF c.ext THEN <<";", "x">> ELSE <<>>) \o m.eol

Data(n) == [k \in 1 .. n |-> "x"]

\* RFC 2616, 4.4: these have no body, whatever their headers say (a 304 may have the length
\* of what it stands for).
Bodiless(m)  == m.code \in {204, 304}
Announces(m) == Bodiless(m) /\ ("chunked" \in Range(m.headers) \/ ("length" \in Range(m.headers) /\ m.n > 0))

Body(m) ==
  LET chunk(c) == Chunk(m, c) \o Data(c.n) \o m.eol
      last     == <<"0">> \o m.eol \o (IF m.trailer THEN <<"x">> \o m.eol ELSE <<>>) \o m.eol
  IN CASE Bodiless(m)                    -> <<>>
       [] "chunked" \in Range(m.headers) -> FoldLeft(LAMBDA s, c : s \o chunk(c), <<>>, m.chunks) \o last
       [] "length" \in Range(m.headers)  -> Data(m.n)
       [] OTHER                          -> <<>>

Header(m) ==
  <<"H", "T", "T", "P", "/", "1", ".", m.minor, " ">> \o m.digits \o m.text \o m.eol
    \o FoldLeft(LAMBDA s, h : s \o HeaderLine(m, h) \o m.eol, <<>>, m.headers) \o m.eol

\* m.bad is <<>>, or a position and the byte that stands there.
Encode(m) ==
  LET s == Header(m) \o Body(m)
  IN IF m.bad = <<>> THEN s ELSE [s EXCEPT ![m.bad[1]] = m.bad[2]]
=============================================================================
