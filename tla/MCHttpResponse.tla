--------------------------- MODULE MCHttpResponse ---------------------------
(***************************************************************************)
(* The responses TLC feeds to HttpResponse.                                *)
(***************************************************************************)
EXTENDS HttpResponse

Wire == INSTANCE HttpWire

CRLF == <<"CR", "LF">>
LF   == <<"LF">>

HeaderSets == {<<>>, <<"other">>, <<"length">>, <<"close", "length">>, <<"alive", "again", "length">>,
               <<"chunked">>, <<"chunked", "close">>, <<"length", "chunked">>}

Lengths == {<<0, <<"0">>>>, <<3, <<"3">>>>, <<33, <<"3", "3">>>>}

Chunks == {<<>>,
           <<[size |-> <<"1">>, n |-> 1, ext |-> FALSE], [size |-> <<"0", "a">>, n |-> 10, ext |-> TRUE]>>}

Statuses == {<<200, <<"2", "0", "0">>>>, <<204, <<"2", "0", "4">>>>,
             <<304, <<"3", "0", "4">>>>, <<404, <<"4", "0", "4">>>>}

Plain ==
  {[code |-> s[1], digits |-> s[2], minor |-> v, text |-> t, eol |-> e, headers |-> h, n |-> l[1], len |-> l[2],
    chunks |-> c, trailer |-> tr, bad |-> <<>>] :
      s \in Statuses, v \in {"0", "1"}, t \in {<<>>, <<" ", "x">>}, e \in {CRLF, LF}, h \in HeaderSets,
      l \in Lengths, c \in Chunks, tr \in BOOLEAN}

WellFormedMessages ==
  {m \in Plain : /\ m.n = 0 \/ "length" \in Range(m.headers)
                 /\ (m.chunks = <<>> /\ ~m.trailer) \/ "chunked" \in Range(m.headers)
                 /\ m.text = <<>> <=> m.minor = "1"
                 /\ ("chunked" \in Range(m.headers)) => m.n # 33
                 /\ m.code # 200 => m.minor = "1" /\ m.eol = CRLF /\ ~m.trailer}

\* One byte of a response is another one.
Broken ==
  {[m EXCEPT !.bad = <<k, ch>>] :
      m \in {w \in WellFormedMessages : w.code = 200 /\ w.minor = "1" /\ w.eol = CRLF /\ w.n < 33
                                        /\ Len(w.headers) = 1 /\ ~w.trailer},
      k \in 1 .. 25, ch \in {"NUL", "f"}}

MCMessages == WellFormedMessages \cup {m \in Broken : m.bad[1] <= Len(Wire!Header(m) \o Wire!Body(m))}
=============================================================================
