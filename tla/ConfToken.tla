----------------------------- MODULE ConfToken -----------------------------
(***************************************************************************)
(* The token reader of the configuration parser, ntg_conf_read_token, one  *)
(* byte at a time, and the conversions of directive values (ntg_parse.c    *)
(* and the number functions of ntg_string.c).  A text is a sequence of     *)
(* one-character strings; directive names are one character long.          *)
(***************************************************************************)
EXTENDS Integers, Sequences, FiniteSets, FiniteSetsExt, TLC

CONSTANT MaxInt   \* NTG_MAX_INT_T_VALUE and NTG_MAX_OFF_T_VALUE

ASSUME MaxIntAssumption == MaxInt \in Nat \ {0}

Blank == {" ", "\t", "\r", "\n"}
-----------------------------------------------------------------------------
\* The locals of ntg_conf_read_token; positions are relative to the buffer.
Fresh(pos) ==
  [args |-> <<>>, start |-> pos, need |-> FALSE, last |-> TRUE, sharp |-> FALSE,
   variable |-> FALSE, quoted |-> FALSE, s |-> FALSE, d |-> FALSE]

More(t)     == [t |-> t, ret |-> "more"]
Ret(t, rc)  == [t |-> t, ret |-> rc]

\* The copy of a word with \" \' \\ \t \r \n replaced.
Unescape(w) ==
  LET u[i \in 1 .. Len(w) + 2] ==
        IF i > Len(w) THEN <<>>
        ELSE LET c == IF w[i] = "\\" /\ i < Len(w) THEN w[i + 1] ELSE "" IN
             CASE c \in {"\"", "'", "\\"} -> <<c>> \o u[i + 2]
               [] c = "t" -> <<"\t">> \o u[i + 2]
               [] c = "r" -> <<"\r">> \o u[i + 2]
               [] c = "n" -> <<"\n">> \o u[i + 2]
               [] OTHER   -> <<w[i]>> \o u[i + 1]
  IN u[1]

\* The word from `start' up to the byte before pos ends with ch.
Found(t, buf, pos, ch) ==
  Ret([t EXCEPT !.args = Append(@, Unescape(SubSeq(buf, t.start + 1, pos - 1)))],
      CASE ch = ";" -> "ok" [] ch = "{" -> "start" [] OTHER -> "more")

\* A byte outside a word.
GapByte(t, pos, ch) ==
  LET s == [t EXCEPT !.start = pos - 1] IN
  CASE ch \in Blank      -> More(t)
    [] ch \in {";", "{"} -> Ret(s, IF t.args = <<>> THEN "error" ELSE IF ch = "{" THEN "start" ELSE "ok")
    [] ch = "}"          -> Ret(s, IF t.args # <<>> THEN "error" ELSE "done")
    [] ch = "#"          -> More([s EXCEPT !.sharp = TRUE])
    [] ch = "\\"         -> More([s EXCEPT !.quoted = TRUE, !.last = FALSE])
    [] ch = "\""         -> More([s EXCEPT !.start = pos, !.d = TRUE, !.last = FALSE])
    [] ch = "'"          -> More([s EXCEPT !.start = pos, !.s = TRUE, !.last = FALSE])
    [] OTHER             -> More([s EXCEPT !.last = FALSE])

\* A byte inside a word.
WordByte(t, buf, pos, ch) ==
  LET v == [t EXCEPT !.variable = FALSE] IN
  CASE ch = "{" /\ t.variable -> More(t)
    [] ch = "\\" -> More([v EXCEPT !.quoted = TRUE])
    [] ch = "$"  -> More([v EXCEPT !.variable = TRUE])
    [] t.d /\ ch \notin {"\\", "$"} ->
         IF ch = "\"" THEN Found([v EXCEPT !.d = FALSE, !.need = TRUE], buf, pos, ch) ELSE More(v)
    [] ~t.d /\ t.s /\ ch \notin {"\\", "$"} ->
         IF ch = "'" THEN Found([v EXCEPT !.s = FALSE, !.need = TRUE], buf, pos, ch) ELSE More(v)
    [] ~t.d /\ ~t.s /\ ~(ch = "{" /\ t.variable) /\ ch \in Blank \cup {";", "{"} ->
         Found([v EXCEPT !.last = TRUE], buf, pos, ch)
    [] OTHER -> More(v)

\* The byte before pos.
ReadByte(tok, buf, pos) ==
  LET ch == buf[pos]
      t  == IF ch = "\n" THEN [tok EXCEPT !.sharp = FALSE] ELSE tok
      n  == [t EXCEPT !.last = TRUE, !.need = FALSE]
      u  == IF t.need THEN n ELSE t
  IN CASE t.sharp  -> More(t)
       [] ~t.sharp /\ t.quoted -> More([t EXCEPT !.quoted = FALSE])
       [] ~t.sharp /\ ~t.quoted /\ t.need /\ ch # ")" ->
            CASE ch \in Blank -> More(n) [] ch = ";" -> Ret(t, "ok")
              [] ch = "{" -> Ret(t, "start") [] OTHER -> Ret(t, "error")
       [] OTHER -> IF u.last THEN GapByte(u, pos, ch) ELSE WordByte(u, buf, pos, ch)

\* The end of the text.
AtEnd(t) == IF t.args # <<>> \/ ~t.last THEN "error" ELSE "eof"
-----------------------------------------------------------------------------
Err == -1

Digits == [c \in {"0", "1", "2", "3", "4", "5", "6", "7", "8", "9"} |->
            CHOOSE n \in 0 .. 9 : ToString(n) = c]

\* Signed integers of the width of MaxInt.
Wrap(v) == ((v + MaxInt + 1) % (2 * (MaxInt + 1))) - (MaxInt + 1)

\* ntg_atoi, ntg_atoof: every step wraps, only the sign of the result is tested.
Atoi(w) ==
  LET v[i \in 0 .. Len(w)] == IF i = 0 THEN 0 ELSE Wrap(v[i - 1] * 10 + Digits[w[i]])
  IN IF w = <<>> \/ \E i \in DOMAIN w : w[i] \notin DOMAIN Digits THEN Err
     ELSE IF v[Len(w)] < 0 THEN Err ELSE v[Len(w)]

\* ntg_parse_offset; the byte before an empty word never makes a number of it.
Scale(unit) ==
  CASE unit \in {"K", "k"} -> 1024 [] unit \in {"M", "m"} -> 1024 * 1024
    [] unit \in {"G", "g"} -> 1024 * 1024 * 1024 [] OTHER -> 1

ParseOffset(w) ==
  LET s == IF w = <<>> THEN 1 ELSE Scale(w[Len(w)])
      n == Atoi(IF s = 1 THEN w ELSE SubSeq(w, 1, Len(w) - 1))
  IN IF n = Err \/ n > MaxInt \div s THEN Err ELSE n * s
-----------------------------------------------------------------------------
\* The units of a time in the order they may appear, in seconds (ms: in milliseconds).
Units == [w |-> [step |-> 3, scale |-> 604800], d |-> [step |-> 4, scale |-> 86400],
          h |-> [step |-> 5, scale |-> 3600], m |-> [step |-> 6, scale |-> 60],
          s |-> [step |-> 7, scale |-> 1]]

\* Mutant: the sum of the parts is not bounded.
TooMuchAlone(total, v) == FALSE

TooMuch(total, v) == total > MaxInt - v

\* A part of a time that ends before i: it is added, or the time is refused.  Blanks follow.
AddPart(w, p, scale, before, step, i) ==
  IF p.step >= before \/ p.value > MaxInt \div scale \/ TooMuch(p.total, p.value * scale)
  THEN [p EXCEPT !.ok = FALSE]
  ELSE [p EXCEPT !.step = step, !.total = Wrap(@ + p.value * scale), !.value = 0,
                 !.i = Min({j \in i .. Len(w) + 1 : j = Len(w) + 1 \/ w[j] # " "})]

\* ntg_parse_time(line, 0): a number without a unit is in seconds.
TimeStep(w, p) ==
  LET c == w[p.i]
      ms == c = "m" /\ p.i < Len(w) /\ w[p.i + 1] = "s"
  IN CASE c \in DOMAIN Digits ->
            IF p.value >= MaxInt \div 10 /\ (p.value > MaxInt \div 10 \/ Digits[c] > MaxInt % 10)
            THEN [p EXCEPT !.ok = FALSE]
            ELSE [p EXCEPT !.value = @ * 10 + Digits[c], !.valid = TRUE, !.i = @ + 1]
       [] ms      -> AddPart(w, p, 1, 8, 8, p.i + 2)
       [] c = " " -> AddPart(w, p, 1000, 7, 9, p.i + 1)
       [] c \in DOMAIN Units /\ ~ms -> AddPart(w, p, Units[c].scale * 1000, Units[c].step, Units[c].step, p.i + 1)
       [] OTHER -> [p EXCEPT !.ok = FALSE]

ParseTime(w) ==
  LET st[k \in 0 .. Len(w)] ==
        IF k = 0 THEN [i |-> 1, value |-> 0, total |-> 0, step |-> 2, valid |-> FALSE, ok |-> TRUE]
        ELSE LET p == st[k - 1] IN IF p.ok /\ p.i <= Len(w) THEN TimeStep(w, p) ELSE p
      e == st[Len(w)]
  IN IF ~e.ok \/ ~e.valid \/ e.value > MaxInt \div 1000 \/ TooMuch(e.total, e.value * 1000)
     THEN Err ELSE Wrap(e.total + e.value * 1000)
-----------------------------------------------------------------------------
\* What a time means: each digit counts by its place and by the unit after it.
UnitAt(w, i) == Min({j \in i .. Len(w) + 1 : j = Len(w) + 1 \/ w[j] \notin DOMAIN Digits})

Meaning(w, scale(_, _)) ==
  LET d == {i \in DOMAIN w : w[i] \in DOMAIN Digits}
      j(i) == UnitAt(w, i)
  IN MapThenSumSet(LAMBDA i : Digits[w[i]] * 10 ^ (j(i) - 1 - i) * scale(w, j(i)), d)

Milliseconds(w, j) ==
  IF j > Len(w) THEN 1000
  ELSE IF w[j] = " " THEN 1000
  ELSE IF w[j] = "m" /\ j < Len(w) /\ w[j + 1] = "s" THEN 1 ELSE Units[w[j]].scale * 1000
=============================================================================
