------------------------------- MODULE Format -------------------------------
(***************************************************************************)
(* ntg_vslprintf (utils/ntg_string.c): text is formatted into a buffer     *)
(* that ends at `last' and is cut there.  A buffer is the sequence of the  *)
(* bytes written so far, a format the sequence of its directives, each     *)
(* with its argument:                                                      *)
(*   char   a plain character, %c, %%, %N and %Z                           *)
(*   str    %s, %V and %v, or the first n bytes of it with %*s             *)
(*   num    %d, %i, %z, %l, %P ..., with a width, a padding and a base     *)
(*   float  %f, in thousandths                                             *)
(*   none   %p and %A, whose argument is not taken                         *)
(***************************************************************************)
EXTENDS Integers, Sequences, SequencesExt

NoLimit == 1000000    \* (void *) -1

Ch(c)               == [k |-> "char", c |-> c]
Str(s)              == [k |-> "str", s |-> s, n |-> Len(s)]
StrN(s, n)          == [k |-> "str", s |-> s, n |-> n]
Num(v, width, zero) == [k |-> "num", v |-> v, width |-> width, zero |-> zero, base |-> 10]
Hex(v, width, zero) == [Num(v, width, zero) EXCEPT !.base = 16]
Dec(v)              == Num(v, 0, " ")
Pad2(v)             == Num(v, 2, "0")
Float(v, frac)      == [k |-> "float", v |-> v, frac |-> frac]
Pointer             == [k |-> "none"]

DigitSeq == <<"0", "1", "2", "3", "4", "5", "6", "7", "8", "9", "a", "b", "c", "d", "e", "f">>

\* The digits, least significant first, put in front of each other.
Digits(v, base) ==
  LET text[n \in Nat] == IF n < base THEN <<DigitSeq[n + 1]>> ELSE Append(text[n \div base], DigitSeq[(n % base) + 1])
  IN text[v]

\* The first n bytes of s, if it has as many.
Upto(s, n) == SubSeq(s, 1, IF n < Len(s) THEN n ELSE Len(s))

\* As much of s as there is room for.
Put(buf, last, s) == buf \o Upto(s, last - Len(buf))

\* ntg_sprintf_num: padding up to the width, then the number.
SprintfNum(buf, last, v, zero, base, width) ==
  LET text == Digits(v, base)
      pad  == [i \in 1 .. width - Len(text) |-> zero]
  IN Put(Put(buf, last, pad), last, text)

\* The minus is written without a check: there is room for one byte.
Signed(buf, last, v, zero, base, width) ==
  IF v < 0 THEN SprintfNum(Append(buf, "-"), last, -v, zero, base, width) ELSE SprintfNum(buf, last, v, zero, base, width)

\* The integral part, a point, and frac digits of the rest, rounded.
SprintfFloat(buf, last, v, frac) ==
  LET abs   == IF v < 0 THEN -v ELSE v
      sign  == IF v < 0 THEN Append(buf, "-") ELSE buf
      whole == SprintfNum(sign, last, abs \div 1000, " ", 10, 0)
  IN IF frac = 0 THEN whole
     ELSE SprintfNum(Put(whole, last, <<".">>), last, ((abs % 1000) * 10^frac + 500) \div 1000, "0", 10, frac)

Directive(buf, last, d) ==
  CASE d.k = "char"  -> Append(buf, d.c)
    [] d.k = "str"   -> Put(buf, last, SubSeq(d.s, 1, d.n))
    [] d.k = "num"   -> Signed(buf, last, d.v, d.zero, d.base, d.width)
    [] d.k = "float" -> SprintfFloat(buf, last, d.v, d.frac)
    [] d.k = "none"  -> SprintfNum(buf, last, 0, " ", 10, 0)

\* The loop over the format ends when the buffer is full.
Vslprintf(buf, last, fmt) ==
  LET step(b, d) == IF Len(b) < last THEN Directive(b, last, d) ELSE b
  IN FoldLeft(step, buf, fmt)

Sprintf(fmt) == Vslprintf(<<>>, NoLimit, fmt)
=============================================================================
