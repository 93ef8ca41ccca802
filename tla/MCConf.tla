------------------------------- MODULE MCConf -------------------------------
(***************************************************************************)
(* The configuration files TLC gives to Conf: all short texts over the      *)
(* bytes the reader tells apart, and longer ones for what directives mean.  *)
(* The names of directives are single letters (Cmd in Conf).                *)
(***************************************************************************)
EXTENDS Conf

Alphabet == {" ", "\n", ";", "{", "}", "#", "\"", "\\", "u"}
Short    == UNION {[1 .. n -> Alphabet] : n \in 0 .. 4}

\* The included files: one with a directive, one that opens and one that closes a block, one
\* that includes itself.
Files(m) ==
  [main |-> m,
   f    |-> <<"n", " ", "7", ";", "#", "c", "c", "\n", "t", " ", "1", "m", "9", "s", ";">>,
   h    |-> <<"u", "{">>,
   k    |-> <<"}">>,
   j    |-> <<"i", " ", "j", ";">>]

Order == [f |-> 1, h |-> 2, j |-> 3, k |-> 4, main |-> 0]

Longer == {
  <<"i", " ", "f", ";", "d", " ", "o", ";">>,
  <<"u", "{", "i", " ", "f", ";", "}">>,
  <<"u", "{", "i", " ", "k", ";", "}">>,
  <<"u", " ", "{", "w", " ", "5", ";", "m", " ", "3", ";", "x", " ", "d", ";", "s", " ", "r", ";", "}", "n", " ", "1", ";">>,
  <<"i", " ", "h", ";", "}">>,
  <<"i", " ", "j", ";">>,
  <<"i", " ", "*", ";">>,
  <<"n", " ", "3", "0", "0", "0", ";">>,
  <<"n", " ", "3", "0", "0", "0", "0", "0", "0", ";", "q", " ", "9", ";">>,
  <<"t", " ", "1", "7", "m", "3", "0", "s", ";">>,
  <<"t", " ", "1", "7", "m", "2", "8", "m", "s", ";">>,
  <<"t", " ", "1", "0", "4", "8", "s", "5", "7", "5", "m", "s", ";">>,
  <<"t", " ", "1", "0", "4", "8", "s", "5", "7", "6", "m", "s", ";">>,
  <<"t", " ", "\"", "9", " ", "9", "\"", ";", "t", " ", "1", ";">>,
  <<"c", " ", "2", "k", ";", "c", " ", "1", ";">>,
  <<"c", " ", "9", "9", "9", "9", "k", ";">>,
  <<"y", " ", "0", ";", "y", " ", "-", "5", ";", "y", " ", "1", ";">>,
  <<"l", " ", "0", " ", "2", "0", "0", "0", ";", "l", " ", "1", " ", "2", "0", "0", "0", ";">>,
  <<"y", " ", "-", "0", ";", "y", " ", "-", "0", ";", "y", " ", "2", ";">>,
  <<"l", " ", "\"", "\"", " ", "2", "0", "0", "0", ";", "l", " ", "\"", "\"", " ", "2", "0", "0", "1", ";">>,
  <<"p", " ", "\"", "\"", ";", "i", " ", "f", ";", "n", " ", "8", ";">>,
  <<"a", " ", "0", " ", "1", " ", "6", "5", ";">>,
  <<"b", " ", "a", " ", "a", " ", "1", " ", "a", " ", "a", " ", "a", ";", "p", " ", "'", "a", "$", "{", "'", ";">>,
  <<"v", " ", "a", "=", "b", ";", "v", " ", "b", ";", "e", " ", "a", ";">>,
  <<"r", " ", "a", ";", "r", " ", "a", " ", "b", ";">>,
  <<"g", " ", "a", ";", "g", " ", "a", " ", "8", ";", "g", " ", "b", " ", "j", " ", "k", ";", "g", " ", "c", " ", "6", ";">>,
  <<"p", " ", "a", "\\", "n", "$", "{", ")", ";">>,
  <<"p", " ", "\"", "a", "\"", ")", ";">>
}

Input(p, m, b, root) == [param |-> p, files |-> Files(m), order |-> Order, bufsize |-> b, root |-> root]

Inputs ==
  {Input(<<>>, m, 2, TRUE) : m \in Short} \cup {Input(<<>>, m, b, b = 4) : m \in Longer, b \in {4, 9}} \cup
  {Input(p, <<"n", " ", "2", ";">>, 4, FALSE) :
     p \in {<<"n", " ", "1", ";">>, <<"d", " ", "f", ";">>, <<"u", "{", "}">>, <<"i", " ", "f", ";">>, <<"d">>}}
=============================================================================
