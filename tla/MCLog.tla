-------------------------------- MODULE MCLog -------------------------------
(***************************************************************************)
(* What TLC gives to Log: messages of every length around the limits of    *)
(* the buffer; a chain of logs whose disks fill and get room again; and    *)
(* the first and last day of every month of 140 years.                     *)
(***************************************************************************)
EXTENDS Log

Text(n) == [i \in 1 .. n |-> "x"]

LevelNames == [l \in 0 .. 8 |-> Text(IF l = 0 THEN 0 ELSE 3 + (l % 2))]
ErrorTexts == [e \in 0 .. 5 |-> Text(3 * e)]
NoSuchText == Text(6)

Request(l, f, e) == [level |-> l, fmt |-> f, err |-> e]

\* Every kind of directive, also with less room than it needs.
Kinds == {Dec(-7), Num(42, 5, "0"), Hex(171, 0, " "), Float(-1250, 2), Float(999, 0), Pointer, StrN(Text(4), 2)}

Texts ==
  {Request(4, <<Str(Text(n))>>, e) : n \in 0 .. 40, e \in {0, 1, 5, 99, -1}} \cup
  {Request(l, <<Str(Text(n)), d, Ch("z")>>, e) : l \in {0, 5, 6}, n \in {0, 27, 28, 29, 30, 31, 32}, d \in Kinds, e \in {0, 5}}

Writing == [day |-> 16800, second |-> 60, zones |-> {0}, logs |-> <<[level |-> 6, file |-> "a"]>>, disks |-> {},
            requests |-> Texts, ticks |-> 0, once |-> TRUE]

Chain == [day |-> 16800, second |-> 86398, zones |-> {0, -90}, ticks |-> 3,
          logs |-> <<[level |-> 8, file |-> "a"], [level |-> 5, file |-> "stderr"], [level |-> 4, file |-> "b"]>>,
          disks |-> {"a", "b"}, requests |-> {Request(l, <<Ch("m")>>, 0) : l \in {2, 5, 7}}, once |-> FALSE]

\* The day before the first of each month: midnight is passed.
MonthEnds == {YearStart(1970 + (m \div 12)) + DaysBeforeMonth(1970 + (m \div 12), 1 + (m % 12)) - 1 : m \in 1 .. 140 * 12}

Calendars ==
  {[day |-> d, second |-> 86398, zones |-> {330}, logs |-> <<>>, disks |-> {}, requests |-> {}, ticks |-> 2, once |-> FALSE] : d \in MonthEnds}

MCScenarios == {Writing, Chain} \cup Calendars
=============================================================================
