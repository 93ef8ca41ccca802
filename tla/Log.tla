--------------------------------- MODULE Log --------------------------------
(***************************************************************************)
(* Messages (utils/ntg_log.c) and the cached time they begin with          *)
(* (ntg_times.c).  The time is read once per round of a process's loop,    *)
(* before it waits for events, and kept with its strings in a ring of      *)
(* slots.  A message is formatted into a buffer of a fixed size, written   *)
(* to the logs of the chain whose level admits it, and to the console.     *)
(***************************************************************************)
EXTENDS Format, Calendar

CONSTANTS
  Scenarios,   \* day, second, zones, logs (level and file), disks that may fill, requests, ticks; once: a single message
  MaxStr,      \* NTG_MAX_ERROR_STR
  Reserve,     \* 50 in ntg_log_errno
  NSlots,      \* NTG_TIME_SLOTS
  Pid,         \* ntg_log_pid
  Names,       \* err_levels
  Errors,      \* ntg_sys_errlist: what strerror says of 0 .. NTG_SYS_NERR - 1
  Unknown      \* "Unknown error"

ASSUME LogAssumption ==
  /\ MaxStr \in Nat /\ Reserve \in 1 .. MaxStr /\ NSlots \in Nat \ {0, 1}
  /\ Pid \in Nat /\ DOMAIN Errors \subseteq Nat

VARIABLES
  scene,
  clock, ticks,   \* the time of the system, and the seconds since the start
  ring,      \* cached_time and the cached strings
  slot,      \* the slot that was written last
  shown,     \* the slot ntg_cached_time and the strings point to
  zone,      \* the zone libc uses
  stage,     \* "main", "init" (ntg_init_cycle was entered), "cycle" (the process cycle)
  full,      \* files whose disk has no room
  fullAt,    \* disk_full_time of the logs
  failed,    \* logs that had a write fail since the cached second changed
  out        \* the last message and what became of it

vars == <<scene, clock, ticks, ring, slot, shown, zone, stage, full, fullAt, failed, out>>

Zero == At(0, 0)
None == [line |-> <<>>]
Warn == 5

Logs    == scene.logs
LogAt   == DOMAIN Logs
Console == "stderr"
Week    == <<"Sun", "Mon", "Tue", "Wed", "Thu", "Fri", "Sat">>
Months  == <<"Jan", "Feb", "Mar", "Apr", "May", "Jun", "Jul", "Aug", "Sep", "Oct", "Nov", "Dec">>
-----------------------------------------------------------------------------
(* The cached time.                                                        *)
-----------------------------------------------------------------------------
Hms(tm)   == <<Pad2(tm.clock.hour), Ch(":"), Pad2(tm.clock.min), Ch(":"), Pad2(tm.clock.sec)>>
Month(tm) == Str(<<Months[tm.mon]>>)
Day(tm)   == Str(<<Week[tm.wday + 1]>>)

Abs(n)       == IF n < 0 THEN -n ELSE n
Sign(off)    == Ch(IF off < 0 THEN "-" ELSE "+")
Hours(off)   == Pad2(Abs(off) \div 60)
Minutes(off) == Pad2(Abs(off) % 60)

\* The five strings of a second, from the time in GMT and in the zone.
Strings(gmt, tm, off) ==
  [http |-> Sprintf(<<Day(gmt), Ch(","), Ch(" "), Pad2(gmt.mday), Ch(" "), Month(gmt), Ch(" "), Num(gmt.year, 4, " "), Ch(" ")>>
                    \o Hms(gmt) \o <<Ch(" "), Str(<<"GMT">>)>>),
   err  |-> Sprintf(<<Num(tm.year, 4, " "), Ch("/"), Pad2(tm.mon), Ch("/"), Pad2(tm.mday), Ch(" ")>> \o Hms(tm)),
   log  |-> Sprintf(<<Pad2(tm.mday), Ch("/"), Month(tm), Ch("/"), Dec(tm.year), Ch(":")>> \o Hms(tm)
                    \o <<Ch(" "), Sign(off), Hours(off), Minutes(off)>>),
   iso  |-> Sprintf(<<Num(tm.year, 4, " "), Ch("-"), Pad2(tm.mon), Ch("-"), Pad2(tm.mday), Ch("T")>> \o Hms(tm)
                    \o <<Sign(off), Hours(off), Ch(":"), Minutes(off)>>),
   sys  |-> Sprintf(<<Month(tm), Ch(" "), Num(tm.mday, 2, " "), Ch(" ")>> \o Hms(tm))]

\* localtime of libc.
Localtime(t, z) == Civil(Shift(t, z))

Blank == [sec |-> Zero, text |-> [err |-> <<>>]]

NextSlot == IF slot = NSlots - 1 THEN 0 ELSE slot + 1

\* ntg_time_update: nothing but the milliseconds changes within a second.
TimeUpdate(r, z) ==
  /\ failed' = IF ring[shown].sec = clock THEN failed ELSE {}
  /\ IF r[slot].sec = clock THEN ring' = r /\ UNCHANGED <<slot, shown>>
     ELSE /\ slot' = NextSlot /\ shown' = NextSlot
          /\ ring' = [r EXCEPT ![NextSlot] = [sec |-> clock, text |-> Strings(Gmtime(clock), Localtime(clock, z), z)]]

\* ntg_time_init has run.
Init ==
  /\ scene \in Scenarios /\ clock = At(scene.day, scene.second) /\ ticks = 0
  /\ zone \in scene.zones /\ slot = 1 /\ shown = 1
  /\ ring = [[s \in 0 .. NSlots - 1 |-> Blank] EXCEPT
               ![1] = [sec |-> clock, text |-> Strings(Gmtime(clock), Localtime(clock, zone), zone)]]
  /\ stage = "main" /\ full = {} /\ fullAt = [i \in LogAt |-> Zero] /\ failed = {} /\ out = None

\* tp->sec = 0
Forced == [ring EXCEPT ![shown].sec = Zero]

\* The beginning of ntg_init_cycle: the zone is read again, and the strings are made anew.
InitCycle ==
  /\ stage = "main" /\ stage' = "init"
  /\ zone' \in scene.zones /\ TimeUpdate(Forced, zone')
  /\ UNCHANGED <<scene, clock, ticks, full, fullAt, out>>

\* ntg_use_stderr = 0 in main, before the process cycle.
UsesStderr == stage # "cycle"

EnterCycle ==
  /\ stage = "init" /\ stage' = "cycle"
  /\ UNCHANGED <<scene, clock, ticks, ring, slot, shown, zone, full, fullAt, failed, out>>

\* The top of a process's loop.
LoopTop ==
  /\ stage = "cycle" /\ TimeUpdate(ring, zone)
  /\ UNCHANGED <<scene, clock, ticks, zone, stage, full, fullAt, out>>

Tick ==
  /\ ticks < scene.ticks /\ ticks' = ticks + 1
  /\ clock' = At(clock.day + (clock.second + 1) \div DaySeconds, (clock.second + 1) % DaySeconds)
  /\ UNCHANGED <<scene, ring, slot, shown, zone, stage, full, fullAt, failed, out>>

\* A disk fills or gets room again.
Disk ==
  /\ \E f \in scene.disks : full' = IF f \in full THEN full \ {f} ELSE full \cup {f}
  /\ UNCHANGED <<scene, clock, ticks, ring, slot, shown, zone, stage, fullAt, failed, out>>
-----------------------------------------------------------------------------
(* The text of a message.                                                  *)
-----------------------------------------------------------------------------
Dots == <<".", ".", ".">>

\* Mutant: the message may leave no room for the error.
ReservedNothing(buf) == buf

\* Room for the error is made.
Reserved(buf) == IF Len(buf) > MaxStr - Reserve THEN SubSeq(buf, 1, MaxStr - Reserve) \o Dots ELSE buf

Strerror(err) == IF err \in DOMAIN Errors THEN Errors[err] ELSE Unknown

ErrorNumber(err) == <<Ch(" "), Ch("("), Dec(err), Ch(":"), Ch(" ")>>

LogErrno(buf, err) ==
  LET text == Put(Vslprintf(Reserved(buf), MaxStr, ErrorNumber(err)), MaxStr, Strerror(err))
  IN IF Len(text) < MaxStr THEN Append(text, ")") ELSE text

\* The message and its error behind `head', a linefeed at the end.
Line(head, fmt, err) ==
  LET text  == Vslprintf(head, MaxStr, fmt)
      whole == IF err = 0 THEN text ELSE LogErrno(text, err)
  IN Upto(whole, MaxStr - 1) \o <<"LF">>

Level(l)     == <<Ch("["), Str(Names[l]), Ch("]"), Ch(" ")>>
Program      == [i \in 1 .. 7 |-> Ch(<<"n", "t", "r", "i", "g", ":", " ">>[i])]
WithLevel(l) == Vslprintf(ring[shown].text.err, MaxStr, <<Ch(" ")>> \o Level(l))
HeadOf(l)    == Vslprintf(WithLevel(l), MaxStr, <<Dec(Pid), Ch(":"), Ch(" ")>>)

\* The copy for the console: the name of the program and the level are put in front of the message,
\* over what the log has there.
ConsoleCopy(line, head, l) ==
  LET over == Sprintf(Program \o Level(l))
      at   == head - (7 + Len(Names[l]) + 3)
      buf  == SubSeq(line, 1, at) \o over \o SubSeq(line, at + Len(over) + 1, Len(line))
  IN SubSeq(buf, at + 1, Len(buf))
-----------------------------------------------------------------------------
\* The logs of the chain up to the first whose level is lower.
Heard(l) == {i \in LogAt : \A j \in 1 .. i : Logs[j].level >= l}

\* A log is left alone for the second in which its disk was full.
Skipped(l) == {i \in Heard(l) : fullAt[i] = ring[shown].sec}

\* ntg_log_error_core, called through ntg_log_error.  A log with a writer (memory:) is one whose
\* file is neither the console nor ever full: the writer is called instead of write(), the disk
\* is not looked at, and the loop goes on to the next log.  Nothing in the program sets
\* log->handler, which would add to the line, nor NTG_LOG_DEBUG_CONNECTION in a log_level, which
\* would let the message pass every level: those two branches are not taken.
LogError(l, fmt, err) ==
  LET head    == HeadOf(l)
      line    == Line(head, fmt, err)
      tried   == Heard(l) \ Skipped(l)
      nospace == {i \in tried : Logs[i].file \in full}
      copied  == UsesStderr /\ l <= Warn /\ \A i \in tried : Logs[i].file # Console
  IN /\ Logs[1].level >= l
     /\ fullAt' = [i \in LogAt |-> IF i \in nospace THEN ring[shown].sec ELSE fullAt[i]]
     /\ failed' = failed \cup nospace
     /\ out' = [line |-> line, head |-> head, fmt |-> fmt, err |-> err,
                start |-> Sprintf(Program \o Level(l)),
                console |-> IF copied THEN ConsoleCopy(line, Len(head), l) ELSE <<>>]
     /\ UNCHANGED <<scene, clock, ticks, ring, slot, shown, zone, stage, full>>

\* ntg_log_stderr.
LogStderr(fmt, err) ==
  LET head == Sprintf(Program)
      line == Line(head, fmt, err)
  IN /\ out' = [line |-> line, head |-> head, fmt |-> fmt, err |-> err, start |-> head, console |-> line]
     /\ UNCHANGED <<scene, clock, ticks, ring, slot, shown, zone, stage, full, fullAt, failed>>

Next ==
  \/ InitCycle \/ EnterCycle \/ LoopTop \/ Tick \/ Disk
  \/ /\ scene.once => out = None
     /\ \E r \in scene.requests : LogError(r.level, r.fmt, r.err) \/ LogStderr(r.fmt, r.err)

Spec == Init /\ [][Next]_vars
-----------------------------------------------------------------------------
\* A line is never longer than the buffer and ends with its only linefeed.  It is the whole message, or as
\* much of it as fits; a message with an error is cut earlier, visibly, so that the number is there in any
\* case and only what the error means is cut (ntg_log_error_core, ntg_log_errno, ntg_vslprintf).  The console
\* shows the same message behind the name of the program.
LineWhole ==
  out # None =>
    LET text   == out.head \o Sprintf(out.fmt)
        line   == Front(out.line)
        cut(s) == line = s \/ (IsPrefix(line, s) /\ Len(out.line) = MaxStr)
        upto(j) == SubSeq(text, 1, j) \o (IF j < Len(text) THEN Dots ELSE <<>>) \o Sprintf(ErrorNumber(out.err))
    IN /\ Len(out.line) <= MaxStr /\ \A i \in DOMAIN out.line : out.line[i] = "LF" <=> i = Len(out.line)
       /\ out.err = 0 => cut(text)
       /\ out.err # 0 => \E j \in Len(out.head) .. Len(text) :
                           IsPrefix(upto(j), line) /\ cut(upto(j) \o Strerror(out.err) \o <<")">>)
       /\ out.console # <<>> => out.console = out.start \o SubSeq(out.line, Len(out.head) + 1, Len(out.line))

\* The strings in use are those of the cached second, in GMT by the calendar (ntg_gmtime), and in the zone
\* that was in force when ntg_init_cycle was entered; the time in a line is nineteen bytes, as its length
\* is fixed; and a log is skipped only in a cached second in which a write to it failed (disk_full_time).
TimesAgree ==
  LET s == ring[shown] IN
  /\ slot \in DOMAIN ring /\ shown = slot
  /\ s.text = Strings(Civil(s.sec), Localtime(s.sec, zone), zone)
  /\ Len(s.text.err) = 19
  /\ \A i \in LogAt : fullAt[i] = s.sec <=> i \in failed
=============================================================================
