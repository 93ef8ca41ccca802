-------------------------------- MODULE Conf --------------------------------
(***************************************************************************)
(* The configuration parser (utils/ntg_conf_file.c) with the directives of *)
(* the core module (ntrig.c), the error log (utils/ntg_log.c) and the user *)
(* module (user/ntg_user.c): ntg_init_cycle parses the -g parameter and    *)
(* then the configuration file; ntg_conf_parse calls itself for a block    *)
(* and through ntg_conf_include for an included file.  The calls are the   *)
(* stack `frames', the chain of saved cf->conf_file is the stack `cfs'.    *)
(***************************************************************************)
EXTENDS ConfToken, SequencesExt

CONSTANTS
  Sources,   \* the inputs: the -g parameter, the texts of the files and their order, whether
             \* the process is privileged, and the size of the buffer (NTG_CONF_BUFFER)
  MaxFd,     \* descriptors the process may have open
  Faults     \* what may fail: "alloc" (memory), "open", "read" (pread), "user" (an unknown user)

ASSUME ConfAssumption == MaxFd \in Nat /\ \A i \in Sources : i.bufsize \in Nat \ {0}

VARIABLES
  src,       \* the input
  pc,        \* "param", "main", "open", "read", "token", "return", "end"
  frames,    \* the calls of ntg_conf_parse and of ntg_conf_include
  cfs,       \* the conf_file objects, the last one is cf->conf_file
  fds, bufs, \* files and buffers that are open
  ctx,       \* cf->module_type and cf->cmd_type
  tok, ret,  \* the locals and the result of ntg_conf_read_token
  from,      \* where the token began in the text
  rc,        \* the result of the call that returns
  slots,     \* the values of the directives
  given,     \* directives that were accepted, in order: name, words and value
  logs, opened

vars == <<src, pc, frames, cfs, fds, bufs, ctx, tok, ret, from, rc, slots, given, logs, opened>>

\* A directive: the function that sets it, its place, whether a block follows, and how many words it has.
Directive(set, place, block, args) == [set |-> set, place |-> place, block |-> block, args |-> args]

\* argument_number
Take(n) == {n + 1}
More1   == 2 .. 99
Flag    == Take(1)

CoreCommands ==
  [d |-> Directive("flag", "main", FALSE, Flag),            \* daemon, master_process
   n |-> Directive("workers", "main", FALSE, Take(1)),      \* worker_processes
   q |-> Directive("num", "main", FALSE, Take(1)),          \* consume_num, worker_rlimit_nofile
   t |-> Directive("msec", "main", FALSE, Take(1)),         \* timer_resolution
   c |-> Directive("off", "main", FALSE, Take(1)),          \* worker_rlimit_core
   p |-> Directive("str", "main", FALSE, Take(1)),          \* pid, lock_file, working_directory
   e |-> Directive("enum", "main", FALSE, Take(1)),         \* debug_points
   y |-> Directive("priority", "main", FALSE, Take(1)),     \* worker_priority
   a |-> Directive("affinity", "main", FALSE, More1),       \* worker_cpu_affinity
   l |-> Directive("front", "main", FALSE, Take(2)),        \* listen_address
   b |-> Directive("database", "main", FALSE, Take(6)),     \* database
   v |-> Directive("env", "main", FALSE, Take(1)),          \* env
   r |-> Directive("user", "main", FALSE, Take(1) \cup Take(2))]   \* user

LogCommands   == [g |-> Directive("log", "main", FALSE, More1)]       \* error_log
ConfCommands  == [i |-> Directive("include", "any", FALSE, Take(1))]  \* include
UsersCommands == [u |-> Directive("block", "main", TRUE, Take(0))]    \* users

UserCoreCommands ==
  [w |-> Directive("users", "users", FALSE, Take(1)),       \* worker_users
   m |-> Directive("requests", "users", FALSE, Take(1)),    \* req_num
   s |-> Directive("use", "users", FALSE, Take(1)),         \* use
   x |-> Directive("balance", "users", FALSE, Take(1))]     \* balance

Cmd == CoreCommands @@ LogCommands @@ ConfCommands @@ UsersCommands @@ UserCoreCommands

Names == DOMAIN Cmd
Nil   == <<>>

BufSize == src.bufsize

\* What marks a directive as not given: -1, a priority of 0, an address of 0, a null pointer.
Unset(n) ==
  CASE Cmd[n].set = "priority" -> 0 [] Cmd[n].set = "front" -> <<0, 0>>
    [] Cmd[n].set \in {"str", "affinity", "database", "env"} -> Nil [] OTHER -> Err

Top      == Last(cfs)
Text(f)  == IF f.name = "param" THEN src.param ELSE src.files[f.name]
Size(f)  == IF f.name = "param" THEN 0 ELSE Len(Text(f))
\* Bytes of the text that were read.
Consumed(f) == f.off - Len(f.buf) + f.pos + (IF f.name = "param" THEN Len(f.buf) ELSE 0)

TypeOK ==
  /\ pc \in {"param", "main", "open", "read", "token", "return", "end"} /\ rc \in {"ok", "error"}
  /\ \A i \in DOMAIN frames : frames[i].type \in {"param", "file", "block", "include"} /\ frames[i].ctx \in {"main", "users"}
  /\ pc = "open" => frames # <<>> /\ Last(frames).type = "include"
  /\ \A i \in DOMAIN cfs : cfs[i].pos \in 0 .. Len(cfs[i].buf) /\ cfs[i].off \in 0 .. Size(cfs[i])
  /\ pc = "read" => tok.start \in 0 .. Top.pos
  /\ fds \in 0 .. MaxFd /\ bufs \in Nat /\ ctx \in {"main", "users"}
  /\ DOMAIN slots = Names /\ \A i \in DOMAIN given : given[i][1] \in Names

Init ==
  /\ src \in Sources /\ pc = "param" /\ frames = <<>> /\ cfs = <<>> /\ fds = 0 /\ bufs = 0 /\ ctx = "main"
  /\ tok = Fresh(0) /\ ret = "more" /\ from = 0 /\ rc = "ok"
  /\ slots = [n \in Names |-> Unset(n)] /\ given = <<>> /\ logs = <<>> /\ opened = {}
-----------------------------------------------------------------------------
\* ntg_conf_read_token begins at b->pos.
BeginToken(f) == pc' = "read" /\ tok' = Fresh(f.pos) /\ ret' = "more" /\ from' = Consumed(f)

Returns(r) == pc' = "return" /\ rc' = r

\* ntg_conf_param: the parameter is a buffer without a file.
ParseParam ==
  /\ pc = "param"
  /\ IF src.param = <<>>
     THEN pc' = "main" /\ UNCHANGED <<frames, cfs, tok, ret, from>>
     ELSE LET f == [name |-> "param", buf |-> src.param, pos |-> 0, off |-> 0]
          IN frames' = <<[type |-> "param", ctx |-> ctx]>> /\ cfs' = <<f>> /\ BeginToken(f)
  /\ UNCHANGED <<src, fds, bufs, ctx, rc, slots, given, logs, opened>>

NewFile(name) == [name |-> name, buf |-> <<>>, pos |-> 0, off |-> 0]

\* ntg_conf_parse with a file: it is opened and gets a buffer.
OpenFile(name) ==
  /\ name \in DOMAIN src.files /\ fds < MaxFd
  /\ cfs' = Append(cfs, NewFile(name)) /\ fds' = fds + 1
  /\ \E ok \in {TRUE} \cup (IF "alloc" \in Faults THEN {FALSE} ELSE {}) :
       /\ frames' = Append(frames, [type |-> "file", ctx |-> ctx, buf |-> ok])
       /\ IF ok THEN bufs' = bufs + 1 /\ BeginToken(NewFile(name)) /\ UNCHANGED rc
                ELSE Returns("error") /\ UNCHANGED <<bufs, tok, ret, from>>

CannotOpen(name) == name \notin DOMAIN src.files \/ fds = MaxFd \/ "open" \in Faults

ParseMain ==
  /\ pc = "main"
  /\ \/ OpenFile("main")
     \/ CannotOpen("main") /\ pc' = "end" /\ rc' = "error" /\ UNCHANGED <<frames, cfs, fds, bufs, tok, ret, from>>
  /\ UNCHANGED <<src, ctx, slots, given, logs, opened>>
-----------------------------------------------------------------------------
Empty == pc = "read" /\ Top.pos >= Len(Top.buf)

Done(r) == pc' = "token" /\ ret' = r /\ UNCHANGED <<src, frames, cfs, fds, bufs, ctx, tok, from, rc, slots, given, logs, opened>>

ReadEnd == Empty /\ Top.off >= Size(Top) /\ Done(AtEnd(tok))

\* Mutant: the test is missing.
FillsNever(f, t) == FALSE

\* The piece from `start' on fills the buffer.
Fills(f, t) == f.pos - t.start = BufSize

TooLong == Empty /\ Top.off < Size(Top) /\ Fills(Top, tok) /\ Done("toolong")

\* Mutant: the piece is not moved to the beginning of the buffer.
KeptPieceStays(f, t) == SubSeq(f.buf, 1, f.pos - t.start)

\* memmove(b->start, start, len)
KeptPiece(f, t) == SubSeq(f.buf, t.start + 1, f.pos)

StartMoved(t) == 0

Refill ==
  /\ Empty /\ Top.off < Size(Top) /\ ~Fills(Top, tok)
  /\ LET len  == Top.pos - tok.start
         n    == Min({Size(Top) - Top.off, BufSize - len})
         read == SubSeq(Text(Top), Top.off + 1, Top.off + n)
     IN cfs' = [cfs EXCEPT ![Len(cfs)] =
                  [Top EXCEPT !.buf = KeptPiece(Top, tok) \o read, !.pos = len, !.off = Top.off + n]]
  /\ tok' = [tok EXCEPT !.start = StartMoved(tok)]
  /\ UNCHANGED <<src, pc, frames, fds, bufs, ctx, ret, from, rc, slots, given, logs, opened>>

\* pread fails, or the file has become shorter.
RefillFails ==
  "read" \in Faults /\ Empty /\ Top.off < Size(Top) /\ ~Fills(Top, tok) /\ Done("fault")

\* One byte; a word that ends needs memory.
Byte ==
  /\ pc = "read" /\ Top.pos < Len(Top.buf)
  /\ LET f == [Top EXCEPT !.pos = @ + 1]
         r == ReadByte(tok, f.buf, f.pos)
     IN /\ cfs' = [cfs EXCEPT ![Len(cfs)] = f] /\ tok' = r.t
        /\ \/ ret' = r.ret
           \/ "alloc" \in Faults /\ r.t.args # tok.args /\ ret' = "fault"
        /\ pc' = IF ret' = "more" THEN "read" ELSE "token"
  /\ UNCHANGED <<src, frames, fds, bufs, ctx, from, rc, slots, given, logs, opened>>
-----------------------------------------------------------------------------
Call == Last(frames)

\* The end of a block or of a text, and what ends the call with an error.
EndOfInput ==
  /\ pc = "token" /\ ret \notin {"ok", "start"}
  /\ Returns(CASE ret = "done" /\ Call.type = "block" -> "ok"
               [] ret = "eof" /\ Call.type # "block"  -> "ok"
               [] OTHER -> "error")
  /\ UNCHANGED <<src, frames, cfs, fds, bufs, ctx, tok, ret, from, slots, given, logs, opened>>

\* ntg_conf_handler: the directive is known, in its place, with its terminator and its
\* number of arguments.
Name == tok.args[1][1]
Fits ==
  /\ Len(tok.args[1]) = 1 /\ Name \in Names /\ Cmd[Name].place \in {ctx, "any"}
  /\ Cmd[Name].block = (ret = "start") /\ Len(tok.args) \in Cmd[Name].args

IsDirective == pc = "token" /\ ret \in {"ok", "start"}
Handles(set) == IsDirective /\ ~(Call.type = "param" /\ ret = "start") /\ Fits /\ Cmd[Name].set = set

Fails == Returns("error") /\ UNCHANGED <<src, frames, cfs, fds, bufs, ctx, tok, ret, from, slots, given, logs, opened>>

Refused == IsDirective /\ ((Call.type = "param" /\ ret = "start") \/ ~Fits) /\ Fails

\* What the functions that set a directive make of its words: the values they accept, one or none.
Valid(v) == {v} \ {Err}

FlagValues(w)     == Valid(CASE w = <<"o">> -> 1 [] w = <<"f">> -> 0 [] OTHER -> Err)
EnumValues(w)     == Valid(CASE w = <<"s">> -> 1 [] w = <<"a">> -> 2 [] OTHER -> Err)
NumValues(w)      == Valid(Atoi(w))
MsecValues(w)     == Valid(ParseTime(w))
OffValues(w)      == Valid(ParseOffset(w))
StrValues(w)      == {<<w>>}
WorkersValues(w)  == Valid(Atoi(w))
UsersValues(w)    == Valid(Atoi(w))
RequestsValues(w) == Valid(Atoi(w))
UseValues(w)      == Valid(CASE w = <<"c">> -> 0 [] w = <<"r">> -> 1 [] OTHER -> Err)
BalanceValues(w)  == Valid(CASE w = <<"d">> -> 1 [] w = <<"p">> -> 0 [] OTHER -> Err)
PriorityValues(w) ==
  LET sign == w # <<>> /\ w[1] \in {"-", "+"}
      v    == Atoi(IF sign THEN Tail(w) ELSE w)
  IN IF v = Err THEN {} ELSE {IF sign /\ w[1] = "-" THEN -v ELSE v}
AffinityValues(ws) ==
  LET v == [i \in DOMAIN ws |-> Atoi(ws[i])]
  IN IF \E i \in DOMAIN v : v[i] = Err \/ v[i] > 64 THEN {} ELSE {v}
\* An address is a number here; an empty one leaves 0.
FrontValues(w, port) ==
  LET n    == Atoi(port)
      addr == IF w = <<>> THEN 0 ELSE Atoi(w)
  IN IF addr = Err \/ n < 1025 \/ n > 65535 THEN {} ELSE {<<addr, n>>}
DatabaseValues(ws) == {[ws EXCEPT ![3] = <<Atoi(@)>>]}
EnvValue(w) == SubSeq(w, 1, Min({i \in 0 .. Len(w) : i = Len(w) \/ w[i + 1] = "="}))

Values ==
  LET set == Cmd[Name].set
      w   == tok.args[2]
  IN CASE set = "flag"     -> FlagValues(w)      [] set = "num"     -> NumValues(w)
       [] set = "msec"     -> MsecValues(w)      [] set = "off"     -> OffValues(w)
       [] set = "str"      -> StrValues(w)       [] set = "enum"    -> EnumValues(w)
       [] set = "workers"  -> WorkersValues(w)   [] set = "users"   -> UsersValues(w)
       [] set = "requests" -> RequestsValues(w)  [] set = "use"     -> UseValues(w)
       [] set = "priority" -> PriorityValues(w)  [] set = "balance" -> BalanceValues(w)
       [] set = "affinity" -> AffinityValues(Tail(tok.args))
       [] set = "front"    -> FrontValues(w, tok.args[3])
       [] set = "database" -> DatabaseValues(Tail(tok.args))

Numbers  == {"num", "workers", "users", "requests"}
OneValue == Numbers \cup {"flag", "msec", "off", "str", "enum", "priority", "affinity", "front", "database", "use", "balance"}

\* Mutant: the test is missing.
DuplicateNever(n) == FALSE

\* "is duplicate": the slot differs from its initial value (of listen_address, the address).
Duplicate(n) == IF Cmd[n].set = "front" THEN slots[n][1] # 0 ELSE slots[n] # Unset(n)

Accept(v) ==
  /\ slots' = [slots EXCEPT ![Name] = v] /\ given' = Append(given, <<Name, Tail(tok.args), v>>)
  /\ BeginToken(Top)
  /\ UNCHANGED <<src, frames, cfs, fds, bufs, ctx, rc>>

SetSlot ==
  /\ \E set \in OneValue : Handles(set)
  /\ IF Duplicate(Name) \/ Values = {} THEN Fails
     ELSE \E v \in Values : Accept(v) /\ UNCHANGED <<logs, opened>>

\* ntg_set_env: every name is kept.
SetEnv ==
  /\ Handles("env") /\ Accept(Append(slots[Name], EnvValue(tok.args[2])))
  /\ UNCHANGED <<logs, opened>>

\* ntg_set_user: ignored without privileges, otherwise looked up.
SetUser ==
  /\ Handles("user")
  /\ \/ (Duplicate(Name) \/ (src.root /\ "user" \in Faults)) /\ Fails
     \/ ~Duplicate(Name) /\ Accept(IF src.root THEN 1 ELSE Err) /\ UNCHANGED <<logs, opened>>
-----------------------------------------------------------------------------
\* Log levels: one of emerg (1) ... info (7), debug (8), or a set of debug groups.
DebugAll   == 1000
DebugGroup == [j |-> 16, k |-> 32]
LogLevel(ws) ==
  CASE ws = <<>> -> 4
    [] Len(ws) = 1 /\ Len(ws[1]) = 1 /\ ws[1][1] \in DOMAIN Digits /\ Atoi(ws[1]) \in 1 .. 8 ->
         IF Atoi(ws[1]) = 8 THEN DebugAll ELSE Atoi(ws[1])
    [] ws # <<>> /\ \A i \in DOMAIN ws : Len(ws[i]) = 1 /\ ws[i][1] \in DOMAIN DebugGroup ->
         MapThenSumSet(LAMBDA g : DebugGroup[g], {ws[i][1] : i \in DOMAIN ws})
    [] OTHER -> Err

\* Mutant: the logs are kept in ascending order.
LogBeforeLower(l, m) == l.level < m.level

LogBefore(l, m) == l.level > m.level

\* ntg_log_insert: before the first log that is lower.
LogInsert(ls, l) ==
  LET i == Min({k \in 1 .. Len(ls) + 1 : k = Len(ls) + 1 \/ LogBefore(l, ls[k])})
  IN InsertAt(ls, i, l)

\* ntg_error_log; ntg_conf_open_file knows a file that is already listed.
SetLog ==
  /\ Handles("log")
  /\ LET level == LogLevel(SubSeq(tok.args, 3, Len(tok.args)))
     IN IF level = Err THEN Fails
        ELSE /\ logs' = LogInsert(logs, [file |-> tok.args[2], level |-> level])
             /\ opened' = opened \cup {tok.args[2]}
             /\ Accept(Err)
-----------------------------------------------------------------------------
\* ntg_user_block: the context is saved and the block is parsed.
UserBlock ==
  /\ Handles("block")
  /\ \/ (Duplicate(Name) \/ "alloc" \in Faults) /\ Fails
     \/ /\ ~Duplicate(Name)
        /\ slots' = [slots EXCEPT ![Name] = 1] /\ frames' = Append(frames, [type |-> "block", ctx |-> ctx])
        /\ ctx' = "users" /\ BeginToken(Top)
        /\ UNCHANGED <<src, cfs, fds, bufs, rc, given, logs, opened>>

\* The files a name stands for; "*" is a pattern.
Pattern(w) == \E i \in DOMAIN w : w[i] = "*"

Matches(w) ==
  IF Pattern(w) THEN SetToSortSeq(DOMAIN src.files \ {"main"}, LAMBDA a, b : src.order[a] < src.order[b])
  ELSE <<IF Len(w) = 1 THEN w[1] ELSE "none">>

\* ntg_conf_include makes the full name, which needs memory, and looks for the files.
Include ==
  /\ Handles("include")
  /\ \/ /\ frames' = Append(frames, [type |-> "include", ctx |-> ctx, todo |-> Matches(tok.args[2]), glob |-> Pattern(tok.args[2])])
        /\ pc' = "open" /\ UNCHANGED rc
     \/ "alloc" \in Faults /\ Returns("error") /\ UNCHANGED frames
  /\ UNCHANGED <<src, cfs, fds, bufs, ctx, tok, ret, from, slots, given, logs, opened>>

\* Each file in turn; a name found by a pattern is copied first.
OpenNext ==
  /\ pc = "open"
  /\ IF Call.todo = <<>> THEN Returns("ok") /\ UNCHANGED <<frames, cfs, fds, bufs, tok, ret, from>>
     ELSE LET name == Head(Call.todo) IN
          \/ OpenFile(name)
          \/ /\ CannotOpen(name) \/ (Call.glob /\ "alloc" \in Faults)
             /\ Returns("error") /\ UNCHANGED <<frames, cfs, fds, bufs, tok, ret, from>>
  /\ UNCHANGED <<src, ctx, slots, given, logs, opened>>
-----------------------------------------------------------------------------
\* Mutant: the context of the block stays.
CtxAfterKept(f) == ctx

\* *cf = pcf
CtxAfter(f) == f.ctx

\* A directive that was not given gets its default.
Default(s, n, v) == IF s[n] = Unset(n) THEN v ELSE s[n]

\* ntg_user_core_init_conf, when the block ends; the behaviour is the first one that is not the core's.
UserDefaults(s) ==
  [s EXCEPT !["w"] = Default(s, "w", 1), !["m"] = Default(s, "m", 1), !["s"] = Default(s, "s", 1), !["x"] = Default(s, "x", 0)]

\* ntg_core_module_init_conf; consume_num has no default.
CoreDefaults(s) ==
  [s EXCEPT !["d"] = Default(s, "d", 1), !["n"] = Default(s, "n", 1), !["t"] = Default(s, "t", 0),
            !["e"] = Default(s, "e", 0), !["p"] = IF @ \in {Nil, <<Nil>>} THEN <<<<"pid">>>> ELSE @,
            !["r"] = IF src.root THEN 1 ELSE @]

\* The defaults (the default user may be missing), then ntg_log_open_default.
Finish ==
  /\ pc' = "end"
  /\ \/ ("alloc" \in Faults \/ (src.root /\ slots["r"] = Err /\ "user" \in Faults))
        /\ rc' = "error" /\ UNCHANGED <<slots, logs, opened>>
     \/ /\ rc' = "ok" /\ slots' = CoreDefaults(slots)
        /\ logs' = IF logs = <<>> THEN <<[file |-> <<"log">>, level |-> 4]>> ELSE logs
        /\ opened' = IF logs = <<>> THEN opened \cup {<<"log">>} ELSE opened

\* ntg_conf_include goes on with the next file.
NextFile(calls) ==
  [i \in DOMAIN calls |-> IF i = Len(calls) /\ calls[i].type = "include" THEN [calls[i] EXCEPT !.todo = Tail(@)] ELSE calls[i]]

\* The end of ntg_conf_parse or of ntg_conf_include and what the caller does.
Return ==
  /\ pc = "return"
  /\ LET rest == NextFile(Front(frames))
         back == IF Call.type \in {"param", "file"} THEN Front(cfs) ELSE cfs
     IN /\ ctx' = CtxAfter(Call) /\ frames' = rest /\ cfs' = back
        /\ fds' = fds - (IF Call.type = "file" THEN 1 ELSE 0)
        /\ bufs' = bufs - (IF Call.type = "file" /\ Call.buf THEN 1 ELSE 0)
        /\ CASE rest # <<>> /\ rc = "ok" /\ Last(rest).type = "include" ->
                    pc' = "open" /\ UNCHANGED <<tok, ret, from, rc, slots, logs, opened>>
             [] rest # <<>> /\ rc = "ok" /\ Last(rest).type # "include" ->
                    /\ slots' = IF Call.type = "block" THEN UserDefaults(slots) ELSE slots
                    /\ BeginToken(Last(back)) /\ UNCHANGED <<rc, logs, opened>>
             [] rest # <<>> /\ rc # "ok" -> UNCHANGED <<pc, tok, ret, from, rc, slots, logs, opened>>
             [] rest = <<>> /\ Call.type = "file" /\ rc = "ok" -> Finish /\ UNCHANGED <<tok, ret, from>>
             [] OTHER -> /\ pc' = IF rc = "ok" THEN "main" ELSE "end"
                         /\ UNCHANGED <<tok, ret, from, rc, slots, logs, opened>>
  /\ UNCHANGED <<src, given>>

Step ==
  \/ ParseParam \/ ParseMain \/ ReadEnd \/ TooLong \/ Refill \/ Byte
  \/ EndOfInput \/ Refused \/ SetSlot \/ SetEnv \/ SetUser \/ SetLog \/ UserBlock \/ Include \/ OpenNext \/ Return

Next == Step \/ RefillFails

Spec == Init /\ [][Next]_vars

\* The parser is sequential code: it goes on.  No failure of a read is assumed.
FairSpec == Spec /\ WF_vars(Step)
-----------------------------------------------------------------------------
\* The reader on a buffer that holds the whole text, from a position on.
Whole(text, begin) ==
  LET run[i \in begin .. Len(text)] ==
        IF i = begin THEN [t |-> Fresh(begin), ret |-> "more", to |-> begin]
        ELSE LET p == run[i - 1] IN
             IF p.ret # "more" THEN p
             ELSE LET r == ReadByte(p.t, text, i) IN [t |-> r.t, ret |-> r.ret, to |-> i]
  IN run

\* Where the text is cut by the refills of the buffer does not change what is read: a token
\* has the words, the result and the end it has in the whole text, unless a word, a comment
\* or a gap fills the buffer (ntg_conf_read_token).
BufferInvisible ==
  pc = "token" /\ ret # "fault" =>
    LET run == Whole(Text(Top), from)
        end == run[Len(Text(Top))]
    IN CASE ret = "toolong" -> run[Consumed(Top)].t.start = Consumed(Top) - BufSize
         [] ret \in {"eof"} -> end.ret = "more" /\ AtEnd(end.t) = ret
         [] ret = "error" /\ end.ret = "more" -> AtEnd(end.t) = ret
         [] OTHER -> end.ret = ret /\ end.to = Consumed(Top) /\ end.t.args = tok.args

\* Blocks and included files nest, and every call gives back what it took, on every path: the
\* current file is that of the innermost file call, its descriptors and buffers are those of
\* the file calls, and the users context holds exactly inside the block (ntg_conf_parse,
\* ntg_user_block).
Restored ==
  LET files == {i \in DOMAIN frames : frames[i].type = "file"} IN
  /\ TypeOK
  /\ fds = Cardinality(files) /\ bufs = Cardinality({i \in files : frames[i].buf})
  /\ Len(cfs) = Cardinality({i \in DOMAIN frames : frames[i].type \in {"param", "file"}})
  /\ ctx = "users" <=> \E i \in DOMAIN frames : frames[i].type = "block"

\* What the code takes for "not given" in a value it was given.
NotGiven(n, v) ==
  CASE Cmd[n].set = "priority" -> v = 0 [] Cmd[n].set = "front" -> v[1] = 0 [] OTHER -> FALSE

\* What a directive was given stays: neither the same directive again, in whatever file or
\* block, nor a default replaces it.  What the code takes for "not given" may be replaced: a
\* priority or an address of 0 by the same directive, an empty name of the pid file by its
\* default (ntg_core_module_init_conf, ntg_set_priority, ntg_set_front_end).
GivenKept ==
  \A i \in DOMAIN given :
    LET n == given[i][1]
        v == given[i][3]
    IN Cmd[n].set \in OneValue =>
         IF \E j \in DOMAIN given : j > i /\ given[j][1] = n THEN NotGiven(n, v)
         ELSE slots[n] = v \/ (n = "p" /\ v = <<Nil>> /\ pc = "end")

\* A time that is accepted is the one that was written, up to the largest one: no part, and no
\* sum of parts, wraps (ntg_parse_time).
TimesExact ==
  \A i \in DOMAIN given :
    Cmd[given[i][1]].set = "msec" => given[i][3] = Meaning(given[i][2][1], Milliseconds)

\* The logs ntg_log_error_core writes a message of some level to: it stops at the first lower one.
Written(level) ==
  {i \in DOMAIN logs : \A j \in 1 .. i : logs[j].level >= level}

\* A message reaches every log whose level admits it, in whatever order the logs were configured.
EveryLogHears ==
  \A level \in 1 .. 8 : Written(level) = {i \in DOMAIN logs : logs[i].level >= level}

\* The parser ends, whatever the files include.
ParseEnds == <>(pc = "end")
=============================================================================
