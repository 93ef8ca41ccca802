----------------------------- MODULE BootProofs -----------------------------
(***************************************************************************)
(* Theorems about Boot for any number of processes, pid file names and     *)
(* configurations.  Kin is about the processes alone: who is whose parent, *)
(* new binary or zombie.  Names relates them to the pid files that are not *)
(* shared.  Both are predicates of a process table, so that the functions  *)
(* the actions are made of (End, HandleMoved, HandleCut) can be reasoned   *)
(* about one at a time.                                                    *)
(***************************************************************************)
EXTENDS Boot, NatLemmas

ProcT == [st : States, path : Paths, master : BOOLEAN, parent : Pid \cup {Init1, Shell},
          newbin : Pid \cup {None, Invalid}, listed : BOOLEAN, handle : Name \cup {Gone}, stop : BOOLEAN]

Over == {"zombie", "crashed", "dead"}

\* A child of an instance is the new binary of a master that runs and that is itself a child of
\* init; one in the table of the master is not waited for without being recognised; a process that has not got as far has no new binary, and only one that is about to
\* write its pid has the file open.
KinOf(ps, p) ==
  /\ ps[p].parent \in Pid => ps[ps[p].parent].st = "run" /\ ps[ps[p].parent].newbin = p
  /\ ps[p].newbin \in Pid => ps[p].st = "run" /\ ps[ps[p].newbin].parent = p
  /\ ps[p].newbin \in Pid /\ ps[p].listed => ps[ps[p].newbin].st # "dead"
  /\ ps[p].newbin # None => ps[p].st \in Over \cup {"run"}
  /\ ps[p].newbin # None /\ ps[p].st = "run" => ps[p].parent = Init1
  /\ ps[p].st = "unborn" => ps[p].parent \notin Pid
  /\ ps[p].st = "zombie" => ps[p].parent \in Pid
  /\ ps[p].handle # Gone => ps[p].st = "write" /\ ps[p].handle[1] = ps[p].path

Kin(ps) == ps \in [Pid -> ProcT] /\ \A p \in Pid : KinOf(ps, p)

Uses(ps, p) == ps[p].st \in {"write", "run"}

\* Where the pid of p is, and who else may use its name, if the name is not shared.
NameOf(ps, fl, p) ==
  /\ ps[p].st = "write" => ps[p].handle = <<ps[p].path, "pid">> /\ fl[<<ps[p].path, "pid">>] # Absent
  /\ ps[p].st = "run" => fl[<<ps[p].path, IF ps[p].newbin \in Pid THEN "old" ELSE "pid">>] = p
  /\ \A q \in Pid : q # p /\ Uses(ps, p) /\ Uses(ps, q) /\ ps[q].path = ps[p].path
                      => ps[p].newbin = q \/ ps[q].newbin = p

\* What the pid p in the file f says.
Tells(ps, f, p) ==
  \/ ps[p].st = "run" /\ ps[p].path = f[1] /\ (f[2] = "old" <=> ps[p].newbin \in Pid)
  \/ ps[p].st = "crashed"
  \/ ps[p].st \in Over /\ ps[p].newbin = Invalid

Names(ps, fl, sh) ==
  /\ fl \in [Name -> Pid \cup {Absent, Blank}] /\ sh \subseteq Paths
  /\ \A p \in Pid : ps[p].path \notin sh => NameOf(ps, fl, p)
  /\ \A f \in Name : f[1] \notin sh /\ fl[f] \in Pid => Tells(ps, f, fl[f])

IndInv == Kin(proc) /\ Names(proc, file, shared)
-----------------------------------------------------------------------------
\* The numbers that are not pids.
LEMMA PidNumbers ==
  /\ NPid \in Nat /\ Pid \subseteq Nat \ {0} /\ Pid \subseteq Int
  /\ 0 \notin Pid /\ -1 \notin Pid /\ -2 \notin Pid /\ -1 # 0 /\ -2 # 0
  BY BootAssumption DEF BootAssumption, Pid

LEMMA FreshIs ==
  ASSUME NEW parent \in Pid \cup {Init1, Shell}
  PROVE  /\ Fresh(parent) \in ProcT /\ Fresh(parent).st = "boot" /\ Fresh(parent).parent = parent
         /\ Fresh(parent).newbin = None /\ Fresh(parent).handle = Gone
         /\ Fresh(parent).listed = FALSE
<1>1. (CHOOSE p \in Paths : TRUE) \in Paths
  BY BootAssumption DEF BootAssumption
<1>2. Gone \in Name \cup {Gone} /\ None \in Pid \cup {None, Invalid} /\ "boot" \in States
  BY DEF States
<1> QED BY <1>1, <1>2 DEF Fresh, ProcT

\* A file that is open has a name.
LEMMA NameIs ==
  ASSUME NEW f \in Name
  PROVE  /\ f # Gone /\ f[1] \in Paths /\ f[2] \in {"pid", "old"} /\ f = <<f[1], f[2]>>
  BY DEF Name, Gone

\* What becomes of the process table when an instance ends.
LEMMA EndIs ==
  ASSUME NEW ps \in [Pid -> ProcT], NEW p \in Pid, NEW how \in {"dead", "crashed"}
  PROVE  LET E == End(ps, p, how)
         IN  /\ E \in [Pid -> ProcT]
             /\ E[p].st = IF ps[p].parent \in Pid /\ how = "dead" THEN "zombie" ELSE how
             /\ E[p].parent = ps[p].parent /\ E[p].handle = Gone
             /\ E[p].newbin = IF ps[p].newbin = Invalid THEN Invalid ELSE None
             /\ \A q \in Pid : q # p =>
                  /\ E[q].path = ps[q].path /\ E[q].newbin = ps[q].newbin /\ E[q].handle = ps[q].handle
                  /\ E[q].listed = ps[q].listed
                  /\ E[q].parent = IF ps[q].parent = p THEN Init1 ELSE ps[q].parent
                  /\ E[q].st = IF ps[q].parent = p /\ ps[q].st = "zombie" THEN "dead" ELSE ps[q].st
<1> DEFINE left == [Fresh(ps[p].parent) EXCEPT !.newbin = IF ps[p].newbin = Invalid THEN Invalid ELSE None]
           gone == [left EXCEPT !.st = IF ps[p].parent \in Pid /\ how = "dead" THEN "zombie" ELSE how]
           kid(q) == [ps[q] EXCEPT !.parent = Init1, !.st = IF @ = "zombie" THEN "dead" ELSE @]
           E == End(ps, p, how)
<1>1. ps[p].parent \in Pid \cup {Init1, Shell}
  BY DEF ProcT
<1>2. /\ gone \in ProcT
      /\ gone.st = IF ps[p].parent \in Pid /\ how = "dead" THEN "zombie" ELSE how
      /\ gone.parent = ps[p].parent /\ gone.handle = Gone
      /\ gone.newbin = IF ps[p].newbin = Invalid THEN Invalid ELSE None
  <2> DEFINE F == Fresh(ps[p].parent)
  <2>1. F \in ProcT /\ F.parent = ps[p].parent /\ F.handle = Gone
    BY <1>1, FreshIs
  <2> DEFINE x == IF ps[p].newbin = Invalid THEN Invalid ELSE None
             y == IF ps[p].parent \in Pid /\ how = "dead" THEN "zombie" ELSE how
  <2>2. x \in Pid \cup {None, Invalid} /\ y \in States
    BY DEF States
  <2> HIDE DEF F, x, y
  <2>3. /\ [[F EXCEPT !.newbin = x] EXCEPT !.st = y] \in ProcT
        /\ [[F EXCEPT !.newbin = x] EXCEPT !.st = y].st = y
        /\ [[F EXCEPT !.newbin = x] EXCEPT !.st = y].parent = F.parent
        /\ [[F EXCEPT !.newbin = x] EXCEPT !.st = y].handle = F.handle
        /\ [[F EXCEPT !.newbin = x] EXCEPT !.st = y].newbin = x
    BY <2>1, <2>2 DEF ProcT
  <2> QED BY <2>1, <2>3 DEF F, x, y
<1>3. \A q \in Pid : /\ kid(q) \in ProcT /\ kid(q).parent = Init1
                     /\ kid(q).st = IF ps[q].st = "zombie" THEN "dead" ELSE ps[q].st
                     /\ kid(q).path = ps[q].path /\ kid(q).newbin = ps[q].newbin
                     /\ kid(q).handle = ps[q].handle /\ kid(q).listed = ps[q].listed
  BY ZenonT(30) DEF ProcT, States
<1>4. E = [q \in Pid |-> CASE q = p -> gone
                           [] q # p /\ ps[q].parent = p -> kid(q)
                           [] OTHER -> ps[q]]
  BY DEF End
<1> HIDE DEF gone, kid
<1>5. /\ E[p] = gone
      /\ \A q \in Pid : q # p => E[q] = IF ps[q].parent = p THEN kid(q) ELSE ps[q]
  BY <1>4
<1>6. E \in [Pid -> ProcT]
  BY <1>2, <1>3, <1>4
<1> HIDE DEF E
<1>7. /\ E[p].st = IF ps[p].parent \in Pid /\ how = "dead" THEN "zombie" ELSE how
      /\ E[p].parent = ps[p].parent /\ E[p].handle = Gone
      /\ E[p].newbin = IF ps[p].newbin = Invalid THEN Invalid ELSE None
  BY <1>2, <1>5
<1>8. ASSUME NEW q \in Pid, q # p
      PROVE  /\ E[q].path = ps[q].path /\ E[q].newbin = ps[q].newbin /\ E[q].handle = ps[q].handle
             /\ E[q].listed = ps[q].listed
             /\ E[q].parent = IF ps[q].parent = p THEN Init1 ELSE ps[q].parent
             /\ E[q].st = IF ps[q].parent = p /\ ps[q].st = "zombie" THEN "dead" ELSE ps[q].st
  BY <1>3, <1>5, <1>8
<1> QED BY <1>6, <1>7, <1>8 DEF E

LEMMA EndKin ==
  ASSUME NEW ps, Kin(ps), NEW p \in Pid, NEW how \in {"dead", "crashed"},
         ps[p].st \in {"boot", "fork", "create", "write", "run"}
  PROVE  Kin(End(ps, p, how))
<1> DEFINE E == End(ps, p, how)
<1>0. ps \in [Pid -> ProcT] /\ \A q \in Pid : KinOf(ps, q)
  BY DEF Kin
<1>1. /\ E \in [Pid -> ProcT]
      /\ E[p].st = IF ps[p].parent \in Pid /\ how = "dead" THEN "zombie" ELSE how
      /\ E[p].parent = ps[p].parent /\ E[p].handle = Gone
      /\ E[p].newbin = IF ps[p].newbin = Invalid THEN Invalid ELSE None
      /\ \A q \in Pid : q # p =>
           /\ E[q].path = ps[q].path /\ E[q].newbin = ps[q].newbin /\ E[q].handle = ps[q].handle
           /\ E[q].listed = ps[q].listed
           /\ E[q].parent = IF ps[q].parent = p THEN Init1 ELSE ps[q].parent
           /\ E[q].st = IF ps[q].parent = p /\ ps[q].st = "zombie" THEN "dead" ELSE ps[q].st
  BY <1>0, EndIs
<1> HIDE DEF E
<1>2. KinOf(E, p)
  <2>1. KinOf(ps, p)
    BY <1>0
  <2>2. E[p].st \in Over /\ E[p].newbin \notin Pid /\ E[p].st # "unborn"
    BY <1>1, PidNumbers DEF Over, None, Invalid
  <2>3. E[p].st = "zombie" => E[p].parent \in Pid
    BY <1>1
  <2>4. ASSUME E[p].parent \in Pid PROVE E[E[p].parent].st = "run" /\ E[E[p].parent].newbin = p
    <3> DEFINE q == ps[p].parent
    <3>1. q \in Pid /\ ps[q].st = "run" /\ ps[q].newbin = p /\ KinOf(ps, q)
      BY <1>0, <1>1, <2>1, <2>4 DEF KinOf
    <3>2. q # p
      BY <3>1, PidNumbers DEF KinOf, Init1, None
    <3> QED BY <1>1, <3>1, <3>2
  <2> QED BY <1>1, <2>2, <2>3, <2>4 DEF KinOf, Over
<1>3. ASSUME NEW q \in Pid, q # p PROVE KinOf(E, q)
  <2>1. KinOf(ps, q) /\ KinOf(ps, p)
    BY <1>0
  <2>2. ASSUME E[q].parent \in Pid PROVE E[E[q].parent].st = "run" /\ E[E[q].parent].newbin = q
    <3> DEFINE r == ps[q].parent
    <3>1. r # p /\ E[q].parent = r /\ r \in Pid
      BY <1>1, <1>3, <2>2, PidNumbers DEF Init1
    <3>2. ps[r].st = "run" /\ ps[r].newbin = q
      BY <2>1, <3>1 DEF KinOf
    <3> QED BY <1>1, <3>1, <3>2
  <2>3. ASSUME E[q].newbin \in Pid PROVE E[q].st = "run" /\ E[E[q].newbin].parent = q
    <3> DEFINE r == ps[q].newbin
    <3>1. r \in Pid /\ E[q].newbin = r /\ ps[q].st = "run" /\ ps[r].parent = q
      BY <1>1, <1>3, <2>1, <2>3 DEF KinOf
    <3> QED BY <1>1, <1>3, <3>1
  <2>9. ASSUME E[q].newbin \in Pid, E[q].listed PROVE E[E[q].newbin].st # "dead"
    <3> DEFINE r == ps[q].newbin
    <3>1. r \in Pid /\ E[q].newbin = r /\ ps[q].listed /\ ps[r].parent = q /\ ps[r].st # "dead"
      BY <1>1, <1>3, <2>1, <2>9 DEF KinOf
    <3>2. CASE r = p
      <4>1. E[p].st \in {"zombie", "crashed"}
        BY <1>1, <3>1, <3>2
      <4> QED BY <3>1, <3>2, <4>1
    <3>3. CASE r # p
      BY <1>1, <1>3, <3>1, <3>3
    <3> QED BY <3>2, <3>3
  <2>4. E[q].st \in {ps[q].st, "dead"} /\ (E[q].st = "dead" => ps[q].st \in {"dead", "zombie"})
    BY <1>1, <1>3
  <2>5. E[q].newbin # None => E[q].st \in Over \cup {"run"}
    BY <1>1, <1>3, <2>1, <2>4 DEF KinOf, Over
  <2>6. E[q].newbin # None /\ E[q].st = "run" => E[q].parent = Init1
    BY <1>1, <1>3, <2>1, <2>4 DEF KinOf
  <2>7. (E[q].st = "unborn" => E[q].parent \notin Pid) /\ (E[q].st = "zombie" => E[q].parent \in Pid)
    BY <1>1, <1>3, <2>1, <2>4, PidNumbers DEF KinOf, Init1
  <2>8. E[q].handle # Gone => E[q].st = "write" /\ E[q].handle[1] = E[q].path
    BY <1>1, <1>3, <2>1, <2>4 DEF KinOf
  <2> QED BY <2>2, <2>3, <2>5, <2>6, <2>7, <2>8, <2>9 DEF KinOf
<1>4. Kin(E)
  BY <1>1, <1>2, <1>3 DEF Kin
<1> QED BY <1>4 DEF E

\* The names after p has ended and files were removed: what was true of the others still is, and
\* no file names p unless it was killed or its last change of the binary failed.
LEMMA EndNames ==
  ASSUME NEW ps, Kin(ps), NEW p \in Pid, NEW how \in {"dead", "crashed"}, NEW fl, NEW sh,
         Names(ps, fl, sh),
         NEW fl2 \in [Name -> Pid \cup {Absent, Blank}],
         \A f \in Name : fl2[f] \in {fl[f], Absent},
         \A q \in Pid : q # p /\ ps[q].path \notin sh => NameOf(ps, fl2, q),
         \A f \in Name : f[1] \notin sh /\ fl2[f] = p => how = "crashed" \/ ps[p].newbin = Invalid
  PROVE  Names(End(ps, p, how), fl2, sh)
<1> DEFINE E == End(ps, p, how)
<1>0. ps \in [Pid -> ProcT] /\ sh \subseteq Paths
  BY DEF Kin, Names
<1>1. /\ E \in [Pid -> ProcT]
      /\ E[p].st = IF ps[p].parent \in Pid /\ how = "dead" THEN "zombie" ELSE how
      /\ E[p].newbin = IF ps[p].newbin = Invalid THEN Invalid ELSE None
      /\ \A q \in Pid : q # p =>
           /\ E[q].path = ps[q].path /\ E[q].newbin = ps[q].newbin /\ E[q].handle = ps[q].handle
           /\ E[q].listed = ps[q].listed
           /\ E[q].st = IF ps[q].parent = p /\ ps[q].st = "zombie" THEN "dead" ELSE ps[q].st
  BY <1>0, EndIs
<1> HIDE DEF E
<1>2. E[p].st \in Over /\ ~Uses(E, p)
  BY <1>1 DEF Over, Uses
<1>3. \A q \in Pid : q # p => (Uses(E, q) <=> Uses(ps, q)) /\ (E[q].st = "run" <=> ps[q].st = "run")
                              /\ (E[q].st = "write" <=> ps[q].st = "write")
  BY <1>1 DEF Uses
<1>4. ASSUME NEW q \in Pid, E[q].path \notin sh PROVE NameOf(E, fl2, q)
  <2>1. CASE q = p
    BY <1>2, <2>1 DEF NameOf, Uses
  <2>2. CASE q # p
    <3>1. NameOf(ps, fl2, q) /\ E[q].path = ps[q].path /\ E[q].newbin = ps[q].newbin
          /\ E[q].handle = ps[q].handle
      BY <1>1, <1>4, <2>2
    <3>2. \A r \in Pid : r # q /\ Uses(E, q) /\ Uses(E, r) /\ E[r].path = E[q].path
                           => E[q].newbin = r \/ E[r].newbin = q
      BY <1>1, <1>2, <1>3, <2>2, <3>1 DEF NameOf
    <3> QED BY <1>3, <2>2, <3>1, <3>2 DEF NameOf
  <2> QED BY <2>1, <2>2
<1>5. ASSUME NEW f \in Name, f[1] \notin sh, fl2[f] \in Pid PROVE Tells(E, f, fl2[f])
  <2> DEFINE q == fl2[f]
  <2>1. CASE q = p
    <3>1. how = "crashed" \/ ps[p].newbin = Invalid
      BY <1>5, <2>1
    <3>2. CASE how = "crashed"
      BY <1>1, <2>1, <3>2 DEF Tells
    <3>3. CASE ps[p].newbin = Invalid
      BY <1>1, <1>2, <2>1, <3>3 DEF Tells
    <3> QED BY <3>1, <3>2, <3>3
  <2>2. CASE q # p
    <3>1. fl[f] = q
      BY <1>5, PidNumbers DEF Absent
    <3>2. Tells(ps, f, q)
      BY <1>5, <3>1 DEF Names
    <3> QED BY <1>1, <1>5, <2>2, <3>2 DEF Tells, Over
  <2> QED BY <2>1, <2>2
<1>6. Names(E, fl2, sh)
  BY <1>0, <1>4, <1>5 DEF Names
<1> QED BY <1>6 DEF E

\* A change that makes nobody a child, a zombie or a new binary, and stops no instance.
LEMMA KinStep ==
  ASSUME NEW ps, Kin(ps), NEW ps2 \in [Pid -> ProcT],
         \A q \in Pid :
           /\ ps2[q].parent = ps[q].parent \/ (ps2[q].parent \notin Pid /\ ps[q].parent \notin Pid)
           /\ ps2[q].newbin = ps[q].newbin \/ (ps2[q].newbin \notin Pid /\ ps[q].newbin \notin Pid)
           /\ ps[q].st = "run" => ps2[q].st = "run"
           /\ ps2[q].st = "zombie" => ps[q].st = "zombie"
           /\ ps2[q].st = "unborn" => ps[q].st = "unborn"
           /\ ps2[q].st = "dead" => ps[q].st = "dead"
           /\ ps2[q].newbin \in Pid /\ ps2[q].listed => ps[q].listed
           /\ ps2[q].newbin # None => ps2[q].st \in Over \cup {"run"}
           /\ ps2[q].newbin # None /\ ps2[q].st = "run" => ps2[q].parent = Init1
           /\ ps2[q].handle # Gone => ps2[q].st = "write" /\ ps2[q].handle[1] = ps2[q].path
  PROVE  Kin(ps2)
<1>1. ASSUME NEW q \in Pid PROVE KinOf(ps2, q)
  <2>1. KinOf(ps, q)
    BY DEF Kin
  <2>2. ASSUME ps2[q].parent \in Pid
        PROVE  ps2[ps2[q].parent].st = "run" /\ ps2[ps2[q].parent].newbin = q
    BY <2>1, <2>2 DEF KinOf
  <2>3. ASSUME ps2[q].newbin \in Pid
        PROVE  ps2[q].st = "run" /\ ps2[ps2[q].newbin].parent = q
    BY <2>1, <2>3 DEF KinOf
  <2>4. (ps2[q].st = "unborn" => ps2[q].parent \notin Pid) /\ (ps2[q].st = "zombie" => ps2[q].parent \in Pid)
    BY <2>1 DEF KinOf
  <2>5. ASSUME ps2[q].newbin \in Pid, ps2[q].listed PROVE ps2[ps2[q].newbin].st # "dead"
    BY <2>1, <2>5 DEF KinOf
  <2> QED BY <2>2, <2>3, <2>4, <2>5 DEF KinOf
<1> QED BY <1>1 DEF Kin

\* A change that leaves the files and those who use them.
LEMMA NamesStep ==
  ASSUME NEW ps, NEW fl, NEW sh, Names(ps, fl, sh), NEW ps2,
         \A q \in Pid :
           /\ Uses(ps, q) \/ Uses(ps2, q) =>
                /\ ps2[q].st = ps[q].st /\ ps2[q].path = ps[q].path
                /\ ps[q].path \notin sh => ps2[q].handle = ps[q].handle
                /\ ps2[q].newbin = ps[q].newbin \/ (ps2[q].newbin \notin Pid /\ ps[q].newbin \notin Pid)
           /\ ps[q].st \in Over =>
                /\ ps2[q].st \in Over /\ ps2[q].newbin = ps[q].newbin
                /\ ps[q].st = "crashed" => ps2[q].st = "crashed"
  PROVE  Names(ps2, fl, sh)
<1>1. ASSUME NEW q \in Pid, ps2[q].path \notin sh PROVE NameOf(ps2, fl, q)
  <2>1. CASE ~Uses(ps2, q)
    BY <2>1 DEF NameOf, Uses
  <2>2. CASE Uses(ps2, q)
    <3>1. NameOf(ps, fl, q)
      BY <1>1, <2>2 DEF Names
    <3>2. \A r \in Pid : r # q /\ Uses(ps2, q) /\ Uses(ps2, r) /\ ps2[r].path = ps2[q].path
                           => ps2[q].newbin = r \/ ps2[r].newbin = q
      BY <2>2, <3>1 DEF NameOf, Uses
    <3> QED BY <1>1, <2>2, <3>1, <3>2 DEF NameOf
  <2> QED BY <2>1, <2>2
<1>2. ASSUME NEW f \in Name, f[1] \notin sh, fl[f] \in Pid PROVE Tells(ps2, f, fl[f])
  <2>1. Tells(ps, f, fl[f])
    BY <1>2 DEF Names
  <2> QED BY <1>2, <2>1 DEF Tells, Uses, Over
<1> QED BY <1>1, <1>2 DEF Names

\* A change by an instance that runs and that alone uses its name, if that is not shared.
LEMMA SoleNames ==
  ASSUME NEW ps \in [Pid -> ProcT], NEW fl, NEW sh, Names(ps, fl, sh), NEW ps2, NEW p \in Pid,
         NEW fl2 \in [Name -> Pid \cup {Absent, Blank}],
         ps[p].st = "run", ps2[p].st = "run", ps2[p].path = ps[p].path,
         \A f \in Name : f[1] # ps[p].path => fl2[f] = fl[f],
         \A q \in Pid \ {p} :
           /\ Uses(ps, q) \/ Uses(ps2, q) =>
                /\ ps2[q].st = ps[q].st /\ ps2[q].path = ps[q].path /\ ps2[q].newbin = ps[q].newbin
                /\ ps[q].path # ps[p].path => ps2[q].handle = ps[q].handle
           /\ ps[q].st \in Over =>
                /\ ps2[q].st \in Over /\ ps2[q].newbin = ps[q].newbin
                /\ ps[q].st = "crashed" => ps2[q].st = "crashed",
         ps[p].path \notin sh =>
           /\ \A q \in Pid \ {p} : Uses(ps, q) => ps[q].path # ps[p].path
           /\ \A f \in Name : f[1] = ps[p].path =>
                IF f[2] = "old" <=> ps2[p].newbin \in Pid THEN fl2[f] = p ELSE fl2[f] \notin Pid
  PROVE  Names(ps2, fl2, sh)
<1>1. ASSUME NEW q \in Pid, ps2[q].path \notin sh PROVE NameOf(ps2, fl2, q)
  <2>1. CASE ~Uses(ps2, q)
    BY <2>1 DEF NameOf, Uses
  <2>2. CASE q = p
    <3>1. ps[p].path \in Paths
      BY DEF ProcT
    <3>2. ps[p].path \notin sh
      BY <1>1, <2>2
    <3>3. \A r \in Pid : r # p /\ Uses(ps2, r) => ps2[r].path # ps2[p].path
      BY <3>2 DEF Uses
    <3>5. fl2[<<ps2[p].path, IF ps2[p].newbin \in Pid THEN "old" ELSE "pid">>] = p
      <4> DEFINE k == IF ps2[p].newbin \in Pid THEN "old" ELSE "pid"
                 f == <<ps[p].path, k>>
      <4>1. f \in Name /\ f[1] = ps[p].path /\ (f[2] = "old" <=> ps2[p].newbin \in Pid)
        BY <3>1 DEF Name
      <4> QED BY <3>2, <4>1
    <3> QED BY <2>2, <3>3, <3>5 DEF NameOf
  <2>3. CASE Uses(ps2, q) /\ q # p
    <3>1. NameOf(ps, fl, q)
      BY <1>1, <2>3 DEF Names
    <3>2. ps2[q].st = ps[q].st /\ ps2[q].path = ps[q].path /\ ps2[q].newbin = ps[q].newbin /\ Uses(ps, q)
      BY <2>3 DEF Uses
    <3>3. ps[q].path # ps[p].path
      BY <1>1, <2>3, <3>2
    <3>4. ps2[q].handle = ps[q].handle
      BY <2>3, <3>3
    <3>5. \A r \in Pid : r # q /\ Uses(ps2, q) /\ Uses(ps2, r) /\ ps2[r].path = ps2[q].path
                           => ps2[q].newbin = r \/ ps2[r].newbin = q
      BY <2>3, <3>1, <3>2, <3>3 DEF NameOf, Uses
    <3>6. \A k \in {"pid", "old"} : fl2[<<ps[q].path, k>>] = fl[<<ps[q].path, k>>]
      <4>1. ps[q].path \in Paths
        BY DEF ProcT
      <4>2. \A k \in {"pid", "old"} : <<ps[q].path, k>> \in Name /\ <<ps[q].path, k>>[1] = ps[q].path
        BY <4>1 DEF Name
      <4> QED BY <3>3, <4>2
    <3> QED BY <3>1, <3>2, <3>4, <3>5, <3>6 DEF NameOf
  <2> QED BY <2>1, <2>2, <2>3
<1>2. ASSUME NEW f \in Name, f[1] \notin sh, fl2[f] \in Pid PROVE Tells(ps2, f, fl2[f])
  <2>1. CASE f[1] = ps[p].path
    BY <1>2, <2>1 DEF Tells
  <2>2. CASE f[1] # ps[p].path
    <3>1. fl2[f] = fl[f] /\ Tells(ps, f, fl[f])
      BY <1>2, <2>2 DEF Names
    <3>2. fl[f] # p
      BY <2>2, <3>1 DEF Tells, Over
    <3> QED BY <1>2, <3>1, <3>2 DEF Tells, Uses, Over
  <2> QED BY <2>1, <2>2
<1> QED BY <1>1, <1>2 DEF Names
-----------------------------------------------------------------------------
\* What the actions of Boot are made of.
LEMMA NewPid ==
  ASSUME Room PROVE Next1 \in Pid /\ proc[Next1].st = "unborn"
<1> DEFINE S == {p \in Pid : proc[p].st = "unborn"}
<1>1. S \subseteq Nat /\ S # {}
  BY PidNumbers DEF Room
<1>2. Min(S) \in S
  <2> HIDE DEF S
  <2> QED BY <1>1, MinNat
<1> QED BY <1>2 DEF Next1

LEMMA PidOfIs ==
  ASSUME NEW ps \in [Pid -> ProcT], NEW p \in Pid, NEW k \in {"pid", "old"}
  PROVE  /\ <<ps[p].path, k>> \in Name /\ <<ps[p].path, k>> # Gone
         /\ <<ps[p].path, k>>[1] = ps[p].path /\ <<ps[p].path, k>>[2] = k
<1>1. ps[p].path \in Paths
  BY DEF ProcT
<1> QED BY <1>1 DEF Name, Gone

LEMMA CutIs ==
  ASSUME NEW ps \in [Pid -> ProcT], NEW f \in Name
  PROVE  /\ HandleCut(ps, f) \in [Pid -> ProcT]
         /\ \A q \in Pid :
              /\ HandleCut(ps, f)[q].st = ps[q].st /\ HandleCut(ps, f)[q].path = ps[q].path
              /\ HandleCut(ps, f)[q].parent = ps[q].parent /\ HandleCut(ps, f)[q].newbin = ps[q].newbin
              /\ HandleCut(ps, f)[q].listed = ps[q].listed
              /\ HandleCut(ps, f)[q].handle = IF ps[q].handle = f THEN Gone ELSE ps[q].handle
<1> DEFINE h(q) == IF ps[q].handle = f THEN Gone ELSE ps[q].handle
           e(q) == [ps[q] EXCEPT !.handle = h(q)]
<1>1. \A q \in Pid : h(q) \in Name \cup {Gone}
  BY DEF ProcT
<1>2. HandleCut(ps, f) = [q \in Pid |-> e(q)]
  BY DEF HandleCut
<1> HIDE DEF h
<1>3. \A q \in Pid : /\ e(q) \in ProcT /\ e(q).st = ps[q].st /\ e(q).path = ps[q].path
                     /\ e(q).parent = ps[q].parent /\ e(q).newbin = ps[q].newbin /\ e(q).handle = h(q)
                     /\ e(q).listed = ps[q].listed
  BY <1>1 DEF ProcT
<1> HIDE DEF e
<1> QED BY <1>2, <1>3 DEF h

\* What a rename of f within the names of one path makes of the process table.
Moved(ps, M, f) ==
  /\ M \in [Pid -> ProcT]
  /\ \A q \in Pid :
       /\ M[q].st = ps[q].st /\ M[q].path = ps[q].path
       /\ M[q].parent = ps[q].parent /\ M[q].newbin = ps[q].newbin /\ M[q].listed = ps[q].listed
       /\ M[q].handle # Gone => ps[q].handle # Gone /\ M[q].handle[1] = ps[q].handle[1]
       /\ ps[q].handle = Gone \/ ps[q].handle[1] # f[1] => M[q].handle = ps[q].handle

LEMMA MovedIs ==
  ASSUME NEW ps \in [Pid -> ProcT], NEW f \in Name, NEW g \in Name, f[1] = g[1],
         NEW M, M = HandleMoved(ps, f, g)
  PROVE  Moved(ps, M, f)
<1> DEFINE h(q) == IF ps[q].handle = f THEN g ELSE IF ps[q].handle = g THEN Gone ELSE ps[q].handle
           e(q) == [ps[q] EXCEPT !.handle = h(q)]
<1>1. \A q \in Pid : /\ h(q) \in Name \cup {Gone}
                     /\ h(q) # Gone => ps[q].handle # Gone /\ h(q)[1] = ps[q].handle[1]
                     /\ ps[q].handle = Gone \/ ps[q].handle[1] # f[1] => h(q) = ps[q].handle
  <2>1. \A q \in Pid : ps[q].handle \in Name \cup {Gone}
    BY DEF ProcT
  <2>2. f # Gone /\ g # Gone
    BY NameIs
  <2> QED BY <2>1, <2>2
<1>2. M = IF file[f] = Absent THEN ps ELSE [q \in Pid |-> e(q)]
  BY DEF HandleMoved
<1> HIDE DEF h
<1>3. \A q \in Pid : /\ e(q) \in ProcT /\ e(q).st = ps[q].st /\ e(q).path = ps[q].path
                     /\ e(q).parent = ps[q].parent /\ e(q).newbin = ps[q].newbin /\ e(q).handle = h(q)
                     /\ e(q).listed = ps[q].listed
  BY <1>1 DEF ProcT
<1> HIDE DEF e
<1>4. /\ M \in [Pid -> ProcT]
      /\ \A q \in Pid : M[q] = ps[q] \/ M[q] = e(q)
  BY <1>2, <1>3
<1>5. ASSUME NEW q \in Pid
      PROVE  /\ M[q].st = ps[q].st /\ M[q].path = ps[q].path
             /\ M[q].parent = ps[q].parent /\ M[q].newbin = ps[q].newbin /\ M[q].listed = ps[q].listed
             /\ M[q].handle # Gone => ps[q].handle # Gone /\ M[q].handle[1] = ps[q].handle[1]
             /\ ps[q].handle = Gone \/ ps[q].handle[1] # f[1] => M[q].handle = ps[q].handle
  BY <1>1, <1>3, <1>4
<1> QED BY <1>4, <1>5 DEF Moved

\* An instance ends before its pid is in a file, or is killed.
LEMMA PlainEnd ==
  ASSUME IndInv, NEW p \in Pid, NEW how \in {"dead", "crashed"},
         proc[p].st \in {"boot", "fork", "create", "write"} \/ (proc[p].st = "run" /\ how = "crashed")
  PROVE  Kin(End(proc, p, how)) /\ Names(End(proc, p, how), file, shared)
<1>1. Kin(proc) /\ Names(proc, file, shared)
  BY DEF IndInv
<1>2. Kin(End(proc, p, how))
  BY <1>1, EndKin
<1>3. file \in [Name -> Pid \cup {Absent, Blank}]
  BY <1>1 DEF Names
<1>4. \A q \in Pid : q # p /\ proc[q].path \notin shared => NameOf(proc, file, q)
  BY <1>1 DEF Names
<1>5. ASSUME NEW f \in Name, f[1] \notin shared, file[f] = p
      PROVE  how = "crashed" \/ proc[p].newbin = Invalid
  <2>1. Tells(proc, f, p)
    BY <1>1, <1>5 DEF Names
  <2> QED BY <2>1 DEF Tells, Over
<1>6. \A f \in Name : file[f] \in {file[f], Absent}
  OBVIOUS
<1>7. Names(End(proc, p, how), file, shared)
  BY <1>1, <1>3, <1>4, <1>5, <1>6, EndNames
<1> QED BY <1>2, <1>7
-----------------------------------------------------------------------------
\* One lemma for each kind of action.
LEMMA InitInv == Init => IndInv
<1> SUFFICES ASSUME Init PROVE IndInv
  OBVIOUS
<1>1. Unborn \in ProcT /\ Unborn.st = "unborn" /\ Unborn.parent = Shell /\ Unborn.newbin = None /\ Unborn.handle = Gone
  <2> DEFINE F == Fresh(Shell)
  <2>1. F \in ProcT /\ F.parent = Shell /\ F.newbin = None /\ F.handle = Gone /\ "unborn" \in States
    BY FreshIs DEF States
  <2>2. Unborn = [F EXCEPT !.st = "unborn"]
    BY DEF Unborn
  <2> HIDE DEF F
  <2> QED BY <2>1, <2>2 DEF ProcT
<1>2. proc \in [Pid -> ProcT] /\ \A p \in Pid : proc[p] = Unborn
  BY <1>1 DEF Init
<1>3. Kin(proc)
  BY <1>1, <1>2, PidNumbers DEF Kin, KinOf, Shell, None
<1>4. Names(proc, file, shared)
  BY <1>1, <1>2, PidNumbers DEF Init, Names, NameOf, Uses, Absent
<1> QED BY <1>3, <1>4 DEF IndInv

LEMMA LaunchInv ==
  ASSUME IndInv, Launch PROVE IndInv'
<1> DEFINE n == Next1
<1>1. n \in Pid /\ proc[n].st = "unborn"
  BY NewPid DEF Launch
<1>2. proc \in [Pid -> ProcT] /\ KinOf(proc, n) /\ Kin(proc) /\ Names(proc, file, shared)
  BY <1>1 DEF IndInv, Kin
<1>3. /\ Fresh(Shell) \in ProcT /\ Fresh(Shell).st = "boot" /\ Fresh(Shell).parent = Shell
      /\ Fresh(Shell).newbin = None /\ Fresh(Shell).handle = Gone /\ Fresh(Shell).listed = FALSE
  BY FreshIs
<1>4. proc' = [proc EXCEPT ![n] = Fresh(Shell)] /\ UNCHANGED <<file, shared>>
  BY DEF Launch
<1> HIDE DEF n
<1>5. proc' \in [Pid -> ProcT] /\ proc'[n] = Fresh(Shell) /\ \A q \in Pid : q # n => proc'[q] = proc[q]
  BY <1>1, <1>2, <1>3, <1>4
<1>6. Kin(proc')
  <2>1. \A q \in Pid : KinOf(proc, q)
    BY <1>2 DEF Kin
  <2>2. Shell \notin Pid /\ None \notin Pid
    BY PidNumbers DEF Shell, None
  <2> QED BY <1>1, <1>2, <1>3, <1>5, <2>1, <2>2, KinStep DEF KinOf, Over
<1>7. Names(proc', file, shared)
  BY <1>1, <1>2, <1>3, <1>5, NamesStep DEF Uses, Over
<1> QED BY <1>4, <1>6, <1>7 DEF IndInv

LEMMA BootInv ==
  ASSUME IndInv, NEW p \in Pid, Boot(p) PROVE IndInv'
<1>1. proc \in [Pid -> ProcT] /\ Kin(proc) /\ Names(proc, file, shared) /\ proc[p].st = "boot"
  BY DEF IndInv, Kin, Boot
<1>2. PICK c \in Confs :
        proc' = [proc EXCEPT ![p].st = IF c.daemon THEN "fork" ELSE "create", ![p].path = c.pid, ![p].master = c.master]
  BY DEF Boot
<1>3. c.pid \in Paths /\ c.master \in BOOLEAN
  BY BootAssumption DEF BootAssumption
<1> DEFINE y == IF c.daemon THEN "fork" ELSE "create"
<1>4. y \in States /\ y \in {"fork", "create"}
  BY DEF States
<1>5. proc' = [proc EXCEPT ![p].st = y, ![p].path = c.pid, ![p].master = c.master]
  BY <1>2
<1> HIDE DEF y
<1>6. /\ proc' \in [Pid -> ProcT] /\ \A q \in Pid : q # p => proc'[q] = proc[q]
      /\ proc'[p].st = y /\ proc'[p].parent = proc[p].parent /\ proc'[p].newbin = proc[p].newbin
      /\ proc'[p].handle = proc[p].handle
  <2> DEFINE a == [[[proc[p] EXCEPT !.st = y] EXCEPT !.path = c.pid] EXCEPT !.master = c.master]
  <2>1. proc' = [proc EXCEPT ![p] = a]
    BY <1>1, <1>5
  <2>2. a \in ProcT /\ a.st = y /\ a.parent = proc[p].parent /\ a.newbin = proc[p].newbin /\ a.handle = proc[p].handle
    BY <1>1, <1>3, <1>4 DEF ProcT
  <2> HIDE DEF a
  <2> QED BY <1>1, <2>1, <2>2
<1>7. Kin(proc')
  <2>1. \A q \in Pid : KinOf(proc, q)
    BY <1>1 DEF Kin
  <2>2. proc[p].newbin = None /\ None \notin Pid
    BY <1>1, <2>1, PidNumbers DEF KinOf, Over, None
  <2> QED BY <1>1, <1>4, <1>6, <2>1, <2>2, KinStep DEF KinOf, Over
<1>8. Names(proc', file, shared)
  BY <1>1, <1>4, <1>6, NamesStep DEF Uses, Over
<1> QED BY <1>7, <1>8 DEF IndInv, Boot

\* The end of an instance as an action.
LEMMA EndsInv ==
  ASSUME IndInv, NEW p \in Pid,
         BootFails(p) \/ DaemonFails(p) \/ PidOpenFails(p) \/ PidWriteFails(p) \/ Crash(p)
  PROVE  IndInv'
<1>1. CASE Crash(p)
  BY <1>1, PlainEnd DEF Crash, Runs, IndInv
<1>2. CASE BootFails(p) \/ DaemonFails(p) \/ PidOpenFails(p) \/ PidWriteFails(p)
  <2>1. proc[p].st \in {"boot", "fork", "create", "write"} /\ proc' = End(proc, p, "dead") /\ UNCHANGED <<file, shared>>
    BY <1>2 DEF BootFails, DaemonFails, PidOpenFails, PidWriteFails, Ends
  <2> QED BY <2>1, PlainEnd DEF IndInv
<1> QED BY <1>1, <1>2

LEMMA DaemonInv ==
  ASSUME IndInv, NEW p \in Pid, Daemon(p) PROVE IndInv'
<1> DEFINE c == Next1
           w == [proc[p] EXCEPT !.st = "create", !.parent = p]
           ps == [proc EXCEPT ![c] = w]
           E == End(proc, p, "dead")
<1>1. c \in Pid /\ proc[c].st = "unborn" /\ proc[p].st = "fork" /\ c # p
  BY NewPid DEF Daemon
<1>2. proc \in [Pid -> ProcT] /\ KinOf(proc, p) /\ KinOf(proc, c)
  BY <1>1 DEF IndInv, Kin
<1>3. Kin(E) /\ Names(E, file, shared)
  BY <1>1, PlainEnd
<1>4. proc' = End(ps, p, "dead") /\ UNCHANGED <<file, shared>>
  BY DEF Daemon, Forked
<1>5. /\ w \in ProcT /\ w.st = "create" /\ w.parent = p /\ w.newbin = None /\ w.handle = Gone
  <2>1. proc[p].newbin = None /\ proc[p].handle = Gone
    BY <1>1, <1>2 DEF KinOf, Over
  <2> QED BY <1>2, <2>1, ZenonT(30) DEF ProcT, States
<1> HIDE DEF w
<1>6. ps \in [Pid -> ProcT] /\ ps[c] = w /\ \A q \in Pid : q # c => ps[q] = proc[q]
  BY <1>1, <1>2, <1>5
<1> HIDE DEF c, ps
<1>7. /\ E \in [Pid -> ProcT]
      /\ E[p].st = IF proc[p].parent \in Pid THEN "zombie" ELSE "dead"
      /\ E[p].parent = proc[p].parent /\ E[p].handle = Gone
      /\ E[p].newbin = IF proc[p].newbin = Invalid THEN Invalid ELSE None
      /\ \A q \in Pid : q # p =>
           /\ E[q].path = proc[q].path /\ E[q].newbin = proc[q].newbin /\ E[q].handle = proc[q].handle
           /\ E[q].listed = proc[q].listed
           /\ E[q].parent = IF proc[q].parent = p THEN Init1 ELSE proc[q].parent
           /\ E[q].st = IF proc[q].parent = p /\ proc[q].st = "zombie" THEN "dead" ELSE proc[q].st
  BY <1>2, EndIs
<1>8. /\ proc' \in [Pid -> ProcT]
      /\ proc'[p].st = IF ps[p].parent \in Pid THEN "zombie" ELSE "dead"
      /\ proc'[p].parent = ps[p].parent /\ proc'[p].handle = Gone
      /\ proc'[p].newbin = IF ps[p].newbin = Invalid THEN Invalid ELSE None
      /\ \A q \in Pid : q # p =>
           /\ proc'[q].path = ps[q].path /\ proc'[q].newbin = ps[q].newbin /\ proc'[q].handle = ps[q].handle
           /\ proc'[q].listed = ps[q].listed
           /\ proc'[q].parent = IF ps[q].parent = p THEN Init1 ELSE ps[q].parent
           /\ proc'[q].st = IF ps[q].parent = p /\ ps[q].st = "zombie" THEN "dead" ELSE ps[q].st
  BY <1>4, <1>6, EndIs
<1> HIDE DEF E
<1>9. /\ proc'[c].st = "create" /\ proc'[c].parent = Init1 /\ proc'[c].newbin = None /\ proc'[c].handle = Gone
      /\ E[c].st = "unborn" /\ E[c].parent \notin Pid /\ E[c].newbin = None
  <2>1. proc[c].newbin = None /\ proc[c].parent \notin Pid
    BY <1>1, <1>2 DEF KinOf, Over
  <2> QED BY <1>1, <1>5, <1>6, <1>7, <1>8, <2>1
<1>10. \A q \in Pid : q # c /\ q # p =>
         /\ proc'[q].st = E[q].st /\ proc'[q].parent = E[q].parent /\ proc'[q].newbin = E[q].newbin
         /\ proc'[q].handle = E[q].handle /\ proc'[q].path = E[q].path /\ proc'[q].listed = E[q].listed
  BY <1>6, <1>7, <1>8
<1>11. /\ proc'[p].st = E[p].st /\ proc'[p].parent = E[p].parent /\ proc'[p].newbin = E[p].newbin
       /\ proc'[p].handle = E[p].handle /\ E[p].st \in Over
  BY <1>1, <1>6, <1>7, <1>8 DEF Over
<1>12. Kin(proc')
  <2>1. \A q \in Pid : KinOf(E, q)
    BY <1>3 DEF Kin
  <2>2. Init1 \notin Pid /\ None \notin Pid /\ Invalid \notin Pid
    BY PidNumbers DEF Init1, None, Invalid
  <2>3. ASSUME NEW q \in Pid
        PROVE /\ proc'[q].parent = E[q].parent \/ (proc'[q].parent \notin Pid /\ E[q].parent \notin Pid)
              /\ proc'[q].newbin = E[q].newbin
              /\ E[q].st = "run" => proc'[q].st = "run"
              /\ proc'[q].st = "zombie" => E[q].st = "zombie"
              /\ proc'[q].st = "unborn" => E[q].st = "unborn"
              /\ proc'[q].st = "dead" => E[q].st = "dead"
              /\ proc'[q].newbin \in Pid /\ proc'[q].listed => E[q].listed
              /\ proc'[q].newbin # None => proc'[q].st \in Over \cup {"run"}
              /\ proc'[q].newbin # None /\ proc'[q].st = "run" => proc'[q].parent = Init1
              /\ proc'[q].handle # Gone => proc'[q].st = "write" /\ proc'[q].handle[1] = proc'[q].path
    <3>1. CASE q = c
      BY <1>9, <2>2, <3>1
    <3>2. CASE q = p
      BY <1>8, <1>11, <2>1, <2>2, <3>2 DEF KinOf
    <3>3. CASE q # p /\ q # c
      BY <1>10, <2>1, <3>3 DEF KinOf
    <3> QED BY <3>1, <3>2, <3>3
  <2> QED BY <1>3, <1>8, <2>3, KinStep
<1>13. Names(proc', file, shared)
  BY <1>3, <1>9, <1>10, <1>11, NamesStep DEF Uses, Over
<1> QED BY <1>4, <1>12, <1>13 DEF IndInv

\* The pid file is opened: if the name is not shared by then, whoever else uses it has p as its
\* new binary and is named by the old file.
LEMMA PidOpenInv ==
  ASSUME IndInv, NEW p \in Pid, PidOpen(p) PROVE IndInv'
<1> DEFINE f0 == PidOf(p)
<1>1. proc \in [Pid -> ProcT] /\ Kin(proc) /\ Names(proc, file, shared) /\ proc[p].st = "create"
  BY DEF IndInv, Kin, PidOpen
<1>2. \A q \in Pid : KinOf(proc, q)
  BY <1>1 DEF Kin
<1>3. /\ f0 = <<proc[p].path, "pid">> /\ f0 \in Name /\ f0 # Gone /\ f0[1] = proc[p].path /\ f0[2] = "pid"
  BY <1>1, PidOfIs DEF PidOf
<1>4. /\ file' = [file EXCEPT ![f0] = Blank]
      /\ proc' = [proc EXCEPT ![p].st = "write", ![p].handle = f0]
      /\ shared' = IF Shares(p) THEN shared \cup {proc[p].path} ELSE shared
  BY DEF PidOpen, Opened
<1> HIDE DEF f0
<1>5. /\ proc' \in [Pid -> ProcT] /\ \A q \in Pid : q # p => proc'[q] = proc[q]
      /\ proc'[p].st = "write" /\ proc'[p].parent = proc[p].parent /\ proc'[p].newbin = proc[p].newbin
      /\ proc'[p].handle = f0 /\ proc'[p].path = proc[p].path
  <2>1. "write" \in States
    BY DEF States
  <2> QED BY <1>1, <1>3, <1>4, <2>1, ZenonT(30) DEF ProcT
<1>6. /\ file' \in [Name -> Pid \cup {Absent, Blank}] /\ file'[f0] = Blank
      /\ \A f \in Name : f # f0 => file'[f] = file[f]
  BY <1>1, <1>3, <1>4 DEF Names
<1>7. /\ shared \subseteq shared' /\ shared' \subseteq Paths
      /\ proc[p].path \notin shared' => ~Shares(p)
  <2>1. proc[p].path \in Paths
    BY <1>1 DEF ProcT
  <2> QED BY <1>1, <1>4, <2>1 DEF Names
<1>8. proc[p].newbin = None /\ None \notin Pid
  BY <1>1, <1>2, PidNumbers DEF KinOf, Over, None
<1>9. Kin(proc')
  BY <1>1, <1>2, <1>3, <1>5, <1>8, KinStep DEF KinOf, Over
<1>10. ASSUME NEW q \in Pid, q # p, Uses(proc, q), proc[q].path = proc[p].path, proc[p].path \notin shared'
       PROVE  proc[q].newbin = p /\ proc[q].st = "run"
  <2>1. proc[q].newbin = p
    BY <1>7, <1>10 DEF Shares, Uses
  <2> QED BY <1>2, <2>1 DEF KinOf
<1>11. ASSUME NEW q \in Pid, proc'[q].path \notin shared' PROVE NameOf(proc', file', q)
  <2>1. CASE q = p
    <3>1. Blank # Absent
      BY PidNumbers DEF Blank, Absent
    <3>2. \A r \in Pid : r # p /\ Uses(proc', r) /\ proc'[r].path = proc'[p].path => proc'[r].newbin = p
      BY <1>5, <1>10, <1>11, <2>1 DEF Uses
    <3> QED BY <1>3, <1>5, <1>6, <2>1, <3>1, <3>2 DEF NameOf
  <2>2. CASE q # p /\ ~Uses(proc, q)
    BY <1>5, <2>2 DEF NameOf, Uses
  <2>3. CASE q # p /\ Uses(proc, q)
    <3>1. proc'[q] = proc[q] /\ proc[q].path \notin shared /\ NameOf(proc, file, q)
      BY <1>1, <1>5, <1>7, <1>11, <2>3 DEF Names
    <3>2. \A r \in Pid : r # q /\ Uses(proc', r) /\ proc'[r].path = proc'[q].path
                           => proc'[q].newbin = r \/ proc'[r].newbin = q
      <4>1. ASSUME NEW r \in Pid, r # q, Uses(proc', r), proc'[r].path = proc'[q].path
            PROVE  proc'[q].newbin = r \/ proc'[r].newbin = q
        <5>1. CASE r = p
          BY <1>5, <1>10, <1>11, <2>3, <3>1, <4>1, <5>1
        <5>2. CASE r # p
          BY <1>5, <2>3, <3>1, <4>1, <5>2 DEF NameOf, Uses
        <5> QED BY <5>1, <5>2
      <4> QED BY <4>1
    <3>3. CASE proc[q].path # proc[p].path
      <4>1. \A k \in {"pid", "old"} : file'[<<proc[q].path, k>>] = file[<<proc[q].path, k>>]
        <5>1. \A k \in {"pid", "old"} : <<proc[q].path, k>> \in Name /\ <<proc[q].path, k>> # f0
          BY <1>1, <1>3, <3>3, PidOfIs
        <5> QED BY <1>6, <5>1
      <4> QED BY <3>1, <3>2, <4>1 DEF NameOf
    <3>4. CASE proc[q].path = proc[p].path
      <4>1. proc[q].newbin = p /\ proc[q].st = "run"
        BY <1>10, <1>11, <2>3, <3>1, <3>4
      <4>2. file[<<proc[q].path, "old">>] = q
        BY <3>1, <4>1 DEF NameOf
      <4>3. <<proc[q].path, "old">> \in Name /\ <<proc[q].path, "old">> # f0
        BY <1>1, <1>3, PidOfIs
      <4> QED BY <1>6, <3>1, <3>2, <4>1, <4>2, <4>3 DEF NameOf
    <3> QED BY <3>3, <3>4
  <2> QED BY <2>1, <2>2, <2>3
<1>12. ASSUME NEW f \in Name, f[1] \notin shared', file'[f] \in Pid PROVE Tells(proc', f, file'[f])
  <2>1. f # f0
    BY <1>6, <1>12, PidNumbers DEF Blank
  <2>2. file'[f] = file[f] /\ Tells(proc, f, file[f])
    BY <1>1, <1>6, <1>7, <1>12, <2>1 DEF Names
  <2>3. file[f] # p
    BY <1>1, <2>2 DEF Tells, Over
  <2> QED BY <1>5, <1>12, <2>2, <2>3 DEF Tells
<1>13. Names(proc', file', shared')
  BY <1>6, <1>7, <1>11, <1>12 DEF Names
<1> QED BY <1>9, <1>13 DEF IndInv

LEMMA PidWriteInv ==
  ASSUME IndInv, NEW p \in Pid, PidWrite(p) PROVE IndInv'
<1> DEFINE h == proc[p].handle
<1>1. proc \in [Pid -> ProcT] /\ Kin(proc) /\ Names(proc, file, shared) /\ proc[p].st = "write"
  BY DEF IndInv, Kin, PidWrite
<1>2. \A q \in Pid : KinOf(proc, q)
  BY <1>1 DEF Kin
<1>3. h \in Name \cup {Gone} /\ (h # Gone => h[1] = proc[p].path)
  BY <1>1, <1>2 DEF KinOf, ProcT
<1>4. /\ file' = IF h = Gone THEN file ELSE [file EXCEPT ![h] = p]
      /\ proc' = [proc EXCEPT ![p].st = "run", ![p].handle = Gone] /\ shared' = shared
  BY DEF PidWrite
<1> HIDE DEF h
<1>5. /\ proc' \in [Pid -> ProcT] /\ \A q \in Pid : q # p => proc'[q] = proc[q]
      /\ proc'[p].st = "run" /\ proc'[p].parent = proc[p].parent /\ proc'[p].newbin = proc[p].newbin
      /\ proc'[p].handle = Gone /\ proc'[p].path = proc[p].path
  <2>1. "run" \in States
    BY DEF States
  <2> QED BY <1>1, <1>4, <2>1, ZenonT(30) DEF ProcT
<1>6. /\ file' \in [Name -> Pid \cup {Absent, Blank}]
      /\ \A f \in Name : f # h => file'[f] = file[f]
      /\ h # Gone => h \in Name /\ file'[h] = p
  BY <1>1, <1>3, <1>4 DEF Names
<1>7. proc[p].newbin = None /\ None \notin Pid
  BY <1>1, <1>2, PidNumbers DEF KinOf, Over, None
<1>8. Kin(proc')
  BY <1>1, <1>2, <1>3, <1>5, <1>7, KinStep DEF KinOf, Over
<1>9. ASSUME NEW q \in Pid, proc'[q].path \notin shared PROVE NameOf(proc', file', q)
  <2>0. NameOf(proc, file, q)
    BY <1>1, <1>5, <1>9 DEF Names
  <2>1. \A r \in Pid : r # q /\ Uses(proc', q) /\ Uses(proc', r) /\ proc'[r].path = proc'[q].path
                         => proc'[q].newbin = r \/ proc'[r].newbin = q
    BY <1>1, <1>5, <2>0 DEF NameOf, Uses
  <2>2. CASE q = p
    <3>1. h = <<proc[p].path, "pid">>
      BY <1>1, <2>0, <2>2 DEF NameOf, h
    <3>2. h # Gone
      BY <1>1, <3>1, PidOfIs
    <3> QED BY <1>5, <1>6, <1>7, <2>1, <2>2, <3>1, <3>2 DEF NameOf
  <2>3. CASE q # p /\ ~Uses(proc, q)
    BY <1>5, <2>3 DEF NameOf, Uses
  <2>4. CASE q # p /\ Uses(proc, q) /\ proc[q].path # proc[p].path
    <3>1. \A k \in {"pid", "old"} : <<proc[q].path, k>> \in Name /\ <<proc[q].path, k>> # h
      BY <1>1, <1>3, <2>4, PidOfIs
    <3> QED BY <1>5, <1>6, <2>0, <2>1, <2>4, <3>1 DEF NameOf
  <2>5. CASE q # p /\ Uses(proc, q) /\ proc[q].path = proc[p].path
    <3>1. NameOf(proc, file, p) /\ h = <<proc[p].path, "pid">>
      BY <1>1, <1>5, <1>9, <2>5 DEF Names, NameOf, h
    <3>2. proc[q].newbin = p /\ proc[q].st = "run"
      <4>1. proc[q].newbin = p
        BY <1>1, <1>7, <2>0, <2>5 DEF NameOf, Uses
      <4> QED BY <1>2, <4>1 DEF KinOf
    <3>3. file[<<proc[q].path, "old">>] = q /\ <<proc[q].path, "old">> \in Name /\ <<proc[q].path, "old">> # h
      BY <1>1, <2>0, <3>1, <3>2, PidOfIs DEF NameOf
    <3> QED BY <1>5, <1>6, <2>1, <2>5, <3>2, <3>3 DEF NameOf
  <2> QED BY <2>2, <2>3, <2>4, <2>5
<1>10. ASSUME NEW f \in Name, f[1] \notin shared, file'[f] \in Pid PROVE Tells(proc', f, file'[f])
  <2>1. CASE f = h
    <3>1. f # Gone /\ proc[p].path = f[1]
      BY <1>3, <2>1, NameIs
    <3>2. file'[f] = p /\ h = <<proc[p].path, "pid">>
      BY <1>1, <1>6, <1>10, <2>1, <3>1 DEF Names, NameOf, h
    <3>3. f[2] = "pid"
      BY <1>1, <2>1, <3>2, PidOfIs
    <3> QED BY <1>5, <1>7, <3>1, <3>2, <3>3 DEF Tells
  <2>2. CASE f # h
    <3>1. file'[f] = file[f] /\ Tells(proc, f, file[f])
      BY <1>1, <1>6, <1>10, <2>2 DEF Names
    <3>2. file[f] # p
      BY <1>1, <3>1 DEF Tells, Over
    <3> QED BY <1>5, <1>10, <3>1, <3>2 DEF Tells
  <2> QED BY <2>1, <2>2
<1>11. Names(proc', file', shared)
  BY <1>1, <1>6, <1>9, <1>10 DEF Names
<1> QED BY <1>4, <1>8, <1>11 DEF IndInv

LEMMA TestInv ==
  ASSUME IndInv, Test PROVE IndInv'
<1>1. PICK c \in Confs : file' = Opened(<<c.pid, "pid">>, TRUE)
  BY DEF Test
<1>2. Kin(proc) /\ Names(proc, file, shared) /\ UNCHANGED <<proc, shared>>
  BY DEF IndInv, Test
<1> DEFINE g == <<c.pid, "pid">>
<1>3. g \in Name
  BY BootAssumption DEF BootAssumption, Name
<1>4. file' = [file EXCEPT ![g] = IF file[g] # Absent THEN file[g] ELSE Blank]
  BY <1>1 DEF Opened
<1> HIDE DEF g
<1>5. /\ file' \in [Name -> Pid \cup {Absent, Blank}]
      /\ \A f \in Name : file'[f] = file[f] \/ (file[f] = Absent /\ file'[f] = Blank)
  BY <1>2, <1>3, <1>4 DEF Names
<1>6. ASSUME NEW q \in Pid, proc[q].path \notin shared PROVE NameOf(proc, file', q)
  <2>1. NameOf(proc, file, q)
    BY <1>2, <1>6 DEF Names
  <2>2. \A k \in {"pid", "old"} : <<proc[q].path, k>> \in Name
    BY <1>2, PidOfIs DEF Kin
  <2>3. Absent \notin Pid /\ Blank # Absent
    BY PidNumbers DEF Absent, Blank
  <2> QED BY <1>5, <2>1, <2>2, <2>3 DEF NameOf
<1>7. ASSUME NEW f \in Name, f[1] \notin shared, file'[f] \in Pid PROVE Tells(proc, f, file'[f])
  <2>1. file'[f] = file[f]
    BY <1>5, <1>7, PidNumbers DEF Blank
  <2> QED BY <1>2, <1>7, <2>1 DEF Names
<1>8. Names(proc, file', shared)
  BY <1>2, <1>5, <1>6, <1>7 DEF Names
<1> QED BY <1>2, <1>8 DEF IndInv

\* A signal, and a change of the binary that fails.
LEMMA MarkInv ==
  ASSUME IndInv, NEW p \in Pid, proc[p].st = "run", UNCHANGED <<file, shared>>,
         \/ proc' = [proc EXCEPT ![p].stop = TRUE]
         \/ proc[p].parent = Init1 /\ proc[p].newbin \notin Pid /\ proc' = [proc EXCEPT ![p].newbin = Invalid]
  PROVE  IndInv'
<1>1. proc \in [Pid -> ProcT] /\ Kin(proc) /\ Names(proc, file, shared) /\ \A q \in Pid : KinOf(proc, q)
  BY DEF IndInv, Kin
<1>2. Invalid \notin Pid
  BY PidNumbers DEF Invalid
<1>3. /\ proc' \in [Pid -> ProcT] /\ \A q \in Pid : q # p => proc'[q] = proc[q]
      /\ proc'[p].st = "run" /\ proc'[p].parent = proc[p].parent
      /\ \/ proc'[p].newbin = proc[p].newbin
         \/ proc'[p].newbin \notin Pid /\ proc[p].newbin \notin Pid /\ proc[p].parent = Init1
      /\ proc'[p].handle = proc[p].handle /\ proc'[p].path = proc[p].path /\ proc'[p].listed = proc[p].listed
  <2>1. CASE proc' = [proc EXCEPT ![p].stop = TRUE]
    BY <1>1, <2>1, ZenonT(30) DEF ProcT
  <2>2. CASE proc[p].parent = Init1 /\ proc[p].newbin \notin Pid /\ proc' = [proc EXCEPT ![p].newbin = Invalid]
    BY <1>1, <1>2, <2>2 DEF ProcT
  <2> QED BY <2>1, <2>2
<1>4. Kin(proc')
  BY <1>1, <1>3, KinStep DEF KinOf, Over
<1>5. Names(proc', file, shared)
  BY <1>1, <1>3, NamesStep DEF Uses, Over
<1> QED BY <1>4, <1>5 DEF IndInv

\* The master removes the name it has: the other name belongs to its new binary, or to the old
\* binary whose child it is.
LEMMA MasterExitInv ==
  ASSUME IndInv, NEW p \in Pid, MasterExit(p) PROVE IndInv'
<1> DEFINE k == IF proc[p].newbin # None THEN "old" ELSE "pid"
           D == <<proc[p].path, k>>
           E == End(proc, p, "dead")
<1>1. proc \in [Pid -> ProcT] /\ Kin(proc) /\ Names(proc, file, shared) /\ proc[p].st = "run"
  BY DEF IndInv, Kin, MasterExit, Runs
<1>2. \A q \in Pid : KinOf(proc, q)
  BY <1>1 DEF Kin
<1>3. D = Deletes(p)
  BY DEF Deletes, PidOf, OldOf
<1>4. file' = [file EXCEPT ![D] = Absent] /\ proc' = HandleCut(E, D) /\ shared' = shared
  BY <1>3 DEF MasterExit, Unlinked
<1>5. D \in Name /\ D # Gone /\ D[1] = proc[p].path /\ D[2] = k /\ k \in {"pid", "old"}
  BY <1>1, PidOfIs
<1>6. k = "old" <=> proc[p].newbin # None
  OBVIOUS
<1> HIDE DEF k
<1>7. /\ file' \in [Name -> Pid \cup {Absent, Blank}] /\ file'[D] = Absent
      /\ \A f \in Name : f # D => file'[f] = file[f]
  BY <1>1, <1>4, <1>5 DEF Names
<1>8. Kin(E)
  BY <1>1, EndKin
<1>9. Names(E, file', shared)
  <2>1. \A f \in Name : file'[f] \in {file[f], Absent}
    BY <1>7
  <2>2. ASSUME NEW q \in Pid, q # p, proc[q].path \notin shared PROVE NameOf(proc, file', q)
    <3>0. NameOf(proc, file, q)
      BY <1>1, <2>2 DEF Names
    <3>1. CASE ~Uses(proc, q)
      BY <3>1 DEF NameOf, Uses
    <3>2. CASE proc[q].path # proc[p].path
      <4>1. \A j \in {"pid", "old"} : <<proc[q].path, j>> \in Name /\ <<proc[q].path, j>> # D
        BY <1>1, <1>5, <3>2, PidOfIs
      <4> QED BY <1>7, <3>0, <4>1 DEF NameOf
    <3>3. CASE Uses(proc, q) /\ proc[q].path = proc[p].path
      <4>0. proc[q].newbin = p \/ proc[p].newbin = q
        BY <1>1, <2>2, <3>0, <3>3 DEF NameOf, Uses
      <4>1. CASE proc[q].newbin = p
        <5>1. proc[q].st = "run" /\ proc[p].parent = q
          BY <1>2, <4>1 DEF KinOf
        <5>2. proc[p].newbin = None
          BY <1>1, <1>2, <5>1, PidNumbers DEF KinOf, Init1
        <5>3. <<proc[q].path, "old">> \in Name /\ <<proc[q].path, "old">> # D
          BY <1>1, <1>5, <1>6, <5>2, PidOfIs
        <5> QED BY <1>7, <3>0, <4>1, <5>1, <5>3 DEF NameOf
      <4>2. CASE proc[p].newbin = q
        <5>1. proc[q].parent = p /\ proc[p].newbin # None
          BY <1>2, <4>2, PidNumbers DEF KinOf, None
        <5>2. proc[q].newbin \notin Pid
          BY <1>2, <5>1, PidNumbers DEF KinOf, Init1, None
        <5>3. <<proc[q].path, "pid">> \in Name /\ <<proc[q].path, "pid">> # D
          BY <1>1, <1>5, <1>6, <5>1, PidOfIs
        <5> QED BY <1>7, <3>0, <5>2, <5>3 DEF NameOf
      <4> QED BY <4>0, <4>1, <4>2
    <3> QED BY <3>1, <3>2, <3>3
  <2>3. ASSUME NEW f \in Name, f[1] \notin shared, file'[f] = p PROVE proc[p].newbin = Invalid
    <3>1. f # D /\ file[f] = p
      BY <1>7, <2>3, PidNumbers DEF Absent
    <3>2. Tells(proc, f, p)
      BY <1>1, <2>3, <3>1 DEF Names
    <3>3. proc[p].path = f[1] /\ (f[2] = "old" <=> proc[p].newbin \in Pid)
      BY <1>1, <3>2 DEF Tells, Over
    <3>4. f[2] # k
      <4>1. f = <<f[1], f[2]>> /\ D = <<proc[p].path, k>>
        BY NameIs
      <4> QED BY <3>1, <3>3, <4>1
    <3>5. f[2] \in {"pid", "old"} /\ proc[p].newbin \in Pid \cup {None, Invalid} /\ None \notin Pid
      BY <1>1, NameIs, PidNumbers DEF ProcT, None
    <3> QED BY <1>5, <1>6, <3>3, <3>4, <3>5
  <2> HIDE DEF D
  <2> QED BY <1>1, <1>7, <2>1, <2>2, <2>3, EndNames
<1>10. E \in [Pid -> ProcT] /\ \A q \in Pid : KinOf(E, q)
  BY <1>8 DEF Kin
<1> HIDE DEF D, E
<1>11. /\ proc' \in [Pid -> ProcT]
       /\ \A q \in Pid :
            /\ proc'[q].st = E[q].st /\ proc'[q].path = E[q].path
            /\ proc'[q].parent = E[q].parent /\ proc'[q].newbin = E[q].newbin /\ proc'[q].listed = E[q].listed
            /\ proc'[q].handle = IF E[q].handle = D THEN Gone ELSE E[q].handle
  BY <1>4, <1>5, <1>10, CutIs
<1>12. Kin(proc')
  BY <1>8, <1>10, <1>11, KinStep DEF KinOf
<1>13. Names(proc', file', shared)
  <2>1. ASSUME NEW q \in Pid, Uses(E, q), E[q].path \notin shared PROVE E[q].handle # D
    <3>1. NameOf(E, file', q)
      BY <1>9, <2>1 DEF Names
    <3>2. CASE E[q].st = "write"
      BY <1>7, <3>1, <3>2 DEF NameOf
    <3>3. CASE E[q].st = "run"
      BY <1>5, <1>10, <3>3 DEF KinOf
    <3> QED BY <2>1, <3>2, <3>3 DEF Uses
  <2>2. \A q \in Pid : Uses(proc', q) <=> Uses(E, q)
    BY <1>11 DEF Uses
  <2> QED BY <1>9, <1>11, <2>1, <2>2, NamesStep
<1> QED BY <1>4, <1>12, <1>13 DEF IndInv

\* rename within the names of p, for the change of the binary and for its end.
LEMMA RenamedIs ==
  ASSUME NEW f \in Name, NEW g \in Name, f # g, f[1] = g[1],
         file \in [Name -> Pid \cup {Absent, Blank}]
  PROVE  /\ Renamed(f, g) \in [Name -> Pid \cup {Absent, Blank}]
         /\ \A h \in Name : h[1] # f[1] => Renamed(f, g)[h] = file[h]
         /\ file[f] # Absent => Renamed(f, g)[f] = Absent /\ Renamed(f, g)[g] = file[f]
<1> DEFINE v == file[f]
           R == [file EXCEPT ![f] = Absent, ![g] = v]
<1>1. v \in Pid \cup {Absent, Blank} /\ Renamed(f, g) = IF v = Absent THEN file ELSE R
  BY DEF Renamed
<1> HIDE DEF v
<1>2. /\ R \in [Name -> Pid \cup {Absent, Blank}] /\ R[f] = Absent /\ R[g] = v
      /\ \A h \in Name : h[1] # f[1] => R[h] = file[h]
  BY <1>1
<1> HIDE DEF R
<1> QED BY <1>1, <1>2 DEF v

\* Whoever may change its binary, or has one that ended, is alone with its name.
LEMMA Alone ==
  ASSUME IndInv, NEW p \in Pid, proc[p].st = "run", proc[p].path \notin shared, proc[p].parent = Init1,
         proc[p].newbin \in Pid => ~Uses(proc, proc[p].newbin)
  PROVE  \A q \in Pid \ {p} : Uses(proc, q) => proc[q].path # proc[p].path
<1> SUFFICES ASSUME NEW q \in Pid, q # p, Uses(proc, q), proc[q].path = proc[p].path PROVE FALSE
  OBVIOUS
<1>1. NameOf(proc, file, p) /\ KinOf(proc, q)
  BY DEF IndInv, Names, Kin
<1>2. proc[q].newbin = p \/ proc[p].newbin = q
  BY <1>1 DEF NameOf, Uses
<1>3. proc[q].newbin # p
  BY <1>1, PidNumbers DEF KinOf, Init1
<1> QED BY <1>2, <1>3

LEMMA ChangeBinaryInv ==
  ASSUME IndInv, NEW p \in Pid, ChangeBinary(p) PROVE IndInv'
<1>0. PICK v \in BOOLEAN :
        proc' = HandleMoved([proc EXCEPT ![p].newbin = Next1, ![p].listed = v, ![Next1] = Fresh(p)], PidOf(p), OldOf(p))
  BY DEF ChangeBinary
<1> DEFINE n == Next1
           f == <<proc[p].path, "pid">>
           g == <<proc[p].path, "old">>
           w == Fresh(p)
           ps == [proc EXCEPT ![p].newbin = n, ![p].listed = v, ![n] = w]
<1>1. /\ proc \in [Pid -> ProcT] /\ Kin(proc) /\ Names(proc, file, shared)
      /\ proc[p].st = "run" /\ proc[p].parent = Init1 /\ proc[p].newbin \notin Pid
  BY DEF IndInv, Kin, ChangeBinary, MayChange, Runs
<1>2. \A q \in Pid : KinOf(proc, q)
  BY <1>1 DEF Kin
<1>3. n \in Pid /\ proc[n].st = "unborn" /\ n # p
  BY <1>1, NewPid DEF ChangeBinary
<1>4. w \in ProcT /\ w.st = "boot" /\ w.parent = p /\ w.newbin = None /\ w.handle = Gone
  BY FreshIs
<1>5. /\ f \in Name /\ g \in Name /\ f # g /\ f[1] = g[1] /\ f[1] = proc[p].path
      /\ f[2] = "pid" /\ g[2] = "old" /\ \A h \in Name : h[1] = proc[p].path => h = f \/ h = g
  BY <1>1, PidOfIs, NameIs
<1>6. /\ file[f] # Absent /\ file' = Renamed(f, g) /\ proc' = HandleMoved(ps, f, g) /\ shared' = shared
  BY <1>0 DEF ChangeBinary, PidOf, OldOf
<1> HIDE DEF n, f, g, w
<1>7. /\ ps \in [Pid -> ProcT] /\ ps[n] = w /\ \A q \in Pid : q # n /\ q # p => ps[q] = proc[q]
      /\ ps[p].newbin = n /\ ps[p].st = "run" /\ ps[p].parent = Init1 /\ ps[p].path = proc[p].path
      /\ ps[p].handle = proc[p].handle
  BY <1>1, <1>3, <1>4 DEF ProcT
<1> HIDE DEF ps
<1>8. /\ proc' \in [Pid -> ProcT]
      /\ \A q \in Pid :
           /\ proc'[q].st = ps[q].st /\ proc'[q].path = ps[q].path
           /\ proc'[q].parent = ps[q].parent /\ proc'[q].newbin = ps[q].newbin /\ proc'[q].listed = ps[q].listed
           /\ proc'[q].handle # Gone => ps[q].handle # Gone /\ proc'[q].handle[1] = ps[q].handle[1]
           /\ ps[q].handle = Gone \/ ps[q].handle[1] # f[1] => proc'[q].handle = ps[q].handle
  <2>1. ps \in [Pid -> ProcT] /\ f \in Name /\ g \in Name /\ f[1] = g[1]
    BY <1>5, <1>7
  <2>2. proc' = HandleMoved(ps, f, g)
    BY <1>6
  <2>3. Moved(ps, proc', f)
    BY <2>1, <2>2, MovedIs
  <2> QED BY <2>3 DEF Moved
<1>9. /\ file' \in [Name -> Pid \cup {Absent, Blank}]
      /\ \A h \in Name : h[1] # f[1] => file'[h] = file[h]
      /\ file'[f] = Absent /\ file'[g] = file[f]
  <2>1. file \in [Name -> Pid \cup {Absent, Blank}]
    BY <1>1 DEF Names
  <2> QED BY <1>5, <1>6, <2>1, RenamedIs
<1>10. Kin(proc')
  <2>0. None \notin Pid
    BY PidNumbers DEF None
  <2>1. ASSUME NEW q \in Pid PROVE KinOf(proc', q)
    <3>1. CASE q = p
      BY <1>1, <1>2, <1>3, <1>4, <1>7, <1>8, <3>1, PidNumbers DEF KinOf, Init1
    <3>2. CASE q = n
      BY <1>3, <1>4, <1>7, <1>8, <2>0, <3>2 DEF KinOf
    <3>3. CASE q # p /\ q # n
      <4>1. proc[q].parent # p /\ proc[q].newbin # n
        BY <1>1, <1>2, <1>3, <3>3 DEF KinOf
      <4>2. proc[q].parent # n /\ proc[q].newbin # p
        BY <1>1, <1>2, <1>3, <3>3, PidNumbers DEF KinOf, Init1
      <4> QED BY <1>2, <1>7, <1>8, <3>3, <4>1, <4>2 DEF KinOf
    <3> QED BY <3>1, <3>2, <3>3
  <2> QED BY <1>8, <2>1 DEF Kin
<1>11. Names(proc', file', shared)
  <2>1. ASSUME NEW q \in Pid \ {p}
        PROVE  /\ Uses(proc, q) \/ Uses(proc', q) =>
                    /\ proc'[q].st = proc[q].st /\ proc'[q].path = proc[q].path /\ proc'[q].newbin = proc[q].newbin
                    /\ proc[q].path # proc[p].path => proc'[q].handle = proc[q].handle
               /\ proc[q].st \in Over =>
                    /\ proc'[q].st \in Over /\ proc'[q].newbin = proc[q].newbin
                    /\ proc[q].st = "crashed" => proc'[q].st = "crashed"
    <3>1. CASE q = n
      BY <1>3, <1>4, <1>7, <1>8, <3>1 DEF Uses, Over
    <3>2. CASE q # n
      BY <1>2, <1>5, <1>7, <1>8, <3>2 DEF KinOf
    <3> QED BY <3>1, <3>2
  <2>2. ASSUME proc[p].path \notin shared
        PROVE  /\ \A q \in Pid \ {p} : Uses(proc, q) => proc[q].path # proc[p].path
               /\ \A h \in Name : h[1] = proc[p].path =>
                    IF h[2] = "old" <=> proc'[p].newbin \in Pid THEN file'[h] = p ELSE file'[h] \notin Pid
    <3>1. file[f] = p
      BY <1>1, <2>2 DEF Names, NameOf, f
    <3>2. \A q \in Pid \ {p} : Uses(proc, q) => proc[q].path # proc[p].path
      BY <1>1, <2>2, Alone
    <3>3. proc'[p].newbin \in Pid /\ Absent \notin Pid
      BY <1>3, <1>7, <1>8, PidNumbers DEF Absent
    <3> QED BY <1>5, <1>9, <3>1, <3>2, <3>3
  <2>3. proc'[p].st = "run" /\ proc'[p].path = proc[p].path
    BY <1>7, <1>8
  <2> QED BY <1>1, <1>5, <1>9, <2>1, <2>2, <2>3, SoleNames
<1> QED BY <1>6, <1>10, <1>11 DEF IndInv

LEMMA ReapInv ==
  ASSUME IndInv, NEW p \in Pid, Reap(p) PROVE IndInv'
<1> DEFINE c == proc[p].newbin
           y == IF proc[c].st = "zombie" THEN "dead" ELSE "crashed"
           f == <<proc[p].path, "old">>
           g == <<proc[p].path, "pid">>
           ps == [proc EXCEPT ![p].newbin = None, ![p].listed = FALSE, ![c].st = y, ![c].parent = Init1]
<1>1. /\ proc \in [Pid -> ProcT] /\ Kin(proc) /\ Names(proc, file, shared)
      /\ proc[p].st = "run" /\ c \in Pid /\ proc[c].st \in {"zombie", "crashed"} /\ proc[c].parent = p
  BY DEF IndInv, Kin, Reap, Runs, Ended
<1>2. \A q \in Pid : KinOf(proc, q)
  BY <1>1 DEF Kin
<1>3. c # p /\ proc[c].newbin \notin Pid /\ proc[p].parent = Init1 /\ None \notin Pid /\ Init1 \notin Pid
  BY <1>1, <1>2, PidNumbers DEF KinOf, None, Init1
<1>4. y \in {"dead", "crashed"} /\ y \in States /\ (proc[c].st = "crashed" => y = "crashed")
  BY <1>1 DEF States
<1>5. /\ f \in Name /\ g \in Name /\ f # g /\ f[1] = g[1] /\ f[1] = proc[p].path
      /\ f[2] = "old" /\ g[2] = "pid" /\ \A h \in Name : h[1] = proc[p].path => h = f \/ h = g
  BY <1>1, PidOfIs, NameIs
<1>6. /\ file' = Renamed(f, g) /\ proc' = HandleMoved(ps, f, g) /\ shared' = shared
  BY DEF Reap, PidOf, OldOf, GivenBack, AfterReap
<1>60. c = proc[p].newbin
  OBVIOUS
<1> HIDE DEF c, y, f, g
<1>7. /\ ps \in [Pid -> ProcT] /\ \A q \in Pid : q # c /\ q # p => ps[q] = proc[q]
      /\ ps[p].newbin = None /\ ps[p].st = "run" /\ ps[p].parent = Init1 /\ ps[p].path = proc[p].path
      /\ ps[p].handle = proc[p].handle
      /\ ps[c].newbin = proc[c].newbin /\ ps[c].st = y /\ ps[c].parent = Init1 /\ ps[c].path = proc[c].path
      /\ ps[c].handle = proc[c].handle
  <2> DEFINE a == [[proc[p] EXCEPT !.newbin = None] EXCEPT !.listed = FALSE]
             b == [[proc[c] EXCEPT !.st = y] EXCEPT !.parent = Init1]
  <2>1. /\ ps = [q \in Pid |-> IF q = c THEN b ELSE IF q = p THEN a ELSE proc[q]]
    BY <1>1, <1>3
  <2>2. /\ a \in ProcT /\ a.newbin = None /\ a.st = proc[p].st /\ a.parent = proc[p].parent
        /\ a.path = proc[p].path /\ a.handle = proc[p].handle
    BY <1>1 DEF ProcT
  <2>3. /\ b \in ProcT /\ b.newbin = proc[c].newbin /\ b.st = y /\ b.parent = Init1
        /\ b.path = proc[c].path /\ b.handle = proc[c].handle
    BY <1>1, <1>4 DEF ProcT
  <2> HIDE DEF a, b, ps
  <2> QED BY <1>1, <1>3, <2>1, <2>2, <2>3
<1> HIDE DEF ps
<1>8. /\ proc' \in [Pid -> ProcT]
      /\ \A q \in Pid :
           /\ proc'[q].st = ps[q].st /\ proc'[q].path = ps[q].path
           /\ proc'[q].parent = ps[q].parent /\ proc'[q].newbin = ps[q].newbin /\ proc'[q].listed = ps[q].listed
           /\ proc'[q].handle # Gone => ps[q].handle # Gone /\ proc'[q].handle[1] = ps[q].handle[1]
           /\ ps[q].handle = Gone \/ ps[q].handle[1] # f[1] => proc'[q].handle = ps[q].handle
  <2>1. ps \in [Pid -> ProcT] /\ f \in Name /\ g \in Name /\ f[1] = g[1]
    BY <1>5, <1>7
  <2>2. proc' = HandleMoved(ps, f, g)
    BY <1>6
  <2>3. Moved(ps, proc', f)
    BY <2>1, <2>2, MovedIs
  <2> QED BY <2>3 DEF Moved
<1>9. /\ file' \in [Name -> Pid \cup {Absent, Blank}]
      /\ \A h \in Name : h[1] # f[1] => file'[h] = file[h]
      /\ file[f] # Absent => file'[f] = Absent /\ file'[g] = file[f]
  BY <1>1, <1>5, <1>6, RenamedIs DEF Names
<1>10. Kin(proc')
  <2>1. ASSUME NEW q \in Pid PROVE KinOf(proc', q)
    <3>1. CASE q = p
      BY <1>1, <1>2, <1>3, <1>7, <1>8, <3>1 DEF KinOf
    <3>2. CASE q = c
      BY <1>1, <1>2, <1>3, <1>4, <1>7, <1>8, <3>2 DEF KinOf, Over
    <3>3. CASE q # p /\ q # c
      <4>1. proc[q].parent # p /\ proc[q].newbin # c
        BY <1>1, <1>2, <1>60, <3>3 DEF KinOf
      <4>2. proc[q].parent # c /\ proc[q].newbin # p
        BY <1>1, <1>2, <1>3, <3>3, PidNumbers DEF KinOf, Init1
      <4> QED BY <1>2, <1>7, <1>8, <3>3, <4>1, <4>2 DEF KinOf
    <3> QED BY <3>1, <3>2, <3>3
  <2> QED BY <1>8, <2>1 DEF Kin
<1>11. Names(proc', file', shared)
  <2>1. ASSUME NEW q \in Pid \ {p}
        PROVE  /\ Uses(proc, q) \/ Uses(proc', q) =>
                    /\ proc'[q].st = proc[q].st /\ proc'[q].path = proc[q].path /\ proc'[q].newbin = proc[q].newbin
                    /\ proc[q].path # proc[p].path => proc'[q].handle = proc[q].handle
               /\ proc[q].st \in Over =>
                    /\ proc'[q].st \in Over /\ proc'[q].newbin = proc[q].newbin
                    /\ proc[q].st = "crashed" => proc'[q].st = "crashed"
    <3>1. CASE q = c
      BY <1>1, <1>4, <1>7, <1>8, <3>1 DEF Uses, Over
    <3>2. CASE q # c
      BY <1>2, <1>5, <1>7, <1>8, <3>2 DEF KinOf
    <3> QED BY <3>1, <3>2
  <2>2. ASSUME proc[p].path \notin shared
        PROVE  /\ \A q \in Pid \ {p} : Uses(proc, q) => proc[q].path # proc[p].path
               /\ \A h \in Name : h[1] = proc[p].path =>
                    IF h[2] = "old" <=> proc'[p].newbin \in Pid THEN file'[h] = p ELSE file'[h] \notin Pid
    <3>1. file[f] = p
      BY <1>1, <1>60, <2>2 DEF Names, NameOf, f
    <3>2. ~Uses(proc, c)
      BY <1>1 DEF Uses
    <3>3. \A q \in Pid \ {p} : Uses(proc, q) => proc[q].path # proc[p].path
      BY <1>1, <1>3, <1>60, <2>2, <3>2, Alone
    <3>4. proc'[p].newbin \notin Pid /\ Absent \notin Pid
      BY <1>3, <1>7, <1>8, PidNumbers DEF Absent
    <3> QED BY <1>5, <1>9, <3>1, <3>3, <3>4
  <2>3. proc'[p].st = "run" /\ proc'[p].path = proc[p].path
    BY <1>7, <1>8
  <2> QED BY <1>1, <1>5, <1>9, <2>1, <2>2, <2>3, SoleNames
<1> QED BY <1>6, <1>10, <1>11 DEF IndInv

LEMMA EndUnseenInv ==
  ASSUME IndInv, NEW p \in Pid, EndUnseen(p) PROVE IndInv'
<1> DEFINE c == proc[p].newbin
<1>1. /\ proc \in [Pid -> ProcT] /\ Kin(proc) /\ Names(proc, file, shared)
      /\ c \in Pid /\ proc[c].st = "zombie" /\ ~proc[p].listed /\ UNCHANGED <<file, shared>>
      /\ proc' = [proc EXCEPT ![c].st = "dead"]
  BY DEF IndInv, Kin, EndUnseen
<1>2. \A q \in Pid : KinOf(proc, q)
  BY <1>1 DEF Kin
<1>3. proc[c].parent = p /\ proc[c].newbin \notin Pid /\ proc[c].handle = Gone
  BY <1>1, <1>2 DEF KinOf
<1>4. \A q \in Pid : proc[q].newbin = c => q = p
  BY <1>1, <1>2, <1>3 DEF KinOf
<1> HIDE DEF c
<1>5. /\ proc' \in [Pid -> ProcT] /\ \A q \in Pid : q # c => proc'[q] = proc[q]
      /\ proc'[c].st = "dead" /\ proc'[c].parent = proc[c].parent /\ proc'[c].newbin = proc[c].newbin
      /\ proc'[c].handle = proc[c].handle /\ proc'[c].path = proc[c].path
  <2>1. "dead" \in States
    BY DEF States
  <2> QED BY <1>1, <2>1, ZenonT(30) DEF ProcT
<1>6. ASSUME NEW q \in Pid PROVE KinOf(proc', q)
  <2>1. CASE q = c
    BY <1>1, <1>2, <1>3, <1>5, <2>1 DEF KinOf, Over
  <2>2. CASE q # c
    BY <1>1, <1>2, <1>4, <1>5, <2>2 DEF KinOf
  <2> QED BY <2>1, <2>2
<1>7. Kin(proc')
  BY <1>5, <1>6 DEF Kin
<1>8. Names(proc', file, shared)
  BY <1>1, <1>5, NamesStep DEF Uses, Over
<1> QED BY <1>1, <1>7, <1>8 DEF IndInv
-----------------------------------------------------------------------------
LEMMA NextInv == IndInv /\ [Next]_vars => IndInv'
<1> SUFFICES ASSUME IndInv, [Next]_vars PROVE IndInv'
  OBVIOUS
<1>1. CASE Launch
  BY <1>1, LaunchInv
<1>2. CASE Test
  BY <1>2, TestInv
<1>3. CASE Signal
  <2>1. PICK f \in Name : file[f] \in Pid /\ Runs(file[f]) /\ proc' = [proc EXCEPT ![file[f]].stop = TRUE]
    BY <1>3 DEF Signal
  <2>2. UNCHANGED <<file, shared>>
    BY <1>3 DEF Signal
  <2> QED BY <2>1, <2>2, MarkInv DEF Runs
<1>4. ASSUME NEW p \in Pid, Instance(p) PROVE IndInv'
  <2>1. CASE ChangeFails(p)
    BY <2>1, MarkInv DEF ChangeFails, MayChange, Runs
  <2>2. CASE BootFails(p) \/ DaemonFails(p) \/ PidOpenFails(p) \/ PidWriteFails(p) \/ Crash(p)
    BY <2>2, EndsInv
  <2> QED BY <1>4, <2>1, <2>2, BootInv, DaemonInv, PidOpenInv, PidWriteInv, MasterExitInv, ChangeBinaryInv, ReapInv,
          EndUnseenInv           DEF Instance
<1>5. CASE UNCHANGED vars
  BY <1>5 DEF vars, IndInv
<1> QED BY <1>1, <1>2, <1>3, <1>4, <1>5 DEF Next

LEMMA Inductive == Spec => []IndInv
  BY InitInv, NextInv, PTL DEF Spec

\* A pid file that instances do not share names a process that runs, was killed, or lost its old
\* name because its last change of the binary failed (ntg_create_pidfile, ntg_delete_pidfile,
\* ntg_exec_new_binary, ntg_reap_children); a zombie has a master that runs and will reap it.
THEOREM PidFilesTrue == Spec => []NamesLiving
<1>1. IndInv => NamesLiving
  <2> SUFFICES ASSUME IndInv PROVE NamesLiving
    OBVIOUS
  <2>1. proc \in [Pid -> ProcT] /\ Names(proc, file, shared) /\ \A p \in Pid : KinOf(proc, p)
    BY DEF IndInv, Kin
  <2>2. TypeOK
    <3>1. file \in [Name -> Pid \cup {Absent, Blank}] /\ shared \subseteq Paths
      BY <2>1 DEF Names
    <3>2. ASSUME NEW p \in Pid
          PROVE  /\ proc[p].st \in States /\ proc[p].path \in Paths
                 /\ proc[p].parent \in Pid \cup {Init1, Shell}
                 /\ proc[p].newbin \in Pid \cup {None, Invalid} /\ proc[p].listed \in BOOLEAN
                 /\ Runs(p) /\ proc[p].newbin \in Pid => proc[proc[p].newbin].parent = p
                 /\ proc[p].st = "zombie" => proc[p].parent \in Pid /\ Runs(proc[p].parent)
      <4>1. proc[p] \in ProcT
        BY <2>1
      <4> QED BY <2>1, <4>1 DEF ProcT, KinOf, Runs
    <3> QED BY <3>1, <3>2 DEF TypeOK
  <2>3. ASSUME NEW f \in Name, f[1] \notin shared, file[f] \in Pid
        PROVE  Runs(file[f]) \/ proc[file[f]].st = "crashed" \/ proc[file[f]].newbin = Invalid
    BY <2>1, <2>3 DEF Names, Tells, Runs
  <2> QED BY <2>2, <2>3 DEF NamesLiving
<1> QED BY <1>1, Inductive, PTL

\* An instance that runs is found under the name in its configuration, or under the old one while
\* it has a new binary, unless another instance took the name.
THEOREM InstancesFound == Spec => []Found
<1>1. IndInv => Found
  <2> SUFFICES ASSUME IndInv, NEW p \in Pid, Runs(p), proc[p].path \notin shared
               PROVE  \/ file[PidOf(p)] = p
                      \/ /\ file[OldOf(p)] = p /\ proc[p].newbin \in Pid
                         /\ proc[p].listed => proc[proc[p].newbin].st # "dead"
    BY DEF Found
  <2>1. NameOf(proc, file, p) /\ KinOf(proc, p)
    BY DEF IndInv, Names, Kin
  <2> QED BY <2>1 DEF NameOf, KinOf, Runs, PidOf, OldOf
<1> QED BY <1>1, Inductive, PTL
=============================================================================
