--------------------------- MODULE Startup_proofs ---------------------------
(***************************************************************************)
(* Proofs about Startup, for any scripts.  The scripts are asked for no    *)
(* more than ScriptsSound, which is about each of them alone and           *)
(* undisturbed; the theorems are about starts that die anywhere, run into  *)
(* what earlier ones left, and alternate with downgrades.                  *)
(***************************************************************************)
EXTENDS Startup, WellFoundedInduction, TLAPS

-----------------------------------------------------------------------------
(* The inductive invariant. *)

\* The tables that the scripts ahead of a revision create.
Ahead(v) == UNION {Created(Upgrades[u]) : u \in v + 1 .. HeadRevision}

\* What the running script would have made of its own revision by now.
Origin == Revision[disk.version]
Ideal == IF rev = 0 THEN Origin ELSE Course(Origin, Script)[done]

CreatedSoFar == {Script[i].on : i \in {j \in 1 .. done : Script[j].do = "create"}}

Fields == {"tables", "copies", "rows", "version"}

IsMap(f) == f = [x \in DOMAIN f |-> f[x]]

IsDatabase(d) == DOMAIN d = Fields /\ IsMap(d.tables)

Known == UNION {Created(Upgrades[v]) \cup Created(Downgrades[v]) : v \in 1 .. HeadRevision}

\* Where the process is: which script runs, how far, and what its transaction holds back.
Control ==
    /\ IsDatabase(disk) /\ IsDatabase(db) /\ db.version = disk.version
    /\ disk.version \in 0 .. HeadRevision /\ txn \in BOOLEAN
    /\ phase \in {"stopped", "upgrading", "downgrading", "serving"}
    /\ rev = 0 => ~txn /\ done = 0 /\ phase # "downgrading"
    /\ rev # 0 => /\ phase \in {"upgrading", "downgrading"} /\ rev \in 1 .. HeadRevision
                  /\ rev = IF phase = "upgrading" THEN disk.version + 1 ELSE disk.version
                  /\ done \in 0 .. Len(Script)
                  /\ ~txn => \A i \in 1 .. done : Script[i].do # "swap"
    /\ phase = "serving" => disk.version = HeadRevision
    /\ ~txn => db = disk
    /\ cut \subseteq {"up", "down"}

\* As long as no script was cut short, the database is where the undisturbed script is, and
\* what a crash would leave is where it was at some point.
Exact ==
    cut = {} =>
        /\ db.tables = Ideal.tables /\ db.copies = Ideal.copies
        /\ rev # 0 => \E i \in 0 .. done : disk.tables = Course(Origin, Script)[i].tables

\* What starts that died have left is in addition to what there should be, and is in the way
\* of a script that is still to run.
Surplus ==
    "down" \notin cut =>
        /\ Keeps(db.tables, Ideal.tables)
        /\ DOMAIN db.tables \ DOMAIN Ideal.tables \subseteq Ahead(disk.version)
        /\ (DOMAIN db.tables \ DOMAIN Ideal.tables) \cap CreatedSoFar = {}
        /\ rev # 0 /\ phase = "upgrading" =>
             /\ Keeps(disk.tables, Origin.tables)
             /\ \A d \in {disk, db} :
                  DOMAIN d.tables \ DOMAIN Origin.tables \subseteq Ahead(disk.version)

IInv == Control /\ Exact /\ Surplus

-----------------------------------------------------------------------------
(* Recursive definitions. *)

\* A set of numbers has a least one.
LEMMA LeastNumber ==
    ASSUME NEW S \in SUBSET Nat, S # {}
    PROVE  \E m \in S : \A k \in S : m <= k
<1> DEFINE R == OpToRel(<, Nat)
<1>1. IsWellFoundedOn(R, Nat) /\ \A i, j \in Nat : j < i => <<j, i>> \in R
  BY NatLessThanWellFounded DEF OpToRel
<1> HIDE DEF R
<1>2. PICK m \in S : \A k \in S : <<k, m>> \notin R
  BY <1>1, WFMin
<1>3. ASSUME NEW k \in S
      PROVE  m <= k
  <2>1. k \in Nat /\ m \in Nat /\ ~ (k < m)
    BY <1>1, <1>2
  <2> QED  BY <2>1
<1> QED  BY <1>3

\* A set that has 0, and with a number the next one up to n, has all numbers up to n.
LEMMA UpTo ==
    ASSUME NEW n \in Nat, NEW G, 0 \in G, \A i \in 0 .. n : i + 1 \in 0 .. n /\ i \in G => i + 1 \in G
    PROVE  0 .. n \subseteq G
<1> DEFINE S == (0 .. n) \ G
<1> SUFFICES ASSUME S # {}
             PROVE  FALSE
  OBVIOUS
<1>1. S \subseteq Nat
  OBVIOUS
<1>2. PICK m \in S : \A k \in S : m <= k
  BY <1>1, LeastNumber
<1>3. m # 0 /\ m - 1 \in 0 .. n /\ m - 1 \notin S
  BY <1>2
<1> QED  BY <1>2, <1>3

\* The courses of scripts are what their definition says, since each prefix has one.
LEMMA CourseDefined ==
    ASSUME NEW d, NEW script, Len(script) \in Nat
    PROVE  Course(d, script) = [i \in 0 .. Len(script) |->
               IF i = 0 THEN d ELSE After(Course(d, script)[i - 1], script[i])]
<1> DEFINE n == Len(script)
           Is(f, m) == f = [i \in 0 .. m |-> IF i = 0 THEN d ELSE After(f[i - 1], script[i])]
           G == {m \in 0 .. n : \E f : Is(f, m)}
<1>1. 0 \in G
  <2> DEFINE g == [i \in 0 .. 0 |-> d]
  <2>1. Is(g, 0)
    OBVIOUS
  <2> HIDE DEF g, Is
  <2>2. \E f : Is(f, 0)
    BY <2>1
  <2> QED  BY <2>2
<1>2. ASSUME NEW m \in 0 .. n, m + 1 \in 0 .. n, m \in G
      PROVE  m + 1 \in G
  <2>1. PICK g : Is(g, m)
    BY <1>2
  <2> DEFINE h == [i \in 0 .. m + 1 |-> IF i = m + 1 THEN After(g[m], script[m + 1]) ELSE g[i]]
  <2>2. ASSUME NEW i \in 0 .. m + 1
        PROVE  h[i] = IF i = 0 THEN d ELSE After(h[i - 1], script[i])
    <3>1. CASE i = m + 1
      <4>1. i # 0 /\ h[i] = After(g[m], script[i]) /\ h[i - 1] = g[m]
        BY <3>1
      <4> QED  BY <4>1, <3>1
    <3>2. CASE i # m + 1
      <4>1. i \in 0 .. m /\ h[i] = g[i] /\ (i # 0 => h[i - 1] = g[i - 1])
        BY <3>2
      <4>2. g[i] = IF i = 0 THEN d ELSE After(g[i - 1], script[i])
        BY <2>1, <4>1
      <4> QED  BY <4>1, <4>2
    <3> QED  BY <3>1, <3>2
  <2>3. Is(h, m + 1)
    BY <2>2
  <2> HIDE DEF h, Is
  <2>4. \E f : Is(f, m + 1)
    BY <2>3
  <2> QED  BY <2>4, <1>2
<1>3. n \in G
  <2> HIDE DEF G
  <2>1. 0 .. n \subseteq G
    BY <1>1, <1>2, UpTo
  <2> QED  BY <2>1
<1>4. \E f : Is(f, n)
  <2> HIDE DEF Is
  <2> QED  BY <1>3
<1> QED  BY <1>4, Zenon DEF Course

LEMMA RevisionDefined ==
    ASSUME HeadRevision \in Nat
    PROVE  Revision = [v \in 0 .. HeadRevision |->
               IF v = 0 THEN [tables |-> <<>>, copies |-> {}, rows |-> {}, version |-> 0]
                        ELSE [Run(Revision[v - 1], Upgrades[v]) EXCEPT !.version = v]]
<1> DEFINE n == HeadRevision
           empty == [tables |-> <<>>, copies |-> {}, rows |-> {}, version |-> 0]
           Next1(d, v) == [Run(d, Upgrades[v]) EXCEPT !.version = v]
           Is(f, m) == f = [v \in 0 .. m |-> IF v = 0 THEN empty ELSE Next1(f[v - 1], v)]
           G == {m \in 0 .. n : \E f : Is(f, m)}
<1> HIDE DEF empty, Next1
<1>1. 0 \in G
  <2> DEFINE g == [v \in 0 .. 0 |-> empty]
  <2>1. Is(g, 0)
    OBVIOUS
  <2> HIDE DEF g, Is
  <2>2. \E f : Is(f, 0)
    BY <2>1
  <2> QED  BY <2>2
<1>2. ASSUME NEW m \in 0 .. n, m + 1 \in 0 .. n, m \in G
      PROVE  m + 1 \in G
  <2>1. PICK g : Is(g, m)
    BY <1>2
  <2> DEFINE h == [v \in 0 .. m + 1 |-> IF v = m + 1 THEN Next1(g[m], m + 1) ELSE g[v]]
  <2>2. ASSUME NEW v \in 0 .. m + 1
        PROVE  h[v] = IF v = 0 THEN empty ELSE Next1(h[v - 1], v)
    <3>1. CASE v = m + 1
      <4>1. v # 0 /\ h[v] = Next1(g[m], v) /\ h[v - 1] = g[m]
        BY <3>1
      <4> QED  BY <4>1, <3>1
    <3>2. CASE v # m + 1
      <4>1. v \in 0 .. m /\ h[v] = g[v] /\ (v # 0 => h[v - 1] = g[v - 1])
        BY <3>2
      <4>2. g[v] = IF v = 0 THEN empty ELSE Next1(g[v - 1], v)
        BY <2>1, <4>1
      <4> QED  BY <4>1, <4>2
    <3> QED  BY <3>1, <3>2
  <2>3. Is(h, m + 1)
    BY <2>2
  <2> HIDE DEF h, Is
  <2>4. \E f : Is(f, m + 1)
    BY <2>3
  <2> QED  BY <2>4, <1>2
<1>3. n \in G
  <2> HIDE DEF G
  <2>1. 0 .. n \subseteq G
    BY <1>1, <1>2, UpTo
  <2> QED  BY <2>1
<1>4. \E f : Is(f, n)
  <2> HIDE DEF Is
  <2> QED  BY <1>3
<1> QED  BY <1>4, Zenon DEF Revision, empty, Next1

-----------------------------------------------------------------------------
(* Scripts and statements. *)

LEMMA Scripts ==
    /\ HeadRevision \in Nat
    /\ \A v \in 1 .. HeadRevision :
         Len(Upgrades[v]) \in Nat /\ DOMAIN Upgrades[v] = 1 .. Len(Upgrades[v])
    /\ Len(Downgrades) = HeadRevision =>
         \A v \in 1 .. HeadRevision :
           Len(Downgrades[v]) \in Nat /\ DOMAIN Downgrades[v] = 1 .. Len(Downgrades[v])
<1>1. ASSUME NEW s, IsList(s)
      PROVE  Len(s) \in Nat /\ DOMAIN s = 1 .. Len(s)
  BY <1>1 DEF IsList
<1> QED  BY <1>1, ScriptsAssumption DEF HeadRevision

\* A statement is about the one table it names, and makes the same of the same table.
LEMMA ExecuteSame ==
    ASSUME NEW tables, NEW old, NEW s
    PROVE  /\ IsMap(Execute(tables, s))
           /\ DOMAIN Execute(tables, s) = Names(tables, s)
           /\ \A t \in DOMAIN Execute(tables, s) \cap DOMAIN Execute(old, s) :
                tables[t] = old[t] => Execute(tables, s)[t] = Execute(old, s)[t]
           /\ s.do = "create" => Execute(tables, s)[s.on] = Execute(old, s)[s.on]
<1> DEFINE Made(T, t) ==
             IF t # s.on THEN T[t] ELSE IF s.do = "create" THEN s.table ELSE Altered(T[t], s)
<1>1. \A T : Execute(T, s) = [t \in Names(T, s) |-> Made(T, t)]
  BY DEF Execute
<1>2. \A t : tables[t] = old[t] => Made(tables, t) = Made(old, t)
  OBVIOUS
<1>3. s.do = "create" => Made(tables, s.on) = Made(old, s.on) /\ \A T : s.on \in Names(T, s)
  BY DEF Names
<1> HIDE DEF Made
<1> QED  BY <1>1, <1>2, <1>3 DEF IsMap

\* Where it can be executed on more tables than it was written for, it does to the old ones
\* what it was written to do, and to the others at most that it drops one.
LEMMA ExecuteOnMore ==
    ASSUME NEW d, NEW old, NEW s, CanExecute(d, s), Keeps(d.tables, old)
    PROVE  LET more == DOMAIN d.tables \ DOMAIN old
               tables == Execute(d.tables, s)
           IN  /\ Keeps(tables, Execute(old, s))
               /\ DOMAIN tables \ DOMAIN Execute(old, s) \subseteq more
               /\ s.do = "create" => s.on \notin more
<1>1. s.do = "create" => s.on \notin DOMAIN d.tables
  BY DEF CanExecute
<1>2. \A T : DOMAIN Execute(T, s) = Names(T, s)
  BY ExecuteSame
<1>3. DOMAIN Execute(old, s) \subseteq DOMAIN Execute(d.tables, s)
  BY <1>2 DEF Names, Keeps
<1>4. ASSUME NEW t \in DOMAIN Execute(old, s)
      PROVE  Execute(d.tables, s)[t] = Execute(old, s)[t]
  <2>1. CASE s.do = "create" /\ t = s.on
    BY <2>1, ExecuteSame
  <2>2. CASE ~ (s.do = "create" /\ t = s.on)
    <3>1. t \in DOMAIN old
      BY <1>2, <2>2 DEF Names
    <3> QED  BY <1>3, <3>1, ExecuteSame DEF Keeps
  <2> QED  BY <2>1, <2>2
<1>5. DOMAIN Execute(d.tables, s) \ DOMAIN Execute(old, s) \subseteq DOMAIN d.tables \ DOMAIN old
  BY <1>2 DEF Names
<1> QED  BY <1>1, <1>3, <1>4, <1>5 DEF Keeps

\* What a statement makes of a database is a database.
LEMMA AfterIs ==
    ASSUME NEW d, DOMAIN d = Fields, NEW s
    PROVE  /\ IsDatabase(After(d, s))
           /\ After(d, s).tables = Execute(d.tables, s)
           /\ After(d, s).version = d.version
           /\ After(d, s).copies = (d.copies \ (IF s.do \in {"swap", "drop"} THEN {s.on} ELSE {}))
                                     \cup (IF s.do = "copy" THEN {s.on} ELSE {})
           /\ After(d, s).rows = d.rows \ (IF s.do = "drop" THEN {s.on} ELSE {})
<1>1. DOMAIN After(d, s) = Fields
  BY DEF After, Fields
<1>2. After(d, s).tables = Execute(d.tables, s)
  BY DEF After, Fields
<1>3. IsDatabase(After(d, s))
  BY <1>1, <1>2, ExecuteSame DEF IsDatabase, IsMap
<1>4. /\ After(d, s).version = d.version
      /\ After(d, s).copies = (d.copies \ (IF s.do \in {"swap", "drop"} THEN {s.on} ELSE {}))
                                \cup (IF s.do = "copy" THEN {s.on} ELSE {})
      /\ After(d, s).rows = d.rows \ (IF s.do = "drop" THEN {s.on} ELSE {})
  BY DEF After, Fields
<1> QED  BY <1>2, <1>3, <1>4

LEMMA CourseSteps ==
    ASSUME NEW d, IsDatabase(d), NEW script, Len(script) \in Nat, DOMAIN script = 1 .. Len(script)
    PROVE  /\ Course(d, script)[0] = d
           /\ \A i \in 1 .. Len(script) :
                Course(d, script)[i] = After(Course(d, script)[i - 1], script[i])
           /\ \A i \in 0 .. Len(script) :
                /\ IsDatabase(Course(d, script)[i])
                /\ Course(d, script)[i].version = d.version
                /\ DOMAIN Course(d, script)[i].tables \subseteq DOMAIN d.tables \cup Created(script)
<1> DEFINE n == Len(script)
           c == Course(d, script)
           Fine(i) == /\ IsDatabase(c[i]) /\ c[i].version = d.version
                      /\ DOMAIN c[i].tables \subseteq DOMAIN d.tables \cup Created(script)
           G == {i \in 0 .. n : Fine(i)}
<1>1. c = [i \in 0 .. n |-> IF i = 0 THEN d ELSE After(c[i - 1], script[i])]
  BY CourseDefined
<1> HIDE DEF c
<1>2. c[0] = d /\ \A i \in 1 .. n : c[i] = After(c[i - 1], script[i])
  BY <1>1
<1>3. 0 \in G
  BY <1>2
<1>4. ASSUME NEW i \in 0 .. n, i + 1 \in 0 .. n, i \in G
      PROVE  i + 1 \in G
  <2>1. c[i + 1] = After(c[i], script[i + 1]) /\ i + 1 \in DOMAIN script
    BY <1>2, <1>4
  <2>2. Fine(i)
    BY <1>4
  <2>3. /\ IsDatabase(c[i + 1]) /\ c[i + 1].version = c[i].version
        /\ c[i + 1].tables = Execute(c[i].tables, script[i + 1])
    <3>1. DOMAIN c[i] = Fields
      BY <2>2 DEF IsDatabase
    <3> QED  BY <2>1, <3>1, AfterIs
  <2>4. DOMAIN c[i + 1].tables = Names(c[i].tables, script[i + 1])
    BY <2>3, ExecuteSame
  <2>5. DOMAIN c[i + 1].tables \subseteq DOMAIN c[i].tables \cup Created(script)
    BY <2>1, <2>4 DEF Names, Created
  <2> QED  BY <1>4, <2>2, <2>3, <2>5
<1> HIDE DEF G
<1>5. 0 .. n \subseteq G
  BY <1>3, <1>4, UpTo
<1>6. \A i \in 0 .. n : Fine(i)
  BY <1>5 DEF G
<1> QED  BY <1>2, <1>6 DEF c

\* The revisions are what the scripts build.
LEMMA Revisions ==
    \A v \in 0 .. HeadRevision :
        /\ IsDatabase(Revision[v]) /\ Revision[v].version = v
        /\ DOMAIN Revision[v].tables \subseteq Known
        /\ v = 0 => Revision[v].tables = <<>> /\ Revision[v].copies = {}
        /\ v # 0 => /\ Revision[v].tables = Run(Revision[v - 1], Upgrades[v]).tables
                    /\ Revision[v].copies = Run(Revision[v - 1], Upgrades[v]).copies
<1> DEFINE n == HeadRevision
           R == Revision
           empty == [tables |-> <<>>, copies |-> {}, rows |-> {}, version |-> 0]
           Next1(d, v) == [Run(d, Upgrades[v]) EXCEPT !.version = v]
           Fine(v) == IsDatabase(R[v]) /\ R[v].version = v /\ DOMAIN R[v].tables \subseteq Known
           Built(v) == /\ v = 0 => R[v].tables = <<>> /\ R[v].copies = {}
                       /\ v # 0 => /\ R[v].tables = Run(R[v - 1], Upgrades[v]).tables
                                   /\ R[v].copies = Run(R[v - 1], Upgrades[v]).copies
           G == {v \in 0 .. n : Fine(v) /\ Built(v)}
<1>1. n \in Nat
  BY Scripts
<1>2. R = [v \in 0 .. n |-> IF v = 0 THEN empty ELSE Next1(R[v - 1], v)]
  BY <1>1, RevisionDefined
<1> HIDE DEF R, empty, Next1
<1>3. R[0] = empty /\ \A v \in 1 .. n : R[v] = Next1(R[v - 1], v)
  BY <1>1, <1>2
<1>4. 0 \in G
  <2>1. IsMap(<<>>) /\ DOMAIN <<>> = {}
    BY DEF IsMap
  <2>2. Fine(0)
    BY <1>3, <2>1 DEF IsDatabase, Fields, empty
  <2> QED  BY <1>1, <1>3, <2>2 DEF empty
<1>5. ASSUME NEW v \in 0 .. n, v + 1 \in 0 .. n, v \in G
      PROVE  v + 1 \in G
  <2> DEFINE script == Upgrades[v + 1]
             last == Run(R[v], script)
  <2>1. Len(script) \in Nat /\ DOMAIN script = 1 .. Len(script) /\ v + 1 \in 1 .. n
    BY <1>5, <1>1, Scripts
  <2>2. last = Course(R[v], script)[Len(script)]
    BY DEF Run
  <2>3. Fine(v)
    BY <1>5
  <2>4. IsDatabase(last) /\ DOMAIN last.tables \subseteq DOMAIN R[v].tables \cup Created(script)
    <3> HIDE DEF script
    <3>1. IsDatabase(R[v]) /\ Len(script) \in 0 .. Len(script)
      BY <2>1, <2>3
    <3> QED  BY <2>1, <2>2, <3>1, CourseSteps
  <2>5. Created(script) \subseteq Known
    BY <2>1 DEF Known
  <2>6. R[v + 1] = [last EXCEPT !.version = v + 1]
    BY <1>3, <2>1 DEF Next1
  <2> HIDE DEF last, script
  <2>7. /\ DOMAIN R[v + 1] = Fields /\ R[v + 1].tables = last.tables /\ R[v + 1].version = v + 1
        /\ R[v + 1].copies = last.copies
    BY <2>4, <2>6 DEF IsDatabase, Fields
  <2>8. Fine(v + 1)
    BY <2>3, <2>4, <2>5, <2>7 DEF IsDatabase
  <2>9. Built(v + 1)
    BY <2>1, <2>7 DEF last, script
  <2> QED  BY <1>5, <2>8, <2>9
<1> HIDE DEF G
<1>6. 0 .. n \subseteq G
  BY <1>1, <1>4, <1>5, UpTo
<1>7. \A v \in 0 .. n : Fine(v) /\ Built(v)
  BY <1>6 DEF G
<1> QED  BY <1>7 DEF R

LEMMA NoCopies ==
    ASSUME ScriptsSound, NEW v \in 0 .. HeadRevision
    PROVE  Revision[v].copies = {}
<1>1. CASE v = 0
  BY <1>1, Revisions
<1>2. CASE v # 0
  <2>1. v \in 1 .. HeadRevision
    BY <1>2, Scripts
  <2> QED  BY <2>1 DEF ScriptsSound
<1> QED  BY <1>1, <1>2

-----------------------------------------------------------------------------
(* The running script and its undisturbed course. *)

NextVersion == IF phase = "upgrading" THEN rev ELSE rev - 1

\* What ScriptsSound says of the script that is running.
LEMMA ScriptRunning ==
    ASSUME ScriptsSound, Control, rev # 0
    PROVE  /\ IsDatabase(Origin) /\ Origin.version = disk.version
           /\ Len(Script) \in Nat /\ DOMAIN Script = 1 .. Len(Script)
           /\ RunsThrough(Course(Origin, Script), Script)
           /\ phase = "upgrading" => /\ AddsFirst(Course(Origin, Script), Script, Origin.tables)
                                     /\ Created(Script) \subseteq Ahead(disk.version)
           /\ NextVersion \in 0 .. HeadRevision
           /\ Course(Origin, Script)[Len(Script)].tables = Revision[NextVersion].tables
           /\ Course(Origin, Script)[Len(Script)].copies = {}
           /\ Created(Script) \subseteq Known
<1>1. HeadRevision \in Nat /\ Len(Downgrades) = HeadRevision /\ rev \in 1 .. HeadRevision
  BY Scripts DEF ScriptsSound, Control
<1>2. IsDatabase(Origin) /\ Origin.version = disk.version
  BY Revisions DEF Control, Origin
<1>3. CASE phase = "upgrading"
  <2>1. Script = Upgrades[rev] /\ Origin = Revision[rev - 1] /\ NextVersion = rev
    BY <1>1, <1>3 DEF Control, Script, Origin, NextVersion
  <2>2. /\ RunsThrough(UpCourse(rev), Upgrades[rev])
        /\ AddsFirst(UpCourse(rev), Upgrades[rev], Revision[rev - 1].tables)
        /\ Revision[rev].copies = {}
    BY <1>1 DEF ScriptsSound
  <2>3. rev \in disk.version + 1 .. HeadRevision
    BY <1>1, <1>3 DEF Control
  <2>4. Created(Script) \subseteq Ahead(disk.version) /\ Created(Script) \subseteq Known
    BY <1>1, <2>1, <2>3 DEF Ahead, Known
  <2>5. /\ Revision[rev].tables = Run(Revision[rev - 1], Upgrades[rev]).tables
        /\ Revision[rev].copies = Run(Revision[rev - 1], Upgrades[rev]).copies
    BY <1>1, Revisions
  <2>6. Len(Script) \in Nat /\ DOMAIN Script = 1 .. Len(Script)
    BY <1>1, <2>1, Scripts
  <2> QED  BY <1>1, <1>2, <2>1, <2>2, <2>4, <2>5, <2>6 DEF UpCourse, Run
<1>4. CASE phase # "upgrading"
  <2>1. Script = Downgrades[rev] /\ Origin = Revision[rev] /\ NextVersion = rev - 1
    BY <1>1, <1>4 DEF Control, Script, Origin, NextVersion
  <2>2. /\ RunsThrough(DownCourse(rev), Downgrades[rev])
        /\ Run(Revision[rev], Downgrades[rev]).tables = Revision[rev - 1].tables
        /\ Run(Revision[rev], Downgrades[rev]).copies = {}
    BY <1>1 DEF ScriptsSound
  <2>3. Created(Script) \subseteq Known
    BY <1>1, <2>1 DEF Known
  <2>4. Len(Script) \in Nat /\ DOMAIN Script = 1 .. Len(Script)
    BY <1>1, <2>1, Scripts
  <2> QED  BY <1>1, <1>2, <1>4, <2>1, <2>2, <2>3, <2>4 DEF DownCourse, Run
<1> QED  BY <1>3, <1>4

\* Ideal moves along with the script.
LEMMA IdealMoves ==
    ASSUME ScriptsSound, Control, rev # 0, done < Len(Script)
    PROVE  /\ done \in 0 .. Len(Script) /\ done + 1 \in 1 .. Len(Script)
           /\ Ideal = Course(Origin, Script)[done] /\ IsDatabase(Ideal)
           /\ Course(Origin, Script)[done + 1] = After(Ideal, Statement)
           /\ CanExecute(Ideal, Statement)
<1>1. /\ IsDatabase(Origin)
      /\ Len(Script) \in Nat /\ DOMAIN Script = 1 .. Len(Script)
      /\ RunsThrough(Course(Origin, Script), Script)
  BY ScriptRunning
<1>2. done \in 0 .. Len(Script)
  BY DEF Control
<1>3. done + 1 \in 1 .. Len(Script) /\ (done + 1) - 1 = done
  BY <1>1, <1>2
<1>4. /\ Course(Origin, Script)[done + 1] = After(Course(Origin, Script)[done], Script[done + 1])
      /\ IsDatabase(Course(Origin, Script)[done])
  <2>1. /\ \A i \in 1 .. Len(Script) :
             Course(Origin, Script)[i] = After(Course(Origin, Script)[i - 1], Script[i])
        /\ \A i \in 0 .. Len(Script) : IsDatabase(Course(Origin, Script)[i])
    <3> DEFINE d == Origin
               script == Script
    <3> HIDE DEF d, script
    <3>1. IsDatabase(d) /\ Len(script) \in Nat /\ DOMAIN script = 1 .. Len(script)
      BY <1>1 DEF d, script
    <3>2. ASSUME NEW i \in 1 .. Len(script)
          PROVE  Course(d, script)[i] = After(Course(d, script)[i - 1], script[i])
      BY <3>1, CourseSteps
    <3>3. ASSUME NEW i \in 0 .. Len(script)
          PROVE  IsDatabase(Course(d, script)[i])
      BY <3>1, CourseSteps
    <3> QED  BY <3>2, <3>3 DEF d, script
  <2> QED  BY <1>2, <1>3, <2>1
<1>5. CanExecute(Course(Origin, Script)[done], Script[done + 1])
  BY <1>1, <1>3 DEF RunsThrough
<1> QED  BY <1>2, <1>3, <1>4, <1>5 DEF Ideal, Statement

-----------------------------------------------------------------------------
(* Each action keeps the invariant. *)

LEMMA InitHolds == Init => IInv
<1> SUFFICES ASSUME Init
             PROVE  IInv
  OBVIOUS
<1>1. PICK v \in 0 .. HeadRevision : \E rows : disk = [Revision[v] EXCEPT !.rows = rows]
  BY DEF Init
<1>2. PICK rows : disk = [Revision[v] EXCEPT !.rows = rows]
  BY <1>1
<1>3. /\ IsDatabase(Revision[v]) /\ Revision[v].version = v /\ HeadRevision \in Nat
      /\ Revision[v].copies = {} \/ v # 0
  BY Revisions, Scripts
<1>4. /\ DOMAIN disk = Fields /\ disk.tables = Revision[v].tables /\ disk.version = v
      /\ disk.copies = Revision[v].copies
  BY <1>2, <1>3 DEF IsDatabase, Fields
<1>5. Control
  BY <1>3, <1>4 DEF Init, Control, IsDatabase
<1>6. Ideal = Revision[v] /\ CreatedSoFar = {}
  BY <1>4 DEF Init, Ideal, Origin, CreatedSoFar
<1>7. Exact
  BY <1>4, <1>6 DEF Init, Exact
<1>8. Surplus
  BY <1>4, <1>6 DEF Init, Surplus, Keeps
<1> QED  BY <1>5, <1>7, <1>8 DEF IInv

LEMMA StepHolds ==
    ASSUME ScriptsSound, IInv, Step
    PROVE  IInv'
<1> DEFINE s == Statement
<1>1. rev # 0 /\ done < Len(Script) /\ CanExecute(db, s) /\ db' = After(db, s) /\ done' = done + 1
  BY DEF Step, Unfinished
<1>2. phase' = phase /\ rev' = rev /\ cut' = cut /\ Script' = Script
  BY DEF Step, Script
<1>3. Control /\ Exact /\ Surplus
  BY DEF IInv
<1>4. /\ done \in 0 .. Len(Script) /\ done + 1 \in 1 .. Len(Script)
      /\ Ideal = Course(Origin, Script)[done] /\ IsDatabase(Ideal)
      /\ Course(Origin, Script)[done + 1] = After(Ideal, s)
      /\ CanExecute(Ideal, s)
  BY <1>1, <1>3, IdealMoves
<1>5. /\ IsDatabase(db') /\ db'.tables = Execute(db.tables, s) /\ db'.version = db.version
      /\ db'.copies = (db.copies \ (IF s.do \in {"swap", "drop"} THEN {s.on} ELSE {}))
                         \cup (IF s.do = "copy" THEN {s.on} ELSE {})
  BY <1>1, <1>3, AfterIs DEF Control, IsDatabase
<1>6. /\ (disk' = disk /\ txn') \/ (disk' = db' /\ ~txn')
      /\ txn' \in BOOLEAN /\ (txn' <=> txn \/ s.do = "swap")
  BY <1>3 DEF Step, Control
<1>7. disk'.version = disk.version /\ IsDatabase(disk') /\ db'.version = disk'.version
  BY <1>3, <1>5, <1>6 DEF Control
<1>8. Origin' = Origin /\ Ideal' = After(Ideal, s)
  BY <1>1, <1>2, <1>4, <1>7 DEF Origin, Ideal
<1>9. /\ Ideal'.tables = Execute(Ideal.tables, s)
      /\ Ideal'.copies = (Ideal.copies \ (IF s.do \in {"swap", "drop"} THEN {s.on} ELSE {}))
                            \cup (IF s.do = "copy" THEN {s.on} ELSE {})
  BY <1>4, <1>8, AfterIs DEF IsDatabase
<1>10. Control'
  <2>1. ~txn' => \A i \in 1 .. done' : Script'[i].do # "swap"
    <3> SUFFICES ASSUME ~txn', NEW i \in 1 .. done + 1
                 PROVE  Script[i].do # "swap"
      BY <1>1, <1>2
    <3>1. CASE i = done + 1
      BY <1>6, <3>1 DEF Statement
    <3>2. CASE i # done + 1
      BY <1>1, <1>3, <1>4, <1>6, <3>2 DEF Control
    <3> QED  BY <3>1, <3>2
  <2>2. done' \in 0 .. Len(Script')
    BY <1>1, <1>2, <1>4
  <2> QED  BY <1>1, <1>2, <1>3, <1>5, <1>6, <1>7, <2>1, <2>2 DEF Control
<1>11. Exact'
  <2> SUFFICES ASSUME cut' = {}
               PROVE  /\ db'.tables = Ideal'.tables /\ db'.copies = Ideal'.copies
                      /\ \E i \in 0 .. done' : disk'.tables = Course(Origin', Script')[i].tables
    BY DEF Exact
  <2>1. db.tables = Ideal.tables /\ db.copies = Ideal.copies
    BY <1>2, <1>3 DEF Exact
  <2>2. PICK i \in 0 .. done : disk.tables = Course(Origin, Script)[i].tables
    BY <1>1, <1>2, <1>3 DEF Exact
  <2>3. db'.tables = Ideal'.tables /\ db'.copies = Ideal'.copies
    BY <1>5, <1>9, <2>1
  <2>4. i \in 0 .. done' /\ done' \in 0 .. done'
    BY <1>1, <1>4
  <2>5. CASE disk' = disk
    BY <1>2, <1>8, <2>2, <2>3, <2>4, <2>5
  <2>6. CASE disk' = db'
    BY <1>1, <1>2, <1>4, <1>8, <2>3, <2>4, <2>6
  <2> QED  BY <1>6, <2>5, <2>6
<1>12. Surplus'
  <2> SUFFICES ASSUME "down" \notin cut'
               PROVE  Surplus'
    BY DEF Surplus
  <2> DEFINE more == DOMAIN db.tables \ DOMAIN Ideal.tables
             more1 == DOMAIN db'.tables \ DOMAIN Ideal'.tables
  <2>1. /\ Keeps(db.tables, Ideal.tables)
        /\ more \subseteq Ahead(disk.version) /\ more \cap CreatedSoFar = {}
    BY <1>2, <1>3 DEF Surplus
  <2>2. /\ Keeps(db'.tables, Ideal'.tables) /\ more1 \subseteq more
        /\ s.do = "create" => s.on \notin more
    BY <1>1, <1>5, <1>9, <2>1, ExecuteOnMore
  <2>3. more1 \cap CreatedSoFar' = {}
    <3> SUFFICES ASSUME NEW t \in CreatedSoFar', t \in more1
                 PROVE  FALSE
      OBVIOUS
    <3>1. PICK i \in 1 .. done + 1 : Script[i].do = "create" /\ t = Script[i].on
      BY <1>1, <1>2 DEF CreatedSoFar
    <3>2. CASE i = done + 1
      BY <2>2, <3>1, <3>2 DEF Statement
    <3>3. CASE i # done + 1
      <4>1. i \in 1 .. done
        BY <1>4, <3>3
      <4>2. t \in CreatedSoFar
        BY <3>1, <4>1 DEF CreatedSoFar
      <4> QED  BY <2>1, <2>2, <4>2
    <3> QED  BY <3>2, <3>3
  <2>4. ASSUME phase = "upgrading"
        PROVE  /\ Keeps(disk'.tables, Origin'.tables)
               /\ \A d \in {disk', db'} :
                    DOMAIN d.tables \ DOMAIN Origin'.tables \subseteq Ahead(disk.version)
    <3>1. /\ AddsFirst(Course(Origin, Script), Script, Origin.tables)
          /\ Created(Script) \subseteq Ahead(disk.version) /\ DOMAIN Script = 1 .. Len(Script)
      BY <1>1, <1>3, <2>4, ScriptRunning
    <3>2. /\ Keeps(disk.tables, Origin.tables)
          /\ \A d \in {disk, db} :
               DOMAIN d.tables \ DOMAIN Origin.tables \subseteq Ahead(disk.version)
      BY <1>1, <1>2, <1>3, <2>4 DEF Surplus
    <3>3. s.do = "create" => s.on \in Ahead(disk.version)
      BY <1>4, <3>1 DEF Statement, Created
    <3>4. DOMAIN db'.tables \ DOMAIN Origin.tables \subseteq Ahead(disk.version)
      <4>1. DOMAIN db'.tables = Names(db.tables, s)
        BY <1>5, ExecuteSame
      <4> QED  BY <3>2, <3>3, <4>1 DEF Names
    <3>5. CASE disk' = disk
      BY <1>8, <3>2, <3>4, <3>5
    <3>6. CASE disk' = db' /\ ~txn'
      <4>1. \A j \in 1 .. done + 1 : Script[j].do # "swap"
        BY <1>1, <1>2, <1>10, <3>6 DEF Control
      <4>2. Keeps(Ideal'.tables, Origin.tables)
        BY <1>4, <1>8, <3>1, <4>1 DEF AddsFirst
      <4>3. Keeps(db'.tables, Origin.tables)
        BY <2>2, <4>2 DEF Keeps
      <4> QED  BY <1>8, <3>4, <3>6, <4>3
    <3> QED  BY <1>6, <3>5, <3>6
  <2> QED  BY <1>2, <1>7, <2>1, <2>2, <2>3, <2>4 DEF Surplus
<1> QED  BY <1>10, <1>11, <1>12 DEF IInv

\* A death leaves what is on disk: the undisturbed database, or one with something in addition.
LEMMA DieHolds ==
    ASSUME ScriptsSound, IInv, Die
    PROVE  IInv'
<1>1. Control /\ Exact /\ Surplus
  BY DEF IInv
<1>2. /\ db' = disk /\ ~txn' /\ txn' \in BOOLEAN /\ done' = 0 /\ phase' = "stopped" /\ rev' = 0
      /\ disk' = disk
  BY DEF Die
<1>3. Origin' = Origin /\ Ideal' = Origin /\ CreatedSoFar' = {} /\ Origin.copies = {}
  <2>1. Origin.copies = {}
    BY <1>1, NoCopies DEF Control, Origin
  <2> QED  BY <1>2, <2>1 DEF Origin, Ideal, CreatedSoFar
<1>4. CASE rev # 0 /\ ~AtRevision(disk)
  <2>1. cut' = cut \cup {IF phase = "upgrading" THEN "up" ELSE "down"}
    BY <1>4 DEF Die
  <2>2. Control'
    BY <1>1, <1>2, <2>1 DEF Control
  <2>3. Exact'
    BY <2>1 DEF Exact
  <2>4. "down" \notin cut' => phase = "upgrading" /\ "down" \notin cut
    BY <2>1
  <2>5. Surplus'
    BY <1>1, <1>2, <1>3, <1>4, <2>4 DEF Surplus
  <2> QED  BY <2>2, <2>3, <2>5 DEF IInv
<1>5. CASE ~(rev # 0 /\ ~AtRevision(disk))
  <2>1. cut' = cut
    BY <1>5 DEF Die
  <2>2. Control'
    BY <1>1, <1>2, <2>1 DEF Control
  <2>3. CASE rev = 0
    <3>1. db = disk /\ Ideal = Origin
      BY <1>1, <2>3 DEF Control, Ideal
    <3> QED  BY <1>1, <1>2, <1>3, <2>1, <2>2, <3>1 DEF IInv, Exact, Surplus
  <2>4. CASE AtRevision(disk)
    <3>1. disk.tables = Origin.tables /\ disk.copies = {}
      BY <2>4 DEF AtRevision, Origin
    <3> QED  BY <1>2, <1>3, <2>2, <3>1 DEF IInv, Exact, Surplus, Keeps
  <2> QED  BY <1>5, <2>3, <2>4
<1> QED  BY <1>4, <1>5

LEMMA StartHolds ==
    ASSUME IInv, Start
    PROVE  IInv'
<1>1. rev = 0
  BY DEF IInv, Control, Start
<1>2. /\ disk' = disk /\ db' = db /\ txn' = txn /\ done' = done /\ rev' = rev /\ cut' = cut
      /\ phase = "stopped" /\ phase' = "upgrading"
  BY DEF Start
<1>3. Origin' = Origin /\ Ideal' = Ideal /\ CreatedSoFar' = {}
  BY <1>1, <1>2 DEF IInv, Control, Origin, Ideal, CreatedSoFar
<1> QED  BY <1>1, <1>2, <1>3 DEF IInv, Control, Exact, Surplus

LEMMA BeginHolds ==
    ASSUME ScriptsSound, IInv, BeginUpgrade \/ BeginDowngrade
    PROVE  IInv'
<1>1. Control /\ Exact /\ Surplus
  BY DEF IInv
<1>2. /\ rev = 0 /\ done = 0 /\ ~txn /\ db = disk /\ Ideal = Origin
      /\ disk.version \in 0 .. HeadRevision /\ HeadRevision \in Nat
  BY <1>1, Scripts DEF Control, BeginUpgrade, BeginDowngrade, Ideal
<1>3. /\ disk' = disk /\ db' = db /\ txn' = txn /\ done' = done /\ cut' = cut
      /\ \/ phase' = "upgrading" /\ rev' = disk.version + 1 /\ disk.version < HeadRevision
         \/ phase' = "downgrading" /\ rev' = disk.version /\ disk.version > 0
  BY <1>2 DEF BeginUpgrade, BeginDowngrade
<1>4. rev' # 0 /\ rev' \in 1 .. HeadRevision
  BY <1>2, <1>3
<1>5. Control'
  <2>1. Len(Script') \in Nat
    BY <1>3, <1>4, Scripts DEF Script, ScriptsSound
  <2> QED  BY <1>1, <1>2, <1>3, <1>4, <2>1 DEF Control
<1>6. Ideal' = Origin /\ Origin' = Origin /\ CreatedSoFar' = {} /\ Course(Origin', Script')[0] = Origin
  <2> DEFINE d == Origin
             script == Script'
  <2>1. IsDatabase(d) /\ Len(script) \in Nat /\ DOMAIN script = 1 .. Len(script)
    BY <1>1, <1>3, <1>4, Scripts, Revisions DEF Script, ScriptsSound, Control, Origin
  <2>2. Origin' = d
    BY <1>3 DEF Origin
  <2> HIDE DEF d, script
  <2>3. Course(d, script)[0] = d
    BY <2>1, CourseSteps
  <2> QED  BY <1>2, <1>3, <1>4, <2>2, <2>3 DEF Ideal, CreatedSoFar, d, script
<1>7. Exact'
  BY <1>1, <1>2, <1>3, <1>6 DEF Exact
<1>8. Surplus'
  BY <1>1, <1>2, <1>3, <1>6 DEF Surplus
<1> QED  BY <1>5, <1>7, <1>8 DEF IInv

LEMMA FinishHolds ==
    ASSUME ScriptsSound, IInv, FinishScript
    PROVE  IInv'
<1>1. Control /\ Exact /\ Surplus
  BY DEF IInv
<1>2. /\ rev # 0 /\ ~(done < Len(Script))
      /\ db' = [db EXCEPT !.version = NextVersion] /\ disk' = db' /\ ~txn' /\ txn' \in BOOLEAN
      /\ done' = 0 /\ rev' = 0 /\ cut' = cut
      /\ phase' = IF phase = "upgrading" THEN phase ELSE "stopped"
  BY DEF FinishScript, Unfinished, NextVersion
<1>3. /\ Len(Script) \in Nat /\ DOMAIN Script = 1 .. Len(Script)
      /\ NextVersion \in 0 .. HeadRevision /\ HeadRevision \in Nat
      /\ Course(Origin, Script)[Len(Script)].tables = Revision[NextVersion].tables
      /\ Course(Origin, Script)[Len(Script)].copies = {}
  BY <1>1, <1>2, ScriptRunning, Scripts
<1>4. done = Len(Script)
  BY <1>1, <1>2, <1>3 DEF Control
<1>5. Ideal.tables = Revision[NextVersion].tables /\ Ideal.copies = {}
  BY <1>2, <1>3, <1>4 DEF Ideal
<1>6. /\ DOMAIN db' = Fields /\ db'.tables = db.tables /\ db'.copies = db.copies
      /\ db'.version = NextVersion
  BY <1>1, <1>2 DEF Control, IsDatabase, Fields
<1>7. Origin' = Revision[NextVersion] /\ Ideal' = Revision[NextVersion] /\ CreatedSoFar' = {}
  BY <1>2, <1>6 DEF Origin, Ideal, CreatedSoFar
<1>8. Control'
  BY <1>1, <1>2, <1>3, <1>6 DEF Control, IsDatabase
<1>9. Exact'
  <2>1. Revision[NextVersion].copies = {}
    BY <1>3, NoCopies
  <2> QED  BY <1>1, <1>2, <1>5, <1>6, <1>7, <2>1 DEF Exact
<1>10. Surplus'
  <2> SUFFICES ASSUME "down" \notin cut
               PROVE  Surplus'
    BY <1>2 DEF Surplus
  <2> DEFINE more == DOMAIN db.tables \ DOMAIN Ideal.tables
  <2>1. /\ Keeps(db.tables, Ideal.tables) /\ more \subseteq Ahead(disk.version)
        /\ more \cap CreatedSoFar = {}
    BY <1>1 DEF Surplus
  <2>2. more \subseteq Ahead(NextVersion)
    <3>1. CASE phase = "upgrading"
      <4>1. /\ Script = Upgrades[rev] /\ rev = disk.version + 1 /\ NextVersion = rev
            /\ disk.version \in 0 .. HeadRevision
        BY <1>1, <1>2, <3>1 DEF Control, Script, NextVersion
      <4>2. CreatedSoFar = Created(Upgrades[rev])
        BY <1>3, <1>4, <4>1 DEF CreatedSoFar, Created
      <4>3. \A u \in disk.version + 1 .. HeadRevision : u = rev \/ u \in rev + 1 .. HeadRevision
        BY <1>3, <4>1
      <4> QED  BY <2>1, <4>1, <4>2, <4>3 DEF Ahead
    <3>2. CASE phase # "upgrading"
      <4>1. rev = disk.version /\ NextVersion = rev - 1 /\ disk.version \in 0 .. HeadRevision
        BY <1>1, <1>2, <3>2 DEF Control, NextVersion
      <4>2. disk.version + 1 .. HeadRevision \subseteq (rev - 1) + 1 .. HeadRevision
        BY <1>3, <4>1
      <4> QED  BY <2>1, <4>1, <4>2 DEF Ahead
    <3> QED  BY <3>1, <3>2
  <2> QED  BY <1>2, <1>5, <1>6, <1>7, <2>1, <2>2 DEF Surplus
<1> QED  BY <1>8, <1>9, <1>10 DEF IInv

LEMMA ServeHolds ==
    ASSUME IInv, Serve
    PROVE  IInv'
<1>1. /\ rev = 0 /\ db.version = HeadRevision /\ phase' = "serving" /\ phase = "upgrading"
      /\ disk' = disk /\ db' = db /\ txn' = txn /\ done' = done /\ rev' = rev /\ cut' = cut
  BY DEF Serve
<1>2. Origin' = Origin /\ Ideal' = Ideal /\ CreatedSoFar' = {}
  BY <1>1 DEF IInv, Control, Origin, Ideal, CreatedSoFar
<1> QED  BY <1>1, <1>2 DEF IInv, Control, Exact, Surplus

LEMMA FillHolds ==
    ASSUME IInv, Fill
    PROVE  IInv'
<1>1. /\ rev = 0 /\ phase = "serving" /\ done = 0 /\ ~txn /\ db = disk
      /\ DOMAIN db = Fields
  BY DEF IInv, Control, Fill, IsDatabase
<1>2. /\ db' = [db EXCEPT !.rows = @ \cup {"delivery_attempts"}] /\ disk' = db'
      /\ txn' = txn /\ done' = done /\ phase' = phase /\ rev' = rev /\ cut' = cut
  BY DEF Fill
<1>3. /\ DOMAIN db' = Fields /\ db'.tables = db.tables /\ db'.copies = db.copies
      /\ db'.version = db.version
  BY <1>1, <1>2 DEF Fields
<1>4. Origin' = Origin /\ Ideal' = Ideal /\ CreatedSoFar' = {}
  BY <1>1, <1>2, <1>3 DEF Origin, Ideal, CreatedSoFar
<1> QED  BY <1>1, <1>2, <1>3, <1>4 DEF IInv, Control, IsDatabase, Exact, Surplus

LEMMA NextHolds ==
    ASSUME ScriptsSound, IInv, [Next]_vars
    PROVE  IInv'
<1>1. CASE Step
  BY <1>1, StepHolds
<1>2. CASE StepFails \/ Crash
  BY <1>2, DieHolds DEF StepFails, Crash
<1>3. CASE Start
  BY <1>3, StartHolds
<1>4. CASE BeginUpgrade \/ BeginDowngrade
  BY <1>4, BeginHolds
<1>5. CASE FinishScript
  BY <1>5, FinishHolds
<1>6. CASE Serve
  BY <1>6, ServeHolds
<1>7. CASE Fill
  BY <1>7, FillHolds
<1>8. CASE UNCHANGED vars
  <2>1. Origin' = Origin /\ Ideal' = Ideal /\ CreatedSoFar' = CreatedSoFar /\ Script' = Script
    BY <1>8 DEF vars, Origin, Ideal, CreatedSoFar, Script
  <2> QED  BY <1>8, <2>1 DEF vars, IInv, Control, Exact, Surplus
<1> QED  BY <1>1, <1>2, <1>3, <1>4, <1>5, <1>6, <1>7, <1>8 DEF Next

-----------------------------------------------------------------------------
(* Theorems. *)

\* For scripts that are right alone, the database is at every moment where the undisturbed
\* script is, or has in addition what dead starts left and scripts ahead create.
THEOREM StartupInductive ==
    ASSUME ScriptsSound
    PROVE  Spec => []IInv
<1>1. Init => IInv
  BY InitHolds
<1>2. IInv /\ [Next]_vars => IInv'
  BY NextHolds
<1> QED  BY <1>1, <1>2, PTL DEF Spec

\* Tables, copies and rows are of the known tables only, whatever was cut short.
THEOREM TypeCorrect ==
    ASSUME ScriptsSound
    PROVE  Spec => []TypeOK
<1> DEFINE Typed(d) == /\ DOMAIN d.tables \subseteq Known /\ d.copies \subseteq DOMAIN d.tables
                       /\ d.rows \subseteq Awkward
<1>1. Init => Typed(disk) /\ Typed(db)
  <2> SUFFICES ASSUME Init
               PROVE  Typed(disk)
    BY DEF Init
  <2>1. PICK v \in 0 .. HeadRevision :
          \E rows \in SUBSET AwkwardAt(v) : disk = [Revision[v] EXCEPT !.rows = rows]
    BY DEF Init
  <2>2. PICK rows \in SUBSET AwkwardAt(v) : disk = [Revision[v] EXCEPT !.rows = rows]
    BY <2>1
  <2>3. /\ DOMAIN Revision[v] = Fields /\ DOMAIN Revision[v].tables \subseteq Known
        /\ Revision[v].copies = {}
    BY Revisions, NoCopies DEF IsDatabase
  <2>4. disk.tables = Revision[v].tables /\ disk.copies = {} /\ disk.rows = rows
    BY <2>2, <2>3 DEF Fields
  <2> QED  BY <2>3, <2>4 DEF AwkwardAt
<1>2. IInv /\ Typed(disk) /\ Typed(db) /\ [Next]_vars => Typed(disk)' /\ Typed(db)'
  <2> SUFFICES ASSUME IInv, Typed(disk), Typed(db), [Next]_vars
               PROVE  Typed(disk)' /\ Typed(db)'
    OBVIOUS
  <2>1. ASSUME Step
        PROVE  Typed(disk)' /\ Typed(db)'
    <3> DEFINE s == Statement
    <3>1. /\ rev # 0 /\ done < Len(Script) /\ CanExecute(db, s) /\ db' = After(db, s)
          /\ disk' = disk \/ disk' = db'
      BY <2>1 DEF Step, Unfinished
    <3>2. /\ DOMAIN Script = 1 .. Len(Script) /\ Created(Script) \subseteq Known
          /\ done + 1 \in 1 .. Len(Script)
      BY <3>1, ScriptRunning, IdealMoves DEF IInv
    <3>3. s.do = "create" => s.on \in Known
      BY <3>2 DEF Statement, Created
    <3>4. /\ db'.tables = Execute(db.tables, s)
          /\ db'.copies = (db.copies \ (IF s.do \in {"swap", "drop"} THEN {s.on} ELSE {}))
                             \cup (IF s.do = "copy" THEN {s.on} ELSE {})
          /\ db'.rows = db.rows \ (IF s.do = "drop" THEN {s.on} ELSE {})
      BY <3>1, AfterIs DEF IInv, Control, IsDatabase
    <3>5. DOMAIN db'.tables = Names(db.tables, s)
      BY <3>4, ExecuteSame
    <3>6. s.do = "copy" => s.on \in DOMAIN db.tables
      BY <3>1 DEF CanExecute
    <3>7. DOMAIN db'.tables \subseteq Known /\ db'.copies \subseteq DOMAIN db'.tables
      BY <3>3, <3>4, <3>5, <3>6 DEF Names
    <3>8. Typed(db)'
      BY <3>4, <3>7
    <3> QED  BY <3>1, <3>8
  <2>2. ASSUME FinishScript
        PROVE  Typed(disk)' /\ Typed(db)'
    <3>1. db' = [db EXCEPT !.version = NextVersion] /\ disk' = db' /\ DOMAIN db = Fields
      BY <2>2 DEF FinishScript, NextVersion, IInv, Control, IsDatabase
    <3>2. db'.tables = db.tables /\ db'.copies = db.copies /\ db'.rows = db.rows
      BY <3>1 DEF Fields
    <3> QED  BY <3>1, <3>2
  <2>3. ASSUME Fill
        PROVE  Typed(disk)' /\ Typed(db)'
    <3>1. /\ db' = [db EXCEPT !.rows = @ \cup {"delivery_attempts"}] /\ disk' = db'
          /\ DOMAIN db = Fields
      BY <2>3 DEF Fill, IInv, Control, IsDatabase
    <3>2. /\ db'.tables = db.tables /\ db'.copies = db.copies
          /\ db'.rows = db.rows \cup {"delivery_attempts"}
      BY <3>1 DEF Fields
    <3> QED  BY <3>1, <3>2 DEF Awkward
  <2>4. CASE Die
    BY <2>4 DEF Die
  <2>5. CASE UNCHANGED <<disk, db>>
    BY <2>5
  <2> QED  BY <2>1, <2>2, <2>3, <2>4, <2>5
           DEF Next, StepFails, Crash, Start, BeginUpgrade, BeginDowngrade, Serve, vars
<1>3. IInv /\ Typed(disk) /\ Typed(db) => TypeOK
  <2>1. IInv => rev \in 0 .. HeadRevision /\ done \in Nat /\ (rev = 0 => done = 0)
    <3>1. IInv /\ rev # 0 => Len(Script) \in Nat /\ done \in 0 .. Len(Script)
      BY ScriptRunning DEF IInv, Control
    <3> QED  BY <3>1, Scripts DEF IInv, Control
  <2> QED  BY <2>1 DEF IInv, Control, TypeOK, Known
<1> HIDE DEF Typed
<1> QED  BY <1>1, <1>2, <1>3, StartupInductive, PTL DEF Spec

\* However many starts died, and wherever: what is served has the declared tables, unless a
\* downgrade was cut short.
THEOREM DeclaredSchemaServed ==
    ASSUME ScriptsSound
    PROVE  Spec => []ServesDeclaredSchema
<1>1. IInv => ServesDeclaredSchema
  <2> SUFFICES ASSUME IInv, phase = "serving", "down" \notin cut
               PROVE  disk = db /\ db.tables = Declared
    BY DEF ServesDeclaredSchema
  <2>1. /\ rev = 0 /\ disk = db /\ disk.version = HeadRevision /\ IsMap(db.tables)
        /\ HeadRevision \in Nat
    BY Scripts DEF IInv, Control, IsDatabase
  <2>2. Ideal.tables = Declared
    BY <2>1 DEF Ideal, Origin, ScriptsSound
  <2>3. Keeps(db.tables, Declared) /\ DOMAIN db.tables \ DOMAIN Declared \subseteq Ahead(HeadRevision)
    BY <2>1, <2>2 DEF IInv, Surplus
  <2>4. Ahead(HeadRevision) = {}
    BY <2>1 DEF Ahead
  <2>5. DOMAIN db.tables = DOMAIN Declared
    BY <2>3, <2>4 DEF Keeps
  <2>6. db.tables = Declared
    BY <2>1, <2>3, <2>5, ScriptsAssumption DEF Keeps, IsMap
  <2> QED  BY <2>1, <2>6
<1> QED  BY <1>1, StartupInductive, PTL

\* While no script was cut short, a stopped database is exactly at its version, after any
\* number of upgrades and downgrades.
THEOREM CleanIsExactAlways ==
    ASSUME ScriptsSound
    PROVE  Spec => []CleanIsExact
<1>1. IInv => CleanIsExact
  <2> SUFFICES ASSUME IInv, phase = "stopped", cut = {}
               PROVE  AtRevision(disk)
    BY DEF CleanIsExact
  <2>1. rev = 0 /\ db = disk /\ disk.version \in 0 .. HeadRevision
    BY DEF IInv, Control
  <2>2. Ideal = Revision[disk.version] /\ Revision[disk.version].copies = {}
    BY <2>1, NoCopies DEF Ideal, Origin
  <2> QED  BY <2>1, <2>2 DEF IInv, Exact, AtRevision
<1> QED  BY <1>1, StartupInductive, PTL

\* Starts that die take nothing away from the version they found.
THEOREM OldSchemaAlwaysSurvives ==
    ASSUME ScriptsSound
    PROVE  Spec => []OldSchemaSurvives
<1>1. IInv => OldSchemaSurvives
  <2>1. IInv /\ phase = "stopped" => rev = 0 /\ db = disk
    BY DEF IInv, Control
  <2> QED  BY <2>1 DEF IInv, Surplus, Ideal, Origin, OldSchemaSurvives
<1> QED  BY <1>1, StartupInductive, PTL

\* Every foreign key on disk has its table, in the middle of a script too.
THEOREM TargetsAlwaysExist ==
    ASSUME ScriptsSound
    PROVE  Spec => []TargetsExist
<1>1. IInv => TargetsExist
  <2> SUFFICES ASSUME IInv, cut = {}
               PROVE  TargetsExistIn(disk.tables)
    BY DEF TargetsExist
  <2>1. Control /\ Exact
    BY DEF IInv
  <2>2. CASE rev = 0
    <3>1. disk.tables = Revision[disk.version].tables /\ disk.version \in 0 .. HeadRevision
      BY <2>1, <2>2 DEF Control, Exact, Ideal, Origin
    <3>2. CASE disk.version = 0
      <4>1. disk.tables = <<>>
        BY <3>1, <3>2, Revisions
      <4> QED  BY <4>1 DEF TargetsExistIn
    <3>3. CASE disk.version # 0
      <4> DEFINE v == disk.version
                 n == Len(Upgrades[v])
      <4>1. v \in 1 .. HeadRevision /\ n \in Nat
        BY <3>1, <3>3, Scripts
      <4>2. TargetsExistIn(UpCourse(v)[n].tables)
        <5>1. RunsThrough(UpCourse(v), Upgrades[v])
          BY <4>1 DEF ScriptsSound
        <5>2. n \in 0 .. n
          BY <4>1
        <5> QED  BY <5>1, <5>2 DEF RunsThrough
      <4>3. Revision[v].tables = UpCourse(v)[n].tables
        BY <4>1, Revisions DEF Run, UpCourse
      <4> QED  BY <3>1, <4>2, <4>3
    <3> QED  BY <3>2, <3>3
  <2>3. CASE rev # 0
    <3>1. PICK i \in 0 .. done : disk.tables = Course(Origin, Script)[i].tables
      BY <2>1, <2>3 DEF Exact
    <3>2. RunsThrough(Course(Origin, Script), Script) /\ i \in 0 .. Len(Script)
      BY <2>1, <2>3, ScriptRunning DEF Control
    <3> QED  BY <3>1, <3>2 DEF RunsThrough
  <2> QED  BY <2>2, <2>3
<1> QED  BY <1>1, StartupInductive, PTL

\* A start fails for rows in the way, or for what an earlier script left when it was cut short.
THEOREM FailuresHaveACause ==
    ASSUME ScriptsSound
    PROVE  Spec => FailsForACause
<1>1. IInv /\ [Next]_vars => [StepFails => cut # {} \/ RowsInTheWay(db, Statement)]_vars
  <2> SUFFICES ASSUME IInv, StepFails, cut = {}
               PROVE  RowsInTheWay(db, Statement)
    OBVIOUS
  <2>1. rev # 0 /\ done < Len(Script) /\ ~CanExecute(db, Statement)
    BY DEF StepFails, Unfinished
  <2>2. CanExecute(Ideal, Statement)
    BY <2>1, IdealMoves DEF IInv
  <2>3. db.tables = Ideal.tables /\ db.copies = Ideal.copies
    BY DEF IInv, Exact
  <2> QED  BY <2>1, <2>2, <2>3 DEF CanExecute
<1> QED  BY <1>1, StartupInductive, PTL DEF Spec, FailsForACause
=============================================================================
