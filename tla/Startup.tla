------------------------------ MODULE Startup ------------------------------
(***************************************************************************)
(* From a process start to serving requests: lifespan in main.py runs the  *)
(* migration scripts up to the head, then the program serves; an operator  *)
(* may take a stopped database one revision down.  The process can die,    *)
(* and a statement can fail, between any two statements.                   *)
(*                                                                         *)
(* What survives is decided by SQLite under alembic, neither of which is   *)
(* in the repository: each script runs in a transaction of its own, but    *)
(* the driver opens it only at the first statement that writes rows (the   *)
(* filling of a recreated table, or the new version at the end).  Every    *)
(* statement before that is durable at once, every later one only when     *)
(* the version is written.                                                 *)
(*                                                                         *)
(* The scripts are parameters: module Schema has those of the repository.  *)
(***************************************************************************)
EXTENDS Sequences, Naturals, Functions, TLC

CONSTANTS
    Upgrades,    \* the script of each revision, a sequence of statements
    Downgrades,  \* the script that takes a revision back
    Declared     \* the tables that the services rely on

VARIABLES
    disk,   \* what a restart finds: tables, leftover copies, awkward rows, alembic_version
    db,     \* the same as the running connection sees it
    txn,    \* the connection has an open transaction
    done,   \* how many statements of the running script are executed
    phase,  \* "stopped", "upgrading", "downgrading" or "serving"
    rev,    \* the revision the running script is of, 0 between scripts
    cut     \* history: the directions ("up", "down") that left a script half done on disk

vars == <<disk, db, txn, done, phase, rev, cut>>

HeadRevision == Len(Upgrades)

IsList(s) == s \in Seq(Range(s))

\* Scripts are lists of statements, tables are by name.
ASSUME ScriptsAssumption ==
    /\ \A scripts \in {Upgrades, Downgrades} :
          IsList(scripts) /\ \A v \in DOMAIN scripts : IsList(scripts[v])
    /\ Declared = [t \in DOMAIN Declared |-> Declared[t]]

-----------------------------------------------------------------------------
(* One statement, and a script that nothing disturbs. *)

Altered(table, s) ==
    CASE s.do = "index" ->
           [table EXCEPT !.indexes = @ \cup {s.column},
                         !.unique = IF s.unique THEN @ \cup {{s.column}} ELSE @]
      [] s.do = "unindex" ->
           [table EXCEPT !.indexes = @ \ {s.column}, !.unique = @ \ {{s.column}}]
      [] s.do = "swap" -> [f \in DOMAIN table |-> (table[f] \ s.loses[f]) \cup s.gains[f]]
      [] OTHER -> table

Names(tables, s) ==
    (IF s.do = "drop" THEN DOMAIN tables \ {s.on} ELSE DOMAIN tables)
      \cup (IF s.do = "create" THEN {s.on} ELSE {})

\* The tables after a statement that could be executed.
Execute(tables, s) ==
    [t \in Names(tables, s) |->
        IF t # s.on THEN tables[t] ELSE IF s.do = "create" THEN s.table ELSE Altered(tables[t], s)]

After(d, s) ==
    [d EXCEPT !.tables = Execute(@, s),
              !.copies = (@ \ (IF s.do \in {"swap", "drop"} THEN {s.on} ELSE {}))
                           \cup (IF s.do = "copy" THEN {s.on} ELSE {}),
              !.rows = @ \ (IF s.do = "drop" THEN {s.on} ELSE {})]

\* The rows of a recreated table do not fit it.
RowsInTheWay(d, s) ==
    /\ s.do = "swap" /\ s.on \in d.rows
    /\ IF s.on = "users" THEN s.gains.checks # {} ELSE s.gains.required # {}

TargetsExistIn(tables) ==
    \A t \in DOMAIN tables : \A r \in tables[t].refs : r[2] \in DOMAIN tables

\* a9ff87112df0 says of a recreated table that it is reflected with the
\* tables it refers to.
CanExecute(d, s) ==
    /\ s.do = "create" <=> s.on \notin DOMAIN d.tables
    /\ s.do = "index" => s.column \notin d.tables[s.on].indexes
    /\ s.do = "unindex" => s.column \in d.tables[s.on].indexes
    /\ s.do = "copy" => /\ s.on \notin d.copies
                        /\ \A r \in d.tables[s.on].refs : r[2] \in DOMAIN d.tables
    /\ ~RowsInTheWay(d, s)

\* What each prefix of a script makes of a database.
Course(d, script) ==
    LET at[i \in 0 .. Len(script)] == IF i = 0 THEN d ELSE After(at[i - 1], script[i]) IN at

Run(d, script) == Course(d, script)[Len(script)]

\* The database without rows that the scripts up to a revision build.
Revision[v \in 0 .. HeadRevision] ==
    IF v = 0 THEN [tables |-> <<>>, copies |-> {}, rows |-> {}, version |-> 0]
             ELSE [Run(Revision[v - 1], Upgrades[v]) EXCEPT !.version = v]

\* The old tables are still there, as they were.
Keeps(tables, old) == \A t \in DOMAIN old : t \in DOMAIN tables /\ tables[t] = old[t]

AtRevision(d) == d.tables = Revision[d.version].tables /\ d.copies = {}

Created(script) == {script[i].on : i \in {j \in DOMAIN script : script[j].do = "create"}}

\* The tables whose rows can stop a script: attempts, which have no value for a new NOT
\* NULL column, and users whose role and tenant do not match.
Awkward == {"delivery_attempts", "users"}

AwkwardAt(v) ==
    {t \in Awkward \cap DOMAIN Revision[v].tables :
        t = "users" => Revision[v].tables[t].checks = {}}

TypeOK ==
    /\ \A d \in {disk, db} :
         /\ DOMAIN d.tables \subseteq UNION {Created(Upgrades[v]) \cup Created(Downgrades[v]) :
                                               v \in 1 .. HeadRevision}
         /\ d.copies \subseteq DOMAIN d.tables
         /\ d.rows \subseteq Awkward
         /\ d.version \in 0 .. HeadRevision
    /\ txn \in BOOLEAN /\ done \in Nat
    /\ phase \in {"stopped", "upgrading", "downgrading", "serving"}
    /\ rev \in 0 .. HeadRevision
    /\ (rev = 0 => done = 0) /\ (~txn => db = disk)
    /\ cut \subseteq {"up", "down"}

Init ==
    /\ \E v \in 0 .. HeadRevision : \E rows \in SUBSET AwkwardAt(v) :
         disk = [Revision[v] EXCEPT !.rows = rows]
    /\ db = disk
    /\ txn = FALSE /\ done = 0 /\ phase = "stopped" /\ rev = 0 /\ cut = {}

-----------------------------------------------------------------------------
(* The running script. *)

Script == IF phase = "upgrading" THEN Upgrades[rev] ELSE Downgrades[rev]

\* The statement to execute next.
Statement == Script[done + 1]

Unfinished == rev # 0 /\ done < Len(Script)

Step ==
    /\ Unfinished /\ CanExecute(db, Statement)
    /\ db' = After(db, Statement)
    /\ txn' = (txn \/ Statement.do = "swap")
    /\ disk' = IF txn' THEN disk ELSE db'
    /\ done' = done + 1
    /\ UNCHANGED <<phase, rev, cut>>

\* The process is gone: what was not committed is lost.
Die ==
    /\ db' = disk /\ txn' = FALSE /\ done' = 0 /\ phase' = "stopped" /\ rev' = 0
    /\ cut' = cut \cup (IF rev # 0 /\ ~AtRevision(disk)
                        THEN {IF phase = "upgrading" THEN "up" ELSE "down"} ELSE {})
    /\ UNCHANGED disk

StepFails == Unfinished /\ ~CanExecute(db, Statement) /\ Die

-----------------------------------------------------------------------------
(* Scripts, and the life of the process. *)

Start == phase = "stopped" /\ phase' = "upgrading" /\ UNCHANGED <<disk, db, txn, done, rev, cut>>

\* alembic downgrade -1, from the command line.
BeginDowngrade ==
    /\ phase = "stopped" /\ disk.version > 0
    /\ phase' = "downgrading" /\ rev' = disk.version
    /\ UNCHANGED <<disk, db, txn, done, cut>>

BeginUpgrade ==
    /\ phase = "upgrading" /\ rev = 0 /\ db.version < HeadRevision
    /\ rev' = db.version + 1
    /\ UNCHANGED <<disk, db, txn, done, phase, cut>>

\* Variant: the version is written and not committed.
FinishUncommitted ==
    /\ rev # 0 /\ ~Unfinished
    /\ db' = [db EXCEPT !.version = IF phase = "upgrading" THEN rev ELSE rev - 1]
    /\ txn' = FALSE /\ done' = 0 /\ rev' = 0
    /\ phase' = IF phase = "upgrading" THEN phase ELSE "stopped"
    /\ UNCHANGED <<disk, cut>>

FinishScript ==
    /\ rev # 0 /\ ~Unfinished
    /\ db' = [db EXCEPT !.version = IF phase = "upgrading" THEN rev ELSE rev - 1]
    /\ disk' = db' /\ txn' = FALSE /\ done' = 0 /\ rev' = 0
    /\ phase' = IF phase = "upgrading" THEN phase ELSE "stopped"
    /\ UNCHANGED cut

Serve ==
    /\ phase = "upgrading" /\ rev = 0 /\ db.version = HeadRevision
    /\ phase' = "serving"
    /\ UNCHANGED <<disk, db, txn, done, rev, cut>>

\* Requests create attempts.
Fill ==
    /\ phase = "serving" /\ "delivery_attempts" \in DOMAIN db.tables
    /\ db' = [db EXCEPT !.rows = @ \cup {"delivery_attempts"}] /\ disk' = db'
    /\ UNCHANGED <<txn, done, phase, rev, cut>>

Crash == phase # "stopped" /\ Die

Next ==
    \/ Start \/ BeginUpgrade \/ Step \/ StepFails \/ FinishScript \/ Serve \/ Fill
    \/ BeginDowngrade \/ Crash

Spec == Init /\ [][Next]_vars

-----------------------------------------------------------------------------
(* What is asked of the scripts, each run alone and to its end. *)

\* The databases a script meets when it starts from its own revision.
UpCourse(v) == Course(Revision[v - 1], Upgrades[v])
DownCourse(v) == Course(Revision[v], Downgrades[v])

\* Every statement can be executed when its turn comes, on tables whose foreign keys all
\* have their table.
RunsThrough(course, script) ==
    /\ \A i \in 1 .. Len(script) : CanExecute(course[i - 1], script[i])
    /\ \A i \in 0 .. Len(script) : TargetsExistIn(course[i].tables)

\* What an upgrade makes durable before its version, it adds to the old tables.
AddsFirst(course, script, old) ==
    \A i \in 0 .. Len(script) :
        (\A j \in 1 .. i : script[j].do # "swap") => Keeps(course[i].tables, old)

\* Alone, each upgrade runs and takes nothing away before it writes rows, each downgrade
\* runs and undoes it, no copy of a table is left, and at the head are the tables that the
\* models declare: all of it can be seen by running each script once, as a test would.
ScriptsSound ==
    /\ Len(Downgrades) = HeadRevision
    /\ Revision[HeadRevision].tables = Declared
    /\ \A v \in 1 .. HeadRevision :
         /\ RunsThrough(UpCourse(v), Upgrades[v])
         /\ AddsFirst(UpCourse(v), Upgrades[v], Revision[v - 1].tables)
         /\ Revision[v].copies = {}
         /\ RunsThrough(DownCourse(v), Downgrades[v])
         /\ Run(Revision[v], Downgrades[v]).tables = Revision[v - 1].tables
         /\ Run(Revision[v], Downgrades[v]).copies = {}

-----------------------------------------------------------------------------
(* Properties. *)

\* Whatever starts, starts with scripts that are sound: in both directions every statement
\* finds its tables, columns and indexes as the statements before it leave them, and the
\* scripts together build what the models declare.
StartsSound == phase = "upgrading" /\ rev = 0 => ScriptsSound

\* What the services find when requests are served is what the models declare, tables,
\* constraints, foreign keys and indexes alike, whatever version the database started from
\* and however many starts died before.  Only a downgrade that died can spoil it: it is
\* durable ahead of its version, so the next start has nothing to run.
ServesDeclaredSchema == phase = "serving" /\ "down" \notin cut => disk = db /\ db.tables = Declared

\* A stopped database whose scripts all ran to their end is exactly at its version: each
\* downgrade undoes its upgrade, to the last index and constraint.
CleanIsExact == phase = "stopped" /\ cut = {} => AtRevision(disk)

\* An upgrade that died never takes anything away that the recorded version relies on: the
\* tables of that version are still there, as they were, for the program that ran on them.
OldSchemaSurvives ==
    phase = "stopped" /\ "down" \notin cut => Keeps(disk.tables, Revision[disk.version].tables)

\* A start fails only for a cause that an operator can find: rows that do not fit the
\* recreated table, or an earlier script that was cut short.
FailsForACause == [][StepFails => cut # {} \/ RowsInTheWay(db, Statement)]_vars

\* Every foreign key on disk has its table, also in the middle of a script (sound scripts
\* only: after a cut a downgrade drops tables in an order not made for what was left).
TargetsExist == cut = {} => TargetsExistIn(disk.tables)
=============================================================================
