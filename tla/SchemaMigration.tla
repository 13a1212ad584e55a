-------------------------- MODULE SchemaMigration --------------------------
(***************************************************************************)
(* Opening the database (internal/storage/store.go, New and                *)
(* migrateSessionEventsConstraint): a file of an older version has its     *)
(* table session_events rebuilt with UNIQUE(session_id, round, seq).       *)
(*                                                                         *)
(* The rebuild is a SELECT and four statements whose errors are ignored,   *)
(* in no transaction.  The server and the commands open the same file, so  *)
(* several processes may be at it at once, and each may die in between and *)
(* be started again.                                                       *)
(***************************************************************************)
EXTENDS Naturals, FiniteSets

CONSTANTS
    Processes,     \* the server and the commands
    Events,        \* rows of session_events in the older file
    Orphans,       \* those of them that may have lost their session
    None,          \* no such table
    FaultModes     \* the sets of faults that behaviours may have

ASSUME MigrationAssumption ==
    /\ Orphans \subseteq Events
    /\ FaultModes \subseteq SUBSET {"busy", "crash", "orphan"}

VARIABLES
    faults,        \* what may go wrong in this behaviour; it never changes
    orphans,       \* the rows whose session is gone; it never changes
    table,         \* session_events
    oldTable,      \* _session_events_old
    opener,        \* where each process is
    crossed        \* history: has a third process been caught by a DROP?  See Drop

vars == <<faults, orphans, table, oldTable, opener, crossed>>

Table(key, rows) == [key |-> key, rows |-> rows]

\* The UNIQUE key is (session_id, seq), or (session_id, round, seq) as of this version.
Tables == [key : {"seq", "round_seq"}, rows : SUBSET Events]

ASSUME NoneAssumption == None \notin Tables

Rebuilding == {"rename", "create", "copy", "drop"}

TypeOK ==
    /\ faults \in FaultModes
    /\ orphans \subseteq Orphans
    /\ table \in Tables \cup {None}
    /\ oldTable \in Tables \cup {None}
    /\ opener \in [Processes -> {"closed", "inspect", "open"} \cup Rebuilding]
    /\ crossed \in BOOLEAN

Init ==
    /\ faults \in FaultModes
    /\ orphans \in (IF "orphan" \in faults THEN SUBSET Orphans ELSE {{}})
    /\ table = Table("seq", Events)
    /\ oldTable = None
    /\ opener = [p \in Processes |-> "closed"]
    /\ crossed = FALSE

At(p, from, to) ==
    /\ opener[p] = from
    /\ opener' = [opener EXCEPT ![p] = to]

\* Mutant: the table is created without a key.
CreateTableKeyless == table' = IF table = None THEN Table("none", {}) ELSE table

\* CREATE TABLE IF NOT EXISTS session_events, with the key of this version.
CreateTable == table' = IF table = None THEN Table("round_seq", {}) ELSE table

\* The DDL of New().
RunDDL(p) ==
    /\ At(p, "closed", "inspect")
    /\ CreateTable
    /\ UNCHANGED <<oldTable, crossed>>

\* The key that sqlite_master shows decides whether there is work to do.
Inspect(p) ==
    /\ IF table = None \/ table.key = "round_seq"
         THEN At(p, "inspect", "open")
         ELSE At(p, "inspect", "rename")
    /\ UNCHANGED <<table, oldTable, crossed>>

\* RENAME fails when there is nothing to rename or the name is taken.
Rename(p) ==
    /\ At(p, "rename", "create")
    /\ IF table # None /\ oldTable = None
         THEN table' = None /\ oldTable' = table
         ELSE UNCHANGED <<table, oldTable>>
    /\ UNCHANGED crossed

Create(p) ==
    /\ At(p, "create", "copy")
    /\ CreateTable
    /\ UNCHANGED <<oldTable, crossed>>

\* Mutant: the old table is dropped before its rows are copied.
CopyAfterDrop(p) ==
    /\ At(p, "copy", "drop")
    /\ oldTable' = None
    /\ UNCHANGED <<table, crossed>>

\* INSERT OR IGNORE ... SELECT.  OR IGNORE passes over a row that is there, but
\* a row without a session violates a foreign key, and nothing is inserted.
Copy(p) ==
    /\ At(p, "copy", "drop")
    /\ table' = IF table = None \/ oldTable = None \/ oldTable.rows \cap orphans # {}
                  THEN table
                  ELSE [table EXCEPT !.rows = @ \cup oldTable.rows]
    /\ UNCHANGED <<oldTable, crossed>>

\* The processes that have renamed, or have found that another one had.
PastRename == {p \in Processes : opener[p] \in {"create", "copy", "drop"}}

\* The DROP makes room for another RENAME.  Where one process has its RENAME before
\* it and a third is past its own, that RENAME takes the new table away, and the
\* DROP of the third destroys it: crossed records that this has become possible.
Drop(p) ==
    /\ At(p, "drop", "open")
    /\ oldTable' = None
    /\ crossed' = (crossed \/ /\ \E q \in Processes : opener[q] = "rename"
                              /\ PastRename # {p})
    /\ UNCHANGED table

\* A statement fails, and the next one is run all the same.
StatementIgnored(p) ==
    /\ "busy" \in faults
    /\ \/ At(p, "inspect", "open")
       \/ At(p, "rename", "create")
       \/ At(p, "create", "copy")
       \/ At(p, "copy", "drop")
       \/ At(p, "drop", "open")
    /\ UNCHANGED <<table, oldTable, crossed>>

\* The process ends, or dies while it is opening the file.
Ends(p) ==
    /\ \/ opener[p] = "open"
       \/ opener[p] # "closed" /\ "crash" \in faults
    /\ opener' = [opener EXCEPT ![p] = "closed"]
    /\ UNCHANGED <<table, oldTable, crossed>>

Next ==
    /\ \E p \in Processes :
        \/ RunDDL(p)
        \/ Inspect(p)
        \/ Rename(p)
        \/ Create(p)
        \/ Copy(p)
        \/ Drop(p)
        \/ StatementIgnored(p)
        \/ Ends(p)
    /\ UNCHANGED <<faults, orphans>>

Spec == Init /\ [][Next]_vars

----------------------------------------------------------------------------
(* "This is a one-time migration that preserves existing data."            *)

AtRest == \A p \in Processes : opener[p] \in {"closed", "open"}

RowsOf(t) == IF t = None THEN {} ELSE t.rows

Calm == faults \cap {"busy", "orphan"} = {}

\* Where no statement fails, no process dies and every event has its session, the
\* migration is one-time and keeps every event, however many processes are at it
\* at once, unless the DROP of one ran between the RENAME that a second had
\* decided on and the statements that a third had still to run.
MigrationIsOneTime ==
    faults = {} /\ AtRest =>
        \/ /\ RowsOf(table) = Events /\ oldTable = None
           /\ (\E p \in Processes : opener[p] = "open") => table.key = "round_seq"
        \/ crossed

\* Processes that die destroy no event, at whatever statement, however many others
\* are rebuilding the table: at worst the events stay behind in the old table,
\* where nothing reads them.  Only the same crossing of three can destroy them.
CrashDestroysNothing ==
    Calm => RowsOf(table) \cup RowsOf(oldTable) = Events \/ crossed
=============================================================================
