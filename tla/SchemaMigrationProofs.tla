------------------------ MODULE SchemaMigrationProofs ------------------------
(***************************************************************************)
(* Theorems about the rebuild of session_events: SchemaMigration, for any  *)
(* events, and any number of processes that open the file at once, start   *)
(* again and again, and die at any statement.                              *)
(***************************************************************************)
EXTENDS SchemaMigration, TLAPS

----------------------------------------------------------------------------
(* The invariant.                                                          *)

\* The table of the older version is there.
Older == table # None /\ table.key = "seq"

\* Until the first rename nothing has happened, and the older table never returns.
NothingHappened == Older => table = Table("seq", Events) /\ oldTable = None /\ PastRename = {}

\* There is always a table, and what one of them lacks is in the other.
OneHasAll ==
    /\ table = None => oldTable # None
    /\ oldTable = None => RowsOf(table) = Events
    /\ oldTable # None => oldTable.rows = Events

\* While a process has the rebuild before it, another that is in the middle of it
\* has an old table: the first cannot take away the new table of the second.
NoSecondRename ==
    \A p, q \in Processes :
        opener[p] = "rename" /\ q \in PastRename => oldTable # None

\* What a process has done by the time it drops the old table.
Copied ==
    \A p \in Processes :
        /\ opener[p] \in {"copy", "drop"} => table # None
        /\ opener[p] = "drop" => RowsOf(table) = Events

\* Where nothing dies, an old table is being copied, and a file that has been
\* opened is of this version.
Rebuilt ==
    faults = {} =>
        /\ oldTable # None => PastRename # {}
        /\ (\E p \in Processes : opener[p] = "open") => ~Older

Unharmed == NothingHappened /\ OneHasAll /\ NoSecondRename /\ Copied /\ Rebuilt

MigrationInv ==
    /\ TypeOK
    /\ "orphan" \notin faults => orphans = {}
    /\ Calm /\ ~crossed => Unharmed

----------------------------------------------------------------------------
(* Types.                                                                  *)

\* What is and is not a table.
LEMMA TableTypes ==
    /\ \A t \in Tables :
        /\ t # None
        /\ t.key \in {"seq", "round_seq"} /\ t.rows \subseteq Events
        /\ \A rows \in SUBSET Events : [t EXCEPT !.rows = @ \cup rows] \in Tables
    /\ \A key \in {"seq", "round_seq"}, rows \in SUBSET Events :
        /\ Table(key, rows) \in Tables
        /\ Table(key, rows) # None
        /\ Table(key, rows).key = key
        /\ Table(key, rows).rows = rows
BY NoneAssumption DEF Tables, Table

LEMMA TypeInit == Init => TypeOK
<1> SUFFICES ASSUME Init PROVE TypeOK
  OBVIOUS
<1>1. table \in Tables
  BY TableTypes DEF Init
<1>2. opener \in [Processes -> {"closed", "inspect", "open"} \cup Rebuilding]
  BY DEF Init
<1>3. orphans \subseteq Orphans
  BY DEF Init
<1> QED
  BY <1>1, <1>2, <1>3 DEF Init, TypeOK

LEMMA TypeStep == TypeOK /\ [Next]_vars => TypeOK'
<1> SUFFICES ASSUME TypeOK, [Next]_vars PROVE TypeOK'
  OBVIOUS
<1> USE DEF TypeOK, At, Rebuilding
<1>1. ASSUME NEW p \in Processes, RunDDL(p) \/ Create(p), UNCHANGED <<faults, orphans>>
      PROVE  TypeOK'
  BY <1>1 DEF RunDDL, Create, CreateTable, Tables, Table
<1>2. ASSUME NEW p \in Processes, Inspect(p), UNCHANGED <<faults, orphans>>
      PROVE  TypeOK'
  BY <1>2 DEF Inspect
<1>3. ASSUME NEW p \in Processes, Rename(p), UNCHANGED <<faults, orphans>>
      PROVE  TypeOK'
  BY <1>3 DEF Rename
<1>4. ASSUME NEW p \in Processes, Copy(p), UNCHANGED <<faults, orphans>>
      PROVE  TypeOK'
  <2>1. table' \in Tables \cup {None}
    BY <1>4, TableTypes DEF Copy
  <2> QED
    BY <1>4, <2>1 DEF Copy
<1>5. ASSUME NEW p \in Processes, Drop(p), UNCHANGED <<faults, orphans>>
      PROVE  TypeOK'
  BY <1>5 DEF Drop
<1>6. ASSUME NEW p \in Processes, StatementIgnored(p) \/ Ends(p),
             UNCHANGED <<faults, orphans>>
      PROVE  TypeOK'
  BY <1>6 DEF StatementIgnored, Ends
<1>7. CASE UNCHANGED vars
  BY <1>7 DEF vars
<1> QED
  BY <1>1, <1>2, <1>3, <1>4, <1>5, <1>6, <1>7 DEF Next

----------------------------------------------------------------------------
(* Every statement of a process keeps the events, where none has crossed.  *)

LEMMA RunDDLKeeps ==
    ASSUME MigrationInv, Calm, ~crossed, NEW p \in Processes, RunDDL(p), UNCHANGED <<faults, orphans>>
    PROVE  Unharmed'
<1>1. Unharmed /\ TypeOK
  BY DEF MigrationInv
<1>2. /\ opener' = [opener EXCEPT ![p] = "inspect"] /\ oldTable' = oldTable
      /\ table' = IF table = None THEN Table("round_seq", {}) ELSE table
      /\ opener[p] = "closed"
  BY DEF RunDDL, CreateTable, At
<1>3. PastRename' = PastRename
  BY <1>1, <1>2 DEF PastRename, TypeOK
<1>4. /\ Older' <=> Older
      /\ table' # None
      /\ table # None => table' = table
      /\ oldTable = None => table' = table
  BY <1>1, <1>2, TableTypes DEF Older, Unharmed, OneHasAll
<1>5. NothingHappened'
  BY <1>1, <1>2, <1>3, <1>4 DEF Unharmed, NothingHappened, Older
<1>6. OneHasAll'
  BY <1>1, <1>2, <1>4 DEF Unharmed, OneHasAll, RowsOf
<1>7. NoSecondRename'
  BY <1>1, <1>2, <1>3 DEF Unharmed, NoSecondRename, TypeOK
<1>8. Copied'
  BY <1>1, <1>2, <1>4 DEF Unharmed, Copied, TypeOK, RowsOf
<1>9. Rebuilt'
  BY <1>1, <1>2, <1>3, <1>4 DEF Unharmed, Rebuilt, TypeOK
<1> QED
  BY <1>5, <1>6, <1>7, <1>8, <1>9 DEF Unharmed

LEMMA InspectKeeps ==
    ASSUME MigrationInv, Calm, ~crossed, NEW p \in Processes, Inspect(p), UNCHANGED <<faults, orphans>>
    PROVE  Unharmed'
<1>1. Unharmed /\ TypeOK
  BY DEF MigrationInv
<1>2. /\ UNCHANGED <<table, oldTable>> /\ opener[p] = "inspect"
      /\ \/ ~Older /\ opener' = [opener EXCEPT ![p] = "open"]
         \/ Older /\ opener' = [opener EXCEPT ![p] = "rename"]
  <2>1. table # None /\ table.key # "round_seq" => table.key = "seq"
    BY <1>1, TableTypes DEF TypeOK
  <2> QED
    BY <2>1 DEF Inspect, At, Older
<1>3. PastRename' = PastRename /\ (Older' <=> Older)
  BY <1>1, <1>2 DEF PastRename, Older, TypeOK
<1>4. NothingHappened' /\ OneHasAll' /\ Copied'
  BY <1>1, <1>2, <1>3 DEF Unharmed, NothingHappened, OneHasAll, Copied, RowsOf, TypeOK
<1>5. NoSecondRename'
  <2>1. CASE Older
    BY <1>1, <1>2, <1>3, <2>1 DEF Unharmed, NothingHappened, NoSecondRename
  <2>2. CASE ~Older
    BY <1>1, <1>2, <1>3, <2>2 DEF Unharmed, NoSecondRename, TypeOK
  <2> QED
    BY <2>1, <2>2
<1>6. Rebuilt'
  BY <1>1, <1>2, <1>3 DEF Unharmed, Rebuilt, TypeOK
<1> QED
  BY <1>4, <1>5, <1>6 DEF Unharmed

LEMMA RenameKeeps ==
    ASSUME MigrationInv, Calm, ~crossed, NEW p \in Processes, Rename(p), UNCHANGED <<faults, orphans>>
    PROVE  Unharmed'
<1>1. Unharmed /\ TypeOK
  BY DEF MigrationInv
<1>2. opener[p] = "rename" /\ opener' = [opener EXCEPT ![p] = "create"]
  BY DEF Rename, At
<1>3. PastRename' = PastRename \cup {p} /\ PastRename' # {}
  BY <1>1, <1>2 DEF PastRename, TypeOK
<1>4. oldTable' # None
  BY <1>1 DEF Rename, Unharmed, OneHasAll
<1>5. ~Older'
  BY <1>1 DEF Rename, Older, Unharmed, NothingHappened
<1>6. oldTable'.rows = Events /\ OneHasAll'
  BY <1>1, <1>4 DEF Rename, Unharmed, OneHasAll, RowsOf
<1>7. Copied'
  <2>1. CASE table # None /\ oldTable = None
    <3>1. PastRename = {}
      BY <1>1, <1>2, <2>1 DEF Unharmed, NoSecondRename, PastRename
    <3> QED
      BY <1>1, <1>2, <3>1 DEF Copied, PastRename, TypeOK
  <2>2. CASE UNCHANGED <<table, oldTable>>
    BY <1>1, <1>2, <2>2 DEF Unharmed, Copied, RowsOf, TypeOK
  <2> QED
    BY <2>1, <2>2 DEF Rename
<1>8. NothingHappened' /\ NoSecondRename' /\ Rebuilt'
  BY <1>3, <1>4, <1>5 DEF NothingHappened, NoSecondRename, Rebuilt
<1> QED
  BY <1>6, <1>7, <1>8 DEF Unharmed

LEMMA CreateKeeps ==
    ASSUME MigrationInv, Calm, ~crossed, NEW p \in Processes, Create(p), UNCHANGED <<faults, orphans>>
    PROVE  Unharmed'
<1>1. Unharmed /\ TypeOK
  BY DEF MigrationInv
<1>2. /\ opener' = [opener EXCEPT ![p] = "copy"] /\ oldTable' = oldTable
      /\ table' = IF table = None THEN Table("round_seq", {}) ELSE table
      /\ opener[p] = "create"
  BY DEF Create, CreateTable, At
<1>3. PastRename' = PastRename
  BY <1>1, <1>2 DEF PastRename, TypeOK
<1>4. /\ Older' <=> Older
      /\ table' # None
      /\ table # None => table' = table
      /\ oldTable = None => table' = table
  BY <1>1, <1>2, TableTypes DEF Older, Unharmed, OneHasAll
<1>5. NothingHappened'
  BY <1>1, <1>2, <1>3, <1>4 DEF Unharmed, NothingHappened, Older
<1>6. OneHasAll'
  BY <1>1, <1>2, <1>4 DEF Unharmed, OneHasAll, RowsOf
<1>7. NoSecondRename'
  BY <1>1, <1>2, <1>3 DEF Unharmed, NoSecondRename, TypeOK
<1>8. Copied'
  BY <1>1, <1>2, <1>4 DEF Unharmed, Copied, TypeOK, RowsOf
<1>9. Rebuilt'
  BY <1>1, <1>2, <1>3, <1>4 DEF Unharmed, Rebuilt, TypeOK
<1> QED
  BY <1>5, <1>6, <1>7, <1>8, <1>9 DEF Unharmed

LEMMA CopyKeeps ==
    ASSUME MigrationInv, Calm, ~crossed, NEW p \in Processes, Copy(p), UNCHANGED <<faults, orphans>>
    PROVE  Unharmed'
<1>1. Unharmed /\ TypeOK /\ orphans = {}
  BY DEF MigrationInv, Calm
<1>2. /\ opener[p] = "copy" /\ opener' = [opener EXCEPT ![p] = "drop"]
      /\ oldTable' = oldTable
  BY DEF Copy, At
<1>3. PastRename' = PastRename /\ p \in PastRename
  BY <1>1, <1>2 DEF PastRename, TypeOK
<1>4. table \in Tables /\ table # None
  BY <1>1, <1>2 DEF Unharmed, Copied, TypeOK
<1>5. table' \in Tables /\ table' # None /\ table'.key = table.key /\ table'.rows = Events
  <2>1. CASE oldTable = None
    <3>1. table.rows = Events
      BY <1>1, <1>4, <2>1 DEF Unharmed, OneHasAll, RowsOf
    <3> QED
      BY <1>4, <2>1, <3>1 DEF Copy
  <2>2. CASE oldTable # None
    <3>1. oldTable.rows = Events /\ oldTable.rows \cap orphans = {}
      BY <1>1, <2>2 DEF Unharmed, OneHasAll
    <3>2. table' = [table EXCEPT !.rows = table.rows \cup Events]
      BY <1>4, <2>2, <3>1 DEF Copy
    <3>3. table.rows \cup Events = Events
      BY <1>4, TableTypes
    <3>4. table' = [table EXCEPT !.rows = Events]
      BY <3>2, <3>3
    <3> QED
      BY <1>4, <3>4, NoneAssumption DEF Tables
  <2> QED
    BY <2>1, <2>2
<1>6. ~Older /\ ~Older'
  BY <1>1, <1>3, <1>4, <1>5 DEF Older, Unharmed, NothingHappened
<1>7. OneHasAll'
  BY <1>1, <1>2, <1>5 DEF Unharmed, OneHasAll, RowsOf
<1>8. NoSecondRename'
  BY <1>1, <1>2, <1>3 DEF Unharmed, NoSecondRename, TypeOK
<1>9. Copied'
  BY <1>5 DEF Copied, RowsOf
<1>10. NothingHappened' /\ Rebuilt'
  BY <1>3, <1>6 DEF NothingHappened, Rebuilt
<1> QED
  BY <1>7, <1>8, <1>9, <1>10 DEF Unharmed

\* Where the DROP is no crossing, no process has its RENAME before it while another
\* is past its own.
LEMMA DropKeeps ==
    ASSUME MigrationInv, Calm, ~crossed, NEW p \in Processes, Drop(p), ~crossed',
           UNCHANGED <<faults, orphans>>
    PROVE  Unharmed'
<1>1. Unharmed /\ TypeOK
  BY DEF MigrationInv
<1>2. /\ opener[p] = "drop" /\ opener' = [opener EXCEPT ![p] = "open"]
      /\ oldTable' = None /\ table' = table
  BY DEF Drop, At
<1>3. p \in PastRename /\ PastRename' = PastRename \ {p}
  BY <1>1, <1>2 DEF PastRename, TypeOK
<1>4. table # None /\ RowsOf(table) = Events
  BY <1>1, <1>2 DEF Unharmed, Copied
<1>5. ~Older /\ ~Older'
  BY <1>1, <1>2, <1>3 DEF Older, Unharmed, NothingHappened
<1>6. OneHasAll' /\ Copied'
  BY <1>2, <1>4 DEF OneHasAll, Copied
<1>7. NoSecondRename'
  <2> SUFFICES ASSUME NEW q \in Processes, NEW r \in Processes,
                      opener'[q] = "rename", r \in PastRename'
               PROVE  FALSE
    BY DEF NoSecondRename
  <2>1. opener[q] = "rename"
    BY <1>1, <1>2 DEF TypeOK
  <2>2. r # p /\ r \in PastRename
    BY <1>3
  <2> QED
    BY <2>1, <2>2 DEF Drop
<1>8. NothingHappened' /\ Rebuilt'
  BY <1>2, <1>5 DEF NothingHappened, Rebuilt
<1> QED
  BY <1>6, <1>7, <1>8 DEF Unharmed

LEMMA EndsKeeps ==
    ASSUME MigrationInv, Calm, ~crossed, NEW p \in Processes, Ends(p), UNCHANGED <<faults, orphans>>
    PROVE  Unharmed'
<1>1. Unharmed /\ TypeOK
  BY DEF MigrationInv
<1>2. /\ opener' = [opener EXCEPT ![p] = "closed"] /\ UNCHANGED <<table, oldTable>>
      /\ faults = {} => opener[p] = "open"
  BY DEF Ends
<1>3. PastRename' \subseteq PastRename /\ (Older' <=> Older)
  BY <1>1, <1>2 DEF PastRename, Older, TypeOK
<1>4. NothingHappened' /\ OneHasAll'
  BY <1>1, <1>2, <1>3 DEF Unharmed, NothingHappened, OneHasAll, RowsOf
<1>5. NoSecondRename' /\ Copied'
  BY <1>1, <1>2, <1>3 DEF Unharmed, NoSecondRename, Copied, RowsOf, TypeOK
<1>6. Rebuilt'
  <2>1. faults = {} => PastRename' = PastRename
    BY <1>1, <1>2 DEF PastRename, TypeOK
  <2> QED
    BY <1>1, <1>2, <1>3, <2>1 DEF Unharmed, Rebuilt, TypeOK
<1> QED
  BY <1>4, <1>5, <1>6 DEF Unharmed

----------------------------------------------------------------------------
(* The invariant holds always.                                             *)

LEMMA MigrationStart == Init => MigrationInv
<1> SUFFICES ASSUME Init PROVE MigrationInv
  OBVIOUS
<1>1. TypeOK
  BY TypeInit
<1>2. orphans = {} \/ "orphan" \in faults
  BY DEF Init
<1>3. /\ table # None /\ table = Table("seq", Events) /\ table.rows = Events
      /\ oldTable = None /\ \A p \in Processes : opener[p] = "closed"
  BY TableTypes DEF Init
<1>4. PastRename = {}
  BY <1>3 DEF PastRename
<1> QED
  BY <1>1, <1>2, <1>3, <1>4
     DEF MigrationInv, Unharmed, NothingHappened, OneHasAll, NoSecondRename, Copied,
         Rebuilt, RowsOf

LEMMA MigrationStep == MigrationInv /\ [Next]_vars => MigrationInv'
<1> SUFFICES ASSUME MigrationInv, [Next]_vars PROVE MigrationInv'
  OBVIOUS
<1>1. TypeOK'
  BY TypeStep DEF MigrationInv
<1>2. UNCHANGED <<faults, orphans>>
  BY DEF Next, vars
<1>3. ASSUME Calm, ~crossed'
      PROVE  Unharmed'
  <2>0. ~crossed
    BY <1>3 DEF Next, RunDDL, Inspect, Rename, Create, Copy, Drop, StatementIgnored, Ends, vars
  <2>1. ASSUME NEW p \in Processes, StatementIgnored(p)
        PROVE  FALSE
    BY <1>3, <2>1 DEF StatementIgnored, Calm
  <2>2. CASE Next
    BY <1>2, <1>3, <2>0, <2>1, <2>2, RunDDLKeeps, InspectKeeps, RenameKeeps, CreateKeeps,
       CopyKeeps, DropKeeps, EndsKeeps DEF Next
  <2>3. CASE UNCHANGED vars
    <3>1. Unharmed
      BY <1>3, <2>0 DEF MigrationInv
    <3> QED
      BY <2>3, <3>1
         DEF vars, Unharmed, NothingHappened, OneHasAll, NoSecondRename, Copied, Rebuilt,
             Older, PastRename, RowsOf
  <2> QED
    BY <2>2, <2>3
<1> QED
  BY <1>1, <1>2, <1>3 DEF MigrationInv, Calm

LEMMA MigrationAlways == Spec => []MigrationInv
BY MigrationStart, MigrationStep, PTL DEF Spec

----------------------------------------------------------------------------
(* What it means for the events.                                           *)

\* The tables and the places of the processes keep their types, for any number of
\* processes and any faults.
THEOREM MigrationTypeCorrect == Spec => []TypeOK
BY TypeInit, TypeStep, PTL DEF Spec

\* However many processes open the file and however often they die in the middle of
\* the rebuild and start again, every event is in one of the two tables, unless a
\* DROP has crossed the rebuilds of two others.
THEOREM CrashesDestroyNothing == Spec => []CrashDestroysNothing
<1>1. MigrationInv => CrashDestroysNothing
  <2> SUFFICES ASSUME MigrationInv, Calm, ~crossed
               PROVE  RowsOf(table) \cup RowsOf(oldTable) = Events
    BY DEF CrashDestroysNothing
  <2>1. OneHasAll /\ TypeOK
    BY DEF MigrationInv, Unharmed
  <2>2. RowsOf(table) \subseteq Events /\ RowsOf(oldTable) \subseteq Events
    BY <2>1, TableTypes DEF TypeOK, RowsOf
  <2>3. RowsOf(table) = Events \/ RowsOf(oldTable) = Events
    BY <2>1 DEF OneHasAll, RowsOf
  <2> QED
    BY <2>2, <2>3
<1> QED
  BY <1>1, MigrationAlways, PTL

\* Where no statement fails and no process dies, and every event has its session,
\* the rebuild has kept every event and left nothing to rebuild whenever none of
\* any number of processes is in the middle of it, unless a DROP has crossed the
\* rebuilds of two others.
THEOREM MigrationsAreOneTime == Spec => []MigrationIsOneTime
<1>1. MigrationInv => MigrationIsOneTime
  <2> SUFFICES ASSUME MigrationInv, faults = {}, AtRest, ~crossed
               PROVE  /\ RowsOf(table) = Events /\ oldTable = None
                      /\ (\E p \in Processes : opener[p] = "open") => table.key = "round_seq"
    BY DEF MigrationIsOneTime
  <2>1. OneHasAll /\ Rebuilt /\ TypeOK
    BY DEF MigrationInv, Calm, Unharmed
  <2>2. PastRename = {}
    BY DEF PastRename, AtRest
  <2>3. oldTable = None
    BY <2>1, <2>2 DEF Rebuilt
  <2>4. RowsOf(table) = Events /\ table # None
    BY <2>1, <2>3 DEF OneHasAll
  <2>5. (\E p \in Processes : opener[p] = "open") => table.key = "round_seq"
    BY <2>1, <2>4, TableTypes DEF Rebuilt, Older, TypeOK
  <2> QED
    BY <2>3, <2>4, <2>5
<1> QED
  BY <1>1, MigrationAlways, PTL
=============================================================================
