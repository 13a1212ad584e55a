------------------------------- MODULE Store -------------------------------
(***************************************************************************)
(* The SQLite store (internal/storage/store.go): its tables and the        *)
(* statements the handlers run on them.                                    *)
(*                                                                         *)
(* Every statement of the store is an autocommit statement of its own: one *)
(* operator per statement, true of a step in which the statement succeeds. *)
(* A table is a function from its UNIQUE key to the row: a row is          *)
(* represented by the analyze request or the command that wrote it, None   *)
(* stands for "no row".  Text columns, timestamps and blobs are abstracted.*)
(***************************************************************************)
EXTENDS Naturals, FiniteSets

CONSTANTS
    Sessions,      \* ids of sessions, one for each upload or "analyze --pcap"
    Pcaps,         \* ids that pcap_files can hand out (AUTOINCREMENT: never twice)
    Contents,      \* contents of capture files, told apart by their SHA-256
    Requests,      \* calls of POST /api/sessions/{id}/analyze
    Commands,      \* runs of "pcapchu analyze" and "pcapchu session resume"
    Scopes,        \* scopes of history_snapshots
    MaxRound,      \* bound on the rounds of a session
    MaxSeq,        \* bound on the events of a round
    None,          \* no row, SQL NULL
    FkModes,       \* PRAGMA foreign_keys of the pool's connections
    FaultModes     \* the sets of faults that behaviours may have

ASSUME StoreAssumption ==
    /\ MaxRound \in Nat \ {0}
    /\ MaxSeq \in Nat \ {0}
    /\ None \notin Requests \cup Commands \cup Pcaps \cup Contents
    /\ Requests \cap Commands = {}
    /\ FkModes \subseteq BOOLEAN
    /\ FkModes # {}
    /\ Scopes = {"key_findings", "planner_history"}
    /\ FaultModes \subseteq SUBSET {"io", "investigation", "stop"}

VARIABLES
    faults,        \* what may fail in this behaviour; it never changes
    storeOpen,     \* is the server's handle open?  FALSE from Close to restart
    pcapFiles,     \* table pcap_files: the content stored under an id
    usedPcaps,     \* sqlite_sequence of pcap_files: ids handed out so far
    live,          \* table sessions: the ids that have a row
    pcapOf,        \* sessions.pcap_file_id
    title,         \* sessions.session_title: the request whose query it is
    status,        \* sessions.status
    rounds,        \* table rounds, UNIQUE(session_id, round)
    queries,       \* table round_queries, UNIQUE(session_id, round)
    events,        \* table session_events, UNIQUE(session_id, round, seq)
    snapshots      \* table history_snapshots: the scopes that have a row

historyVars == <<rounds, queries, events, snapshots>>
sessionVars == <<live, pcapOf, title, status>>
pcapVars    == <<pcapFiles, usedPcaps>>
tableVars   == <<historyVars, sessionVars, pcapVars>>
storeVars   == <<storeOpen, tableVars>>

RoundNo == 1..MaxRound
Seqs    == 1..MaxSeq
Writers == Requests \cup Commands
Row     == Writers \cup {None}
Status  == {"idle", "running", "completed", "error", "interrupted"}

NoRounds    == [r \in RoundNo |-> None]
NoEvents    == [r \in RoundNo |-> [i \in Seqs |-> None]]

StoreTypeOK ==
    /\ faults \in FaultModes
    /\ storeOpen \in BOOLEAN
    /\ pcapFiles \in [Pcaps -> Contents \cup {None}]
    /\ usedPcaps \in SUBSET Pcaps
    /\ live \in SUBSET Sessions
    /\ pcapOf \in [Sessions -> Pcaps \cup {None}]
    /\ title \in [Sessions -> Row]
    /\ status \in [Sessions -> Status]
    /\ rounds \in [Sessions -> [RoundNo -> Row]]
    /\ queries \in [Sessions -> [RoundNo -> Row]]
    /\ events \in [Sessions -> [RoundNo -> [Seqs -> Row]]]
    /\ snapshots \in [Sessions -> SUBSET Scopes]

StoreInit ==
    /\ faults \in FaultModes
    /\ storeOpen = TRUE
    /\ pcapFiles = [p \in Pcaps |-> None]
    /\ usedPcaps = {}
    /\ live = {}
    /\ pcapOf = [s \in Sessions |-> None]
    /\ title = [s \in Sessions |-> None]
    /\ status = [s \in Sessions |-> "idle"]
    /\ rounds = [s \in Sessions |-> NoRounds]
    /\ queries = [s \in Sessions |-> NoRounds]
    /\ events = [s \in Sessions |-> NoEvents]
    /\ snapshots = [s \in Sessions |-> {}]

----------------------------------------------------------------------------
(* Errors.  A write of a child row fails on a connection that enforces     *)
(* foreign keys when its session has no row; foreign_keys is a setting of  *)
(* the connection, and New() sets it on one connection of the pool only.   *)

ParentOK(s, fk) == fk => s \in live

ParentMayFail(s) == \E fk \in FkModes : ~ParentOK(s, fk)

\* A statement may fail for a reason outside the model: SQLITE_BUSY, a full
\* disk, a cancelled context.
IoMayFail == "io" \in faults

\* The model, the planner, the executor or Docker may fail.
InvestigationMayFail == "investigation" \in faults

\* A statement that returns an error: it is refused, because its handle is
\* closed or a constraint is violated, or the engine fails.
StatementFails(refused) ==
    /\ refused \/ IoMayFail
    /\ UNCHANGED storeVars

----------------------------------------------------------------------------
(* Reads.                                                                  *)

RoundsOf(s) == {r \in RoundNo : rounds[s][r] # None}

\* Mutant: rounds counted by the queries asked, not by the rounds finished.
RoundCountByQueries(s) == Cardinality({r \in RoundNo : queries[s][r] # None})

RoundCount(s) == Cardinality(RoundsOf(s))

StoredWith(c) == {p \in Pcaps : pcapFiles[p] = c}

----------------------------------------------------------------------------
(* Pcap files and sessions.                                                *)

\* Mutant: the id of a deleted row is handed out again.
InsertPcapRowReusingId(p, c) ==
    /\ StoredWith(c) = {}
    /\ pcapFiles[p] = None
    /\ pcapFiles' = [pcapFiles EXCEPT ![p] = c]
    /\ UNCHANGED <<storeOpen, usedPcaps, sessionVars, historyVars>>

\* The INSERT of InsertPcapFile: sha256 is UNIQUE, the id is a fresh one.
InsertPcapRow(p, c) ==
    /\ StoredWith(c) = {}
    /\ p \notin usedPcaps
    /\ pcapFiles' = [pcapFiles EXCEPT ![p] = c]
    /\ usedPcaps' = usedPcaps \cup {p}
    /\ UNCHANGED <<storeOpen, sessionVars, historyVars>>

\* ON DELETE SET NULL acts on a connection that enforces foreign keys only.
DeletePcapFile(p, fk) ==
    /\ pcapFiles[p] # None
    /\ pcapFiles' = [pcapFiles EXCEPT ![p] = None]
    /\ pcapOf' = [s \in Sessions |-> IF fk /\ pcapOf[s] = p THEN None ELSE pcapOf[s]]
    /\ UNCHANGED <<storeOpen, usedPcaps, live, title, status, historyVars>>

CreateSession(s, p, t, fk) ==
    /\ s \notin live
    /\ fk => pcapFiles[p] # None
    /\ live' = live \cup {s}
    /\ pcapOf' = [pcapOf EXCEPT ![s] = p]
    /\ title' = [title EXCEPT ![s] = t]
    /\ UNCHANGED <<storeOpen, pcapVars, status, historyVars>>

\* The DELETE of DeleteSession, with ON DELETE CASCADE where it is enforced.
DeleteSession(s, fk) ==
    /\ s \in live
    /\ live' = live \ {s}
    /\ rounds' = [rounds EXCEPT ![s] = IF fk THEN NoRounds ELSE @]
    /\ queries' = [queries EXCEPT ![s] = IF fk THEN NoRounds ELSE @]
    /\ events' = [events EXCEPT ![s] = IF fk THEN NoEvents ELSE @]
    /\ snapshots' = [snapshots EXCEPT ![s] = IF fk THEN {} ELSE @]
    /\ UNCHANGED <<storeOpen, pcapVars, pcapOf, title, status>>

\* UPDATE ... WHERE id = s: no error, and no effect, when s has no row.
UpdateSessionTitle(s, q) ==
    /\ title' = IF s \in live THEN [title EXCEPT ![s] = q] ELSE title
    /\ UNCHANGED <<storeOpen, pcapVars, live, pcapOf, status, historyVars>>

UpdateSessionStatus(s, v) ==
    /\ status' = IF s \in live THEN [status EXCEPT ![s] = v] ELSE status
    /\ UNCHANGED <<storeOpen, pcapVars, live, pcapOf, title, historyVars>>

----------------------------------------------------------------------------
(* The history of a session.                                               *)

SaveRound(s, r, q, fk) ==
    /\ ParentOK(s, fk)
    /\ rounds[s][r] = None
    /\ rounds' = [rounds EXCEPT ![s][r] = q]
    /\ UNCHANGED <<storeOpen, pcapVars, sessionVars, queries, events, snapshots>>

\* Mutant: INSERT OR REPLACE.
ReplaceEvent(s, r, i, q, fk) ==
    /\ ParentOK(s, fk)
    /\ events' = [events EXCEPT ![s][r][i] = q]
    /\ UNCHANGED <<storeOpen, pcapVars, sessionVars, rounds, queries, snapshots>>

\* One INSERT of the loop of SaveEvents.
InsertEvent(s, r, i, q, fk) ==
    /\ ParentOK(s, fk)
    /\ events[s][r][i] = None
    /\ events' = [events EXCEPT ![s][r][i] = q]
    /\ UNCHANGED <<storeOpen, pcapVars, sessionVars, rounds, queries, snapshots>>

\* ON CONFLICT DO UPDATE: an upsert never violates the UNIQUE key.
SaveRoundQuery(s, r, q, fk) ==
    /\ ParentOK(s, fk)
    /\ queries' = [queries EXCEPT ![s][r] = q]
    /\ UNCHANGED <<storeOpen, pcapVars, sessionVars, rounds, events, snapshots>>

\* An upsert too.  What a snapshot says is the subject of HistoryCompression.
SaveSnapshot(s, c, fk) ==
    /\ ParentOK(s, fk)
    /\ snapshots' = [snapshots EXCEPT ![s] = @ \cup {c}]
    /\ UNCHANGED <<storeOpen, pcapVars, sessionVars, rounds, queries, events>>

\* compressAndSnapshot stores a snapshot when the history it has collected is
\* over the token limit; an error of the statement is logged.
MaySnapshot(s, c) ==
    \/ \E fk \in FkModes : SaveSnapshot(s, c, fk)
    \/ UNCHANGED storeVars

----------------------------------------------------------------------------
(* The life of the process.                                                *)

\* The signal handler's cleanup closes the database under running handlers.
Close ==
    /\ storeOpen
    /\ storeOpen' = FALSE
    /\ UNCHANGED tableVars

\* New() on the next start, then the status reset of runServe.
Reopen ==
    /\ storeOpen' = TRUE
    /\ status' = [s \in Sessions |->
                    IF s \in live /\ status[s] = "running" THEN "interrupted" ELSE status[s]]
    /\ UNCHANGED <<live, pcapOf, title, historyVars, pcapVars>>
=============================================================================
