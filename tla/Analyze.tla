------------------------------ MODULE Analyze ------------------------------
(***************************************************************************)
(* POST /api/sessions/{id}/analyze (internal/server/handler_analyze.go,    *)
(* collector.go) with the database side of the investigation it runs       *)
(* (internal/investigation/investigation.go).                              *)
(*                                                                         *)
(* A request reads its session, numbers its round by counting the rows of  *)
(* rounds, streams one investigation round while the collector buffers     *)
(* events and the round in memory, and then flushes: one INSERT per event, *)
(* the round, the query, the title, the status.  Requests interleave       *)
(* between any two statements.                                             *)
(***************************************************************************)
EXTENDS Store

CONSTANTS MinEvents    \* the least number of events a stream buffers

ASSUME AnalyzeAssumption == MinEvents \in 1..MaxSeq

VARIABLES
    pc,           \* where the handler of the request is
    target,       \* sessionID
    held,         \* sess.PcapFileID, as GetSession read it
    start,        \* startRound
    collected,    \* has the collector got the round?
    buffered,     \* number of events in the collector
    nextSeq,      \* the event SaveEvents writes next
    reply         \* how the exchange with the client ended

requestVars == <<pc, target, held, start, collected, buffered, nextSeq, reply>>

\* The stages of the SSE stream, with nothing of the collector written yet.
Streaming == {"setup", "key_findings", "planner_history", "round"}

\* The stages of flush, in the order of its statements.
Flushing == {"flush_events", "flush_round", "flush_query", "flush_title", "flush_status"}

\* The stages at which the request has a round number.
Numbered == Streaming \cup Flushing

Replies == {"none", "http_error", "init_error", "disconnected", "crashed", "completed", "error"}

AnalyzeTypeOK ==
    /\ pc \in [Requests -> {"ready", "count", "over"} \cup Numbered]
    /\ target \in [Requests -> Sessions \cup {None}]
    /\ held \in [Requests -> Pcaps \cup {None}]
    /\ start \in [Requests -> RoundNo]
    /\ collected \in [Requests -> BOOLEAN]
    /\ buffered \in [Requests -> 0..MaxSeq]
    /\ nextSeq \in [Requests -> Seqs]
    /\ reply \in [Requests -> Replies]

AnalyzeInit ==
    /\ pc = [q \in Requests |-> "ready"]
    /\ target = [q \in Requests |-> None]
    /\ held = [q \in Requests |-> None]
    /\ start = [q \in Requests |-> 1]
    /\ collected = [q \in Requests |-> FALSE]
    /\ buffered = [q \in Requests |-> 0]
    /\ nextSeq = [q \in Requests |-> 1]
    /\ reply = [q \in Requests |-> "none"]

Goto(q, stage) == pc' = [pc EXCEPT ![q] = stage]

\* The handler returns, having told the client v.
EndsWith(q, v) ==
    /\ Goto(q, "over")
    /\ reply' = [reply EXCEPT ![q] = v]
    /\ UNCHANGED <<target, held, start, collected, buffered, nextSeq>>

----------------------------------------------------------------------------
(* Before the stream.                                                      *)

GetSession(q, s) ==
    /\ pc[q] = "ready"
    /\ storeOpen
    /\ s \in live
    /\ pcapOf[s] # None
    /\ target' = [target EXCEPT ![q] = s]
    /\ held' = [held EXCEPT ![q] = pcapOf[s]]
    /\ Goto(q, "count")
    /\ UNCHANGED <<start, collected, buffered, nextSeq, reply, storeVars>>

\* 404, or 400 for a session without a pcap.
GetSessionFails(q) ==
    /\ pc[q] = "ready"
    /\ \E s \in Sessions : StatementFails(~storeOpen \/ s \notin live \/ pcapOf[s] = None)
    /\ EndsWith(q, "http_error")

CountRounds(q) ==
    /\ pc[q] = "count"
    /\ storeOpen
    /\ RoundCount(target[q]) < MaxRound      \* the bound on rounds
    /\ start' = [start EXCEPT ![q] = RoundCount(target[q]) + 1]
    /\ Goto(q, "setup")
    /\ UNCHANGED <<target, held, collected, buffered, nextSeq, reply, storeVars>>

\* The statement fails, or the bound on rounds is reached.
CountRoundsFails(q) ==
    /\ pc[q] = "count"
    /\ StatementFails(~storeOpen \/ RoundCount(target[q]) = MaxRound)
    /\ EndsWith(q, "http_error")

\* NewRuntime succeeds and the capture is copied into the container.
SetUp(q) ==
    /\ pc[q] = "setup"
    /\ storeOpen
    /\ pcapFiles[held[q]] # None
    /\ Goto(q, IF start[q] > 1 THEN "key_findings" ELSE "round")
    /\ UNCHANGED <<target, held, start, collected, buffered, nextSeq, reply, storeVars>>

\* No API key, no Docker, the capture is gone: an error event and no "done".
SetUpFails(q) ==
    /\ pc[q] = "setup"
    /\ StatementFails(~storeOpen \/ InvestigationMayFail \/ pcapFiles[held[q]] = None)
    /\ EndsWith(q, "init_error")

----------------------------------------------------------------------------
(* The stream.                                                             *)

\* Mutant: a failed investigation has its status stored and nothing else.
StreamEndsStatusOnly(q, ok) ==
    /\ collected' = [collected EXCEPT ![q] = ok]
    /\ \E n \in MinEvents..MaxSeq : buffered' = [buffered EXCEPT ![q] = n]
    /\ Goto(q, IF ok THEN "flush_events" ELSE "flush_status")
    /\ UNCHANGED <<target, held, start, nextSeq, reply, storeVars>>

\* The emitter is closed and drained: the collector holds n events, the
\* last one analysis.completed, and the round if RunInvestigation got to it.
StreamEnds(q, ok) ==
    /\ collected' = [collected EXCEPT ![q] = ok]
    /\ \E n \in MinEvents..MaxSeq : buffered' = [buffered EXCEPT ![q] = n]
    /\ Goto(q, "flush_events")
    /\ UNCHANGED <<target, held, start, nextSeq, reply, storeVars>>

\* collectScopedEntries fails: RunInvestigation breaks out of its loop.
CollectFails(q) ==
    /\ pc[q] \in Scopes
    /\ ~storeOpen \/ IoMayFail
    /\ StreamEnds(q, FALSE)

\* collectScopedEntries and compressAndSnapshot for one scope.
CollectScope(q) ==
    /\ pc[q] \in Scopes
    /\ storeOpen
    /\ MaySnapshot(target[q], pc[q])
    /\ Goto(q, IF pc[q] = "key_findings" THEN "planner_history" ELSE "round")
    /\ UNCHANGED <<target, held, start, collected, buffered, nextSeq, reply>>

\* Mutant: the callback is not called for the round that was run.
RunRoundLosingIt(q) ==
    /\ pc[q] = "round"
    /\ StreamEnds(q, FALSE)

\* The planner, then the executor, then collectRound.
RunRound(q) ==
    /\ pc[q] = "round"
    /\ StreamEnds(q, TRUE)

\* The planner or the executor fails: RunInvestigation breaks out of its loop.
RunRoundFails(q) ==
    /\ pc[q] = "round"
    /\ InvestigationMayFail
    /\ StreamEnds(q, FALSE)

\* Mutant: the flush runs under r.Context() too.
DisconnectInFlush(q) ==
    /\ pc[q] \in Numbered
    /\ EndsWith(q, "disconnected")
    /\ UNCHANGED storeVars

\* r.Context() is done before the stream has ended: return without a flush.
Disconnect(q) ==
    /\ pc[q] \in Streaming
    /\ EndsWith(q, "disconnected")
    /\ UNCHANGED storeVars

----------------------------------------------------------------------------
(* The flush.                                                              *)

\* RunInvestigation returns nil on each of its ways out, a break included.
RunInvestigationFails(q) == FALSE

FinalStatus(q) == IF RunInvestigationFails(q) THEN "error" ELSE "completed"

\* Mutant: the loop runs once too often.
FlushEventOffByOne(q) ==
    /\ pc[q] = "flush_events"
    /\ storeOpen
    /\ \E fk \in FkModes : InsertEvent(target[q], start[q], nextSeq[q], q, fk)
    /\ IF nextSeq[q] <= buffered[q]
         THEN nextSeq' = [nextSeq EXCEPT ![q] = @ + 1] /\ UNCHANGED pc
         ELSE /\ Goto(q, IF collected[q] THEN "flush_round" ELSE "flush_query")
              /\ UNCHANGED nextSeq
    /\ UNCHANGED <<target, held, start, collected, buffered, reply>>

\* Mutant: the round is stored before its events.
FlushRoundFirst(q) ==
    /\ pc[q] = "flush_events"
    /\ storeOpen
    /\ \/ /\ collected[q] /\ nextSeq[q] = 1 /\ rounds[target[q]][start[q]] # q
          /\ \E fk \in FkModes : SaveRound(target[q], start[q], q, fk)
          /\ UNCHANGED <<pc, nextSeq>>
       \/ /\ collected[q] => rounds[target[q]][start[q]] = q
          /\ \E fk \in FkModes : InsertEvent(target[q], start[q], nextSeq[q], q, fk)
          /\ IF nextSeq[q] < buffered[q]
               THEN nextSeq' = [nextSeq EXCEPT ![q] = @ + 1] /\ UNCHANGED pc
               ELSE Goto(q, "flush_query") /\ UNCHANGED nextSeq
    /\ UNCHANGED <<target, held, start, collected, buffered, reply>>

\* One INSERT of SaveEvents; after the last one, the round if there is one.
FlushEvent(q) ==
    /\ pc[q] = "flush_events"
    /\ storeOpen
    /\ \E fk \in FkModes : InsertEvent(target[q], start[q], nextSeq[q], q, fk)
    /\ IF nextSeq[q] < buffered[q]
         THEN nextSeq' = [nextSeq EXCEPT ![q] = @ + 1] /\ UNCHANGED pc
         ELSE /\ Goto(q, IF collected[q] THEN "flush_round" ELSE "flush_query")
              /\ UNCHANGED nextSeq
    /\ UNCHANGED <<target, held, start, collected, buffered, reply>>

FlushRound(q) ==
    /\ pc[q] = "flush_round"
    /\ storeOpen
    /\ \E fk \in FkModes : SaveRound(target[q], start[q], q, fk)
    /\ Goto(q, "flush_query")
    /\ UNCHANGED <<target, held, start, collected, buffered, nextSeq, reply>>

\* Mutant: every round renames the session.
FlushQueryAndTitle(q) ==
    /\ pc[q] = "flush_query"
    /\ storeOpen
    /\ \E fk \in FkModes : SaveRoundQuery(target[q], start[q], q, fk)
    /\ Goto(q, "flush_title")
    /\ UNCHANGED <<target, held, start, collected, buffered, nextSeq, reply>>

FlushQuery(q) ==
    /\ pc[q] = "flush_query"
    /\ storeOpen
    /\ \E fk \in FkModes : SaveRoundQuery(target[q], start[q], q, fk)
    /\ Goto(q, IF start[q] = 1 THEN "flush_title" ELSE "flush_status")
    /\ UNCHANGED <<target, held, start, collected, buffered, nextSeq, reply>>

\* The error of UpdateSessionTitle is ignored.
FlushTitle(q) ==
    /\ pc[q] = "flush_title"
    /\ \/ storeOpen /\ UpdateSessionTitle(target[q], q)
       \/ StatementFails(~storeOpen)
    /\ Goto(q, "flush_status")
    /\ UNCHANGED <<target, held, start, collected, buffered, nextSeq, reply>>

FlushStatus(q) ==
    /\ pc[q] = "flush_status"
    /\ storeOpen
    /\ UpdateSessionStatus(target[q], FinalStatus(q))
    /\ EndsWith(q, FinalStatus(q))

\* Does the statement that flush is at violate a constraint?
Violates(q) ==
    \/ /\ pc[q] = "flush_events"
       /\ events[target[q]][start[q]][nextSeq[q]] # None \/ ParentMayFail(target[q])
    \/ /\ pc[q] = "flush_round"
       /\ rounds[target[q]][start[q]] # None \/ ParentMayFail(target[q])
    \/ pc[q] = "flush_query" /\ ParentMayFail(target[q])

\* Mutant: the statement that failed is tried again, for ever.
FlushRetries(q) ==
    /\ pc[q] \in Flushing \ {"flush_title"}
    /\ StatementFails(~storeOpen \/ Violates(q))
    /\ UNCHANGED requestVars

\* Mutant: an error of SaveEvents is logged and flush goes on.
FlushGoesOn(q) ==
    /\ pc[q] \in Flushing \ {"flush_title"}
    /\ StatementFails(~storeOpen \/ Violates(q))
    /\ IF pc[q] = "flush_events"
         THEN /\ Goto(q, IF collected[q] THEN "flush_round" ELSE "flush_query")
              /\ UNCHANGED <<target, held, start, collected, buffered, nextSeq, reply>>
         ELSE EndsWith(q, FinalStatus(q))

\* flush returns at the first error.  The handler logs it and sends "done".
FlushFails(q) ==
    /\ pc[q] \in Flushing \ {"flush_title"}
    /\ StatementFails(~storeOpen \/ Violates(q))
    /\ EndsWith(q, FinalStatus(q))

----------------------------------------------------------------------------
AnalyzeStep(q) ==
    \/ \E s \in Sessions : GetSession(q, s)
    \/ GetSessionFails(q)
    \/ CountRounds(q)
    \/ CountRoundsFails(q)
    \/ SetUp(q)
    \/ SetUpFails(q)
    \/ CollectFails(q)
    \/ CollectScope(q)
    \/ RunRound(q)
    \/ RunRoundFails(q)
    \/ Disconnect(q)
    \/ FlushEvent(q)
    \/ FlushRound(q)
    \/ FlushQuery(q)
    \/ FlushTitle(q)
    \/ FlushStatus(q)
    \/ FlushFails(q)

\* The process dies: the requests it was serving are over.
RequestsDie ==
    /\ pc' = [q \in Requests |-> IF pc[q] = "ready" THEN "ready" ELSE "over"]
    /\ reply' = [q \in Requests |->
                    IF pc[q] \in {"ready", "over"} THEN reply[q] ELSE "crashed"]
    /\ UNCHANGED <<target, held, start, collected, buffered, nextSeq>>
=============================================================================
