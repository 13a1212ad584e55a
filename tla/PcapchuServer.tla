--------------------------- MODULE PcapchuServer ---------------------------
(***************************************************************************)
(* The API server (internal/server, internal/cli/serve.go) and the         *)
(* commands (internal/cli): uploads, analyze requests, commands and        *)
(* deletions interleaving over one store, shutdown of the server, and      *)
(* death of a process at any point.                                        *)
(***************************************************************************)
EXTENDS Upload, Analyze, CommandLine

vars == <<faults, storeVars, uploadVars, requestVars, commandVars>>

TypeOK == StoreTypeOK /\ UploadTypeOK /\ AnalyzeTypeOK /\ CommandTypeOK

Init == StoreInit /\ UploadInit /\ AnalyzeInit /\ CommandInit

\* The user may stop a process, and it may die.
MayStop == "stop" \in faults

UploadNext ==
    \E s \in Sessions : UploadStep(s) /\ UNCHANGED <<requestVars, commandVars>>

RequestRuns(q) == AnalyzeStep(q) /\ UNCHANGED <<faults, uploadVars, commandVars>>

AnalyzeNext == \E q \in Requests : RequestRuns(q)

CommandRuns(k) == CommandStep(k) /\ UNCHANGED <<faults, requestVars>>

CommandNext == \E k \in Commands : CommandRuns(k)

\* DELETE /api/sessions/{id} or "session delete"; an error changes nothing.
HandleDeleteSession ==
    /\ \E s \in Sessions, fk \in FkModes : DeleteSession(s, fk)
    /\ UNCHANGED <<uploadVars, requestVars, commandVars>>

\* DELETE /api/pcap/{id} or "pcap delete"; an error changes nothing.
HandleDeletePcap ==
    /\ \E p \in Pcaps, fk \in FkModes : DeletePcapFile(p, fk)
    /\ UNCHANGED <<uploadVars, requestVars, commandVars>>

\* A signal: cleanup closes the store while handlers are still running.
Shutdown ==
    /\ MayStop
    /\ Close
    /\ UNCHANGED <<uploadVars, requestVars, commandVars>>

\* The server ends, after a signal or without one, and is started again.
Restart ==
    /\ MayStop
    /\ Reopen
    /\ UploadsDie(None)
    /\ RequestsDie
    /\ UNCHANGED commandVars

\* A command ends before its work does.
CommandStop ==
    /\ MayStop
    /\ \E k \in Commands : CommandStops(k)
    /\ UNCHANGED requestVars

Next ==
    /\ \/ UploadNext
       \/ AnalyzeNext
       \/ CommandNext
       \/ HandleDeleteSession
       \/ HandleDeletePcap
       \/ Shutdown
       \/ Restart
       \/ CommandStop
    /\ UNCHANGED faults

Spec == Init /\ [][Next]_vars

\* A handler's goroutine and a command's process run, and the calls they make
\* return: the HTTP client of the model has a timeout; of Docker it is assumed.
\* Nobody has to send a request or start a command.
Fairness ==
    /\ \A q \in Requests : WF_vars(pc[q] # "ready" /\ RequestRuns(q))
    /\ \A k \in Commands : WF_vars(cmdPc[k] # "ready" /\ CommandRuns(k))

FairSpec == Spec /\ Fairness

----------------------------------------------------------------------------
(* Safety.                                                                 *)

\* The rounds of a session are numbered 1, 2, ..., k without a gap, although
\* startRound is computed long before the row is inserted, by requests that
\* race, fail, or are cut off.  RoundCount + 1 (handler_analyze.go:61) and
\* the frontend rely on it.
RoundsContiguous ==
    \A s \in live : \E k \in 0..MaxRound : RoundsOf(s) = 1..k

\* The log of a round is the first events of one request, in their order:
\* events of two requests for the same round number never mix.
OneWriterPerRound ==
    \A s \in live, r \in RoundNo : \E q \in Row, n \in 0..MaxSeq :
        \A i \in Seqs : events[s][r][i] = IF i <= n THEN q ELSE None

\* A round that a request stored has all the events the request streamed, no
\* other, and its query is that request's or still missing, whether a command
\* raced for the number or not.
RoundHasFullLog ==
    \A s \in live, r \in RoundNo :
        rounds[s][r] \in Requests =>
            LET q == rounds[s][r] IN
                /\ \A i \in Seqs : events[s][r][i] = IF i <= buffered[q] THEN q ELSE None
                /\ queries[s][r] \in {None, q}

\* A title that is not a command's is the query stored for round 1
\* (API.md:223), whichever of the requests that took themselves for the first
\* one won.
TitleIsFirstQuery ==
    \A s \in live : title[s] \in Requests => queries[s][1] = title[s]

\* A session marked completed has the query and all events of some request.
CompletedHasLog ==
    \A s \in live : status[s] = "completed" =>
        \E r \in RoundNo :
            /\ queries[s][r] # None
            /\ \A i \in Seqs :
                    events[s][r][i] = IF i <= buffered[queries[s][r]] THEN queries[s][r] ELSE None

\* A session never gets another capture than the one that was uploaded for it,
\* although captures are shared by content, deleted and uploaded again between
\* the statements of an upload; where foreign keys are enforced, its reference
\* never dangles either.
SessionHasItsCapture ==
    \A s \in live : pcapOf[s] # None =>
        \/ pcapFiles[pcapOf[s]] = upContent[s]
        \/ pcapFiles[pcapOf[s]] = None /\ FALSE \in FkModes

\* The rows of session s that request q wrote, its snapshots left aside.
WroteHistory(s, q) ==
    \/ title[s] = q
    \/ \E r \in RoundNo : \/ rounds[s][r] = q
                          \/ queries[s][r] = q
                          \/ \E i \in Seqs : events[s][r][i] = q

\* A stream that the client left, or that never got started, has left nothing
\* in the rounds, the events, the queries or the title of any session.
UnfinishedLeavesNoHistory ==
    \A q \in Requests : reply[q] \in {"http_error", "init_error", "disconnected"} =>
        \A s \in Sessions : ~WroteHistory(s, q)

\* History is append-only: while a session lives, a row of rounds, of
\* session_events or of round_queries is never overwritten or removed, the
\* upsert of SaveRoundQuery included.
HistoryAppendOnly ==
    [][\A s \in live \cap live' : \A r \in RoundNo :
            /\ rounds[s][r] # None => rounds'[s][r] = rounds[s][r]
            /\ queries[s][r] # None => queries'[s][r] = queries[s][r]
            /\ \A i \in Seqs : events[s][r][i] # None => events'[s][r][i] = events[s][r][i]
      ]_vars

----------------------------------------------------------------------------
(* What GET /api/sessions and GET /api/sessions/{id} show of a session     *)
(* (internal/server/handler_session.go).                                   *)

\* The round_count of the list: the rows of the table rounds.
ListedRounds(s) == RoundCount(s)

\* The rounds of the detail: those that have events.
DetailedRounds(s) == {r \in RoundNo : events[s][r] # NoEvents[r]}

\* A round is never shown under the query of another one: its user_query is
\* that of the request whose events are shown with it, or missing.
ShownUnderItsQuery ==
    \A s \in live : \A r \in DetailedRounds(s) :
        queries[s][r] \in {None, events[s][r][1]}

----------------------------------------------------------------------------
(* What the documentation promises, of a session no flush is writing to.   *)

AtRest(s) == \A q \in Requests : target[q] = s => pc[q] \notin Flushing

\* A command stores rounds without events or queries.
OfRequestsOnly(s) == \A r \in RoundNo : rounds[s][r] \notin Commands

\* A flush is all or nothing: a round number has its events, its round and
\* its query, or none of them (API.md:113, collector.go:17).
FlushIsAtomic ==
    \A s \in live, r \in RoundNo : AtRest(s) /\ OfRequestsOnly(s) =>
        \/ rounds[s][r] = None /\ queries[s][r] = None /\ events[s][r] = NoEvents[r]
        \/ /\ rounds[s][r] # None
           /\ queries[s][r] = rounds[s][r]
           /\ \A i \in 1..MinEvents : events[s][r][i] # None

\* Where nothing fails and no process dies, a flush is all or nothing, requests
\* that lose the race for their round included.
AtomicWithoutFaults == faults = {} => FlushIsAtomic

\* A session marked completed has a finished round (API.md:393), unless a
\* statement or an investigation failed: no race, disconnect, deletion,
\* command or death of a process gets a session completed without one.
CompletedHasRound ==
    {"io", "investigation"} \cap faults = {} =>
        \A s \in live : status[s] = "completed" => RoundsOf(s) # {}

\* The next call of analyze on a session can store its events: nothing is in
\* the way of round RoundCount + 1 (API.md:136, "call repeatedly").
NextRoundIsFree ==
    \A s \in live : (AtRest(s) /\ RoundCount(s) < MaxRound) =>
        events[s][RoundCount(s) + 1] = NoEvents[1]

\* Where nothing fails and no process dies, the two handlers show the same
\* number of rounds of a session, and the next round is free.
CountsAgree ==
    faults = {} =>
        /\ \A s \in live : AtRest(s) /\ OfRequestsOnly(s) =>
                Cardinality(DetailedRounds(s)) = ListedRounds(s)
        /\ NextRoundIsFree

----------------------------------------------------------------------------
(* Liveness.                                                               *)

\* Every request that found its session is answered or cut off, and every
\* command ends, however they race and whatever fails.
EveryoneEnds ==
    /\ \A q \in Requests : (pc[q] = "count") ~> (pc[q] = "over")
    /\ \A k \in Commands : (cmdPc[k] # "ready") ~> (cmdPc[k] = "over")

----------------------------------------------------------------------------
(* Refinement: the rounds of the sessions that exist are a RoundLog.       *)

Log == INSTANCE RoundLog WITH
        Once  <- Requests,
        alive <- live,
        log   <- [s \in Sessions |->
                    IF s \in live THEN [r \in 1..RoundCount(s) |-> rounds[s][r]] ELSE <<>>]

ImplementsRoundLog == Log!LogSpec
=============================================================================
