------------------------ MODULE PcapchuHistoryProofs ------------------------
(***************************************************************************)
(* Theorems about what PcapchuServer stores in a round: the events, the    *)
(* query and the title of a session, for every number of sessions,         *)
(* requests, commands, rounds and events.                                  *)
(***************************************************************************)
EXTENDS PcapchuServerProofs

\* The log of a round of which request q has stored n events.
LogOf(q, n) == [i \in Seqs |-> IF i <= n THEN q ELSE None]

\* The stages before anything of the collector is written.
Before == {"ready", "count"} \cup Streaming

\* A session that was not created yet has nothing that a request stores.
BlankBefore ==
    \A s \in Sessions : upPc[s] # "over" =>
        events[s] = NoEvents /\ queries[s] = NoRounds /\ status[s] = "idle"

\* What is collected when, and how far the flush is.
Progress(q) ==
    /\ pc[q] \in Before => nextSeq[q] = 1
    /\ pc[q] \in Flushing => buffered[q] # 0
    /\ pc[q] = "flush_events" => nextSeq[q] <= buffered[q]

\* What the flush of q has stored so far is there, and the round number is q's
\* from the first event on.
HoldsLog(q) ==
    LET t == target[q]  r == start[q] IN
    t \in live =>
        /\ pc[q] = "flush_events" /\ nextSeq[q] # 1 => events[t][r] = LogOf(q, nextSeq[q] - 1)
        /\ pc[q] \in Flushing \ {"flush_events"} => events[t][r] = LogOf(q, buffered[q])
        /\ pc[q] = "flush_title" => r = 1
        /\ pc[q] \in {"flush_title", "flush_status"} => queries[t][r] = q

\* Where a request is that has stored its round, or its query.
RoundStages == {"flush_query", "flush_title", "flush_status", "over"}
QueryStages == {"flush_title", "flush_status", "over"}

\* Request q has stored the whole log of round r and is at one of the stages.
Stored(s, r, q, stages) ==
    /\ q \in Requests
    /\ pc[q] \in stages
    /\ buffered[q] # 0
    /\ events[s][r] = LogOf(q, buffered[q])

RowsAgree(s) ==
    \A r \in RoundNo :
        /\ \E q \in Row, n \in 0..MaxSeq : events[s][r] = LogOf(q, n)
        /\ rounds[s][r] \in Requests =>
                Stored(s, r, rounds[s][r], RoundStages)
        /\ queries[s][r] # None =>
                Stored(s, r, queries[s][r], QueryStages)

HeadingAgrees(s) ==
    /\ title[s] \in Requests => queries[s][1] = title[s]
    /\ status[s] = "completed" => \E r \in RoundNo : queries[s][r] # None

\* q has told its client that nothing was stored, or has not begun to store.
NothingStored(q) ==
    /\ reply[q] # "none" => pc[q] = "over"
    /\ \/ pc[q] \in Before
       \/ reply[q] \in {"http_error", "init_error", "disconnected"}
       => \A s \in Sessions : ~WroteHistory(s, q)

HistoryInv ==
    /\ ContiguousInv
    /\ BlankBefore
    /\ \A q \in Requests : Progress(q) /\ HoldsLog(q) /\ NothingStored(q)
    /\ \A s \in live : RowsAgree(s) /\ HeadingAgrees(s)

LEMMA HistoryInit == Init => HistoryInv
<1> SUFFICES ASSUME Init PROVE HistoryInv
  OBVIOUS
<1>1. ContiguousInv
  BY ContiguousInit
<1>2. live = {} /\ BlankBefore
  BY DEF Init, StoreInit, BlankBefore
<1>3. ASSUME NEW q \in Requests
      PROVE  Progress(q) /\ HoldsLog(q) /\ NothingStored(q)
  <2>1. pc[q] = "ready" /\ nextSeq[q] = 1 /\ reply[q] = "none"
    BY DEF Init, AnalyzeInit
  <2>2. \A s \in Sessions : ~WroteHistory(s, q)
    BY StoreAssumption DEF Init, StoreInit, WroteHistory, NoRounds, NoEvents
  <2> QED
    BY <2>1, <2>2, <1>2 DEF Progress, HoldsLog, NothingStored, Flushing
<1> QED
  BY <1>1, <1>2, <1>3 DEF HistoryInv

----------------------------------------------------------------------------
(* Steps that store nothing of a request.                                  *)

\* The tables change as uploads, commands, deletions and restarts change them.
Orderly ==
    \A s \in Sessions :
        /\ upPc'[s] # "over" => upPc[s] # "over"
        /\ s \in live' => s \in live \/ (upPc[s] # "over" /\ title'[s] \notin Requests)
        /\ \/ events'[s] = events[s] /\ queries'[s] = queries[s]
           \/ s \notin live' /\ events'[s] = NoEvents /\ queries'[s] = NoRounds
        /\ \/ status'[s] = status[s]
           \/ status[s] = "running" /\ status'[s] = "interrupted"
        /\ title'[s] \in Requests => title'[s] = title[s]
        /\ \A r \in RoundNo :
            \/ rounds'[s][r] = rounds[s][r]
            \/ s \notin live' /\ rounds'[s][r] = None
            \/ rounds[s][r] = None /\ rounds'[s][r] \notin Requests

\* A request stays where it is, or goes on without a statement that stores.
QuietMove(q) ==
    \/ UNCHANGED <<pc[q], target[q], start[q], buffered[q], nextSeq[q], reply[q]>>
    \/ pc[q] \in Before /\ pc'[q] \in Before /\ UNCHANGED <<nextSeq[q], reply[q]>>
    \/ /\ pc[q] \in Before /\ pc'[q] = "flush_events"
       /\ buffered'[q] \in Nat \ {0}
       /\ UNCHANGED <<nextSeq[q], reply[q]>>
    \/ /\ pc'[q] = "over"
       /\ pc[q] \in Before \/ reply'[q] \notin {"http_error", "init_error", "disconnected"}
       /\ UNCHANGED buffered[q]
    \/ /\ pc[q] = "flush_title" /\ pc'[q] = "flush_status"
       /\ UNCHANGED <<target[q], start[q], buffered[q], nextSeq[q], reply[q]>>

\* A log that somebody has begun is not empty.
LEMMA LogHead ==
    ASSUME NEW q, NEW n \in Nat \ {0}
    PROVE  LogOf(q, n)[1] = q
BY StoreAssumption DEF LogOf, Seqs

LEMMA QuietStep ==
    ASSUME HistoryInv, ContiguousInv', Orderly, \A q \in Requests : QuietMove(q)
    PROVE  HistoryInv'
<1> USE StoreAssumption
<1>1. live' \subseteq Sessions /\ live \subseteq Sessions
  BY DEF HistoryInv, ContiguousInv, TypeInv, TypeOK, StoreTypeOK
<1>2. BlankBefore'
  <2> SUFFICES ASSUME NEW s \in Sessions, upPc'[s] # "over"
               PROVE  events'[s] = NoEvents /\ queries'[s] = NoRounds /\ status'[s] = "idle"
    BY DEF BlankBefore, NoEvents, NoRounds
  <2>1. events[s] = NoEvents /\ queries[s] = NoRounds /\ status[s] = "idle"
    BY DEF Orderly, HistoryInv, BlankBefore
  <2> QED
    BY <2>1 DEF Orderly
\* A session that has just been created.
<1>3. ASSUME NEW s \in live', s \notin live
      PROVE  /\ upPc[s] # "over" /\ title'[s] \notin Requests
             /\ events'[s] = NoEvents /\ queries'[s] = NoRounds /\ status'[s] = "idle"
             /\ \A r \in RoundNo : rounds'[s][r] \notin Requests
  <2>1. upPc[s] # "over" /\ title'[s] \notin Requests
    BY <1>1, <1>3 DEF Orderly
  <2>2. events[s] = NoEvents /\ queries[s] = NoRounds /\ status[s] = "idle"
    BY <1>1, <2>1 DEF HistoryInv, BlankBefore
  <2>3. \A r \in RoundNo : rounds[s][r] = None
    BY <1>1, <2>1 DEF HistoryInv, ContiguousInv, IdsAreFresh, RoundsOf
  <2> QED
    BY <1>1, <2>1, <2>2, <2>3 DEF Orderly
<1>4. ASSUME NEW q \in Requests
      PROVE  Progress(q)' /\ HoldsLog(q)' /\ NothingStored(q)'
  <2>1. Progress(q) /\ HoldsLog(q) /\ NothingStored(q) /\ QuietMove(q)
    BY DEF HistoryInv
  <2>2. Progress(q)'
    BY <2>1 DEF Progress, QuietMove, Before, Streaming, Flushing
  <2>3. HoldsLog(q)'
    <3>1. CASE UNCHANGED <<pc[q], target[q], start[q], buffered[q], nextSeq[q]>>
      <4>1. pc[q] \in Flushing => upPc[target[q]] = "over" /\ target[q] \in Sessions
        BY DEF HistoryInv, ContiguousInv, IdsAreFresh, TypeInv, RequestKeys, Flushing
      <4>2. target[q] \in live' /\ pc[q] \in Flushing =>
                /\ target[q] \in live
                /\ events'[target[q]] = events[target[q]]
                /\ queries'[target[q]] = queries[target[q]]
        BY <1>1, <1>3, <4>1 DEF Orderly
      <4> QED
        BY <2>1, <3>1, <4>2 DEF HoldsLog, Flushing
    <3>2. CASE pc[q] = "flush_title" /\ pc'[q] = "flush_status"
               /\ UNCHANGED <<target[q], start[q], buffered[q], nextSeq[q]>>
      <4>1. upPc[target[q]] = "over" /\ target[q] \in Sessions
        BY <3>2 DEF HistoryInv, ContiguousInv, IdsAreFresh, TypeInv, RequestKeys
      <4>2. target[q] \in live' =>
                /\ target[q] \in live
                /\ events'[target[q]] = events[target[q]]
                /\ queries'[target[q]] = queries[target[q]]
        BY <1>1, <1>3, <4>1 DEF Orderly
      <4> QED
        BY <2>1, <3>2, <4>2 DEF HoldsLog, Flushing
    <3>3. CASE pc'[q] \in Before \cup {"over"}
      BY <3>3 DEF HoldsLog, Before, Streaming, Flushing
    <3>4. CASE pc[q] \in Before /\ pc'[q] = "flush_events" /\ UNCHANGED nextSeq[q]
      BY <2>1, <3>4 DEF HoldsLog, Progress, Flushing
    <3> QED
      BY <2>1, <3>1, <3>2, <3>3, <3>4 DEF QuietMove
  <2>4. NothingStored(q)'
    <3>1. ASSUME NEW s \in Sessions, ~WroteHistory(s, q)
          PROVE  ~WroteHistory(s, q)'
      <4>1. title'[s] # q
        BY <3>1 DEF Orderly, WroteHistory
      <4>2. ASSUME NEW r \in RoundNo
            PROVE  /\ rounds'[s][r] # q /\ queries'[s][r] # q
                   /\ \A i \in Seqs : events'[s][r][i] # q
        BY <3>1 DEF Orderly, WroteHistory, NoEvents, NoRounds
      <4> QED
        BY <4>1, <4>2 DEF WroteHistory
    <3>2. /\ reply'[q] # "none" => pc'[q] = "over"
          /\ pc'[q] \in Before \/ reply'[q] \in {"http_error", "init_error", "disconnected"} =>
                pc[q] \in Before \/ reply[q] \in {"http_error", "init_error", "disconnected"}
      BY <2>1 DEF NothingStored, QuietMove, Before, Streaming
    <3> QED
      BY <2>1, <3>1, <3>2 DEF NothingStored
  <2> QED
    BY <2>2, <2>3, <2>4
\* What is stored is as it was.
<1>5. ASSUME NEW s \in live, NEW r \in RoundNo, NEW q, NEW stages,
             stages \in {RoundStages, QueryStages},
             Stored(s, r, q, stages), events'[s] = events[s]
      PROVE  Stored(s, r, q, stages)'
  <2>1. q \in Requests /\ QuietMove(q)
    BY <1>5 DEF Stored
  <2>2. pc'[q] \in stages /\ buffered'[q] = buffered[q]
    BY <1>5, <2>1 DEF Stored, QuietMove, Before, Streaming, RoundStages, QueryStages
  <2> QED
    BY <1>5, <2>1, <2>2 DEF Stored
<1>6. ASSUME NEW s \in live'
      PROVE  RowsAgree(s)' /\ HeadingAgrees(s)'
  <2>1. CASE s \notin live
    <3>1. /\ title'[s] \notin Requests
          /\ events'[s] = NoEvents /\ queries'[s] = NoRounds /\ status'[s] = "idle"
          /\ \A r \in RoundNo : rounds'[s][r] \notin Requests
      BY <1>3, <2>1
    <3>2. ASSUME NEW r \in RoundNo
          PROVE  queries'[s][r] = None /\ events'[s][r] = LogOf(None, 0)
      BY <3>1 DEF NoRounds, NoEvents, LogOf
    <3>3. None \in Row /\ 0 \in 0..MaxSeq
      BY DEF Row
    <3>4. \A r \in RoundNo : \E q \in Row, n \in 0..MaxSeq : events'[s][r] = LogOf(q, n)
      BY <3>2, <3>3
    <3>5. RowsAgree(s)'
      BY <3>1, <3>2, <3>4 DEF RowsAgree, LogOf, Stored
    <3> QED
      BY <3>1, <3>5 DEF HeadingAgrees
  <2>2. CASE s \in live
    <3>1. RowsAgree(s) /\ HeadingAgrees(s)
      BY <2>2 DEF HistoryInv
    <3>2. /\ events'[s] = events[s] /\ queries'[s] = queries[s]
          /\ status'[s] = "completed" => status[s] = "completed"
          /\ title'[s] \in Requests => title'[s] = title[s]
          /\ \A r \in RoundNo : rounds'[s][r] \in Requests => rounds'[s][r] = rounds[s][r]
      BY <1>1, <2>2 DEF Orderly
    <3>3. ASSUME NEW r \in RoundNo
          PROVE  /\ \E q \in Row, n \in 0..MaxSeq : events'[s][r] = LogOf(q, n)
                 /\ rounds'[s][r] \in Requests =>
                        Stored(s, r, rounds[s][r], RoundStages)'
                 /\ queries'[s][r] # None =>
                        Stored(s, r, queries[s][r], QueryStages)'
      <4>1. \E q \in Row, n \in 0..MaxSeq : events'[s][r] = LogOf(q, n)
        BY <3>1, <3>2 DEF RowsAgree
      <4>2. ASSUME rounds'[s][r] \in Requests
            PROVE  Stored(s, r, rounds[s][r], RoundStages)'
        <5>1. PICK q \in Requests : q = rounds[s][r] /\ q = rounds'[s][r]
          BY <3>2, <4>2
        <5>2. Stored(s, r, q, RoundStages)
          BY <3>1, <5>1 DEF RowsAgree
        <5>3. Stored(s, r, q, RoundStages)'
          BY <1>5, <2>2, <3>2, <5>2
        <5> QED
          BY <5>1, <5>3 DEF Stored
      <4>3. ASSUME queries'[s][r] # None
            PROVE  Stored(s, r, queries[s][r], QueryStages)'
        <5>1. queries[s][r] \in Requests /\ Stored(s, r, queries[s][r], QueryStages)
          BY <3>1, <3>2, <4>3 DEF RowsAgree, Stored
        <5>2. PICK q \in Requests : q = queries[s][r] /\ q = queries'[s][r]
          BY <3>2, <5>1
        <5>3. Stored(s, r, q, QueryStages)'
          BY <1>5, <2>2, <3>2, <5>1, <5>2
        <5> QED
          BY <5>2, <5>3 DEF Stored
      <4> QED
        BY <4>1, <4>2, <4>3
    <3>4. RowsAgree(s)'
      BY <3>3 DEF RowsAgree, LogOf
    <3> QED
      BY <3>1, <3>2, <3>4 DEF HeadingAgrees
  <2> QED
    BY <2>1, <2>2
<1> QED
  BY <1>2, <1>4, <1>6 DEF HistoryInv

\* Nothing but the steps of requests stores anything of requests.
LEMMA OrderlyUpload ==
    ASSUME TypeInv, NEW s \in Sessions, NEW by \in Commands \cup {None},
           LookUpPcap(s, by) \/ UploadStatement(s) \/ UploadDisconnects(s)
    PROVE  Orderly
<1> USE StoreAssumption
    DEF TypeInv, TypeOK, UploadTypeOK, StatementFails, UploadGoes, storeVars, tableVars,
        historyVars, sessionVars, pcapVars
<1>1. CASE CreateUploadSession(s)
  <2>1. upPc[s] = "create" /\ upPc' = [upPc EXCEPT ![s] = "over"]
        /\ upBy[s] \notin Requests
        /\ live' = live \cup {s} /\ title' = [title EXCEPT ![s] = upBy[s]]
        /\ UNCHANGED <<events, queries, status, rounds>>
    BY <1>1 DEF CreateUploadSession, CreateSession
  <2> QED
    BY <2>1 DEF Orderly, StoreTypeOK
<1>2. CASE \/ LookUpPcap(s, by) \/ InsertPcap(s) \/ InsertPcapFails(s)
           \/ CreateUploadSessionFails(s) \/ UploadDisconnects(s)
  <2>1. upPc[s] # "over" /\ \E stage : upPc' = [upPc EXCEPT ![s] = stage]
    BY <1>2
    DEF LookUpPcap, InsertPcap, InsertPcapFails, CreateUploadSessionFails, UploadDisconnects
  <2>2. UNCHANGED <<live, title, events, queries, status, rounds>>
    BY <1>2
    DEF LookUpPcap, InsertPcap, InsertPcapRow, InsertPcapFails, CreateUploadSessionFails,
        UploadDisconnects
  <2>3. \A t \in Sessions : upPc'[t] # "over" => upPc[t] # "over"
    BY <2>1
  <2> QED
    BY <2>2, <2>3 DEF Orderly
<1> QED
  BY <1>1, <1>2 DEF UploadStatement

LEMMA OrderlyCommand ==
    ASSUME ContiguousInv, NEW k \in Commands, CommandStep(k)
    PROVE  Orderly
<1> USE StoreAssumption DEF storeVars, tableVars, historyVars, sessionVars, uploadVars
<1>1. TypeInv /\ (cmdPc[k] \notin {"ready", "over"} => cmdTarget[k] \in Sessions)
      /\ cmdRound[k] \in RoundNo
  BY DEF ContiguousInv, TypeInv, CommandKeys, TypeOK, CommandTypeOK
<1>2. CASE (\E s \in Sessions : AnalyzeCapture(k, s)) \/ CommandUploads(k)
  BY <1>1, <1>2, OrderlyUpload DEF AnalyzeCapture, CommandUploads
<1>3. CASE CommandRound(k)
  <2>1. PICK t \in Sessions, r \in RoundNo, fk \in BOOLEAN : SaveRound(t, r, k, fk)
    BY <1>1, <1>3 DEF CommandRound
  <2>2. UNCHANGED <<upPc, live, title, events, queries, status>>
    BY <1>3, <2>1 DEF CommandRound, SaveRound
  <2>3. \A s \in Sessions, n \in RoundNo :
            rounds'[s][n] = rounds[s][n] \/ (rounds[s][n] = None /\ rounds'[s][n] \notin Requests)
    BY <1>1, <2>1 DEF SaveRound, TypeInv, TypeOK, StoreTypeOK
  <2> QED
    BY <2>2, <2>3 DEF Orderly
<1>4. CASE \/ CopyCapture(k) \/ (\E s \in Sessions : ResumeSession(k, s)) \/ CountForCommand(k)
           \/ CommandSetUpFails(k) \/ CommandCollects(k) \/ CommandRoundFails(k)
  <2>1. upPc' = upPc /\ (storeVars' = storeVars \/ MaySnapshot(cmdTarget[k], cmdPc[k]))
    BY <1>4
    DEF CopyCapture, ResumeSession, CountForCommand, CommandSetUpFails, CommandCollects,
        CommandRoundFails, StatementFails
  <2>2. UNCHANGED <<live, title, events, queries, status, rounds>>
    BY <2>1 DEF MaySnapshot, SaveSnapshot
  <2> QED
    BY <2>1, <2>2 DEF Orderly
<1> QED
  BY <1>2, <1>3, <1>4 DEF CommandStep

LEMMA OrderlyNext ==
    ASSUME ContiguousInv,
           \/ UploadNext \/ CommandNext \/ HandleDeleteSession \/ HandleDeletePcap
           \/ Shutdown \/ Restart \/ CommandStop \/ UNCHANGED vars
    PROVE  Orderly /\ \A q \in Requests : QuietMove(q)
<1> USE StoreAssumption DEF storeVars, tableVars, historyVars, sessionVars
<1>1. TypeInv /\ TypeOK /\ StoreTypeOK /\ UploadTypeOK /\ AnalyzeTypeOK
  BY DEF ContiguousInv, TypeInv, TypeOK
<1>2. UNCHANGED requestVars => \A q \in Requests : QuietMove(q)
  BY DEF requestVars, QuietMove
<1>3. CASE UploadNext
  BY <1>1, <1>2, <1>3, OrderlyUpload DEF UploadNext, UploadStep
<1>4. CASE CommandNext
  BY <1>2, <1>4, OrderlyCommand DEF CommandNext, CommandRuns
<1>5. CASE HandleDeleteSession
  <2>1. PICK s \in Sessions, fk \in BOOLEAN :
            DeleteSession(s, fk) /\ UNCHANGED <<uploadVars, requestVars, commandVars>>
    BY <1>5 DEF HandleDeleteSession
  <2>2. /\ live' = live \ {s} /\ UNCHANGED <<upPc, title, status>>
        /\ \/ UNCHANGED <<events, queries, rounds>>
           \/ /\ events' = [events EXCEPT ![s] = NoEvents]
              /\ queries' = [queries EXCEPT ![s] = NoRounds]
              /\ rounds' = [rounds EXCEPT ![s] = NoRounds]
    <3>1. CASE fk
      BY <2>1, <3>1 DEF DeleteSession, uploadVars
    <3>2. CASE ~fk
      BY <1>1, <2>1, <3>2 DEF DeleteSession, uploadVars, StoreTypeOK
    <3> QED
      BY <3>1, <3>2
  <2>3. Orderly
    BY <1>1, <2>2 DEF Orderly, StoreTypeOK, NoRounds
  <2> QED
    BY <1>2, <2>1, <2>3
<1>6. CASE HandleDeletePcap \/ Shutdown \/ UNCHANGED vars
  <2>1. UNCHANGED <<upPc, live, title, events, queries, status, rounds, requestVars>>
    BY <1>6 DEF HandleDeletePcap, DeletePcapFile, Shutdown, Close, vars, uploadVars
  <2> QED
    BY <1>2, <2>1 DEF Orderly
<1>7. CASE Restart
  <2>1. UNCHANGED <<live, title, events, queries, rounds>>
    BY <1>7 DEF Restart, Reopen
  <2>2. ASSUME NEW s \in Sessions
        PROVE  \/ status'[s] = status[s]
               \/ status[s] = "running" /\ status'[s] = "interrupted"
    <3>1. status'[s] = IF s \in live /\ status[s] = "running"
                         THEN "interrupted" ELSE status[s]
      BY <1>7 DEF Restart, Reopen
    <3> QED
      BY <3>1
  <2>3. \A s \in Sessions : upPc'[s] # "over" => upPc[s] # "over"
    BY <1>7 DEF Restart, UploadsDie
  <2>4. UNCHANGED <<target, start, buffered, nextSeq>>
    BY <1>7 DEF Restart, RequestsDie
  <2>5. \A q \in Requests : QuietMove(q)
    BY <1>1, <1>7, <2>4 DEF Restart, RequestsDie, QuietMove, AnalyzeTypeOK
  <2>6. Orderly
    BY <2>1, <2>2, <2>3 DEF Orderly
  <2> QED
    BY <2>5, <2>6
<1>8. CASE CommandStop
  <2>1. PICK k \in Commands : CommandStops(k) /\ UNCHANGED requestVars
    BY <1>8 DEF CommandStop
  <2>2. /\ UNCHANGED <<live, title, events, queries, status, rounds>>
        /\ \A s \in Sessions : upPc'[s] # "over" => upPc[s] # "over"
    BY <2>1 DEF CommandStops, UploadsDie
  <2> QED
    BY <1>2, <2>1, <2>2 DEF Orderly
<1> QED
  BY <1>3, <1>4, <1>5, <1>6, <1>7, <1>8

\* The steps of a request that store nothing.
LEMMA OrderlyAnalyze ==
    ASSUME TypeInv, NEW q \in Requests, AnalyzeStep(q), UNCHANGED uploadVars
    PROVE  \/ Orderly /\ \A p \in Requests : QuietMove(p)
           \/ FlushEvent(q) \/ FlushRound(q) \/ FlushQuery(q)
           \/ FlushTitle(q) /\ UpdateSessionTitle(target[q], q)
           \/ FlushStatus(q)
<1> USE StoreAssumption, AnalyzeAssumption
    DEF TypeInv, TypeOK, AnalyzeTypeOK, Goto, EndsWith, StatementFails, storeVars, tableVars,
        historyVars, sessionVars, uploadVars
<1>1. ASSUME UNCHANGED <<live, title, events, queries, status, rounds>>,
             QuietMove(q),
             \A p \in Requests \ {q} :
                UNCHANGED <<pc[p], target[p], start[p], buffered[p], nextSeq[p], reply[p]>>
      PROVE  Orderly /\ \A p \in Requests : QuietMove(p)
  BY <1>1 DEF Orderly, QuietMove
<1>2. ASSUME NEW s \in Sessions, GetSession(q, s)
      PROVE  Orderly /\ \A p \in Requests : QuietMove(p)
  BY <1>1, <1>2 DEF GetSession, QuietMove, Before
<1>3. CASE GetSessionFails(q) \/ CountRoundsFails(q) \/ SetUpFails(q) \/ Disconnect(q)
  <2>1. pc[q] \in Before
    BY <1>3
       DEF GetSessionFails, CountRoundsFails, SetUpFails, Disconnect, Before, Streaming
  <2> QED
    BY <1>1, <1>3, <2>1
    DEF GetSessionFails, CountRoundsFails, SetUpFails, Disconnect, QuietMove
<1>4. CASE CountRounds(q) \/ SetUp(q)
  BY <1>1, <1>4 DEF CountRounds, SetUp, QuietMove, Before, Streaming
<1>5. CASE CollectFails(q) \/ RunRound(q) \/ RunRoundFails(q)
  <2>1. PICK ok \in BOOLEAN : StreamEnds(q, ok) /\ pc[q] \in Before
    BY <1>5 DEF CollectFails, RunRound, RunRoundFails, Before, Streaming
  <2>2. PICK n \in MinEvents..MaxSeq : buffered' = [buffered EXCEPT ![q] = n]
    BY <2>1 DEF StreamEnds
  <2> QED
    BY <1>1, <2>1, <2>2 DEF StreamEnds, QuietMove
<1>6. CASE CollectScope(q)
  <2>1. pc[q] \in Before /\ pc'[q] \in Before
    BY <1>6 DEF CollectScope, Before, Streaming
  <2>2. UNCHANGED <<live, title, events, queries, status, rounds>>
    BY <1>6 DEF CollectScope, MaySnapshot, SaveSnapshot
  <2> QED
    BY <1>1, <1>6, <2>1, <2>2 DEF CollectScope, QuietMove
<1>7. CASE FlushTitle(q) /\ UNCHANGED storeVars
  BY <1>1, <1>7 DEF FlushTitle, QuietMove
<1>8. CASE FlushFails(q)
  BY <1>1, <1>8 DEF FlushFails, QuietMove, FinalStatus
<1> QED
  BY <1>2, <1>3, <1>4, <1>5, <1>6, <1>7, <1>8 DEF AnalyzeStep, FlushTitle

----------------------------------------------------------------------------
(* The statements of a flush.                                              *)

\* The flush of q goes on to its next statement, or is over.
FlushMove(q) ==
    /\ UNCHANGED <<live, upPc, target[q], start[q], buffered[q]>>
    /\ \A p \in Requests \ {q} :
            UNCHANGED <<pc[p], target[p], start[p], buffered[p], nextSeq[p], reply[p]>>
    /\ \/ /\ pc[q] = "flush_events" /\ pc'[q] = "flush_events"
          /\ nextSeq[q] < buffered[q] /\ nextSeq'[q] = nextSeq[q] + 1
       \/ /\ pc[q] = "flush_events" /\ pc'[q] \in {"flush_round", "flush_query"}
          /\ nextSeq[q] >= buffered[q]
       \/ pc[q] = "flush_round" /\ pc'[q] = "flush_query"
       \/ /\ pc[q] = "flush_query"
          /\ pc'[q] = IF start[q] = 1 THEN "flush_title" ELSE "flush_status"
       \/ pc[q] = "flush_title" /\ pc'[q] = "flush_status"
       \/ pc[q] = "flush_status" /\ pc'[q] = "over"
    /\ \/ reply'[q] = reply[q]
       \/ pc'[q] = "over" /\ reply'[q] \notin {"http_error", "init_error", "disconnected"}

\* A statement of the flush of q, seen row by row.
FlushRow(q, s, n) ==
    LET Here(stage) == pc[q] = stage /\ s = target[q] /\ n = start[q] IN
    /\ IF Here("flush_events")
         THEN /\ events[s][n][nextSeq[q]] = None
              /\ events'[s][n] = [events[s][n] EXCEPT ![nextSeq[q]] = q]
         ELSE events'[s][n] = events[s][n]
    /\ IF Here("flush_round")
         THEN rounds[s][n] = None /\ rounds'[s][n] = q
         ELSE rounds'[s][n] = rounds[s][n]
    /\ queries'[s][n] = IF Here("flush_query") THEN q ELSE queries[s][n]

FlushHeading(q, s) ==
    /\ title'[s] = IF pc[q] = "flush_title" /\ s = target[q] /\ s \in live THEN q ELSE title[s]
    /\ status'[s] = status[s] \/ (pc[q] = "flush_status" /\ s = target[q])

Stores(q) ==
    /\ FlushMove(q)
    /\ \A s \in Sessions : FlushHeading(q, s) /\ \A n \in RoundNo : FlushRow(q, s, n)

LEMMA FlushStores ==
    ASSUME TypeInv, NEW q \in Requests, UNCHANGED uploadVars,
           \/ FlushEvent(q) \/ FlushRound(q) \/ FlushQuery(q)
           \/ FlushTitle(q) /\ UpdateSessionTitle(target[q], q)
           \/ FlushStatus(q)
    PROVE  Stores(q)
<1> USE StoreAssumption
    DEF TypeInv, TypeOK, AnalyzeTypeOK, StoreTypeOK, Goto, EndsWith, storeVars, tableVars,
        historyVars, sessionVars, uploadVars
<1>1. /\ target[q] \in Sessions \/ pc[q] \in {"ready", "over"}
      /\ start[q] \in RoundNo /\ nextSeq[q] \in Seqs
  BY DEF RequestKeys
<1>2. CASE FlushEvent(q)
  <2>1. PICK fk \in BOOLEAN : InsertEvent(target[q], start[q], nextSeq[q], q, fk)
    BY <1>2 DEF FlushEvent
  <2>2. pc[q] = "flush_events" /\ target[q] \in Sessions
    BY <1>1, <1>2 DEF FlushEvent
  <2>3. FlushMove(q)
    BY <1>1, <1>2, <2>1 DEF FlushEvent, InsertEvent, FlushMove, Seqs
  <2>4. ASSUME NEW s \in Sessions, NEW n \in RoundNo
        PROVE  FlushRow(q, s, n)
    <3>1. /\ events[target[q]][start[q]][nextSeq[q]] = None
          /\ events' = [events EXCEPT ![target[q]][start[q]][nextSeq[q]] = q]
          /\ UNCHANGED <<rounds, queries>>
      BY <2>1 DEF InsertEvent
    <3>2. events'[s][n] = IF s = target[q] /\ n = start[q]
                            THEN [events[s][n] EXCEPT ![nextSeq[q]] = q] ELSE events[s][n]
      <4>1. PICK t \in Sessions, r \in RoundNo, i \in Seqs :
                t = target[q] /\ r = start[q] /\ i = nextSeq[q]
        BY <1>1, <2>2
      <4>2. events' = [events EXCEPT ![t][r][i] = q]
            /\ events \in [Sessions -> [RoundNo -> [Seqs -> Row]]]
        BY <3>1, <4>1
      <4>3. CASE s = t /\ n = r
        BY ONLY <4>1, <4>2, <4>3
      <4>4. CASE s # t
        BY ONLY <4>1, <4>2, <4>4, s \in Sessions
      <4>5. CASE s = t /\ n # r
        BY ONLY <4>1, <4>2, <4>5, n \in RoundNo
      <4> QED
        BY <4>3, <4>4, <4>5
    <3> QED
      BY <2>2, <3>1, <3>2 DEF FlushRow
  <2>5. \A s \in Sessions : FlushHeading(q, s)
    BY <2>1, <2>2 DEF InsertEvent, FlushHeading
  <2> QED
    BY <2>3, <2>4, <2>5 DEF Stores
<1>3. CASE FlushRound(q)
  BY <1>1, <1>3 DEF FlushRound, SaveRound, Stores, FlushMove, FlushRow, FlushHeading
<1>4. CASE FlushQuery(q)
  BY <1>1, <1>4 DEF FlushQuery, SaveRoundQuery, Stores, FlushMove, FlushRow, FlushHeading
<1>5. CASE FlushTitle(q) /\ UpdateSessionTitle(target[q], q)
  BY <1>1, <1>5 DEF FlushTitle, UpdateSessionTitle, Stores, FlushMove, FlushRow,
                         FlushHeading
<1>6. CASE FlushStatus(q)
  BY <1>1, <1>6
  DEF FlushStatus, FinalStatus, RunInvestigationFails, UpdateSessionStatus, Stores, FlushMove,
      FlushRow, FlushHeading
<1> QED
  BY <1>2, <1>3, <1>4, <1>5, <1>6

\* What a request finds at its round number when it stores there.
LEMMA RoundIsItsOwn ==
    ASSUME HistoryInv, NEW q \in Requests, Stores(q), target[q] \in live
    PROVE  /\ pc[q] = "flush_events" =>
                events'[target[q]][start[q]] = LogOf(q, nextSeq[q])
           /\ pc[q] = "flush_query" => queries[target[q]][start[q]] = None
           /\ \A p \in Requests \ {q}, k \in 1..MaxSeq :
                pc[q] = "flush_events" => events[target[q]][start[q]] # LogOf(p, k)
<1> DEFINE t == target[q]
           r == start[q]
           i == nextSeq[q]
<1> USE StoreAssumption
<1>1. /\ t \in Sessions /\ r \in RoundNo /\ i \in Seqs /\ 1 \in Seqs
      /\ events[t][r] \in [Seqs -> Row] /\ q # None
      /\ Progress(q) /\ HoldsLog(q) /\ RowsAgree(t)
  BY DEF HistoryInv, ContiguousInv, TypeInv, TypeOK, StoreTypeOK, AnalyzeTypeOK, Seqs
<1>2. PICK w \in Row, m \in 0..MaxSeq : events[t][r] = LogOf(w, m)
  BY <1>1 DEF RowsAgree
<1>3. ASSUME pc[q] = "flush_events"
      PROVE  /\ events'[t][r] = LogOf(q, i)
             /\ \A p \in Requests \ {q}, k \in 1..MaxSeq : events[t][r] # LogOf(p, k)
  <2>1. events[t][r][i] = None /\ events'[t][r] = [events[t][r] EXCEPT ![i] = q]
    BY <1>1, <1>3 DEF Stores, FlushRow
  <2>2. CASE i = 1
    <3>1. events[t][r] = LogOf(None, 0)
      BY <1>2, <2>1, <2>2, <1>1 DEF LogOf, Seqs
    <3>2. \A p \in Requests \ {q}, k \in 1..MaxSeq : LogOf(p, k)[1] # None
      BY LogHead
    <3>3. LogOf(None, 0)[1] = None
      BY <1>1 DEF LogOf
    <3>4. [LogOf(None, 0) EXCEPT ![1] = q] = LogOf(q, 1)
      BY <1>1 DEF LogOf, Seqs
    <3> QED
      BY <2>1, <2>2, <3>1, <3>2, <3>3, <3>4
  <2>3. CASE i # 1
    <3>1. events[t][r] = LogOf(q, i - 1) /\ i - 1 \in Nat \ {0}
      BY <1>1, <1>3, <2>3 DEF HoldsLog, Seqs
    <3>2. \A p \in Requests \ {q}, k \in 1..MaxSeq : LogOf(p, k)[1] = p
      BY LogHead
    <3>3. LogOf(q, i - 1)[1] = q
      BY <3>1, LogHead
    <3>4. [LogOf(q, i - 1) EXCEPT ![i] = q] = LogOf(q, i)
      <4>1. \A j \in Seqs : j <= i <=> j = i \/ j <= i - 1
        BY <1>1 DEF Seqs
      <4> QED
        BY <1>1, <4>1, Zenon DEF LogOf
    <3> QED
      BY <2>1, <3>1, <3>2, <3>3, <3>4
  <2> QED
    BY <2>2, <2>3
<1>4. ASSUME pc[q] = "flush_query", queries[t][r] # None
      PROVE  FALSE
  <2>1. PICK p \in Requests : p = queries[t][r] /\ Stored(t, r, p, QueryStages)
    BY <1>1, <1>4 DEF RowsAgree, Stored
  <2>2. events[t][r] = LogOf(q, buffered[q]) /\ buffered[q] # 0
    BY <1>1, <1>4 DEF HoldsLog, Progress, Flushing
  <2>3. buffered[q] \in Nat /\ buffered[p] \in Nat
    BY DEF HistoryInv, ContiguousInv, TypeInv, TypeOK, AnalyzeTypeOK
  <2>4. p = q
    <3>1. LogOf(q, buffered[q])[1] = q /\ LogOf(p, buffered[p])[1] = p
      BY <2>1, <2>2, <2>3, LogHead DEF Stored
    <3> QED
      BY <2>1, <2>2, <3>1 DEF Stored
  <2> QED
    BY <1>4, <2>1, <2>4 DEF Stored, QueryStages
<1> QED
  BY <1>3, <1>4

\* The log of another request is not touched.
LEMMA OthersLogsStay ==
    ASSUME HistoryInv, NEW q \in Requests, Stores(q), NEW p \in Requests \ {q}, NEW k \in 1..MaxSeq,
           NEW s \in live, NEW n \in RoundNo, events[s][n] = LogOf(p, k)
    PROVE  events'[s][n] = LogOf(p, k)
<1>1. s \in Sessions
  BY DEF HistoryInv, ContiguousInv, TypeInv, TypeOK, StoreTypeOK
<1>2. ~(pc[q] = "flush_events" /\ s = target[q] /\ n = start[q])
  BY RoundIsItsOwn
<1> QED
  BY <1>1, <1>2 DEF Stores, FlushRow

LEMMA StoreStep ==
    ASSUME HistoryInv, ContiguousInv', NEW q \in Requests, Stores(q)
    PROVE  HistoryInv'
<1> DEFINE t == target[q]
           r == start[q]
<1> USE StoreAssumption
<1>1. /\ TypeInv /\ pc[q] \in Flushing /\ t \in Sessions /\ r \in RoundNo /\ upPc[t] = "over"
      /\ reply[q] = "none" /\ q # None
      /\ live \subseteq Sessions /\ live' = live
  BY DEF Stores, FlushMove, HistoryInv, ContiguousInv, IdsAreFresh, TypeInv,
         RequestKeys, TypeOK, 
         StoreTypeOK, AnalyzeTypeOK, NothingStored, Flushing
<1>2. \A p \in Requests : buffered[p] \in 0..MaxSeq /\ nextSeq[p] \in Seqs /\ start[p] \in RoundNo
  BY <1>1 DEF TypeInv, TypeOK, AnalyzeTypeOK
<1>3. /\ FlushMove(q)
      /\ \A s \in Sessions : FlushHeading(q, s)
      /\ \A s \in Sessions, n \in RoundNo : FlushRow(q, s, n)
  BY DEF Stores
<1>4. \A s \in Sessions, n \in RoundNo :
            ~(pc[q] = "flush_events" /\ s = t /\ n = r) => events'[s][n] = events[s][n]
  BY <1>3 DEF FlushRow
<1>5. \A s \in Sessions, n \in RoundNo :
            queries'[s][n] = IF pc[q] = "flush_query" /\ s = t /\ n = r THEN q ELSE queries[s][n]
  BY <1>3 DEF FlushRow
\* A row that there is, is kept as it is, or q writes a new one.
<1>6. \A s \in live, n \in RoundNo : queries[s][n] # None => queries'[s][n] = queries[s][n]
  BY <1>1, <1>5, RoundIsItsOwn
<1>7. BlankBefore'
  <2> SUFFICES ASSUME NEW s \in Sessions, upPc'[s] # "over"
               PROVE  events'[s] = NoEvents /\ queries'[s] = NoRounds /\ status'[s] = "idle"
    BY DEF BlankBefore, NoEvents, NoRounds
  <2>1. s # t /\ events[s] = NoEvents /\ queries[s] = NoRounds /\ status[s] = "idle"
    BY <1>1, <1>3 DEF FlushMove, HistoryInv, BlankBefore
  <2>2. \A n \in RoundNo : events'[s][n] = events[s][n] /\ queries'[s][n] = queries[s][n]
    BY <1>4, <1>5, <2>1
  <2>3. events'[s] \in [RoundNo -> [Seqs -> Row]] /\ queries'[s] \in [RoundNo -> Row]
    BY DEF ContiguousInv, TypeInv, TypeOK, StoreTypeOK, RoundNo, Seqs, Row, Writers
  <2> QED
    BY <1>3, <2>1, <2>2, <2>3 DEF FlushHeading, NoEvents, NoRounds
<1>8. ASSUME NEW p \in Requests \ {q}
      PROVE  Progress(p)' /\ HoldsLog(p)' /\ NothingStored(p)'
  <2>1. UNCHANGED <<pc[p], target[p], start[p], buffered[p], nextSeq[p], reply[p]>>
    BY <1>3 DEF FlushMove
  <2>2. Progress(p) /\ HoldsLog(p) /\ NothingStored(p)
    BY DEF HistoryInv
  <2>3. Progress(p)'
    BY <2>1, <2>2 DEF Progress
  <2>4. HoldsLog(p)'
    <3> SUFFICES ASSUME target[p] \in live PROVE HoldsLog(p)'
      BY <1>1, <2>1 DEF HoldsLog
    <3>1. ASSUME pc[p] = "flush_events", nextSeq[p] # 1
          PROVE  events'[target[p]][start[p]] = LogOf(p, nextSeq[p] - 1)
      <4>1. nextSeq[p] - 1 \in 1..MaxSeq
        BY <1>2, <3>1 DEF Seqs
      <4> QED
        BY <1>2, <2>2, <3>1, <4>1, OthersLogsStay DEF HoldsLog
    <3>2. ASSUME pc[p] \in Flushing \ {"flush_events"}
          PROVE  events'[target[p]][start[p]] = LogOf(p, buffered[p])
      <4>1. buffered[p] \in 1..MaxSeq
        BY <1>2, <2>2, <3>2 DEF Progress
      <4> QED
        BY <1>2, <2>2, <3>2, <4>1, OthersLogsStay DEF HoldsLog
    <3>3. ASSUME pc[p] \in {"flush_title", "flush_status"}
          PROVE  queries'[target[p]][start[p]] = p
      BY <1>2, <1>6, <2>2, <3>3 DEF HoldsLog
    <3>4. pc[p] = "flush_title" => start[p] = 1
      BY <2>2 DEF HoldsLog
    <3> QED
      BY <2>1, <3>1, <3>2, <3>3, <3>4 DEF HoldsLog, LogOf
  <2>5. NothingStored(p)'
    <3>1. ASSUME NEW s \in Sessions, ~WroteHistory(s, p)
          PROVE  ~WroteHistory(s, p)'
      <4>1. title'[s] # p
        BY <1>3, <3>1 DEF FlushHeading, WroteHistory
      <4>2. ASSUME NEW n \in RoundNo
            PROVE  /\ rounds'[s][n] # p /\ queries'[s][n] # p
                   /\ \A i \in Seqs : events'[s][n][i] # p
        <5>1. rounds'[s][n] # p /\ queries'[s][n] # p
          <6>1. FlushRow(q, s, n) /\ rounds[s][n] # p /\ queries[s][n] # p
            BY <1>3, <3>1 DEF WroteHistory
          <6> QED
            BY <6>1 DEF FlushRow
        <5>2. events[s][n] \in [Seqs -> Row] /\ nextSeq[q] \in Seqs
          BY <1>1, <1>2 DEF TypeInv, TypeOK, StoreTypeOK
        <5>3. \A i \in Seqs : events'[s][n][i] # p
          <6>1. FlushRow(q, s, n) /\ \A i \in Seqs : events[s][n][i] # p
            BY <1>3, <3>1 DEF WroteHistory
          <6> QED
            BY <5>2, <6>1 DEF FlushRow
        <5> QED
          BY <5>1, <5>3
      <4> QED
        BY <4>1, <4>2 DEF WroteHistory
    <3> QED
      BY <2>1, <2>2, <3>1 DEF NothingStored
  <2> QED
    BY <2>3, <2>4, <2>5
<1>9. Progress(q)' /\ NothingStored(q)'
  <2>1. Progress(q) /\ NothingStored(q)
    BY DEF HistoryInv
  <2>2. pc'[q] \in Flushing \cup {"over"} /\ buffered'[q] = buffered[q]
        /\ (pc'[q] = "flush_events" => nextSeq'[q] <= buffered[q])
    BY <1>2, <1>3 DEF FlushMove, Flushing, Seqs
  <2> QED
    BY <1>1, <1>3, <2>1, <2>2
       DEF Progress, NothingStored, FlushMove, Before, Streaming, Flushing
<1>10. HoldsLog(q)'
  <2> SUFFICES ASSUME t \in live PROVE HoldsLog(q)'
    BY <1>1, <1>3 DEF HoldsLog, FlushMove
  <2>1. Progress(q) /\ HoldsLog(q)
    BY DEF HistoryInv
  <2>2. target'[q] = t /\ start'[q] = r /\ buffered'[q] = buffered[q]
    BY <1>3 DEF FlushMove
  <2>3. CASE pc[q] = "flush_events"
    <3>1. events'[t][r] = LogOf(q, nextSeq[q])
      BY <2>3, RoundIsItsOwn
    <3>2. CASE pc'[q] = "flush_events"
      <4>1. nextSeq'[q] = nextSeq[q] + 1
        BY <1>3, <3>2 DEF FlushMove
      <4>2. nextSeq'[q] - 1 = nextSeq[q]
        BY <1>2, <4>1 DEF Seqs
      <4> QED
        BY <2>2, <3>1, <3>2, <4>2 DEF HoldsLog, LogOf
    <3>3. CASE pc'[q] \in {"flush_round", "flush_query"}
      <4>1. nextSeq[q] = buffered[q]
        BY <1>2, <1>3, <2>1, <2>3, <3>3 DEF FlushMove, Progress, Seqs
      <4> QED
        BY <2>2, <3>1, <3>3, <4>1 DEF HoldsLog, LogOf
    <3> QED
      BY <1>3, <2>3, <3>2, <3>3 DEF FlushMove
  <2>4. CASE pc[q] # "flush_events"
    <3>1. events'[t][r] = LogOf(q, buffered[q])
      BY <1>1, <1>3, <2>1, <2>4 DEF HoldsLog, FlushRow
    <3>2. pc[q] = "flush_query" => queries'[t][r] = q
      BY <1>1, <1>3 DEF FlushRow
    <3>3. pc[q] \in {"flush_title", "flush_status"} => queries'[t][r] = q
      BY <1>1, <1>5, <2>1 DEF HoldsLog
    <3> QED
      BY <1>3, <2>2, <2>4, <3>1, <3>2, <3>3 DEF HoldsLog, FlushMove, LogOf
  <2> QED
    BY <2>3, <2>4
<1>11. ASSUME NEW s \in live
      PROVE  RowsAgree(s)'
  <2>1. RowsAgree(s) /\ s \in Sessions
    BY <1>1 DEF HistoryInv
  <2> SUFFICES ASSUME NEW n \in RoundNo
               PROVE  /\ \E w \in Row, m \in 0..MaxSeq : events'[s][n] = LogOf(w, m)
                      /\ rounds'[s][n] \in Requests => Stored(s, n, rounds[s][n], RoundStages)'
                      /\ queries'[s][n] # None => Stored(s, n, queries[s][n], QueryStages)'
    BY DEF RowsAgree, LogOf
  <2>2. \E w \in Row, m \in 0..MaxSeq : events'[s][n] = LogOf(w, m)
    <3>1. CASE pc[q] = "flush_events" /\ s = t /\ n = r
      <4>1. events'[s][n] = LogOf(q, nextSeq[q]) /\ q \in Row /\ nextSeq[q] \in 0..MaxSeq
        BY <1>2, <3>1, RoundIsItsOwn DEF Row, Writers, Seqs
      <4> QED
        BY <4>1
    <3>2. CASE ~(pc[q] = "flush_events" /\ s = t /\ n = r)
      <4>1. events'[s][n] = events[s][n]
        BY <1>4, <2>1, <3>2
      <4> QED
        BY <2>1, <4>1 DEF RowsAgree
    <3> QED
      BY <3>1, <3>2
  \* A log that was complete before.
  <2>3. ASSUME NEW p \in Requests, NEW stages \in {RoundStages, QueryStages},
               Stored(s, n, p, stages)
        PROVE  Stored(s, n, p, stages)'
    <3>1. CASE p = q
      <4>1. pc[q] # "flush_events" /\ pc'[q] \in stages
        BY <1>3, <2>3, <3>1 DEF Stored, FlushMove, RoundStages, QueryStages
      <4> QED
        BY <1>3, <2>1, <2>3, <3>1, <4>1 DEF Stored, FlushMove, FlushRow, LogOf
    <3>2. CASE p # q
      <4>1. buffered[p] \in 1..MaxSeq /\ p \in Requests \ {q}
        BY <1>2, <2>3, <3>2 DEF Stored
      <4>2. events'[s][n] = LogOf(p, buffered[p])
        BY <2>3, <4>1, OthersLogsStay DEF Stored
      <4> QED
        BY <1>3, <2>3, <4>1, <4>2 DEF Stored, FlushMove, LogOf
    <3> QED
      BY <3>1, <3>2
  \* The log of q, when its flush has got past the events.
  <2>4. ASSUME s = t, n = r, pc[q] \in Flushing \ {"flush_events"},
               NEW stages, pc'[q] \in stages
        PROVE  Stored(s, n, q, stages)'
    <3>1. HoldsLog(q) /\ Progress(q) /\ events'[s][n] = events[s][n]
      BY <1>4, <2>1, <2>4 DEF HistoryInv
    <3>2. events'[s][n] = LogOf(q, buffered[q]) /\ buffered[q] # 0
      BY <2>4, <3>1 DEF HoldsLog, Progress
    <3> QED
      BY <1>3, <2>4, <3>2 DEF Stored, FlushMove, LogOf
  <2>5. ASSUME rounds'[s][n] \in Requests
        PROVE  Stored(s, n, rounds[s][n], RoundStages)'
    <3>1. CASE pc[q] = "flush_round" /\ s = t /\ n = r
      <4>1. rounds'[s][n] = q /\ pc'[q] \in RoundStages
        BY <1>3, <2>1, <3>1 DEF FlushRow, FlushMove, RoundStages
      <4>2. Stored(s, n, q, RoundStages)'
        BY <2>4, <3>1, <4>1 DEF Flushing
      <4> QED
        BY <4>1, <4>2 DEF Stored
    <3>2. CASE ~(pc[q] = "flush_round" /\ s = t /\ n = r)
      <4>1. PICK p \in Requests : p = rounds[s][n] /\ p = rounds'[s][n]
        BY <1>3, <2>1, <2>5, <3>2 DEF FlushRow
      <4>2. Stored(s, n, p, RoundStages)
        BY <2>1, <4>1 DEF RowsAgree
      <4>3. Stored(s, n, p, RoundStages)'
        BY <2>3, <4>2
      <4> QED
        BY <4>1, <4>3 DEF Stored
    <3> QED
      BY <3>1, <3>2
  <2>6. ASSUME queries'[s][n] # None
        PROVE  Stored(s, n, queries[s][n], QueryStages)'
    <3>1. CASE pc[q] = "flush_query" /\ s = t /\ n = r
      <4>1. queries'[s][n] = q /\ pc'[q] \in QueryStages
        BY <1>3, <2>1, <3>1 DEF FlushRow, FlushMove, QueryStages
      <4>2. Stored(s, n, q, QueryStages)'
        BY <2>4, <3>1, <4>1 DEF Flushing
      <4> QED
        BY <4>1, <4>2 DEF Stored
    <3>2. CASE ~(pc[q] = "flush_query" /\ s = t /\ n = r)
      <4>1. queries'[s][n] = queries[s][n]
        BY <1>3, <2>1, <3>2 DEF FlushRow
      <4>2. PICK p \in Requests : p = queries[s][n] /\ Stored(s, n, p, QueryStages)
        BY <2>1, <2>6, <4>1 DEF RowsAgree, Stored
      <4>3. Stored(s, n, p, QueryStages)'
        BY <2>3, <4>2
      <4> QED
        BY <4>1, <4>2, <4>3 DEF Stored
    <3> QED
      BY <3>1, <3>2
  <2> QED
    BY <2>2, <2>5, <2>6
<1>12. ASSUME NEW s \in live
       PROVE  HeadingAgrees(s)'
  <2>1. HeadingAgrees(s) /\ HoldsLog(q) /\ s \in Sessions /\ 1 \in RoundNo
    BY <1>1 DEF HistoryInv, RoundNo
  <2>2. ASSUME title'[s] \in Requests
        PROVE  queries'[s][1] = title'[s]
    <3>1. CASE pc[q] = "flush_title" /\ s = t
      <4>1. title'[s] = q /\ queries[s][1] = q
        BY <1>3, <2>1, <3>1 DEF FlushHeading, HoldsLog
      <4> QED
        BY <1>1, <1>6, <2>1, <4>1
    <3>2. CASE ~(pc[q] = "flush_title" /\ s = t)
      <4>1. title'[s] = title[s] /\ queries[s][1] = title[s]
        BY <1>3, <2>1, <2>2, <3>2 DEF FlushHeading, HeadingAgrees
      <4> QED
        BY <1>6, <2>1, <2>2, <4>1
    <3> QED
      BY <3>1, <3>2
  <2>3. ASSUME status'[s] = "completed"
        PROVE  \E n \in RoundNo : queries'[s][n] # None
    <3>1. CASE pc[q] = "flush_status" /\ s = t
      <4>1. queries[s][r] = q
        BY <2>1, <3>1 DEF HoldsLog
      <4> QED
        BY <1>1, <1>6, <4>1
    <3>2. CASE ~(pc[q] = "flush_status" /\ s = t)
      <4>1. \E n \in RoundNo : queries[s][n] # None
        BY <1>3, <2>1, <2>3, <3>2 DEF FlushHeading, HeadingAgrees
      <4> QED
        BY <1>6, <4>1
    <3> QED
      BY <3>1, <3>2
  <2> QED
    BY <2>2, <2>3 DEF HeadingAgrees
<1> QED
  BY <1>1, <1>7, <1>8, <1>9, <1>10, <1>11, <1>12 DEF HistoryInv

----------------------------------------------------------------------------
(* The theorems.                                                           *)

LEMMA HistoryStep == HistoryInv /\ [Next]_vars => HistoryInv'
<1> SUFFICES ASSUME HistoryInv, [Next]_vars PROVE HistoryInv'
  OBVIOUS
<1>1. ContiguousInv' /\ ContiguousInv /\ TypeInv
  BY ContiguousStep DEF HistoryInv, ContiguousInv
<1>2. CASE AnalyzeNext
  <2>1. PICK q \in Requests : RequestRuns(q)
    BY <1>2 DEF AnalyzeNext
  <2>2. AnalyzeStep(q) /\ UNCHANGED uploadVars
    BY <2>1 DEF RequestRuns
  <2>3. (Orderly /\ \A p \in Requests : QuietMove(p)) \/ Stores(q)
    BY <1>1, <2>2, OrderlyAnalyze, FlushStores
  <2> QED
    BY <1>1, <2>3, QuietStep, StoreStep
<1>3. CASE ~AnalyzeNext
  BY <1>1, <1>3, OrderlyNext, QuietStep DEF Next
<1> QED
  BY <1>2, <1>3

LEMMA HistoryAlways == Spec => []HistoryInv
BY HistoryInit, HistoryStep, PTL DEF Spec

\* Events of two requests for one round number never mix, and there is no
\* hole in them: a request that begins a round finds it empty, and whoever comes
\* second is refused at its first event (collector.go:63).
THEOREM RoundsHaveOneWriter == Spec => []OneWriterPerRound
<1>1. ASSUME HistoryInv
      PROVE  OneWriterPerRound
  <2> SUFFICES ASSUME NEW s \in live, NEW r \in RoundNo
               PROVE  \E q \in Row, n \in 0..MaxSeq :
                        \A i \in Seqs : events[s][r][i] = IF i <= n THEN q ELSE None
    BY DEF OneWriterPerRound
  <2>1. PICK q \in Row, n \in 0..MaxSeq : events[s][r] = LogOf(q, n)
    BY <1>1 DEF HistoryInv, RowsAgree
  <2> QED
    BY <2>1 DEF LogOf
<1> QED
  BY HistoryAlways, <1>1, PTL

\* A round is stored after all of its events, and its query is that of the
\* request whose events it has (collector.go:77).
THEOREM RoundsHaveFullLogs == Spec => []RoundHasFullLog
<1>1. ASSUME HistoryInv
      PROVE  RoundHasFullLog
  <2> SUFFICES ASSUME NEW s \in live, NEW r \in RoundNo, NEW q \in Requests, q = rounds[s][r]
               PROVE  /\ \A i \in Seqs : events[s][r][i] = IF i <= buffered[q] THEN q ELSE None
                      /\ queries[s][r] \in {None, q}
    BY DEF RoundHasFullLog
  <2>1. Stored(s, r, q, RoundStages)
    BY <1>1 DEF HistoryInv, RowsAgree
  <2>2. ASSUME queries[s][r] # None
        PROVE  queries[s][r] = q
    <3>1. PICK p \in Requests : p = queries[s][r] /\ Stored(s, r, p, QueryStages)
      BY <1>1, <2>2 DEF HistoryInv, RowsAgree, Stored
    <3>2. buffered[p] \in Nat \ {0} /\ buffered[q] \in Nat \ {0}
      BY <1>1, <2>1, <3>1
      DEF Stored, HistoryInv, ContiguousInv, TypeInv, TypeOK, AnalyzeTypeOK
    <3>3. LogOf(p, buffered[p])[1] = p /\ LogOf(q, buffered[q])[1] = q
      BY <3>2, LogHead
    <3> QED
      BY <2>1, <3>1, <3>3 DEF Stored
  <2> QED
    BY <2>1, <2>2 DEF Stored, LogOf
<1> QED
  BY HistoryAlways, <1>1, PTL

\* A round that GET /api/sessions/{id} builds from its events is never shown
\* under the query of another request (handler_session.go).
THEOREM RoundsShownUnderTheirQuery == Spec => []ShownUnderItsQuery
<1>1. ASSUME HistoryInv
      PROVE  ShownUnderItsQuery
  <2> SUFFICES ASSUME NEW s \in live, NEW r \in RoundNo, queries[s][r] # None
               PROVE  queries[s][r] = events[s][r][1]
    BY DEF ShownUnderItsQuery, DetailedRounds
  <2>1. PICK p \in Requests : p = queries[s][r] /\ Stored(s, r, p, QueryStages)
    BY <1>1 DEF HistoryInv, RowsAgree, Stored
  <2>2. buffered[p] \in Nat \ {0}
    BY <1>1, <2>1 DEF Stored, HistoryInv, ContiguousInv, TypeInv, TypeOK, AnalyzeTypeOK
  <2> QED
    BY <2>1, <2>2, LogHead DEF Stored
<1> QED
  BY HistoryAlways, <1>1, PTL

\* A title that a request has set is the query of round 1 (API.md:223).
THEOREM TitlesAreFirstQueries == Spec => []TitleIsFirstQuery
<1>1. HistoryInv => TitleIsFirstQuery
  BY DEF HistoryInv, HeadingAgrees, TitleIsFirstQuery
<1> QED
  BY HistoryAlways, <1>1, PTL

\* A session is not marked completed before a query and its log are stored,
\* although four statements come before that one (collector.go:87).
THEOREM CompletedSessionsHaveLogs == Spec => []CompletedHasLog
<1>1. ASSUME HistoryInv
      PROVE  CompletedHasLog
  <2> SUFFICES ASSUME NEW s \in live, status[s] = "completed"
               PROVE  \E r \in RoundNo :
                        /\ queries[s][r] # None
                        /\ \A i \in Seqs :
                            events[s][r][i] = IF i <= buffered[queries[s][r]]
                                                THEN queries[s][r] ELSE None
    BY DEF CompletedHasLog
  <2>1. PICK r \in RoundNo : queries[s][r] # None
    BY <1>1 DEF HistoryInv, HeadingAgrees
  <2>2. events[s][r] = LogOf(queries[s][r], buffered[queries[s][r]])
    BY <1>1, <2>1 DEF HistoryInv, RowsAgree, Stored
  <2> QED
    BY <2>1, <2>2 DEF LogOf
<1> QED
  BY HistoryAlways, <1>1, PTL

\* A client that was refused, or that left before the stream had ended, has left
\* no row of the history behind, in no session (API.md:80).
THEOREM UnfinishedRequestsLeaveNothing == Spec => []UnfinishedLeavesNoHistory
<1>1. HistoryInv => UnfinishedLeavesNoHistory
  BY DEF HistoryInv, NothingStored, UnfinishedLeavesNoHistory
<1> QED
  BY HistoryAlways, <1>1, PTL

RowsStay ==
    \A s \in live \cap live' : \A r \in RoundNo :
        /\ rounds[s][r] # None => rounds'[s][r] = rounds[s][r]
        /\ queries[s][r] # None => queries'[s][r] = queries[s][r]
        /\ \A i \in Seqs : events[s][r][i] # None => events'[s][r][i] = events[s][r][i]

LEMMA RowsStayStep == HistoryInv /\ [Next]_vars => [RowsStay]_vars
<1> SUFFICES ASSUME HistoryInv, Next PROVE RowsStay
  OBVIOUS
<1>1. ContiguousInv /\ TypeInv /\ live \subseteq Sessions
  BY DEF HistoryInv, ContiguousInv, TypeInv, TypeOK, StoreTypeOK
<1>2. ASSUME Orderly
      PROVE  RowsStay
  BY <1>1, <1>2 DEF Orderly, RowsStay
<1>3. ASSUME NEW q \in Requests, Stores(q)
      PROVE  RowsStay
  <2> SUFFICES ASSUME NEW s \in live, NEW n \in RoundNo
               PROVE  /\ rounds[s][n] # None => rounds'[s][n] = rounds[s][n]
                      /\ queries[s][n] # None => queries'[s][n] = queries[s][n]
                      /\ \A i \in Seqs : events[s][n][i] # None =>
                            events'[s][n][i] = events[s][n][i]
    BY DEF RowsStay
  <2>1. FlushRow(q, s, n) /\ events[s][n] \in [Seqs -> Row]
    BY <1>1, <1>3 DEF Stores, TypeInv, TypeOK, StoreTypeOK
  <2>2. pc[q] = "flush_query" /\ s = target[q] /\ n = start[q] => queries[s][n] = None
    BY <1>3, RoundIsItsOwn
  <2> QED
    BY <2>1, <2>2 DEF FlushRow
<1>4. CASE AnalyzeNext
  <2>1. PICK q \in Requests : RequestRuns(q)
    BY <1>4 DEF AnalyzeNext
  <2>2. AnalyzeStep(q) /\ UNCHANGED uploadVars
    BY <2>1 DEF RequestRuns
  <2>3. Orderly \/ Stores(q)
    BY <1>1, <2>2, OrderlyAnalyze, FlushStores
  <2> QED
    BY <1>2, <1>3, <2>3
<1> QED
  BY <1>1, <1>2, <1>4, OrderlyNext DEF Next

\* No statement overwrites or removes a row of a session that lives on: the
\* upsert of SaveRoundQuery never finds a row, since whoever gets that far is
\* the only one whose events are in the round (store.go:514).
THEOREM HistoryIsAppendOnly == Spec => HistoryAppendOnly
BY HistoryAlways, RowsStayStep, PTL DEF Spec, HistoryAppendOnly, RowsStay

----------------------------------------------------------------------------
(* Where nothing fails.  The promises of the documentation hold of the     *)
(* behaviours without faults, and the session marked completed has a round *)
(* even if processes die: what is left in the way of a flush is another    *)
(* writer of its round, who is refused at its first event, or a command.   *)

\* No statement and no investigation fails; processes may be stopped.
Healthy == {"io", "investigation"} \cap faults = {}

\* A flush that can reach the store has a round to store, and stores it before it
\* goes on to the query.
RoundBeforeQuery ==
    \A q \in Requests : storeOpen /\ pc[q] \in Flushing =>
        /\ collected[q] = TRUE
        /\ pc[q] \notin {"flush_events", "flush_round"} /\ target[q] \in live =>
                rounds[target[q]][start[q]] = q

CompletedAfterRound == \A s \in live : status[s] = "completed" => RoundsOf(s) # {}

\* The flush of q has stored something of round r of session s, and goes on.
Storing(q, s, r) ==
    /\ pc[q] \in Flushing /\ target[q] = s /\ start[q] = r
    /\ pc[q] = "flush_events" => nextSeq[q] # 1

\* Everything of a round is there, or nothing, or a flush is at it; or a command
\* has taken the number.
Whole(s, r) ==
    \/ rounds[s][r] \in Commands
    \/ rounds[s][r] = None /\ queries[s][r] = None /\ events[s][r] = NoEvents[r]
    \/ rounds[s][r] \in Requests /\ queries[s][r] = rounds[s][r]

RoundsAreWhole ==
    \A s \in live, r \in RoundNo : Whole(s, r) \/ \E q \in Requests : Storing(q, s, r)

StreamsAreLongEnough == \A q \in Requests : buffered[q] = 0 \/ buffered[q] >= MinEvents

FaultFreeInv ==
    /\ HistoryInv
    /\ StreamsAreLongEnough
    /\ Healthy => RoundBeforeQuery /\ CompletedAfterRound
    /\ faults = {} => storeOpen = TRUE /\ RoundsAreWhole

LEMMA FaultFreeInit == Init => FaultFreeInv
<1> SUFFICES ASSUME Init PROVE FaultFreeInv
  OBVIOUS
<1>1. live = {} /\ storeOpen = TRUE
  BY DEF Init, StoreInit
<1>2. \A q \in Requests : pc[q] = "ready" /\ buffered[q] = 0
  BY DEF Init, AnalyzeInit
<1> QED
  BY <1>1, <1>2, HistoryInit
     DEF FaultFreeInv, StreamsAreLongEnough, RoundBeforeQuery, CompletedAfterRound,
         RoundsAreWhole, Flushing

\* What a request does to the store's handle and to its own state.
LEMMA RequestFrame ==
    ASSUME TypeInv, NEW q \in Requests, AnalyzeStep(q)
    PROVE  /\ storeOpen' = storeOpen
           /\ \A p \in Requests \ {q} :
                UNCHANGED <<pc[p], target[p], start[p], collected[p], buffered[p], nextSeq[p]>>
           /\ buffered'[q] = buffered[q] \/ buffered'[q] >= MinEvents
           /\ pc'[q] \in Flushing =>
                \/ pc[q] \in Flushing /\ UNCHANGED <<target[q], start[q], collected[q]>>
                \/ pc'[q] = "flush_events" /\ (collected'[q] = TRUE \/ ~(Healthy /\ storeOpen))
<1> USE DEF TypeInv, TypeOK, AnalyzeTypeOK, Goto, EndsWith, StatementFails, Streaming, Flushing,
            storeVars, tableVars, historyVars, sessionVars, pcapVars
<1>1. ASSUME NEW s \in Sessions, GetSession(q, s)
      PROVE  /\ storeOpen' = storeOpen /\ pc'[q] = "count"
             /\ UNCHANGED <<start, collected, buffered, nextSeq>>
             /\ \A p \in Requests \ {q} : UNCHANGED <<pc[p], target[p]>>
  BY <1>1 DEF GetSession
<1>2. CASE CountRounds(q) \/ SetUp(q)
  BY <1>2 DEF CountRounds, SetUp
<1>3. CASE GetSessionFails(q) \/ CountRoundsFails(q) \/ SetUpFails(q) \/ Disconnect(q)
  BY <1>3 DEF GetSessionFails, CountRoundsFails, SetUpFails, Disconnect
<1>5. CASE CollectFails(q) \/ RunRound(q) \/ RunRoundFails(q)
  <2>1. PICK ok \in BOOLEAN : StreamEnds(q, ok) /\ (ok = TRUE \/ ~(Healthy /\ storeOpen))
    BY <1>5
       DEF CollectFails, RunRound, RunRoundFails, Healthy, IoMayFail,
           InvestigationMayFail
  <2>2. PICK n \in MinEvents..MaxSeq : buffered' = [buffered EXCEPT ![q] = n]
    BY <2>1 DEF StreamEnds
  <2>3. collected'[q] = ok /\ \A p \in Requests \ {q} : collected'[p] = collected[p]
    BY <2>1 DEF StreamEnds
  <2>4. /\ storeOpen' = storeOpen /\ UNCHANGED <<target, start, nextSeq>>
        /\ pc'[q] = "flush_events" /\ \A p \in Requests \ {q} : pc'[p] = pc[p]
    BY <2>1 DEF StreamEnds
  <2>5. buffered'[q] >= MinEvents /\ \A p \in Requests \ {q} : buffered'[p] = buffered[p]
    BY <2>2
  <2> QED
    BY <2>1, <2>3, <2>4, <2>5
<1>6. CASE CollectScope(q)
  <2>1. pc'[q] \in Streaming
    BY <1>6, StoreAssumption DEF CollectScope
  <2>2. storeOpen' = storeOpen
    BY <1>6 DEF CollectScope, MaySnapshot, SaveSnapshot
  <2> QED
    BY <1>6, <2>1, <2>2 DEF CollectScope
<1>7. CASE FlushEvent(q)
  BY <1>7 DEF FlushEvent, InsertEvent
<1>8. CASE FlushRound(q)
  BY <1>8 DEF FlushRound, SaveRound
<1>9. CASE FlushQuery(q)
  BY <1>9 DEF FlushQuery, SaveRoundQuery
<1>10. CASE FlushTitle(q)
  BY <1>10 DEF FlushTitle, UpdateSessionTitle
<1>11. CASE FlushStatus(q) \/ FlushFails(q)
  BY <1>11 DEF FlushStatus, FlushFails, UpdateSessionStatus
<1> QED
  BY <1>1, <1>2, <1>3, <1>5, <1>6, <1>7, <1>8, <1>9, <1>10, <1>11 DEF AnalyzeStep

\* What everybody else does to them: the server's handle is opened again by a
\* restart only, which ends the requests.
LEMMA OthersFrame ==
    ASSUME TypeInv,
           \/ UploadNext \/ CommandNext \/ HandleDeleteSession \/ HandleDeletePcap
           \/ Shutdown \/ Restart \/ CommandStop \/ UNCHANGED vars
    PROVE  /\ \/ UNCHANGED requestVars /\ (storeOpen' => storeOpen)
              \/ /\ \A q \in Requests : pc'[q] \notin Flushing
                 /\ UNCHANGED buffered
           /\ faults = {} => UNCHANGED requestVars /\ storeOpen' = storeOpen
<1>1. CASE UploadNext \/ CommandNext
  <2>1. UNCHANGED requestVars
    BY <1>1 DEF UploadNext, CommandNext, CommandRuns
  <2>2. storeOpen' = storeOpen
    <3>1. ASSUME NEW s, NEW by, LookUpPcap(s, by) \/ UploadStatement(s) \/ UploadDisconnects(s)
          PROVE  storeOpen' = storeOpen
      BY <3>1
         DEF LookUpPcap, UploadStatement, InsertPcap, InsertPcapRow, InsertPcapFails,
             CreateUploadSession, CreateSession, CreateUploadSessionFails, UploadDisconnects,
             StatementFails, storeVars
    <3>2. CASE UploadNext
      BY <3>1, <3>2 DEF UploadNext, UploadStep
    <3>3. CASE CommandNext
      <4>1. PICK k \in Commands : CommandStep(k)
        BY <3>3 DEF CommandNext, CommandRuns
      <4> QED
        BY <3>1, <4>1
           DEF CommandStep, AnalyzeCapture, CommandUploads, CopyCapture, ResumeSession,
               CountForCommand, CommandSetUpFails, CommandCollects, MaySnapshot, SaveSnapshot,
               CommandRound, SaveRound, CommandRoundFails, StatementFails, storeVars
    <3> QED
      BY <1>1, <3>2, <3>3
  <2> QED
    BY <2>1, <2>2
<1>2. CASE HandleDeleteSession \/ HandleDeletePcap \/ UNCHANGED vars
  BY <1>2
     DEF HandleDeleteSession, DeleteSession, HandleDeletePcap, DeletePcapFile, vars, storeVars
<1>3. CASE Shutdown \/ Restart \/ CommandStop
  <2>1. faults # {}
    BY <1>3 DEF Shutdown, Restart, CommandStop, MayStop
  <2>2. CASE Shutdown \/ CommandStop
    BY <2>1, <2>2 DEF Shutdown, Close, CommandStop, CommandStops, storeVars
  <2>3. CASE Restart
    BY <2>1, <2>3 DEF Restart, RequestsDie, Flushing
  <2> QED
    BY <1>3, <2>2, <2>3
<1> QED
  BY <1>1, <1>2, <1>3

\* A session that is there after a step, and that a request knows, was there before.
LEMMA LiveBefore ==
    ASSUME HistoryInv, [Next]_vars, NEW s \in live', upPc[s] = "over"
    PROVE  s \in live
<1>1. ContiguousInv /\ TypeInv /\ s \in Sessions
  BY HistoryStep DEF HistoryInv, ContiguousInv, TypeInv, TypeOK, StoreTypeOK
<1>2. CASE AnalyzeNext
  BY <1>1, <1>2, AnalyzeFrame DEF AnalyzeNext, RequestRuns
<1>3. CASE ~AnalyzeNext
  BY <1>1, <1>3, OrderlyNext DEF Next, Orderly
<1> QED
  BY <1>2, <1>3

\* A row of rounds stays in a session that lives on.
LEMMA RoundStays ==
    ASSUME HistoryInv, [Next]_vars, NEW s \in live \cap live', NEW r \in RoundNo,
           rounds[s][r] # None
    PROVE  rounds'[s][r] = rounds[s][r]
BY RowsStayStep DEF RowsStay, vars, storeVars, tableVars, historyVars

LEMMA RoundBeforeQueryStep ==
    ASSUME HistoryInv, [Next]_vars, Healthy, RoundBeforeQuery
    PROVE  RoundBeforeQuery'
<1> SUFFICES ASSUME NEW q \in Requests, storeOpen', pc'[q] \in Flushing
             PROVE  /\ collected'[q] = TRUE
                    /\ pc'[q] \notin {"flush_events", "flush_round"} /\ target'[q] \in live' =>
                            rounds'[target'[q]][start'[q]] = q
  BY DEF RoundBeforeQuery
<1>1. /\ ContiguousInv /\ TypeInv /\ q # None
      /\ pc[q] \in Flushing => /\ target[q] \in Sessions /\ upPc[target[q]] = "over"
                               /\ start[q] \in RoundNo
  BY StoreAssumption
     DEF HistoryInv, ContiguousInv, IdsAreFresh, TypeInv, TypeOK, AnalyzeTypeOK, RequestKeys,
         Flushing
\* Where q has its round, it keeps it.
<1>2. ASSUME storeOpen, pc[q] \in Flushing \ {"flush_events", "flush_round"},
             UNCHANGED <<target[q], start[q], collected[q]>>
      PROVE  /\ collected'[q] = TRUE
             /\ target'[q] \in live' => rounds'[target'[q]][start'[q]] = q
  <2>1. collected'[q] = TRUE
    BY <1>2 DEF RoundBeforeQuery
  <2>2. ASSUME target[q] \in live'
        PROVE  rounds'[target[q]][start[q]] = q
    <3>1. target[q] \in live
      BY <1>1, <1>2, <2>2, LiveBefore
    <3>2. rounds[target[q]][start[q]] = q
      BY <1>2, <3>1 DEF RoundBeforeQuery
    <3> QED
      BY <1>1, <1>2, <2>2, <3>1, <3>2, RoundStays
  <2> QED
    BY <1>2, <2>1, <2>2
<1>3. CASE \E p \in Requests : RequestRuns(p)
  <2>1. PICK p \in Requests : AnalyzeStep(p) /\ UNCHANGED <<faults, uploadVars>>
    BY <1>3 DEF RequestRuns
  <2>2. storeOpen
    BY <1>1, <2>1, RequestFrame
  <2>3. CASE p # q
    <3>3. \A r \in Requests \ {p} :
            UNCHANGED <<pc[r], target[r], start[r], collected[r], buffered[r], nextSeq[r]>>
      BY <1>1, <2>1, RequestFrame
    <3>1. UNCHANGED <<pc[q], target[q], start[q], collected[q]>>
      BY <2>3, <3>3
    <3>2. CASE pc[q] \in {"flush_events", "flush_round"}
      BY <2>2, <3>1, <3>2 DEF RoundBeforeQuery, Flushing
    <3> QED
      BY <1>2, <2>2, <3>1, <3>2
  <2>4. CASE p = q
    <3>1. \/ pc[q] \in Flushing /\ UNCHANGED <<target[q], start[q], collected[q]>>
          \/ pc'[q] = "flush_events" /\ collected'[q] = TRUE
      BY <1>1, <2>1, <2>2, <2>4, RequestFrame
    <3>2. CASE pc[q] \in Flushing \ {"flush_events", "flush_round"}
               /\ UNCHANGED <<target[q], start[q], collected[q]>>
      BY <1>2, <2>2, <3>2
    <3>3. CASE pc[q] \in {"flush_events", "flush_round"}
               /\ UNCHANGED <<target[q], start[q], collected[q]>>
      <4>1. collected[q] = TRUE /\ collected'[q] = TRUE
        BY <2>2, <3>3 DEF RoundBeforeQuery, Flushing
      <4>2. CASE FlushEvent(q)
        <5>1. pc'[q] = pc[q] \/ pc'[q] = "flush_round"
          BY <1>1, <4>1, <4>2 DEF FlushEvent, Goto, TypeInv, TypeOK, AnalyzeTypeOK
        <5> QED
          BY <3>3, <4>1, <5>1
      <4>3. CASE FlushRound(q)
        <5>1. Stores(q)
          BY <1>1, <2>1, <4>3, FlushStores
        <5>2. pc[q] = "flush_round"
          BY <4>3 DEF FlushRound
        <5>3. rounds'[target[q]][start[q]] = q
          BY <1>1, <5>1, <5>2 DEF Stores, FlushRow, Flushing
        <5> QED
          BY <3>3, <4>1, <5>3
      <4>4. CASE ~FlushEvent(q) /\ ~FlushRound(q)
        <5>1. FlushFails(q)
          BY <2>1, <2>4, <3>3, <4>4, StoreAssumption
             DEF AnalyzeStep, GetSession, GetSessionFails, CountRounds, CountRoundsFails, SetUp,
                 SetUpFails, CollectFails, CollectScope, RunRound, RunRoundFails, Disconnect,
                 Streaming, FlushQuery, FlushTitle, FlushStatus
        <5>2. pc'[q] = "over"
          BY <1>1, <5>1 DEF FlushFails, EndsWith, Goto, TypeInv, TypeOK, AnalyzeTypeOK
        <5> QED
          BY <5>2 DEF Flushing
      <4> QED
        BY <4>2, <4>3, <4>4
    <3>4. CASE pc'[q] = "flush_events" /\ collected'[q] = TRUE
      BY <3>4
    <3> QED
      BY <3>1, <3>2, <3>3, <3>4
  <2> QED
    BY <2>3, <2>4
<1>4. CASE ~AnalyzeNext
  <2>1. UNCHANGED requestVars /\ storeOpen
    BY <1>1, <1>4, OthersFrame DEF Next
  <2>2. UNCHANGED <<pc[q], target[q], start[q], collected[q]>>
    BY <2>1 DEF requestVars
  <2>3. CASE pc[q] \in {"flush_events", "flush_round"}
    BY <2>1, <2>2, <2>3 DEF RoundBeforeQuery
  <2> QED
    BY <1>2, <2>1, <2>2, <2>3
<1> QED
  BY <1>3, <1>4 DEF AnalyzeNext

LEMMA CompletedAfterRoundStep ==
    ASSUME HistoryInv, [Next]_vars, RoundBeforeQuery, CompletedAfterRound
    PROVE  CompletedAfterRound'
<1> SUFFICES ASSUME NEW s \in live', status'[s] = "completed"
             PROVE  RoundsOf(s)' # {}
  BY DEF CompletedAfterRound
<1>1. ContiguousInv /\ TypeInv /\ s \in Sessions
  BY HistoryStep DEF HistoryInv, ContiguousInv, TypeInv, TypeOK, StoreTypeOK
<1>2. ASSUME s \in live, RoundsOf(s) # {}
      PROVE  RoundsOf(s)' # {}
  BY <1>2, RoundStays DEF RoundsOf
<1>3. CASE Orderly
  <2>1. status[s] = "completed"
    BY <1>1, <1>3 DEF Orderly
  <2>2. s \in live
    BY <1>1, <1>3, <2>1 DEF Orderly, HistoryInv, BlankBefore
  <2> QED
    BY <1>2, <2>1, <2>2 DEF CompletedAfterRound
<1>4. ASSUME NEW q \in Requests, Stores(q), AnalyzeStep(q)
      PROVE  RoundsOf(s)' # {}
  <2>1. s \in live /\ FlushHeading(q, s)
    BY <1>1, <1>4 DEF Stores, FlushMove
  <2>2. CASE status[s] = "completed"
    BY <1>2, <2>1, <2>2 DEF CompletedAfterRound
  <2>3. CASE status[s] # "completed"
    <3>1. pc[q] = "flush_status" /\ s = target[q]
      BY <2>1, <2>3 DEF FlushHeading
    <3>2. storeOpen
      BY <1>4, <2>3, <3>1, StoreAssumption
         DEF AnalyzeStep, GetSession, GetSessionFails, CountRounds, CountRoundsFails, SetUp,
             SetUpFails, CollectFails, CollectScope, RunRound, RunRoundFails, Disconnect,
             Streaming, FlushEvent, FlushRound, FlushQuery, FlushTitle, FlushStatus, FlushFails,
             StatementFails, storeVars, tableVars, sessionVars
    <3>3. rounds[s][start[q]] = q /\ q # None /\ start[q] \in RoundNo
      BY <1>1, <2>1, <3>1, <3>2, StoreAssumption
         DEF RoundBeforeQuery, Flushing, TypeInv, TypeOK, AnalyzeTypeOK
    <3> QED
      BY <1>2, <2>1, <3>3 DEF RoundsOf
  <2> QED
    BY <2>2, <2>3
<1>5. CASE AnalyzeNext
  <2>1. PICK q \in Requests : AnalyzeStep(q) /\ UNCHANGED uploadVars
    BY <1>5 DEF AnalyzeNext, RequestRuns
  <2>2. Orderly \/ Stores(q)
    BY <1>1, <2>1, OrderlyAnalyze, FlushStores
  <2> QED
    BY <1>3, <1>4, <2>1, <2>2
<1>6. CASE ~AnalyzeNext
  BY <1>1, <1>3, <1>6, OrderlyNext DEF Next
<1> QED
  BY <1>5, <1>6

\* A flush that has begun to store fails for one reason only: a command has taken
\* the number of its round.
LEMMA OnlyCommandsInterfere ==
    ASSUME HistoryInv, NEW q \in Requests, FlushFails(q), faults = {}, storeOpen,
           target[q] \in live, pc[q] = "flush_events" => nextSeq[q] # 1
    PROVE  rounds[target[q]][start[q]] \in Commands
<1> DEFINE s == target[q]
           r == start[q]
<1>1. /\ s \in Sessions /\ r \in RoundNo /\ nextSeq[q] \in Seqs /\ buffered[q] \in Nat
      /\ rounds[s][r] \in Row /\ RowsAgree(s) /\ HoldsLog(q) /\ Progress(q)
  BY StoreAssumption
     DEF HistoryInv, ContiguousInv, TypeInv, TypeOK, StoreTypeOK, AnalyzeTypeOK, Seqs
<1>2. Violates(q) /\ ~ParentMayFail(s)
  BY DEF FlushFails, StatementFails, IoMayFail, ParentMayFail, ParentOK
<1>3. pc[q] # "flush_events"
  <2> SUFFICES ASSUME pc[q] = "flush_events" PROVE FALSE
    OBVIOUS
  <2>1. events[s][r] = LogOf(q, nextSeq[q] - 1)
    BY <1>1 DEF HoldsLog
  <2>2. events[s][r][nextSeq[q]] = None
    <3>1. ~(nextSeq[q] <= nextSeq[q] - 1)
      BY <1>1 DEF Seqs
    <3> QED
      BY <1>1, <2>1, <3>1 DEF LogOf
  <2> QED
    BY <1>2, <2>2 DEF Violates
<1>4. pc[q] = "flush_round" /\ rounds[s][r] # None
  BY <1>2, <1>3 DEF Violates
<1>5. rounds[s][r] \notin Requests
  <2> SUFFICES ASSUME NEW p \in Requests, p = rounds[s][r] PROVE FALSE
    OBVIOUS
  <2>1. Stored(s, r, p, RoundStages)
    BY <1>1 DEF RowsAgree
  <2>2. events[s][r] = LogOf(q, buffered[q]) /\ buffered[q] \in Nat \ {0}
    BY <1>1, <1>4 DEF HoldsLog, Progress, Flushing
  <2>3. buffered[p] \in Nat \ {0} /\ events[s][r] = LogOf(p, buffered[p])
    BY <2>1 DEF Stored, HistoryInv, ContiguousInv, TypeInv, TypeOK, AnalyzeTypeOK
  <2>4. LogOf(q, buffered[q])[1] = q /\ LogOf(p, buffered[p])[1] = p
    BY <2>2, <2>3, LogHead
  <2>5. p = q
    BY <2>2, <2>3, <2>4
  <2> QED
    BY <1>4, <2>1, <2>5 DEF Stored, RoundStages
<1> QED
  BY <1>1, <1>4, <1>5 DEF Row, Writers

LEMMA RoundsAreWholeStep ==
    ASSUME HistoryInv, [Next]_vars, faults = {}, storeOpen, RoundBeforeQuery, RoundsAreWhole
    PROVE  RoundsAreWhole'
<1> SUFFICES ASSUME NEW s \in live', NEW r \in RoundNo
             PROVE  Whole(s, r)' \/ \E q \in Requests : Storing(q, s, r)'
  BY DEF RoundsAreWhole
<1>1. /\ ContiguousInv /\ TypeInv /\ s \in Sessions /\ live \subseteq Sessions
      /\ rounds'[s][r] \in Requests \cup Commands \cup {None}
  BY HistoryStep
     DEF HistoryInv, ContiguousInv, TypeInv, TypeOK, StoreTypeOK, Row, Writers
<1>2. Whole(s, r) \/ (s \in live /\ \E q \in Requests : Storing(q, s, r))
      \/ (s \notin live /\ upPc[s] = "over")
  <2>1. CASE s \in live
    BY <2>1 DEF RoundsAreWhole
  <2>2. CASE s \notin live /\ upPc[s] # "over"
    <3>1. events[s] = NoEvents /\ queries[s] = NoRounds /\ RoundsOf(s) = {}
      BY <1>1, <2>2 DEF HistoryInv, BlankBefore, ContiguousInv, IdsAreFresh
    <3> QED
      BY <3>1 DEF Whole, NoRounds, RoundsOf
  <2> QED
    BY <2>1, <2>2
<1>3. Whole(s, r) \/ (s \in live /\ \E q \in Requests : Storing(q, s, r))
  BY <1>2, LiveBefore
<1>4. ASSUME Orderly, Whole(s, r)
      PROVE  Whole(s, r)'
  <2>1. events'[s] = events[s] /\ queries'[s] = queries[s]
    BY <1>1, <1>4 DEF Orderly
  <2>2. \/ rounds'[s][r] = rounds[s][r]
        \/ rounds[s][r] = None /\ rounds'[s][r] \notin Requests
    BY <1>1, <1>4 DEF Orderly
  <2>3. CASE rounds'[s][r] = rounds[s][r]
    BY <1>4, <2>1, <2>3 DEF Whole, NoEvents
  <2>4. CASE rounds'[s][r] # rounds[s][r]
    BY <1>1, <2>2, <2>4 DEF Whole
  <2> QED
    BY <2>3, <2>4
<1>5. ASSUME NEW q \in Requests, Storing(q, s, r),
             UNCHANGED <<pc[q], target[q], start[q], nextSeq[q]>>
      PROVE  Storing(q, s, r)'
  BY <1>5 DEF Storing
<1>6. CASE ~AnalyzeNext
  <2>1. Orderly /\ UNCHANGED requestVars
    BY <1>1, <1>6, OrderlyNext, OthersFrame DEF Next
  <2> QED
    BY <1>3, <1>4, <1>5, <2>1 DEF requestVars
<1>7. CASE AnalyzeNext
  <2>1. PICK p \in Requests : AnalyzeStep(p) /\ UNCHANGED uploadVars
    BY <1>7 DEF AnalyzeNext, RequestRuns
  <2>2. \A q \in Requests \ {p} :
            UNCHANGED <<pc[q], target[q], start[q], collected[q], buffered[q], nextSeq[q]>>
    BY <1>1, <2>1, RequestFrame
  <2>3. \A q \in Requests \ {p} : Storing(q, s, r) => Storing(q, s, r)'
    BY <1>5, <2>2
  <2>4. CASE Stores(p)
    <3>1. FlushRow(p, s, r) /\ FlushMove(p) /\ s \in live
      BY <1>1, <2>4 DEF Stores, FlushMove
    <3>2. CASE s = target[p] /\ r = start[p]
      <4>1. CASE pc'[p] \in Flushing
        <5>1. nextSeq[p] \in Nat \ {0}
          BY <1>1 DEF TypeInv, TypeOK, AnalyzeTypeOK, Seqs
        <5>2. pc'[p] = "flush_events" => nextSeq'[p] # 1
          BY <3>1, <5>1 DEF FlushMove
        <5>3. target'[p] = s /\ start'[p] = r
          BY <3>1, <3>2 DEF FlushMove
        <5>4. Storing(p, s, r)'
          BY <4>1, <5>2, <5>3 DEF Storing
        <5> QED
          BY <5>4
      <4>2. CASE pc'[p] \notin Flushing
        <5>1. pc[p] = "flush_status"
          BY <3>1, <4>2 DEF FlushMove, Flushing
        <5>2. queries[s][r] = p
          BY <3>1, <3>2, <5>1 DEF HistoryInv, HoldsLog
        <5>3. rounds[s][r] = p
          BY <3>1, <3>2, <5>1 DEF RoundBeforeQuery, Flushing
        <5> QED
          BY <3>1, <5>1, <5>2, <5>3 DEF FlushRow, Whole
      <4> QED
        BY <4>1, <4>2
    <3>3. CASE ~(s = target[p] /\ r = start[p])
      <4>1. ~Storing(p, s, r)
        BY <3>3 DEF Storing
      <4>2. /\ rounds'[s][r] = rounds[s][r] /\ queries'[s][r] = queries[s][r]
            /\ events'[s][r] = events[s][r]
        BY <3>1, <3>3 DEF FlushRow
      <4>3. Whole(s, r) => Whole(s, r)'
        BY <4>2 DEF Whole, NoEvents
      <4> QED
        BY <1>3, <2>3, <4>1, <4>3
    <3> QED
      BY <3>2, <3>3
  <2>5. CASE ~Stores(p)
    <3>1. Orderly
      BY <1>1, <2>1, <2>5, OrderlyAnalyze, FlushStores
    <3>2. ASSUME s \in live, Storing(p, s, r)
          PROVE  Whole(s, r)'
      <4>1. ~(FlushEvent(p) \/ FlushRound(p) \/ FlushQuery(p) \/ FlushStatus(p))
        BY <1>1, <2>1, <2>5, FlushStores
      <4>2. ~FlushTitle(p)
        <5>1. ~(FlushTitle(p) /\ UpdateSessionTitle(target[p], p))
          BY <1>1, <2>1, <2>5, FlushStores
        <5>2. ~StatementFails(~storeOpen)
          BY DEF StatementFails, IoMayFail
        <5> QED
          BY <5>1, <5>2 DEF FlushTitle
      <4>3. FlushFails(p)
        BY <2>1, <3>2, <4>1, <4>2, StoreAssumption
           DEF AnalyzeStep, GetSession, GetSessionFails, CountRounds, CountRoundsFails, SetUp,
               SetUpFails, CollectFails, CollectScope, RunRound, RunRoundFails, Disconnect,
               Streaming, Storing, Flushing
      <4>4. rounds[s][r] \in Commands
        BY <3>2, <4>3, OnlyCommandsInterfere DEF Storing
      <4>5. rounds'[s][r] = rounds[s][r]
        BY <4>3 DEF FlushFails, StatementFails, storeVars, tableVars, historyVars
      <4> QED
        BY <4>4, <4>5 DEF Whole
    <3> QED
      BY <1>3, <1>4, <2>3, <3>1, <3>2
  <2> QED
    BY <2>4, <2>5
<1> QED
  BY <1>6, <1>7

LEMMA FaultFreeStep == FaultFreeInv /\ [Next]_vars => FaultFreeInv'
<1> SUFFICES ASSUME FaultFreeInv, [Next]_vars PROVE FaultFreeInv'
  OBVIOUS
<1>1. HistoryInv /\ HistoryInv' /\ TypeInv
  BY HistoryStep DEF FaultFreeInv, HistoryInv, ContiguousInv
<1>2. faults' = faults
  BY DEF Next, vars
<1>3. StreamsAreLongEnough'
  <2> SUFFICES ASSUME NEW q \in Requests
               PROVE  buffered'[q] = buffered[q] \/ buffered'[q] >= MinEvents
    BY DEF StreamsAreLongEnough, FaultFreeInv
  <2>1. ASSUME NEW p \in Requests, AnalyzeStep(p)
        PROVE  buffered'[q] = buffered[q] \/ buffered'[q] >= MinEvents
    <3>1. /\ \A r \in Requests \ {p} :
                UNCHANGED <<pc[r], target[r], start[r], collected[r], buffered[r], nextSeq[r]>>
          /\ buffered'[p] = buffered[p] \/ buffered'[p] >= MinEvents
      BY <1>1, <2>1, RequestFrame
    <3> QED
      BY <3>1
  <2>2. CASE AnalyzeNext
    BY <2>1, <2>2 DEF AnalyzeNext, RequestRuns
  <2>3. CASE ~AnalyzeNext
    <3>1. UNCHANGED buffered
      BY <1>1, <2>3, OthersFrame DEF Next, requestVars
    <3> QED
      BY <3>1
  <2> QED
    BY <2>2, <2>3
<1>4. ASSUME Healthy
      PROVE  RoundBeforeQuery' /\ CompletedAfterRound'
  BY <1>1, <1>4, RoundBeforeQueryStep, CompletedAfterRoundStep DEF FaultFreeInv
<1>5. ASSUME faults = {}
      PROVE  storeOpen' = TRUE /\ RoundsAreWhole'
  <2>1. Healthy /\ storeOpen = TRUE /\ RoundsAreWhole /\ RoundBeforeQuery
    BY <1>5 DEF FaultFreeInv, Healthy
  <2>2. storeOpen' = storeOpen
    BY <1>1, <1>5, RequestFrame, OthersFrame DEF Next, AnalyzeNext, RequestRuns
  <2> QED
    BY <1>1, <1>5, <2>1, <2>2, RoundsAreWholeStep
<1> QED
  BY <1>1, <1>2, <1>3, <1>4, <1>5 DEF FaultFreeInv, Healthy

LEMMA FaultFreeAlways == Spec => []FaultFreeInv
BY FaultFreeInit, FaultFreeStep, PTL DEF Spec

\* A session marked completed has a finished round, if no statement and no
\* investigation fails, whatever else happens (API.md:393).
THEOREM CompletedSessionsHaveRounds == Spec => []CompletedHasRound
<1>1. FaultFreeInv => CompletedHasRound
  BY DEF FaultFreeInv, Healthy, CompletedAfterRound, CompletedHasRound
<1> QED
  BY FaultFreeAlways, <1>1, PTL

\* Where no flush is under way, every round is whole or absent.
LEMMA WholeAtRest ==
    ASSUME FaultFreeInv, faults = {}, NEW s \in live, NEW r \in RoundNo, AtRest(s)
    PROVE  /\ Whole(s, r)
           /\ rounds[s][r] \in Requests => \A i \in 1..MinEvents : events[s][r][i] # None
<1>1. Whole(s, r)
  BY DEF FaultFreeInv, RoundsAreWhole, AtRest, Storing
<1>2. ASSUME NEW q \in Requests, q = rounds[s][r], NEW i \in 1..MinEvents
      PROVE  events[s][r][i] # None
  <2>1. Stored(s, r, q, RoundStages)
    BY <1>2 DEF FaultFreeInv, HistoryInv, RowsAgree
  <2>2. buffered[q] \in Nat /\ buffered[q] >= MinEvents /\ MinEvents \in 1..MaxSeq
    BY <2>1, AnalyzeAssumption
       DEF Stored, FaultFreeInv, StreamsAreLongEnough, HistoryInv, ContiguousInv, TypeInv, TypeOK,
           AnalyzeTypeOK
  <2>3. i \in Seqs /\ i <= buffered[q]
    BY <2>2, StoreAssumption DEF Seqs
  <2> QED
    BY <2>1, <2>3, StoreAssumption DEF Stored, LogOf
<1> QED
  BY <1>1, <1>2

\* A flush is all or nothing where nothing fails, although it is four kinds of
\* statements and other requests flush for the same round (API.md:113).
THEOREM FlushesAreAtomic == Spec => []AtomicWithoutFaults
<1>1. FaultFreeInv => AtomicWithoutFaults
  <2> SUFFICES ASSUME FaultFreeInv, faults = {}, NEW s \in live, NEW r \in RoundNo,
                      AtRest(s), OfRequestsOnly(s)
               PROVE  \/ /\ rounds[s][r] = None /\ queries[s][r] = None
                         /\ events[s][r] = NoEvents[r]
                      \/ /\ rounds[s][r] # None
                         /\ queries[s][r] = rounds[s][r]
                         /\ \A i \in 1..MinEvents : events[s][r][i] # None
    BY DEF AtomicWithoutFaults, FlushIsAtomic
  <2>1. Whole(s, r) /\ rounds[s][r] \notin Commands
    BY WholeAtRest DEF OfRequestsOnly
  <2>2. rounds[s][r] \in Requests =>
            rounds[s][r] # None /\ \A i \in 1..MinEvents : events[s][r][i] # None
    BY WholeAtRest, StoreAssumption
  <2> QED
    BY <2>1, <2>2 DEF Whole
<1> QED
  BY FaultFreeAlways, <1>1, PTL

\* Where nothing fails, the list and the detail of a session agree on its number
\* of rounds, and the next call of analyze can store its events (API.md:136).
THEOREM SessionCountsAgree == Spec => []CountsAgree
<1>1. FaultFreeInv => CountsAgree
  <2> SUFFICES ASSUME FaultFreeInv, faults = {}, NEW s \in live, AtRest(s)
               PROVE  /\ OfRequestsOnly(s) => Cardinality(DetailedRounds(s)) = ListedRounds(s)
                      /\ RoundCount(s) < MaxRound =>
                            events[s][RoundCount(s) + 1] = NoEvents[1]
    BY DEF CountsAgree, NextRoundIsFree
  <2>1. ASSUME OfRequestsOnly(s)
        PROVE  Cardinality(DetailedRounds(s)) = ListedRounds(s)
    <3>1. ASSUME NEW r \in RoundNo
          PROVE  events[s][r] # NoEvents[r] <=> rounds[s][r] # None
      <4>1. Whole(s, r) /\ rounds[s][r] \notin Commands
        BY <2>1, WholeAtRest DEF OfRequestsOnly
      <4>2. rounds[s][r] \in Requests => rounds[s][r] # None /\ events[s][r][1] # None
        BY WholeAtRest, StoreAssumption, AnalyzeAssumption
      <4>3. NoEvents[r][1] = None
        BY StoreAssumption DEF NoEvents, Seqs
      <4> QED
        BY <4>1, <4>2, <4>3 DEF Whole
    <3>2. DetailedRounds(s) = RoundsOf(s)
      BY <3>1 DEF DetailedRounds, RoundsOf
    <3> QED
      BY <3>2 DEF ListedRounds, RoundCount
  <2>2. ASSUME RoundCount(s) < MaxRound
        PROVE  events[s][RoundCount(s) + 1] = NoEvents[1]
    <3>1. PICK k \in 0..MaxRound : RoundsOf(s) = 1..k
      BY DEF FaultFreeInv, HistoryInv, ContiguousInv, RoundsContiguous
    <3>2. RoundCount(s) = k
      BY <3>1, ContiguousCount, StoreAssumption
    <3>3. k + 1 \in RoundNo /\ 1 \in RoundNo /\ k + 1 \notin 1..k
      BY <2>2, <3>2, StoreAssumption DEF RoundNo
    <3>4. rounds[s][k + 1] = None
      BY <3>1, <3>3 DEF RoundsOf
    <3>5. Whole(s, k + 1)
      BY <3>3, WholeAtRest
    <3>6. events[s][k + 1] = NoEvents[k + 1] /\ NoEvents[k + 1] = NoEvents[1]
      BY <3>3, <3>4, <3>5, StoreAssumption DEF Whole, NoEvents
    <3> QED
      BY <3>2, <3>6
  <2> QED
    BY <2>1, <2>2
<1> QED
  BY FaultFreeAlways, <1>1, PTL
=============================================================================
