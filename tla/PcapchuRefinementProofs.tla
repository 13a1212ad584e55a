---------------------- MODULE PcapchuRefinementProofs ----------------------
(***************************************************************************)
(* PcapchuServer implements RoundLog: a theorem for every number of        *)
(* sessions, captures, requests, commands and rounds.                      *)
(***************************************************************************)
EXTENDS PcapchuHistoryProofs, Sequences

\* The log of a session, as RoundLog sees it.
LogOfSession(s) ==
    IF s \in live THEN [r \in 1..RoundCount(s) |-> rounds[s][r]] ELSE <<>>

Logs == [s \in Sessions |-> LogOfSession(s)]

\* A command stores rounds in one session only, the one it has chosen.
CommandsHaveOneSession ==
    \A k \in Commands, s \in Sessions, r \in RoundNo :
        rounds[s][r] = k => cmdPc[k] # "ready" /\ cmdTarget[k] = s

RefinementInv == HistoryInv /\ CommandsHaveOneSession

----------------------------------------------------------------------------
(* What a step of the tables is to the logs.                               *)

LEMMA LogsStutter ==
    ASSUME live' = live, \A s \in live : rounds'[s] = rounds[s]
    PROVE  UNCHANGED <<live, Logs>>
<1>1. ASSUME NEW s \in Sessions
      PROVE  LogOfSession(s)' = LogOfSession(s)
  BY DEF LogOfSession, RoundCount, RoundsOf
<1> QED
  BY <1>1 DEF Logs

LEMMA LogsCreate ==
    ASSUME ContiguousInv, NEW s \in Sessions, s \notin live, upPc[s] # "over",
           live' = live \cup {s}, rounds' = rounds
    PROVE  Log!Create(s)
<1>1. ASSUME NEW t \in Sessions
      PROVE  LogOfSession(t)' = LogOfSession(t)
  <2>1. CASE t = s
    <3>1. RoundsOf(s) = {} /\ RoundCount(s) = 0
      BY FS_EmptySet DEF ContiguousInv, IdsAreFresh, RoundCount
    <3>2. RoundsOf(s)' = RoundsOf(s) /\ RoundCount(s)' = 0
      BY <3>1 DEF RoundCount, RoundsOf
    <3>3. [r \in 1..0 |-> rounds'[s][r]] = <<>>
      OBVIOUS
    <3> QED
      BY <2>1, <3>2, <3>3 DEF LogOfSession
  <2>2. CASE t # s
    BY <2>2 DEF LogOfSession, RoundCount, RoundsOf
  <2> QED
    BY <2>1, <2>2
<1> QED
  BY <1>1 DEF Log!Create, LogOfSession

LEMMA LogsDelete ==
    ASSUME TypeInv, NEW s \in Sessions, NEW fk \in BOOLEAN, DeleteSession(s, fk)
    PROVE  Log!Delete(s)
<1>1. /\ s \in live /\ live' = live \ {s}
      /\ \A t \in Sessions \ {s} : rounds'[t] = rounds[t]
  BY DEF DeleteSession, TypeInv, TypeOK, StoreTypeOK
<1>2. ASSUME NEW t \in Sessions \ {s}
      PROVE  LogOfSession(t)' = LogOfSession(t)
  BY <1>1 DEF LogOfSession, RoundCount, RoundsOf
<1>3. LogOfSession(s)' = <<>>
  BY <1>1 DEF LogOfSession
<1> QED
  BY <1>1, <1>2, <1>3 DEF Log!Delete, LogOfSession

LEMMA LogsAppend ==
    ASSUME ContiguousInv, NEW t \in live, NEW r \in RoundNo, NEW w \in Writers,
           NEW fk \in BOOLEAN, SaveRound(t, r, w, fk), 1..(r - 1) \subseteq RoundsOf(t),
           \A s \in live, n \in RoundNo : rounds[s][n] = w => s = t /\ w \notin Requests
    PROVE  Log!AppendRound(t, w)
<1> USE StoreAssumption
<1>1. TypeInv /\ RoundsContiguous /\ t \in Sessions /\ live \subseteq Sessions
  BY DEF ContiguousInv, TypeInv, TypeOK, StoreTypeOK
<1>2. /\ RoundsContiguous' /\ live' = live
      /\ RoundsOf(t)' = RoundsOf(t) \cup {r}
  BY <1>1, NextInLine
<1>3. PICK k \in 0..MaxRound : RoundsOf(t) = 1..k
  BY <1>1 DEF RoundsContiguous
<1>4. PICK m \in 0..MaxRound : RoundsOf(t)' = 1..m
  BY <1>2 DEF RoundsContiguous
<1>5. rounds[t][r] = None /\ rounds' = [rounds EXCEPT ![t][r] = w]
  BY DEF SaveRound
<1>6. r = k + 1 /\ m = k + 1
  <2>1. r \notin 1..k /\ 1..m = 1..k \cup {r} /\ r \in Nat \ {0}
    BY <1>2, <1>3, <1>4, <1>5 DEF RoundsOf, RoundNo
  <2>2. r = m /\ m = k + 1
    BY <2>1
  <2> QED
    BY <2>2
<1>7. RoundCount(t) = k /\ RoundCount(t)' = k + 1
  <2>1. ASSUME NEW j \in Nat PROVE Cardinality(1..j) = j
    BY FS_Interval
  <2> QED
    BY <1>3, <1>4, <1>6, <2>1 DEF RoundCount
<1>8. LogOfSession(t)' = Append(LogOfSession(t), w)
  <2> DEFINE old == [n \in 1..k |-> rounds[t][n]]
             new == [n \in 1..(k + 1) |-> rounds'[t][n]]
  <2>1. LogOfSession(t) = old /\ LogOfSession(t)' = new
    BY <1>2, <1>7 DEF LogOfSession
  <2>2. \A n \in 1..(k + 1) : rounds'[t][n] = IF n = k + 1 THEN w ELSE rounds[t][n]
    BY <1>1, <1>5, <1>6 DEF TypeInv, TypeOK, StoreTypeOK, RoundNo
  <2>3. new = Append(old, w)
    BY <2>2
  <2> QED
    BY <2>1, <2>3
<1>9. ASSUME NEW s \in Sessions \ {t}
      PROVE  LogOfSession(s)' = LogOfSession(s)
  <2>1. rounds'[s] = rounds[s]
    BY <1>1, <1>5 DEF TypeInv, TypeOK, StoreTypeOK
  <2> QED
    BY <1>2, <2>1 DEF LogOfSession, RoundCount, RoundsOf
<1>10. ASSUME NEW s \in Sessions, NEW i \in DOMAIN LogOfSession(s), LogOfSession(s)[i] = w
       PROVE  s = t /\ w \notin Requests
  <2>1. PICK j \in 0..MaxRound : s \in live /\ RoundsOf(s) = 1..j /\ RoundCount(s) = j
    BY <1>1, <1>10, ContiguousCount DEF LogOfSession, RoundsContiguous
  <2>2. i \in RoundNo /\ rounds[s][i] = w
    BY <1>10, <2>1 DEF LogOfSession, RoundNo
  <2> QED
    BY <2>1, <2>2
<1> QED
  BY <1>1, <1>2, <1>8, <1>9, <1>10 DEF Log!AppendRound, LogOfSession

----------------------------------------------------------------------------
(* What a step of the server is to the logs.                               *)

\* What a command changes of the state that the rounds depend on.
LEMMA CommandFrame ==
    ASSUME ContiguousInv, NEW k \in Commands, CommandStep(k)
    PROVE  /\ \A j \in Commands \ {k} : cmdPc'[j] = cmdPc[j] /\ cmdTarget'[j] = cmdTarget[j]
           /\ cmdPc'[k] # "ready"
           /\ cmdPc[k] = "ready" \/ cmdTarget'[k] = cmdTarget[k]
           /\ \/ rounds' = rounds /\ live' = live
              \/ CommandRound(k)
              \/ CommandUploads(k)
<1> USE DEF TypeInv, TypeOK, CommandTypeOK, CommandGoes, CommandOver, commandVars, storeVars,
            tableVars, historyVars, sessionVars, Investigating
<1>1. TypeInv
  BY DEF ContiguousInv
<1>2. ASSUME NEW s \in Sessions, AnalyzeCapture(k, s)
      PROVE  /\ cmdPc[k] = "ready" /\ cmdPc' = [cmdPc EXCEPT ![k] = "upload"]
             /\ cmdTarget' = [cmdTarget EXCEPT ![k] = s]
             /\ rounds' = rounds /\ live' = live
  BY <1>2 DEF AnalyzeCapture, LookUpPcap
<1>3. ASSUME NEW s \in Sessions, ResumeSession(k, s)
      PROVE  /\ cmdPc[k] = "ready" /\ cmdPc' = [cmdPc EXCEPT ![k] = "count"]
             /\ cmdTarget' = [cmdTarget EXCEPT ![k] = s]
             /\ rounds' = rounds /\ live' = live
  BY <1>3 DEF ResumeSession
<1>4. CASE CommandUploads(k) \/ CommandRound(k)
  <2>1. cmdTarget' = cmdTarget /\ cmdPc[k] # "ready"
        /\ (cmdPc' = cmdPc \/ \E stage \in {"copy", "key_findings", "over"} :
                                    cmdPc' = [cmdPc EXCEPT ![k] = stage])
    BY <1>4 DEF CommandUploads, CommandRound
  <2> QED
    BY <1>1, <1>4, <2>1
<1>5. CASE \/ CopyCapture(k) \/ CountForCommand(k) \/ CommandSetUpFails(k)
           \/ CommandCollects(k) \/ CommandRoundFails(k)
  <2>1. cmdTarget' = cmdTarget
        /\ \E stage \in {"over", "round", "key_findings", "planner_history"} :
                cmdPc' = [cmdPc EXCEPT ![k] = stage]
    BY <1>5
    DEF CopyCapture, CountForCommand, CommandSetUpFails, CommandCollects, CommandRoundFails
  <2>2. rounds' = rounds /\ live' = live
    BY <1>5
    DEF CopyCapture, CountForCommand, CommandSetUpFails, CommandCollects, CommandRoundFails,
        StatementFails, MaySnapshot, SaveSnapshot
  <2> QED
    BY <1>1, <2>1, <2>2
<1> QED
  BY <1>1, <1>2, <1>3, <1>4, <1>5 DEF CommandStep

LEMMA RefinementInit == Init => RefinementInv
BY HistoryInit, StoreAssumption
DEF Init, StoreInit, RefinementInv, CommandsHaveOneSession, NoRounds, Writers

\* A step in which no round appears and no command changes its mind.
LEMMA CommandsKeepTheirs ==
    ASSUME CommandsHaveOneSession,
           \A s \in Sessions, r \in RoundNo :
                rounds'[s][r] \in Commands => rounds'[s][r] = rounds[s][r],
           \A k \in Commands :
                cmdPc[k] # "ready" => cmdPc'[k] # "ready" /\ cmdTarget'[k] = cmdTarget[k]
    PROVE  CommandsHaveOneSession'
BY DEF CommandsHaveOneSession

LEMMA RefinementStep == RefinementInv /\ [Next]_vars => RefinementInv'
<1> SUFFICES ASSUME RefinementInv, [Next]_vars PROVE CommandsHaveOneSession'
  BY HistoryStep DEF RefinementInv
<1> USE StoreAssumption
<1>1. ContiguousInv /\ TypeInv /\ CommandsHaveOneSession
  BY DEF RefinementInv, HistoryInv, ContiguousInv
<1>2. CASE UploadNext
  <2>1. PICK s \in Sessions : UploadStep(s) /\ UNCHANGED <<requestVars, commandVars>>
    BY <1>2 DEF UploadNext
  <2>2. rounds' = rounds
    BY <1>1, <2>1, UploadFrame DEF UploadStep
  <2> QED
    BY <1>1, <2>1, <2>2, CommandsKeepTheirs DEF commandVars
<1>3. CASE AnalyzeNext
  <2>1. PICK q \in Requests : AnalyzeStep(q) /\ UNCHANGED <<uploadVars, commandVars>>
    BY <1>3 DEF AnalyzeNext, RequestRuns
  <2>2. \A s \in Sessions, r \in RoundNo :
            rounds'[s][r] \in Commands => rounds'[s][r] = rounds[s][r]
    <3>1. rounds' = rounds \/ FlushRound(q)
      BY <1>1, <2>1, AnalyzeFrame
    <3>2. ASSUME FlushRound(q)
          PROVE  \A s \in Sessions, r \in RoundNo :
                    rounds'[s][r] \in Commands => rounds'[s][r] = rounds[s][r]
      <4>1. PICK fk \in BOOLEAN : SaveRound(target[q], start[q], q, fk)
        BY <3>2 DEF FlushRound
      <4> QED
        BY <1>1, <4>1 DEF SaveRound, TypeInv, TypeOK, StoreTypeOK
    <3> QED
      BY <3>1, <3>2
  <2> QED
    BY <1>1, <2>1, <2>2, CommandsKeepTheirs DEF commandVars
<1>4. CASE CommandNext
  <2>1. PICK k \in Commands : CommandStep(k)
    BY <1>4 DEF CommandNext, CommandRuns
  <2>2. \A j \in Commands :
            cmdPc[j] # "ready" => cmdPc'[j] # "ready" /\ cmdTarget'[j] = cmdTarget[j]
    BY <1>1, <2>1, CommandFrame
  <2>3. CASE CommandRound(k)
    <3>1. PICK fk \in BOOLEAN : SaveRound(cmdTarget[k], cmdRound[k], k, fk)
      BY <2>3 DEF CommandRound
    <3>2. cmdPc[k] = "round"
      BY <2>3 DEF CommandRound
    <3>3. ASSUME NEW j \in Commands, NEW s \in Sessions, NEW r \in RoundNo, rounds'[s][r] = j
          PROVE  rounds[s][r] = j \/ (j = k /\ s = cmdTarget[k])
      BY <1>1, <3>1, <3>3 DEF SaveRound, TypeInv, TypeOK, StoreTypeOK
    <3> QED
      BY <1>1, <2>2, <3>2, <3>3 DEF CommandsHaveOneSession
  <2>4. CASE CommandUploads(k)
    <3>1. cmdTarget[k] \in Sessions /\ UploadStatement(cmdTarget[k])
      BY <1>1, <2>4 DEF CommandUploads, TypeInv, CommandKeys
    <3>2. rounds' = rounds
      BY <1>1, <3>1, UploadFrame
    <3> QED
      BY <1>1, <2>2, <3>2, CommandsKeepTheirs
  <2>5. CASE rounds' = rounds
    BY <1>1, <2>2, <2>5, CommandsKeepTheirs
  <2> QED
    BY <1>1, <2>1, <2>3, <2>4, <2>5, CommandFrame
<1>5. CASE HandleDeleteSession
  <2>1. PICK s \in Sessions, fk \in BOOLEAN :
            DeleteSession(s, fk) /\ UNCHANGED <<uploadVars, requestVars, commandVars>>
    BY <1>5 DEF HandleDeleteSession
  <2>2. \A t \in Sessions, r \in RoundNo :
            rounds'[t][r] \in Commands => rounds'[t][r] = rounds[t][r]
    BY <1>1, <2>1 DEF DeleteSession, NoRounds, TypeInv, TypeOK, StoreTypeOK
  <2> QED
    BY <1>1, <2>1, <2>2, CommandsKeepTheirs DEF commandVars
<1>6. CASE HandleDeletePcap \/ Shutdown \/ Restart \/ UNCHANGED vars
  <2>1. UNCHANGED <<rounds, commandVars>>
    BY <1>6
    DEF HandleDeletePcap, DeletePcapFile, Shutdown, Close, Restart, Reopen, vars, storeVars,
        tableVars, historyVars
  <2> QED
    BY <1>1, <2>1, CommandsKeepTheirs DEF commandVars
<1>7. CASE CommandStop
  <2>1. PICK k \in Commands : CommandStops(k)
    BY <1>7 DEF CommandStop
  <2>2. rounds' = rounds /\ cmdTarget' = cmdTarget
        /\ \A j \in Commands : cmdPc'[j] = cmdPc[j] \/ cmdPc'[j] = "over"
    BY <1>1, <2>1
    DEF CommandStops, CommandOver, CommandGoes, storeVars, tableVars, historyVars, TypeInv,
        TypeOK, CommandTypeOK
  <2> QED
    BY <1>1, <2>2, CommandsKeepTheirs
<1> QED
  BY <1>2, <1>3, <1>4, <1>5, <1>6, <1>7 DEF Next

\* A writer has no round anywhere else: a request none at all, since a request
\* that has stored its round is past that statement.
LEMMA WriterIsNew ==
    ASSUME RefinementInv, NEW t \in live, NEW w \in Writers, NEW s \in live, NEW n \in RoundNo,
           rounds[s][n] = w,
           \/ w \in Requests /\ pc[w] = "flush_round"
           \/ w \in Commands /\ cmdTarget[w] = t
    PROVE  s = t /\ w \notin Requests
<1>1. s \in Sessions
  BY DEF RefinementInv, HistoryInv, ContiguousInv, TypeInv, TypeOK, StoreTypeOK
<1>2. CASE w \in Requests /\ pc[w] = "flush_round"
  BY <1>2 DEF RefinementInv, HistoryInv, RowsAgree, Stored, RoundStages
<1>3. CASE w \in Commands /\ cmdTarget[w] = t
  BY <1>1, <1>3, StoreAssumption DEF RefinementInv, CommandsHaveOneSession
<1> QED
  BY <1>2, <1>3

LEMMA UploadRefines ==
    ASSUME ContiguousInv, NEW s \in Sessions, NEW by,
           LookUpPcap(s, by) \/ UploadStatement(s) \/ UploadDisconnects(s)
    PROVE  Log!Create(s) \/ UNCHANGED <<live, Logs>>
<1>1. TypeInv /\ live \subseteq Sessions
  BY DEF ContiguousInv, TypeInv, TypeOK, StoreTypeOK
<1>2. rounds' = rounds /\ upPc[s] # "over"
  BY <1>1, UploadFrame
<1>3. live' = live \/ (s \notin live /\ live' = live \cup {s})
  BY <1>1
  DEF LookUpPcap, UploadStatement, UploadDisconnects, InsertPcap, InsertPcapRow, InsertPcapFails,
      CreateUploadSession, CreateSession, CreateUploadSessionFails, StatementFails, storeVars,
      tableVars, sessionVars
<1> QED
  BY <1>2, <1>3, LogsStutter, LogsCreate

\* A round is stored at the end of the log of its session, or in the rows of a
\* session that is gone.
LEMMA SaveRoundRefines ==
    ASSUME RefinementInv, NEW t \in Sessions, NEW r \in RoundNo, NEW w \in Writers,
           NEW fk \in BOOLEAN, SaveRound(t, r, w, fk),
           t \in live => 1..(r - 1) \subseteq RoundsOf(t),
           \/ w \in Requests /\ pc[w] = "flush_round"
           \/ w \in Commands /\ cmdTarget[w] = t
    PROVE  (t \in live /\ Log!AppendRound(t, w)) \/ UNCHANGED <<live, Logs>>
<1>1. ContiguousInv /\ TypeInv /\ live \subseteq Sessions
  BY DEF RefinementInv, HistoryInv, ContiguousInv, TypeInv, TypeOK, StoreTypeOK
<1>2. CASE t \in live
  <2>1. \A s \in live, n \in RoundNo : rounds[s][n] = w => s = t /\ w \notin Requests
    BY <1>2, WriterIsNew
  <2> QED
    BY <1>1, <1>2, <2>1, LogsAppend
<1>3. CASE t \notin live
  <2>1. live' = live /\ \A s \in live : rounds'[s] = rounds[s]
    BY <1>1, <1>3 DEF SaveRound, sessionVars, TypeInv, TypeOK, StoreTypeOK
  <2> QED
    BY <2>1, LogsStutter
<1> QED
  BY <1>2, <1>3

LEMMA StepRefines == RefinementInv /\ [Next]_vars => [Log!LogNext]_<<live, Logs>>
<1> SUFFICES ASSUME RefinementInv, [Next]_vars PROVE Log!LogNext \/ UNCHANGED <<live, Logs>>
  OBVIOUS
<1> USE StoreAssumption
<1>1. ContiguousInv /\ TypeInv /\ StartsReached /\ live \subseteq Sessions
  BY DEF RefinementInv, HistoryInv, ContiguousInv, TypeInv, TypeOK, StoreTypeOK
<1>2. \A s \in Sessions : Log!Create(s) \/ Log!Delete(s) => Log!LogNext
  BY DEF Log!LogNext
<1>3. \A t \in live, w \in Writers : Log!AppendRound(t, w) => Log!LogNext
  BY <1>1 DEF Log!LogNext
<1>4. CASE UploadNext
  <2>1. PICK s \in Sessions : UploadStep(s)
    BY <1>4 DEF UploadNext
  <2> QED
    BY <1>1, <1>2, <2>1, UploadRefines DEF UploadStep
<1>5. CASE AnalyzeNext
  <2>1. PICK q \in Requests : AnalyzeStep(q)
    BY <1>5 DEF AnalyzeNext, RequestRuns
  <2>2. CASE FlushRound(q)
    <3>1. PICK t \in Sessions, r \in RoundNo, fk \in BOOLEAN :
              /\ t = target[q] /\ r = start[q] /\ pc[q] = "flush_round"
              /\ SaveRound(t, r, q, fk)
      BY <1>1, <2>2 DEF FlushRound, TypeInv, RequestKeys, TypeOK, AnalyzeTypeOK
    <3>2. q \in Writers /\ (t \in live => 1..(r - 1) \subseteq RoundsOf(t))
      BY <1>1, <3>1 DEF StartsReached, Writers, Numbered, Flushing
    <3> QED
      BY <1>3, <3>1, <3>2, SaveRoundRefines
  <2>3. CASE ~FlushRound(q)
    BY <1>1, <2>1, <2>3, AnalyzeFrame, LogsStutter
  <2> QED
    BY <2>2, <2>3
<1>6. CASE CommandNext
  <2>1. PICK k \in Commands : CommandStep(k)
    BY <1>6 DEF CommandNext, CommandRuns
  <2>2. CASE CommandRound(k)
    <3>1. PICK t \in Sessions, r \in RoundNo, fk \in BOOLEAN :
              /\ t = cmdTarget[k] /\ r = cmdRound[k] /\ cmdPc[k] = "round"
              /\ SaveRound(t, r, k, fk)
      BY <1>1, <2>2 DEF CommandRound, TypeInv, CommandKeys, TypeOK, CommandTypeOK
    <3>2. k \in Writers /\ (t \in live => 1..(r - 1) \subseteq RoundsOf(t))
      BY <1>1, <3>1 DEF StartsReached, Writers, Investigating
    <3> QED
      BY <1>3, <3>1, <3>2, SaveRoundRefines
  <2>3. CASE CommandUploads(k)
    <3>1. cmdTarget[k] \in Sessions /\ UploadStatement(cmdTarget[k])
      BY <1>1, <2>3 DEF CommandUploads, TypeInv, CommandKeys
    <3> QED
      BY <1>1, <1>2, <3>1, UploadRefines
  <2>4. CASE rounds' = rounds /\ live' = live
    BY <2>4, LogsStutter
  <2> QED
    BY <1>1, <2>1, <2>2, <2>3, <2>4, CommandFrame
<1>7. CASE HandleDeleteSession
  <2>1. PICK s \in Sessions, fk \in BOOLEAN : DeleteSession(s, fk)
    BY <1>7 DEF HandleDeleteSession
  <2> QED
    BY <1>1, <1>2, <2>1, LogsDelete
<1>8. CASE HandleDeletePcap \/ Shutdown \/ Restart \/ CommandStop \/ UNCHANGED vars
  <2>1. UNCHANGED <<rounds, live>>
    BY <1>8
    DEF HandleDeletePcap, DeletePcapFile, Shutdown, Close, Restart, Reopen, CommandStop,
        CommandStops, vars, storeVars, tableVars, historyVars, sessionVars
  <2> QED
    BY <2>1, LogsStutter
<1> QED
  BY <1>4, <1>5, <1>6, <1>7, <1>8 DEF Next

\* The rounds of a session are a log that grows at its end, one round at a time,
\* whoever stores them and whatever fails: every request adds one at most, no
\* command adds to two sessions, and a log goes away only with its session.
THEOREM ServerRefinesRoundLog == Spec => ImplementsRoundLog
<1>1. Init => Log!LogInit
  BY DEF Init, StoreInit, Log!LogInit
<1>2. RefinementInv /\ [Next]_vars => [Log!LogNext]_<<live, [s \in Sessions |->
            IF s \in live THEN [r \in 1..RoundCount(s) |-> rounds[s][r]] ELSE <<>>]>>
  BY StepRefines DEF Logs, LogOfSession
<1> QED
  BY RefinementInit, RefinementStep, <1>1, <1>2, PTL DEF Spec, ImplementsRoundLog, Log!LogSpec
=============================================================================
