------------------------ MODULE PcapchuServerProofs ------------------------
(***************************************************************************)
(* Theorems about PcapchuServer, for every number of sessions, captures,   *)
(* requests, commands, rounds and events.                                  *)
(***************************************************************************)
EXTENDS PcapchuServer, FiniteSetTheorems, TLAPS

\* The statements a step can run on the store.
Statement ==
    \/ \E p \in Pcaps, c \in Contents : InsertPcapRow(p, c)
    \/ \E p \in Pcaps, fk \in BOOLEAN : DeletePcapFile(p, fk)
    \/ \E s \in Sessions, p \in Pcaps, t \in Row, fk \in BOOLEAN : CreateSession(s, p, t, fk)
    \/ \E s \in Sessions, fk \in BOOLEAN : DeleteSession(s, fk)
    \/ \E s \in Sessions, q \in Requests : UpdateSessionTitle(s, q)
    \/ \E s \in Sessions, v \in Status : UpdateSessionStatus(s, v)
    \/ \E s \in Sessions, r \in RoundNo, w \in Writers, fk \in BOOLEAN :
            SaveRound(s, r, w, fk)
    \/ \E s \in Sessions, r \in RoundNo, q \in Requests, fk \in BOOLEAN :
            SaveRoundQuery(s, r, q, fk)
    \/ \E s \in Sessions, r \in RoundNo, i \in Seqs, q \in Requests, fk \in BOOLEAN :
            InsertEvent(s, r, i, q, fk)
    \/ \E s \in Sessions, c \in Scopes, fk \in BOOLEAN : SaveSnapshot(s, c, fk)
    \/ Close
    \/ Reopen

\* A handler past the statement that fetched a key holds that key.
UploadKeys ==
    \A s \in Sessions :
        /\ upPc[s] = "insert" => upContent[s] \in Contents
        /\ upPc[s] = "create" => upPcap[s] \in Pcaps

RequestKeys ==
    \A q \in Requests : pc[q] \notin {"ready", "over"} =>
        target[q] \in Sessions /\ held[q] \in Pcaps

CommandKeys == \A k \in Commands : cmdPc[k] \notin {"ready", "over"} => cmdTarget[k] \in Sessions

TypeInv == TypeOK /\ UploadKeys /\ RequestKeys /\ CommandKeys

\* Statements keep the tables well typed.
LEMMA StatementType ==
    ASSUME StoreTypeOK, Statement, UNCHANGED faults
    PROVE  StoreTypeOK'
<1> USE StoreAssumption DEF tableVars, historyVars, sessionVars, pcapVars
<1>1. ASSUME NEW p \in Pcaps, NEW c \in Contents, InsertPcapRow(p, c)
      PROVE  StoreTypeOK'
  BY <1>1 DEF StoreTypeOK, InsertPcapRow
<1>2. ASSUME NEW p \in Pcaps, NEW fk \in BOOLEAN, DeletePcapFile(p, fk)
      PROVE  StoreTypeOK'
  BY <1>2 DEF StoreTypeOK, DeletePcapFile
<1>3. ASSUME NEW s \in Sessions, NEW p \in Pcaps, NEW t \in Row, NEW fk \in BOOLEAN,
             CreateSession(s, p, t, fk)
      PROVE  StoreTypeOK'
  BY <1>3 DEF StoreTypeOK, CreateSession
<1>4. ASSUME NEW s \in Sessions, NEW fk \in BOOLEAN, DeleteSession(s, fk)
      PROVE  StoreTypeOK'
  BY <1>4 DEF StoreTypeOK, DeleteSession, NoRounds, NoEvents, Row
<1>5. ASSUME NEW s \in Sessions, NEW q \in Requests, UpdateSessionTitle(s, q)
      PROVE  StoreTypeOK'
  BY <1>5 DEF StoreTypeOK, UpdateSessionTitle, Row, Writers
<1>6. ASSUME NEW s \in Sessions, NEW v \in Status, UpdateSessionStatus(s, v)
      PROVE  StoreTypeOK'
  BY <1>6 DEF StoreTypeOK, UpdateSessionStatus
<1>7. ASSUME NEW s \in Sessions, NEW r \in RoundNo, NEW w \in Writers, NEW fk \in BOOLEAN,
             SaveRound(s, r, w, fk)
      PROVE  StoreTypeOK'
  BY <1>7 DEF StoreTypeOK, SaveRound, Row
<1>12. ASSUME NEW s \in Sessions, NEW r \in RoundNo, NEW q \in Requests, NEW fk \in BOOLEAN,
             SaveRoundQuery(s, r, q, fk)
      PROVE  StoreTypeOK'
  BY <1>12 DEF StoreTypeOK, SaveRoundQuery, Row, Writers
<1>8. ASSUME NEW s \in Sessions, NEW r \in RoundNo, NEW i \in Seqs, NEW q \in Requests,
             NEW fk \in BOOLEAN, InsertEvent(s, r, i, q, fk)
      PROVE  StoreTypeOK'
  BY <1>8 DEF StoreTypeOK, InsertEvent, Row, Writers
<1>9. ASSUME NEW s \in Sessions, NEW c \in Scopes, NEW fk \in BOOLEAN, SaveSnapshot(s, c, fk)
      PROVE  StoreTypeOK'
  BY <1>9 DEF StoreTypeOK, SaveSnapshot
<1>10. CASE Close
  BY <1>10 DEF StoreTypeOK, Close
<1>11. CASE Reopen
  BY <1>11 DEF StoreTypeOK, Reopen, Status
<1> QED
  BY <1>1, <1>2, <1>3, <1>4, <1>5, <1>6, <1>7, <1>8, <1>9, <1>10, <1>11, <1>12 DEF Statement

\* An upload runs one statement at a time, and keeps its own state well typed.
LEMMA UploadType ==
    ASSUME StoreTypeOK, UploadTypeOK, UploadKeys, NEW s \in Sessions,
           NEW by \in Commands \cup {None},
           LookUpPcap(s, by) \/ UploadStatement(s) \/ UploadDisconnects(s)
    PROVE  /\ UploadTypeOK' /\ UploadKeys'
           /\ Statement \/ UNCHANGED storeVars
<1> USE StoreAssumption DEF UploadTypeOK, UploadKeys, UploadGoes
<1>1. CASE LookUpPcap(s, by)
  BY <1>1 DEF LookUpPcap, StoredWith
<1>2. CASE InsertPcap(s)
  BY <1>2 DEF InsertPcap, Statement
<1>3. CASE InsertPcapFails(s)
  BY <1>3 DEF InsertPcapFails, StatementFails
<1>4. CASE CreateUploadSession(s)
  <2>1. upBy[s] \in Row
    BY DEF Row, Writers
  <2> QED
    BY <1>4, <2>1 DEF CreateUploadSession, Statement
<1>5. CASE CreateUploadSessionFails(s)
  BY <1>5 DEF CreateUploadSessionFails, StatementFails
<1>6. CASE UploadDisconnects(s)
  BY <1>6 DEF UploadDisconnects
<1> QED
  BY <1>1, <1>2, <1>3, <1>4, <1>5, <1>6 DEF UploadStatement

LEMMA RoundCountType ==
    ASSUME NEW s \in Sessions
    PROVE  RoundCount(s) \in Nat
<1>1. IsFiniteSet(RoundNo)
  BY FS_Interval, StoreAssumption DEF RoundNo
<1>2. IsFiniteSet(RoundsOf(s))
  BY <1>1, FS_Subset, RoundsOf(s) \subseteq RoundNo DEF RoundsOf
<1> QED
  BY <1>2, FS_CardinalityType DEF RoundCount

\* So does an analyze request.
LEMMA AnalyzeType ==
    ASSUME StoreTypeOK, AnalyzeTypeOK, RequestKeys, NEW q \in Requests, AnalyzeStep(q)
    PROVE  /\ AnalyzeTypeOK' /\ RequestKeys'
           /\ Statement \/ UNCHANGED storeVars
<1> USE StoreAssumption, AnalyzeAssumption
    DEF AnalyzeTypeOK, RequestKeys, Goto, Numbered, Streaming, Flushing
<1>1. ASSUME NEW s \in Sessions, GetSession(q, s)
      PROVE  AnalyzeTypeOK' /\ RequestKeys' /\ UNCHANGED storeVars
  BY <1>1 DEF GetSession, StoreTypeOK
<1>2. CASE GetSessionFails(q)
  BY <1>2 DEF GetSessionFails, EndsWith, StatementFails, Replies
<1>3. CASE CountRounds(q)
  <2>1. start'[q] \in RoundNo
    BY <1>3, RoundCountType DEF CountRounds, RoundNo
  <2> QED
    BY <1>3, <2>1 DEF CountRounds
<1>4. CASE CountRoundsFails(q)
  BY <1>4 DEF CountRoundsFails, EndsWith, StatementFails, Replies
<1>5. CASE SetUp(q)
  BY <1>5 DEF SetUp
<1>6. CASE SetUpFails(q)
  BY <1>6 DEF SetUpFails, EndsWith, StatementFails, Replies
<1>7. CASE CollectFails(q) \/ RunRound(q) \/ RunRoundFails(q)
  <2>1. PICK ok \in BOOLEAN : StreamEnds(q, ok) /\ pc[q] \in Streaming
    BY <1>7 DEF CollectFails, RunRound, RunRoundFails
  <2>2. MinEvents..MaxSeq \subseteq 0..MaxSeq
    OBVIOUS
  <2> QED
    BY <2>1, <2>2 DEF StreamEnds
<1>8. CASE CollectScope(q)
  <2>1. Statement \/ UNCHANGED storeVars
    BY <1>8 DEF CollectScope, MaySnapshot, Statement
  <2> QED
    BY <1>8, <2>1 DEF CollectScope
<1>9. CASE Disconnect(q)
  BY <1>9 DEF Disconnect, EndsWith, Replies
<1>10. CASE FlushEvent(q)
  <2>1. Statement
    BY <1>10 DEF FlushEvent, Statement
  <2>2. nextSeq' \in [Requests -> Seqs]
    BY <1>10 DEF FlushEvent, Seqs
  <2> QED
    BY <1>10, <2>1, <2>2 DEF FlushEvent
<1>11. CASE FlushRound(q)
  <2>1. Statement
    BY <1>11 DEF FlushRound, Statement, Writers
  <2> QED
    BY <1>11, <2>1 DEF FlushRound
<1>12. CASE FlushQuery(q)
  <2>1. Statement
    BY <1>12 DEF FlushQuery, Statement
  <2> QED
    BY <1>12, <2>1 DEF FlushQuery
<1>13. CASE FlushTitle(q)
  <2>1. Statement \/ UNCHANGED storeVars
    BY <1>13 DEF FlushTitle, StatementFails, Statement
  <2> QED
    BY <1>13, <2>1 DEF FlushTitle
<1>14. CASE FlushStatus(q)
  <2>1. Statement
    BY <1>14 DEF FlushStatus, FinalStatus, Status, Statement
  <2> QED
    BY <1>14, <2>1 DEF FlushStatus, EndsWith, FinalStatus, Replies
<1>15. CASE FlushFails(q)
  BY <1>15 DEF FlushFails, StatementFails, EndsWith, FinalStatus, Replies
<1> QED
  BY <1>1, <1>2, <1>3, <1>4, <1>5, <1>6, <1>7, <1>8, <1>9, <1>10, <1>11,
     <1>12, <1>13, <1>14, <1>15 DEF AnalyzeStep

\* So does a command.
LEMMA CommandType ==
    ASSUME StoreTypeOK, UploadTypeOK, UploadKeys, CommandTypeOK, CommandKeys,
           NEW k \in Commands, CommandStep(k)
    PROVE  /\ UploadTypeOK' /\ UploadKeys' /\ CommandTypeOK' /\ CommandKeys'
           /\ Statement \/ UNCHANGED storeVars
<1> USE StoreAssumption
    DEF CommandTypeOK, CommandKeys, CommandGoes, CommandOver, Investigating
<1>0. 1 \in RoundNo /\ \A j \in Commands : cmdRound[j] \in RoundNo /\ cmdEnd[j] \in RoundNo
  BY DEF RoundNo
<1>1. ASSUME UNCHANGED uploadVars
      PROVE  UploadTypeOK' /\ UploadKeys'
  BY <1>1 DEF uploadVars, UploadTypeOK, UploadKeys
<1>2. ASSUME NEW s \in Sessions, AnalyzeCapture(k, s)
      PROVE  /\ UploadTypeOK' /\ UploadKeys' /\ CommandTypeOK' /\ CommandKeys'
             /\ Statement \/ UNCHANGED storeVars
  <2>1. LookUpPcap(s, k)
    BY <1>2 DEF AnalyzeCapture
  <2>2. UploadTypeOK' /\ UploadKeys' /\ (Statement \/ UNCHANGED storeVars)
    BY <2>1, UploadType
  <2> QED
    BY <1>2, <2>2 DEF AnalyzeCapture
<1>3. CASE CommandUploads(k)
  <2>1. cmdTarget[k] \in Sessions /\ UploadStatement(cmdTarget[k])
    BY <1>3 DEF CommandUploads
  <2>2. UploadTypeOK' /\ UploadKeys' /\ (Statement \/ UNCHANGED storeVars)
    BY <2>1, UploadType
  <2> QED
    BY <1>0, <1>3, <2>2 DEF CommandUploads, commandVars
<1>4. CASE CopyCapture(k)
  BY <1>1, <1>4 DEF CopyCapture
<1>5. ASSUME NEW s \in Sessions, ResumeSession(k, s)
      PROVE  CommandTypeOK' /\ CommandKeys' /\ UNCHANGED <<storeVars, uploadVars>>
  BY <1>5 DEF ResumeSession
<1>6. CASE CountForCommand(k)
  BY <1>1, <1>6 DEF CountForCommand
<1>7. CASE CommandSetUpFails(k)
  BY <1>0, <1>1, <1>7 DEF CommandSetUpFails, StatementFails
<1>8. CASE CommandCollects(k)
  <2>1. Statement \/ UNCHANGED storeVars
    BY <1>8 DEF CommandCollects, MaySnapshot, Statement
  <2> QED
    BY <1>1, <1>8, <2>1 DEF CommandCollects
<1>9. CASE CommandRound(k)
  <2>1. Statement
    BY <1>9 DEF CommandRound, Statement, Writers
  <2>2. cmdRound[k] < cmdEnd[k] => cmdRound[k] + 1 \in RoundNo
    BY DEF RoundNo
  <2> QED
    BY <1>0, <1>1, <1>9, <2>1, <2>2 DEF CommandRound
<1>10. CASE CommandRoundFails(k)
  BY <1>0, <1>1, <1>10 DEF CommandRoundFails, StatementFails
<1> QED
  BY <1>1, <1>2, <1>3, <1>4, <1>5, <1>6, <1>7, <1>8, <1>9, <1>10 DEF CommandStep

LEMMA TypeInvInit == Init => TypeInv
BY StoreAssumption, AnalyzeAssumption
DEF Init, TypeInv, TypeOK, StoreInit, StoreTypeOK, UploadInit, UploadTypeOK, UploadKeys,
    AnalyzeInit, AnalyzeTypeOK, RequestKeys, CommandInit, CommandTypeOK, CommandKeys,
    NoRounds, NoEvents, Row, Status, Replies, RoundNo, Seqs

\* Whatever a step does, it runs at most one statement.
LEMMA StepRunsOneStatement ==
    ASSUME TypeInv, Next
    PROVE  Statement \/ UNCHANGED storeVars
<1> USE DEF TypeInv, TypeOK
<1>1. CASE UploadNext
  BY <1>1, UploadType DEF UploadNext, UploadStep
<1>2. CASE AnalyzeNext
  BY <1>2, AnalyzeType DEF AnalyzeNext, RequestRuns
<1>3. CASE CommandNext
  BY <1>3, CommandType DEF CommandNext, CommandRuns
<1>4. CASE HandleDeleteSession \/ HandleDeletePcap
  BY <1>4, StoreAssumption DEF HandleDeleteSession, HandleDeletePcap, Statement
<1>5. CASE Shutdown \/ Restart
  BY <1>5 DEF Shutdown, Restart, Statement
<1>6. CASE CommandStop
  BY <1>6 DEF CommandStop, CommandStops
<1> QED
  BY <1>1, <1>2, <1>3, <1>4, <1>5, <1>6 DEF Next

LEMMA TypeInvStep == TypeInv /\ [Next]_vars => TypeInv'
<1> SUFFICES ASSUME TypeInv, [Next]_vars PROVE TypeInv'
  OBVIOUS
<1> USE DEF TypeInv, TypeOK
<1>1. StoreTypeOK'
  <2>1. UNCHANGED faults
    BY DEF Next, vars
  <2>2. CASE Statement
    BY <2>1, <2>2, StatementType
  <2>3. CASE UNCHANGED storeVars
    BY <2>1, <2>3 DEF StoreTypeOK, storeVars, tableVars, historyVars, sessionVars, pcapVars
  <2> QED
    BY <2>2, <2>3, StepRunsOneStatement DEF vars
<1>2. UploadTypeOK' /\ UploadKeys'
  <2>1. CASE UploadNext
    BY <2>1, UploadType DEF UploadNext, UploadStep
  <2>2. CASE CommandNext
    BY <2>2, CommandType DEF CommandNext, CommandRuns
  <2>3. CASE Restart \/ CommandStop
    BY <2>3 DEF Restart, CommandStop, CommandStops, UploadsDie, UploadTypeOK, UploadKeys
  <2>4. CASE UNCHANGED uploadVars
    BY <2>4 DEF uploadVars, UploadTypeOK, UploadKeys
  <2> QED
    BY <2>1, <2>2, <2>3, <2>4
    DEF Next, vars, AnalyzeNext, RequestRuns, HandleDeleteSession, HandleDeletePcap, Shutdown
<1>3. AnalyzeTypeOK' /\ RequestKeys'
  <2>1. CASE AnalyzeNext
    BY <2>1, AnalyzeType DEF AnalyzeNext, RequestRuns
  <2>2. CASE Restart
    BY <2>2 DEF Restart, RequestsDie, AnalyzeTypeOK, RequestKeys, Replies
  <2>3. CASE UNCHANGED requestVars
    BY <2>3 DEF requestVars, AnalyzeTypeOK, RequestKeys
  <2> QED
    BY <2>1, <2>2, <2>3
    DEF Next, vars, UploadNext, CommandNext, CommandRuns, HandleDeleteSession,
        HandleDeletePcap, Shutdown, CommandStop
<1>4. CommandTypeOK' /\ CommandKeys'
  <2>1. CASE CommandNext
    BY <2>1, CommandType DEF CommandNext, CommandRuns
  <2>2. CASE CommandStop
    BY <2>2, StoreAssumption
    DEF CommandStop, CommandStops, CommandOver, CommandGoes, CommandTypeOK, CommandKeys, RoundNo
  <2>3. CASE UNCHANGED commandVars
    BY <2>3 DEF commandVars, CommandTypeOK, CommandKeys
  <2> QED
    BY <2>1, <2>2, <2>3
    DEF Next, vars, UploadNext, AnalyzeNext, RequestRuns, HandleDeleteSession,
        HandleDeletePcap, Shutdown, Restart
<1> QED
  BY <1>1, <1>2, <1>3, <1>4

\* Every variable keeps its type: in particular a round number stays within
\* the bound and every key a handler holds is one the store handed out.
THEOREM TypeCorrect == Spec => []TypeOK
<1>1. TypeInv => TypeOK
  BY DEF TypeInv
<1> QED
  BY TypeInvInit, TypeInvStep, <1>1, PTL DEF Spec

----------------------------------------------------------------------------
(* Rounds are contiguous.  The invariant is not inductive by itself: the   *)
(* row of a round is inserted long after its number was computed.  What    *)
(* carries it is that the rounds below the number stay there as long as    *)
(* the session lives, and UNIQUE(session_id, round).                       *)

\* An id serves one upload: no session is made twice, and nobody can know
\* the id, or write under it, before its session is there.
IdsAreFresh ==
    /\ \A s \in Sessions : upPc[s] # "over" => s \notin live /\ RoundsOf(s) = {}
    /\ \A q \in Requests : pc[q] \notin {"ready", "over"} => upPc[target[q]] = "over"
    /\ \A k \in Commands : cmdPc[k] \notin {"ready", "upload", "over"} =>
            upPc[cmdTarget[k]] = "over"

\* A request or a command that numbers its round n found the rounds below n in
\* the table, or stored them; the first number is 1.
StartsReached ==
    /\ \A q \in Requests, s \in live : pc[q] \in Numbered /\ target[q] = s =>
            1..(start[q] - 1) \subseteq RoundsOf(s)
    /\ \A k \in Commands, s \in live : cmdPc[k] \in Investigating /\ cmdTarget[k] = s =>
            1..(cmdRound[k] - 1) \subseteq RoundsOf(s)
    /\ \A k \in Commands : cmdPc[k] \in {"ready", "upload", "copy"} => cmdRound[k] = 1

ContiguousInv == TypeInv /\ IdsAreFresh /\ StartsReached /\ RoundsContiguous

LEMMA ContiguousInit == Init => ContiguousInv
<1> SUFFICES ASSUME Init PROVE ContiguousInv
  OBVIOUS
<1>1. TypeInv
  BY TypeInvInit
<1>2. live = {} /\ \A s \in Sessions : RoundsOf(s) = {}
  BY DEF Init, StoreInit, RoundsOf, NoRounds
<1>3. /\ \A q \in Requests : pc[q] = "ready"
      /\ \A k \in Commands : cmdPc[k] = "ready" /\ cmdRound[k] = 1
  BY DEF Init, AnalyzeInit, CommandInit
<1> QED
  BY <1>1, <1>2, <1>3
  DEF ContiguousInv, IdsAreFresh, StartsReached, RoundsContiguous, Numbered, Streaming,
      Flushing, Investigating

\* The number after a contiguous history is the length of it plus one.
LEMMA ContiguousCount ==
    ASSUME NEW s, NEW k \in Nat, RoundsOf(s) = 1..k
    PROVE  RoundCount(s) = k
BY FS_Interval DEF RoundCount

\* A round that comes after rounds that are all there goes to the end of the
\* log: UNIQUE(session_id, round) has refused every other number.
LEMMA NextInLine ==
    ASSUME TypeInv, RoundsContiguous, NEW t \in Sessions, NEW r \in RoundNo, NEW w \in Writers,
           NEW fk \in BOOLEAN, SaveRound(t, r, w, fk),
           t \in live => 1..(r - 1) \subseteq RoundsOf(t)
    PROVE  /\ RoundsContiguous' /\ live' = live
           /\ RoundsOf(t)' = RoundsOf(t) \cup {r}
           /\ \A s \in Sessions \ {t} : RoundsOf(s)' = RoundsOf(s)
<1>1. /\ r \notin RoundsOf(t) /\ RoundsOf(t)' = RoundsOf(t) \cup {r} /\ live' = live
      /\ \A s \in Sessions \ {t} : RoundsOf(s)' = RoundsOf(s)
  BY StoreAssumption
  DEF SaveRound, RoundsOf, TypeInv, TypeOK, StoreTypeOK, Row, Writers, sessionVars
<1>2. ASSUME t \in live
      PROVE  \E k \in 0..MaxRound : RoundsOf(t)' = 1..k
  <2>1. PICK k \in 0..MaxRound : RoundsOf(t) = 1..k
    BY <1>2 DEF RoundsContiguous
  <2>2. 1..(r - 1) \subseteq 1..k /\ r \notin 1..k
    BY <1>1, <1>2, <2>1
  <2>3. r = k + 1
    <3>1. r \in Nat \ {0} /\ k \in Nat /\ k < r
      BY <2>2, StoreAssumption DEF RoundNo
    <3>2. r = 1 \/ r - 1 \in 1..(r - 1)
      BY <3>1
    <3> QED
      BY <2>2, <3>1, <3>2
  <2>4. 1..k \cup {k + 1} = 1..(k + 1) /\ k + 1 \in 0..MaxRound
    BY <2>3, StoreAssumption DEF RoundNo
  <2> QED
    BY <1>1, <2>1, <2>3, <2>4
<1>3. live \subseteq Sessions
  BY DEF TypeInv, TypeOK, StoreTypeOK
<1> QED
  BY <1>1, <1>2, <1>3 DEF RoundsContiguous

\* What an analyze request changes of the state that the rounds depend on.
LEMMA AnalyzeFrame ==
    ASSUME TypeInv, NEW q \in Requests, AnalyzeStep(q)
    PROVE  /\ live' = live
           /\ rounds' = rounds \/ FlushRound(q)
           /\ \A p \in Requests \ {q} :
                    pc'[p] = pc[p] /\ target'[p] = target[p] /\ start'[p] = start[p]
           /\ pc'[q] \notin {"ready", "over"} =>
                    \/ pc[q] \notin {"ready", "over"} /\ target'[q] = target[q]
                    \/ target'[q] \in live
           /\ pc'[q] \in Numbered =>
                    \/ CountRounds(q)
                    \/ pc[q] \in Numbered /\ target'[q] = target[q] /\ start'[q] = start[q]
<1> USE DEF TypeInv, TypeOK, AnalyzeTypeOK, Goto, EndsWith, StatementFails, Numbered, Streaming,
            Flushing, storeVars, tableVars, historyVars, sessionVars, pcapVars
<1>1. ASSUME NEW s \in Sessions, GetSession(q, s)
      PROVE  /\ live' = live /\ rounds' = rounds
             /\ target'[q] \in live /\ pc'[q] = "count"
             /\ \A p \in Requests \ {q} :
                    pc'[p] = pc[p] /\ target'[p] = target[p] /\ start'[p] = start[p]
  BY <1>1 DEF GetSession
<1>2. CASE CountRounds(q)
  BY <1>2 DEF CountRounds
<1>3. CASE GetSessionFails(q) \/ CountRoundsFails(q) \/ SetUpFails(q) \/ Disconnect(q)
  BY <1>3 DEF GetSessionFails, CountRoundsFails, SetUpFails, Disconnect
<1>4. CASE SetUp(q)
  BY <1>4 DEF SetUp
<1>5. CASE CollectFails(q) \/ RunRound(q) \/ RunRoundFails(q)
  <2>1. PICK ok \in BOOLEAN : StreamEnds(q, ok) /\ pc[q] \in Streaming
    BY <1>5, StoreAssumption DEF CollectFails, RunRound, RunRoundFails
  <2> QED
    BY <2>1 DEF StreamEnds
<1>6. CASE CollectScope(q)
  <2>1. pc[q] \in Streaming /\ pc'[q] \in Streaming
    BY <1>6, StoreAssumption DEF CollectScope
  <2>2. live' = live /\ rounds' = rounds
    BY <1>6 DEF CollectScope, MaySnapshot, SaveSnapshot
  <2> QED
    BY <1>6, <2>1, <2>2 DEF CollectScope
<1>7. CASE FlushEvent(q)
  BY <1>7 DEF FlushEvent, InsertEvent
<1>8. CASE FlushRound(q)
  BY <1>8 DEF FlushRound, SaveRound
<1>9. CASE FlushQuery(q)
  BY <1>9 DEF FlushQuery, SaveRoundQuery
<1>10. CASE FlushTitle(q)
  BY <1>10 DEF FlushTitle, UpdateSessionTitle
<1>11. CASE FlushStatus(q) \/ FlushFails(q)
  BY <1>11 DEF FlushStatus, FlushFails, UpdateSessionStatus
<1> QED
  BY <1>1, <1>2, <1>3, <1>4, <1>5, <1>6, <1>7, <1>8, <1>9, <1>10, <1>11 DEF AnalyzeStep

\* What an upload changes of it, whoever runs it.
LEMMA UploadFrame ==
    ASSUME TypeInv, NEW s \in Sessions, NEW by,
           LookUpPcap(s, by) \/ UploadStatement(s) \/ UploadDisconnects(s)
    PROVE  /\ rounds' = rounds
           /\ \A t \in Sessions \ {s} : upPc'[t] = upPc[t] /\ (t \in live' <=> t \in live)
           /\ upPc[s] # "over"
           /\ upPc'[s] = "over" \/ live' = live
<1> USE DEF TypeInv, TypeOK, UploadTypeOK, StatementFails, InsertPcapRow, CreateSession,
            UploadGoes, storeVars, tableVars, historyVars, sessionVars, pcapVars
<1>1. CASE LookUpPcap(s, by)
  BY <1>1 DEF LookUpPcap
<1>2. CASE UploadStatement(s) \/ UploadDisconnects(s)
  BY <1>2
  DEF UploadStatement, InsertPcap, InsertPcapFails, CreateUploadSession,
      CreateUploadSessionFails, UploadDisconnects
<1> QED
  BY <1>1, <1>2

\* An upload makes no round and touches no session that is there already.
LEMMA ContiguousUpload ==
    ASSUME ContiguousInv, TypeInv', NEW s \in Sessions, NEW by,
           LookUpPcap(s, by) \/ UploadStatement(s) \/ UploadDisconnects(s),
           UNCHANGED requestVars
    PROVE  /\ RoundsContiguous'
           /\ \A t \in Sessions : upPc'[t] # "over" => t \notin live' /\ RoundsOf(t)' = {}
           /\ \A t \in Sessions : upPc[t] = "over" =>
                    upPc'[t] = "over" /\ RoundsOf(t)' = RoundsOf(t) /\ (t \in live' <=> t \in live)
<1> USE DEF ContiguousInv, RoundsOf
<1>1. /\ rounds' = rounds
      /\ upPc[s] # "over" /\ (upPc'[s] = "over" \/ live' = live)
      /\ \A t \in Sessions \ {s} : upPc'[t] = upPc[t] /\ (t \in live' <=> t \in live)
  BY UploadFrame
<1>2. live \subseteq Sessions /\ live' \subseteq Sessions
  BY DEF TypeInv, TypeOK, StoreTypeOK
<1>3. \A t \in Sessions : upPc'[t] # "over" => t \notin live' /\ RoundsOf(t)' = {}
  BY <1>1 DEF IdsAreFresh
<1>4. RoundsContiguous'
  <2> SUFFICES ASSUME NEW t \in live' PROVE \E k \in 0..MaxRound : RoundsOf(t) = 1..k
    BY <1>1 DEF RoundsContiguous
  <2>1. CASE t \in live
    BY <2>1 DEF RoundsContiguous
  <2>2. CASE t \notin live
    <3>1. RoundsOf(t) = {}
      BY <1>1, <1>2, <2>2 DEF IdsAreFresh
    <3>2. 1..0 = {} /\ 0 \in 0..MaxRound
      BY StoreAssumption
    <3> QED
      BY <3>1, <3>2
  <2> QED
    BY <2>1, <2>2
<1> QED
  BY <1>1, <1>3, <1>4

\* What is known of the requests stays true when rounds are only added, and
\* sessions only made, under ids that no request knows.
LEMMA RequestsUndisturbed ==
    ASSUME ContiguousInv, UNCHANGED requestVars,
           \A t \in Sessions : upPc[t] = "over" =>
                /\ upPc'[t] = "over" /\ RoundsOf(t) \subseteq RoundsOf(t)'
                /\ t \in live' => t \in live
    PROVE  \A q \in Requests :
                /\ pc'[q] \notin {"ready", "over"} => upPc'[target'[q]] = "over"
                /\ \A s \in live' : pc'[q] \in Numbered /\ target'[q] = s =>
                        1..(start'[q] - 1) \subseteq RoundsOf(s)'
<1> SUFFICES ASSUME NEW q \in Requests, pc[q] \notin {"ready", "over"}, NEW t, t = target[q]
             PROVE  /\ upPc'[t] = "over"
                    /\ pc[q] \in Numbered /\ t \in live' => 1..(start[q] - 1) \subseteq RoundsOf(t)'
  BY DEF requestVars, Numbered, Streaming, Flushing
<1>1. t \in Sessions /\ upPc[t] = "over"
  BY DEF ContiguousInv, TypeInv, RequestKeys, IdsAreFresh
<1> QED
  BY <1>1 DEF ContiguousInv, StartsReached

\* And of the commands.
LEMMA CommandsUndisturbed ==
    ASSUME ContiguousInv, NEW K \in SUBSET Commands,
           \A k \in K : cmdPc'[k] = cmdPc[k] /\ cmdTarget'[k] = cmdTarget[k]
                                            /\ cmdRound'[k] = cmdRound[k],
           \A t \in Sessions : upPc[t] = "over" =>
                /\ upPc'[t] = "over" /\ RoundsOf(t) \subseteq RoundsOf(t)'
                /\ t \in live' => t \in live
    PROVE  \A k \in K :
                /\ cmdPc'[k] \notin {"ready", "upload", "over"} => upPc'[cmdTarget'[k]] = "over"
                /\ \A s \in live' : cmdPc'[k] \in Investigating /\ cmdTarget'[k] = s =>
                        1..(cmdRound'[k] - 1) \subseteq RoundsOf(s)'
                /\ cmdPc'[k] \in {"ready", "upload", "copy"} => cmdRound'[k] = 1
<1> SUFFICES ASSUME NEW k \in K, cmdPc[k] \notin {"ready", "upload", "over"},
                    NEW t, t = cmdTarget[k]
             PROVE  /\ upPc'[t] = "over"
                    /\ cmdPc[k] \in Investigating /\ t \in live' =>
                            1..(cmdRound[k] - 1) \subseteq RoundsOf(t)'
  BY DEF Investigating, ContiguousInv, StartsReached
<1>1. t \in Sessions /\ upPc[t] = "over"
  BY DEF ContiguousInv, TypeInv, CommandKeys, IdsAreFresh
<1> QED
  BY <1>1 DEF ContiguousInv, StartsReached

LEMMA ContiguousAnalyze ==
    ASSUME ContiguousInv, AnalyzeNext
    PROVE  IdsAreFresh' /\ StartsReached' /\ RoundsContiguous'
<1> USE DEF ContiguousInv
<1>1. PICK q \in Requests : RequestRuns(q)
  BY DEF AnalyzeNext
<1>2. /\ live' = live /\ upPc' = upPc /\ UNCHANGED commandVars
      /\ rounds' = rounds \/ FlushRound(q)
      /\ \A p \in Requests \ {q} :
            pc'[p] = pc[p] /\ target'[p] = target[p] /\ start'[p] = start[p]
      /\ pc'[q] \notin {"ready", "over"} =>
            \/ pc[q] \notin {"ready", "over"} /\ target'[q] = target[q]
            \/ target'[q] \in live
      /\ pc'[q] \in Numbered =>
            \/ CountRounds(q)
            \/ pc[q] \in Numbered /\ target'[q] = target[q] /\ start'[q] = start[q]
  BY <1>1, AnalyzeFrame DEF RequestRuns, uploadVars
<1>3. /\ TypeInv /\ live \subseteq Sessions
      /\ \A p \in Requests : pc[p] \notin {"ready", "over"} => target[p] \in Sessions
  BY DEF TypeInv, TypeOK, StoreTypeOK, RequestKeys
\* The rounds of a session grow by at most the round of q, which is next in line.
<1>4. /\ \A s \in Sessions : RoundsOf(s) \subseteq RoundsOf(s)'
      /\ \A s \in Sessions : RoundsOf(s)' # RoundsOf(s) => upPc[s] = "over"
      /\ RoundsContiguous'
  <2>1. CASE rounds' = rounds
    BY <2>1, <1>2 DEF RoundsContiguous, RoundsOf
  <2>2. CASE FlushRound(q)
    <3>1. PICK t \in Sessions, r \in RoundNo :
            /\ t = target[q] /\ r = start[q]
            /\ pc[q] \in Numbered /\ upPc[t] = "over"
      BY <2>2, <1>3 DEF FlushRound, Numbered, Flushing, IdsAreFresh, TypeInv, TypeOK, AnalyzeTypeOK
    <3>2. PICK fk \in BOOLEAN : SaveRound(t, r, q, fk)
      BY <2>2, <3>1, StoreAssumption DEF FlushRound
    <3>3. q \in Writers /\ (t \in live => 1..(r - 1) \subseteq RoundsOf(t))
      BY <3>1 DEF StartsReached, Writers
    <3>4. /\ RoundsContiguous'
          /\ RoundsOf(t)' = RoundsOf(t) \cup {r}
          /\ \A s \in Sessions \ {t} : RoundsOf(s)' = RoundsOf(s)
      BY <1>3, <3>1, <3>2, <3>3, NextInLine
    <3> QED
      BY <3>1, <3>4
  <2> QED
    BY <1>2, <2>1, <2>2
<1>5. IdsAreFresh'
  BY <1>2, <1>3, <1>4 DEF IdsAreFresh, commandVars
<1>6. StartsReached'
  <2>1. ASSUME NEW p \in Requests, NEW s \in live, pc'[p] \in Numbered, target'[p] = s
        PROVE  1..(start'[p] - 1) \subseteq RoundsOf(s)'
    <3>1. CASE pc[p] \in Numbered /\ target'[p] = target[p] /\ start'[p] = start[p]
      BY <2>1, <3>1, <1>3, <1>4 DEF StartsReached
    <3>2. CASE p = q /\ CountRounds(q)
      <4>1. rounds' = rounds /\ start'[q] = RoundCount(s) + 1
        BY <2>1, <3>2
        DEF CountRounds, storeVars, tableVars, historyVars, TypeInv, TypeOK, AnalyzeTypeOK
      <4>2. PICK k \in 0..MaxRound : RoundsOf(s) = 1..k
        BY DEF RoundsContiguous
      <4>3. start'[q] - 1 = k
        BY <4>1, <4>2, ContiguousCount
      <4> QED
        BY <3>2, <4>1, <4>2, <4>3 DEF RoundsOf
    <3> QED
      BY <1>2, <2>1, <3>1, <3>2
  <2>2. \A k \in Commands : UNCHANGED <<cmdPc[k], cmdTarget[k], cmdRound[k]>>
    BY <1>2 DEF commandVars
  <2> QED
    <3>1. \A k \in Commands, s \in live : cmdPc'[k] \in Investigating /\ cmdTarget'[k] = s =>
                1..(cmdRound'[k] - 1) \subseteq RoundsOf(s)'
      BY <1>2, <1>3, <1>4, <2>2 DEF StartsReached
    <3> QED
      BY <1>2, <2>1, <2>2, <3>1 DEF StartsReached
<1> QED
  BY <1>4, <1>5, <1>6

LEMMA ContiguousCommand ==
    ASSUME ContiguousInv, TypeInv', CommandNext
    PROVE  IdsAreFresh' /\ StartsReached' /\ RoundsContiguous'
<1> USE DEF ContiguousInv
<1>1. PICK k \in Commands : CommandRuns(k)
  BY DEF CommandNext
<1>2. UNCHANGED requestVars /\ CommandStep(k)
  BY <1>1 DEF CommandRuns
<1>3. /\ TypeInv /\ live \subseteq Sessions
      /\ cmdPc[k] \notin {"ready", "over"} => cmdTarget[k] \in Sessions
      /\ cmdRound[k] \in RoundNo
  BY DEF TypeInv, TypeOK, StoreTypeOK, CommandKeys, CommandTypeOK
\* The other commands keep their place, whatever k does.
<1>4. \A j \in Commands \ {k} : UNCHANGED <<cmdPc[j], cmdTarget[j], cmdRound[j]>>
  <2> USE DEF CommandGoes, CommandOver, commandVars, TypeInv, TypeOK, CommandTypeOK
  <2>1. CASE CommandUploads(k) \/ CopyCapture(k) \/ CountForCommand(k) \/ CommandSetUpFails(k)
    BY <2>1 DEF CommandUploads, CopyCapture, CountForCommand, CommandSetUpFails
  <2>2. CASE CommandCollects(k) \/ CommandRound(k) \/ CommandRoundFails(k)
    BY <2>2 DEF CommandCollects, CommandRound, CommandRoundFails
  <2>3. ASSUME NEW s \in Sessions, AnalyzeCapture(k, s) \/ ResumeSession(k, s)
        PROVE  \A j \in Commands \ {k} : UNCHANGED <<cmdPc[j], cmdTarget[j], cmdRound[j]>>
    BY <2>3 DEF AnalyzeCapture, ResumeSession
  <2> QED
    BY <1>2, <2>1, <2>2, <2>3 DEF CommandStep
\* It is enough that the tables change in an orderly way and that k itself
\* knows what it has to know.
<1>5. ASSUME RoundsContiguous',
             \A t \in Sessions : upPc'[t] # "over" => t \notin live' /\ RoundsOf(t)' = {},
             \A t \in Sessions : upPc[t] = "over" =>
                /\ upPc'[t] = "over" /\ RoundsOf(t) \subseteq RoundsOf(t)'
                /\ t \in live' => t \in live,
             cmdPc'[k] \notin {"ready", "upload", "over"} => upPc'[cmdTarget'[k]] = "over",
             \A s \in live' : cmdPc'[k] \in Investigating /\ cmdTarget'[k] = s =>
                1..(cmdRound'[k] - 1) \subseteq RoundsOf(s)',
             cmdPc'[k] \in {"ready", "upload", "copy"} => cmdRound'[k] = 1
      PROVE  IdsAreFresh' /\ StartsReached' /\ RoundsContiguous'
  <2>1. \A q \in Requests :
            /\ pc'[q] \notin {"ready", "over"} => upPc'[target'[q]] = "over"
            /\ \A s \in live' : pc'[q] \in Numbered /\ target'[q] = s =>
                    1..(start'[q] - 1) \subseteq RoundsOf(s)'
    BY <1>2, <1>5, RequestsUndisturbed
  <2>2. \A j \in Commands \ {k} :
            /\ cmdPc'[j] \notin {"ready", "upload", "over"} => upPc'[cmdTarget'[j]] = "over"
            /\ \A s \in live' : cmdPc'[j] \in Investigating /\ cmdTarget'[j] = s =>
                    1..(cmdRound'[j] - 1) \subseteq RoundsOf(s)'
            /\ cmdPc'[j] \in {"ready", "upload", "copy"} => cmdRound'[j] = 1
    <3> DEFINE K == Commands \ {k}
    <3>1. K \in SUBSET Commands /\ \A j \in K : cmdPc'[j] = cmdPc[j] /\ cmdTarget'[j] = cmdTarget[j]
                                                 /\ cmdRound'[j] = cmdRound[j]
      BY <1>4
    <3> HIDE DEF K
    <3>2. \A j \in K :
            /\ cmdPc'[j] \notin {"ready", "upload", "over"} => upPc'[cmdTarget'[j]] = "over"
            /\ \A s \in live' : cmdPc'[j] \in Investigating /\ cmdTarget'[j] = s =>
                    1..(cmdRound'[j] - 1) \subseteq RoundsOf(s)'
            /\ cmdPc'[j] \in {"ready", "upload", "copy"} => cmdRound'[j] = 1
      BY <1>5, <3>1, CommandsUndisturbed
    <3> QED
      BY <3>2 DEF K
  <2>3. IdsAreFresh'
    BY <1>5, <2>1, <2>2 DEF IdsAreFresh
  <2>4. StartsReached'
    BY <1>5, <2>1, <2>2 DEF StartsReached
  <2> QED
    BY <1>5, <2>3, <2>4
<1>6. ASSUME NEW s \in Sessions, AnalyzeCapture(k, s)
      PROVE  IdsAreFresh' /\ StartsReached' /\ RoundsContiguous'
  <2>1. LookUpPcap(s, k) /\ cmdPc'[k] = "upload" /\ cmdRound'[k] = 1
    BY <1>6 DEF AnalyzeCapture, CommandGoes, TypeInv, TypeOK, CommandTypeOK, StartsReached
  <2> QED
    BY <1>2, <1>5, <2>1, ContiguousUpload DEF Investigating
<1>7. CASE CommandUploads(k)
  <2>1. cmdTarget[k] \in Sessions /\ UploadStatement(cmdTarget[k]) /\ cmdPc[k] = "upload"
    BY <1>3, <1>7 DEF CommandUploads
  <2>2. /\ cmdRound'[k] = 1
        /\ \/ cmdPc'[k] \in {"upload", "over"}
           \/ /\ cmdPc'[k] = "copy" /\ cmdTarget'[k] = cmdTarget[k]
              /\ cmdTarget[k] \in live'
    BY <1>7, <2>1
    DEF CommandUploads, CommandGoes, CommandOver, commandVars, TypeInv, TypeOK, CommandTypeOK,
        StartsReached
  <2> QED
    BY <1>2, <1>5, <2>1, <2>2, ContiguousUpload DEF Investigating
<1>8. ASSUME UNCHANGED <<live, rounds, upPc>>,
             \/ cmdPc'[k] = "over"
             \/ cmdPc[k] = "copy" /\ cmdPc'[k] = "round" /\ cmdTarget'[k] = cmdTarget[k]
                                 /\ cmdRound'[k] = cmdRound[k]
             \/ cmdPc[k] \in Investigating /\ cmdPc'[k] \in Investigating
                    /\ cmdTarget'[k] = cmdTarget[k] /\ cmdRound'[k] = cmdRound[k]
             \/ cmdPc'[k] = "count" /\ cmdTarget'[k] \in live
             \/ cmdPc[k] = "count" /\ cmdPc'[k] \in Investigating
                    /\ cmdTarget'[k] = cmdTarget[k]
                    /\ cmdRound'[k] = RoundCount(cmdTarget[k]) + 1
      PROVE  IdsAreFresh' /\ StartsReached' /\ RoundsContiguous'
  <2>1. \A t \in Sessions : RoundsOf(t)' = RoundsOf(t)
    BY <1>8 DEF RoundsOf
  <2>2. RoundsContiguous'
    BY <1>8 DEF RoundsContiguous, RoundsOf
  <2>3. cmdPc'[k] \notin {"ready", "upload", "over"} => upPc'[cmdTarget'[k]] = "over"
    BY <1>3, <1>8 DEF IdsAreFresh, Investigating
  <2>4. ASSUME NEW t \in live', cmdPc'[k] \in Investigating, cmdTarget'[k] = t
        PROVE  1..(cmdRound'[k] - 1) \subseteq RoundsOf(t)
    <3>1. CASE cmdPc[k] = "copy"
      BY <1>8, <2>4, <3>1 DEF StartsReached, Investigating
    <3>2. CASE cmdPc[k] \in Investigating
      BY <1>8, <2>4, <3>2 DEF StartsReached, Investigating
    <3>3. CASE cmdPc[k] = "count"
      <4>1. PICK n \in 0..MaxRound : RoundsOf(t) = 1..n
        BY <1>8, <2>4, <3>3 DEF RoundsContiguous
      <4>2. cmdRound'[k] - 1 = n
        BY <1>8, <2>4, <3>3, <4>1, ContiguousCount DEF Investigating
      <4> QED
        BY <1>8, <2>4, <3>3, <4>1, <4>2 DEF Investigating
    <3> QED
      BY <1>8, <2>4, <3>1, <3>2, <3>3 DEF Investigating
  <2>5. cmdPc'[k] \notin {"ready", "upload", "copy"}
    BY <1>8 DEF Investigating
  <2>6. \A t \in Sessions : upPc'[t] # "over" => t \notin live' /\ RoundsOf(t)' = {}
    BY <1>8, <2>1 DEF IdsAreFresh
  <2> QED
    BY <1>3, <1>5, <1>8, <2>1, <2>2, <2>3, <2>4, <2>5, <2>6
<1>9. CASE \/ CopyCapture(k) \/ CountForCommand(k) \/ CommandSetUpFails(k)
           \/ CommandCollects(k) \/ CommandRoundFails(k)
  <2> USE DEF CommandGoes, CommandOver, Investigating, TypeInv, TypeOK, CommandTypeOK, uploadVars,
              storeVars, tableVars, historyVars, sessionVars
  <2>1. CASE CopyCapture(k) \/ CountForCommand(k)
    BY <1>8, <2>1 DEF CopyCapture, CountForCommand
  <2>2. CASE CommandSetUpFails(k) \/ CommandRoundFails(k)
    BY <1>8, <2>2 DEF CommandSetUpFails, CommandRoundFails, StatementFails
  <2>3. CASE CommandCollects(k)
    BY <1>8, <2>3, StoreAssumption DEF CommandCollects, MaySnapshot, SaveSnapshot
  <2> QED
    BY <1>9, <2>1, <2>2, <2>3
<1>10. ASSUME NEW s \in Sessions, ResumeSession(k, s)
       PROVE  IdsAreFresh' /\ StartsReached' /\ RoundsContiguous'
  BY <1>8, <1>10
  DEF ResumeSession, HasCapture, CommandGoes, TypeInv, TypeOK, CommandTypeOK, uploadVars,
      storeVars, tableVars, historyVars, sessionVars
<1>11. CASE CommandRound(k)
  <2>1. PICK t \in Sessions, r \in RoundNo :
            t = cmdTarget[k] /\ r = cmdRound[k] /\ cmdPc[k] = "round" /\ upPc[t] = "over"
    BY <1>3, <1>11 DEF CommandRound, IdsAreFresh
  <2>2. PICK fk \in BOOLEAN : SaveRound(t, r, k, fk)
    BY <1>11, <2>1, StoreAssumption DEF CommandRound
  <2>3. k \in Writers /\ (t \in live => 1..(r - 1) \subseteq RoundsOf(t))
    BY <2>1 DEF StartsReached, Writers, Investigating
  <2>4. /\ RoundsContiguous' /\ live' = live
        /\ RoundsOf(t)' = RoundsOf(t) \cup {r}
        /\ \A s \in Sessions \ {t} : RoundsOf(s)' = RoundsOf(s)
    BY <1>3, <2>1, <2>2, <2>3, NextInLine
  <2>5. /\ upPc' = upPc
        /\ \/ cmdPc'[k] = "over"
           \/ cmdPc'[k] = "key_findings" /\ cmdTarget'[k] = t /\ cmdRound'[k] = r + 1
    BY <1>11, <2>1
    DEF CommandRound, CommandGoes, CommandOver, uploadVars, TypeInv, TypeOK, CommandTypeOK
  <2>6. t \in live => 1..((r + 1) - 1) \subseteq RoundsOf(t)'
    <3>1. 1..((r + 1) - 1) = 1..(r - 1) \cup {r}
      BY <2>1 DEF RoundNo
    <3> QED
      BY <2>3, <2>4, <3>1
  <2> QED
    BY <1>5, <2>1, <2>4, <2>5, <2>6 DEF Investigating, IdsAreFresh
<1> QED
  BY <1>2, <1>6, <1>7, <1>9, <1>10, <1>11 DEF CommandStep

LEMMA ContiguousStep == ContiguousInv /\ [Next]_vars => ContiguousInv'
<1> SUFFICES ASSUME ContiguousInv, [Next]_vars PROVE ContiguousInv'
  OBVIOUS
<1>1. TypeInv'
  BY TypeInvStep DEF ContiguousInv
<1>2. CASE UploadNext
  <2>1. PICK s \in Sessions : UploadStep(s) /\ UNCHANGED <<requestVars, commandVars>>
    BY <1>2 DEF UploadNext
  <2>2. /\ RoundsContiguous'
        /\ \A t \in Sessions : upPc'[t] # "over" => t \notin live' /\ RoundsOf(t)' = {}
        /\ \A t \in Sessions : upPc[t] = "over" =>
                upPc'[t] = "over" /\ RoundsOf(t)' = RoundsOf(t) /\ (t \in live' <=> t \in live)
    BY <1>1, <2>1, ContiguousUpload DEF UploadStep
  <2>3. /\ UNCHANGED requestVars
        /\ \A k \in Commands : UNCHANGED <<cmdPc[k], cmdTarget[k], cmdRound[k]>>
    BY <2>1 DEF commandVars
  <2> QED
    BY <1>1, <2>2, <2>3, RequestsUndisturbed, CommandsUndisturbed
    DEF ContiguousInv, IdsAreFresh, StartsReached
<1>3. CASE AnalyzeNext
  BY <1>1, <1>3, ContiguousAnalyze DEF ContiguousInv
<1>4. CASE CommandNext
  BY <1>1, <1>4, ContiguousCommand DEF ContiguousInv
<1>5. CASE HandleDeleteSession
  <2>1. PICK s \in Sessions, fk \in BOOLEAN :
            DeleteSession(s, fk) /\ UNCHANGED <<uploadVars, requestVars, commandVars>>
    BY <1>5, StoreAssumption DEF HandleDeleteSession
  <2>2. /\ live' = live \ {s}
        /\ \A t \in Sessions \ {s} : RoundsOf(t)' = RoundsOf(t)
        /\ RoundsOf(s)' \subseteq RoundsOf(s)
    BY <2>1 DEF DeleteSession, NoRounds, RoundsOf, ContiguousInv, TypeInv, TypeOK, StoreTypeOK
  <2> QED
    BY <1>1, <2>1, <2>2
    DEF ContiguousInv, IdsAreFresh, StartsReached, RoundsContiguous, uploadVars, requestVars,
        commandVars, Numbered, Streaming, Flushing, Investigating, TypeInv, TypeOK, StoreTypeOK
<1>6. CASE HandleDeletePcap \/ Shutdown \/ UNCHANGED vars
  <2>1. UNCHANGED <<live, rounds, uploadVars, requestVars, commandVars>>
    BY <1>6
    DEF HandleDeletePcap, DeletePcapFile, Shutdown, Close, vars, storeVars, tableVars,
        historyVars, sessionVars
  <2> QED
    BY <1>1, <2>1
    DEF ContiguousInv, IdsAreFresh, StartsReached, RoundsContiguous, RoundsOf, uploadVars,
        requestVars, commandVars, Numbered, Streaming, Flushing, Investigating
<1>7. CASE Restart
  <2>1. /\ UNCHANGED <<live, rounds, target, start, commandVars>>
        /\ \A q \in Requests : pc'[q] \in {"ready", "over"}
        /\ \A s \in Sessions : upPc'[s] = "over" \/ upPc'[s] = upPc[s]
    BY <1>7 DEF Restart, Reopen, RequestsDie, UploadsDie, historyVars
  <2> QED
    BY <1>1, <2>1
    DEF ContiguousInv, IdsAreFresh, StartsReached, RoundsContiguous, RoundsOf, commandVars,
        Numbered, Streaming, Flushing, Investigating, TypeInv, CommandKeys
<1>8. CASE CommandStop
  <2>1. PICK k \in Commands : CommandStops(k) /\ UNCHANGED requestVars
    BY <1>8 DEF CommandStop
  <2>2. /\ UNCHANGED <<live, rounds, requestVars>>
        /\ \A j \in Commands \ {k} : UNCHANGED <<cmdPc[j], cmdTarget[j], cmdRound[j]>>
        /\ cmdPc'[k] = "over"
        /\ \A s \in Sessions : upPc'[s] = "over" \/ upPc'[s] = upPc[s]
    BY <2>1
    DEF CommandStops, CommandOver, CommandGoes, UploadsDie, storeVars, tableVars, historyVars,
        sessionVars, ContiguousInv, TypeInv, TypeOK, CommandTypeOK
  <2>3. /\ RoundsContiguous' /\ (\A s \in Sessions : RoundsOf(s)' = RoundsOf(s))
        /\ \A s \in Sessions : upPc[s] = "over" => upPc'[s] = "over"
    BY <2>2 DEF ContiguousInv, RoundsContiguous, RoundsOf
  <2> DEFINE K == Commands \ {k}
  <2>4. K \in SUBSET Commands /\ \A j \in K : cmdPc'[j] = cmdPc[j] /\ cmdTarget'[j] = cmdTarget[j]
                                               /\ cmdRound'[j] = cmdRound[j]
    BY <2>2
  <2> HIDE DEF K
  <2>5. \A j \in K :
            /\ cmdPc'[j] \notin {"ready", "upload", "over"} => upPc'[cmdTarget'[j]] = "over"
            /\ \A s \in live' : cmdPc'[j] \in Investigating /\ cmdTarget'[j] = s =>
                    1..(cmdRound'[j] - 1) \subseteq RoundsOf(s)'
            /\ cmdPc'[j] \in {"ready", "upload", "copy"} => cmdRound'[j] = 1
    BY <2>2, <2>3, <2>4, CommandsUndisturbed
  <2>6. \A q \in Requests :
            /\ pc'[q] \notin {"ready", "over"} => upPc'[target'[q]] = "over"
            /\ \A s \in live' : pc'[q] \in Numbered /\ target'[q] = s =>
                    1..(start'[q] - 1) \subseteq RoundsOf(s)'
    BY <2>2, <2>3, RequestsUndisturbed
  <2>7. IdsAreFresh'
    BY <2>2, <2>3, <2>5, <2>6 DEF ContiguousInv, IdsAreFresh, K
  <2>8. StartsReached'
    BY <2>2, <2>5, <2>6 DEF StartsReached, Investigating, K
  <2> QED
    BY <1>1, <2>3, <2>7, <2>8 DEF ContiguousInv
<1> QED
  BY <1>2, <1>3, <1>4, <1>5, <1>6, <1>7, <1>8 DEF Next

\* The rounds of every session are numbered 1, 2, ..., k: whatever requests
\* and commands race for the next number, fail half-way or die with the process, the round
\* that is inserted is always the one after the last (handler_analyze.go:61).
THEOREM RoundsAreContiguous == Spec => []RoundsContiguous
<1>1. ContiguousInv => RoundsContiguous
  BY DEF ContiguousInv
<1> QED
  BY ContiguousInit, ContiguousStep, <1>1, PTL DEF Spec

----------------------------------------------------------------------------
(* Uploads and deletions of captures.                                      *)

\* An id with a row was handed out, and pcap_files hands no id out twice.
IdsHandedOut == \A p \in Pcaps : pcapFiles[p] # None => p \in usedPcaps

\* The id an upload holds is that of its content, or of a row deleted since.
UploadsHoldTheirs ==
    \A s \in Sessions : upPc[s] = "create" =>
        /\ upPcap[s] \in usedPcaps
        /\ pcapFiles[upPcap[s]] \in {upContent[s], None}

SessionsHoldTheirs ==
    \A s \in live : pcapOf[s] # None => pcapOf[s] \in usedPcaps

\* The contents an upload holds do not change any more once its session is there.
UploadIsOver == \A s \in live : upPc[s] = "over"

Captures == IdsHandedOut /\ UploadsHoldTheirs /\ SessionsHoldTheirs /\ UploadIsOver
                /\ SessionHasItsCapture

CaptureInv == TypeInv /\ Captures

LEMMA CaptureInit == Init => CaptureInv
BY TypeInvInit
DEF Init, StoreInit, UploadInit, CaptureInv, Captures, IdsHandedOut, UploadsHoldTheirs,
    SessionsHoldTheirs, UploadIsOver, SessionHasItsCapture

\* A step that touches no capture and makes no session, and that does no more
\* to uploads than to end them.
CapturesStay ==
    /\ UNCHANGED <<pcapFiles, usedPcaps, pcapOf, upContent, upPcap>>
    /\ live' \subseteq live
    /\ \A s \in Sessions : upPc'[s] \in {upPc[s], "over"}

LEMMA CaptureQuiet ==
    ASSUME CaptureInv, CapturesStay
    PROVE  Captures'
<1> USE DEF CaptureInv, Captures, CapturesStay
<1>1. live \subseteq Sessions
  BY DEF TypeInv, TypeOK, StoreTypeOK
<1>2. IdsHandedOut'
  BY DEF IdsHandedOut
<1>3. UploadsHoldTheirs'
  BY DEF UploadsHoldTheirs
<1>4. SessionsHoldTheirs' /\ UploadIsOver' /\ SessionHasItsCapture'
  BY <1>1 DEF SessionsHoldTheirs, UploadIsOver, SessionHasItsCapture
<1> QED
  BY <1>2, <1>3, <1>4

\* The statements of an upload.
LEMMA CaptureUpload ==
    ASSUME CaptureInv, NEW s \in Sessions, NEW by \in Commands \cup {None},
           LookUpPcap(s, by) \/ UploadStatement(s) \/ UploadDisconnects(s)
    PROVE  Captures'
<1> USE StoreAssumption
    DEF TypeInv, TypeOK, StoreTypeOK, UploadTypeOK, UploadKeys,
        UploadGoes, storeVars, tableVars, historyVars, sessionVars, pcapVars
<1>1. CASE LookUpPcap(s, by)
  <2>1. /\ UNCHANGED <<pcapFiles, usedPcaps, pcapOf, live>>
        /\ s \notin live
        /\ \A t \in Sessions \ {s} :
                upPc'[t] = upPc[t] /\ upContent'[t] = upContent[t] /\ upPcap'[t] = upPcap[t]
    BY <1>1 DEF LookUpPcap, CaptureInv, Captures, UploadIsOver
  <2>2. upPc'[s] = "create" =>
            /\ upPcap'[s] \in usedPcaps
            /\ pcapFiles[upPcap'[s]] = upContent'[s]
    BY <1>1 DEF LookUpPcap, StoredWith, CaptureInv, Captures, IdsHandedOut
  <2>3. UploadsHoldTheirs'
    BY <2>1, <2>2 DEF CaptureInv, Captures, UploadsHoldTheirs
  <2>4. IdsHandedOut' /\ SessionsHoldTheirs'
    BY <2>1 DEF CaptureInv, Captures, IdsHandedOut, SessionsHoldTheirs
  <2>5. UploadIsOver' /\ SessionHasItsCapture'
    <3>1. ASSUME NEW t \in live
          PROVE  upPc'[t] = upPc[t] /\ upContent'[t] = upContent[t]
      BY <2>1 DEF CaptureInv
    <3> QED
      BY <2>1, <3>1 DEF CaptureInv, Captures, UploadIsOver, SessionHasItsCapture
  <2> QED
    BY <2>3, <2>4, <2>5 DEF Captures
<1>2. CASE InsertPcap(s)
  <2>1. PICK p \in Pcaps : InsertPcapRow(p, upContent[s]) /\ upPcap' = [upPcap EXCEPT ![s] = p]
    BY <1>2 DEF InsertPcap
  <2>2. /\ p \notin usedPcaps
        /\ pcapFiles' = [pcapFiles EXCEPT ![p] = upContent[s]]
        /\ usedPcaps' = usedPcaps \cup {p}
        /\ UNCHANGED <<live, pcapOf, upContent>>
        /\ upPc' = [upPc EXCEPT ![s] = "create"]
        /\ upPc[s] = "insert"
    BY <1>2, <2>1 DEF InsertPcap, InsertPcapRow
  <2>3. IdsHandedOut'
    BY <2>2 DEF CaptureInv, Captures, IdsHandedOut
  <2>4. UploadsHoldTheirs'
    BY <2>1, <2>2 DEF CaptureInv, Captures, UploadsHoldTheirs
  <2>5. SessionsHoldTheirs' /\ UploadIsOver'
    BY <2>2 DEF CaptureInv, Captures, SessionsHoldTheirs, UploadIsOver
  <2>6. SessionHasItsCapture'
    <3>1. ASSUME NEW t \in live, pcapOf[t] # None
          PROVE  pcapFiles'[pcapOf[t]] = pcapFiles[pcapOf[t]]
      <4>1. pcapOf[t] \in Pcaps \ {p}
        BY <2>2, <3>1 DEF CaptureInv, Captures, SessionsHoldTheirs
      <4> QED
        BY <2>2, <4>1 DEF CaptureInv
    <3> QED
      BY <2>2, <3>1 DEF CaptureInv, Captures, SessionHasItsCapture
  <2> QED
    BY <2>3, <2>4, <2>5, <2>6 DEF Captures
<1>3. CASE CreateUploadSession(s)
  <2>1. PICK fk \in FkModes : CreateSession(s, upPcap[s], upBy[s], fk)
    BY <1>3 DEF CreateUploadSession
  <2>2. /\ live' = live \cup {s}
        /\ pcapOf' = [pcapOf EXCEPT ![s] = upPcap[s]]
        /\ fk => pcapFiles[upPcap[s]] # None
        /\ UNCHANGED <<pcapFiles, usedPcaps, upContent, upPcap>>
        /\ upPc[s] = "create"
        /\ upPc' = [upPc EXCEPT ![s] = "over"]
    BY <1>3, <2>1 DEF CreateUploadSession, CreateSession
  <2>3. IdsHandedOut' /\ UploadsHoldTheirs'
    BY <2>2 DEF CaptureInv, Captures, IdsHandedOut, UploadsHoldTheirs
  <2>4. SessionsHoldTheirs' /\ UploadIsOver'
    BY <2>2 DEF CaptureInv, Captures, UploadsHoldTheirs, SessionsHoldTheirs, UploadIsOver
  <2>5. pcapFiles[upPcap[s]] = upContent[s] \/ (pcapFiles[upPcap[s]] = None /\ FALSE \in FkModes)
    <3>1. pcapFiles[upPcap[s]] \in {upContent[s], None}
      BY <2>2 DEF CaptureInv, Captures, UploadsHoldTheirs
    <3>2. ~fk => fk = FALSE
      BY <2>1
    <3> QED
      BY <2>1, <2>2, <3>1, <3>2
  <2>6. SessionHasItsCapture'
    <3>1. pcapOf'[s] = upPcap[s]
      BY <2>2 DEF CaptureInv
    <3>2. ASSUME NEW t \in live', t # s
          PROVE  t \in live /\ pcapOf'[t] = pcapOf[t]
      BY <2>2, <3>2 DEF CaptureInv
    <3>3. \A t \in live : pcapOf[t] # None =>
            \/ pcapFiles[pcapOf[t]] = upContent[t]
            \/ pcapFiles[pcapOf[t]] = None /\ FALSE \in FkModes
      BY DEF CaptureInv, Captures, SessionHasItsCapture
    <3>4. pcapFiles' = pcapFiles /\ upContent' = upContent /\ live' = live \cup {s}
      BY <2>2
    <3>5. ASSUME NEW t \in live', pcapOf'[t] # None
          PROVE  \/ pcapFiles'[pcapOf'[t]] = upContent'[t]
                 \/ pcapFiles'[pcapOf'[t]] = None /\ FALSE \in FkModes
      BY <2>5, <3>1, <3>2, <3>3, <3>4, <3>5
    <3> QED
      BY <3>5 DEF SessionHasItsCapture
  <2> QED
    BY <2>3, <2>4, <2>6 DEF Captures
<1>4. CASE InsertPcapFails(s) \/ CreateUploadSessionFails(s) \/ UploadDisconnects(s)
  <2>1. UNCHANGED storeVars /\ UNCHANGED upPcap /\ UploadGoes(s, "over")
    BY <1>4 DEF InsertPcapFails, CreateUploadSessionFails, UploadDisconnects, StatementFails
  <2>2. CapturesStay
    BY <2>1 DEF CapturesStay, CaptureInv
  <2> QED
    BY <2>2, CaptureQuiet
<1> QED
  BY <1>1, <1>2, <1>3, <1>4 DEF UploadStatement

\* A capture is deleted: its id is not used again, and a connection that
\* enforces foreign keys clears the references to it.
LEMMA CaptureDeleted ==
    ASSUME CaptureInv, HandleDeletePcap
    PROVE  Captures'
<1> USE DEF TypeInv, TypeOK, StoreTypeOK, UploadTypeOK, UploadKeys
<1>1. PICK p \in Pcaps, fk \in FkModes : DeletePcapFile(p, fk)
  BY DEF HandleDeletePcap
<1>2. /\ pcapFiles' = [pcapFiles EXCEPT ![p] = None]
      /\ pcapOf' = [s \in Sessions |-> IF fk /\ pcapOf[s] = p THEN None ELSE pcapOf[s]]
      /\ UNCHANGED <<usedPcaps, live, uploadVars>>
  BY <1>1 DEF HandleDeletePcap, DeletePcapFile
<1>3. UNCHANGED <<upPc, upContent, upPcap>>
  BY <1>2 DEF uploadVars
<1>4. IdsHandedOut' /\ UploadsHoldTheirs'
  BY <1>2, <1>3 DEF CaptureInv, Captures, IdsHandedOut, UploadsHoldTheirs
<1>5. SessionsHoldTheirs' /\ UploadIsOver'
  BY <1>2, <1>3 DEF CaptureInv, Captures, SessionsHoldTheirs, UploadIsOver
<1>6. SessionHasItsCapture'
  <2>1. ASSUME NEW s \in live, pcapOf'[s] # None
        PROVE  \/ pcapFiles'[pcapOf'[s]] = upContent[s]
               \/ pcapFiles'[pcapOf'[s]] = None /\ FALSE \in FkModes
    <3>1. s \in Sessions /\ pcapOf[s] \in Pcaps /\ pcapOf'[s] = pcapOf[s]
      BY <1>2, <2>1 DEF CaptureInv
    <3>2. CASE pcapOf[s] = p
      <4>1. ~fk
        BY <1>2, <2>1, <3>1, <3>2, StoreAssumption
      <4>2. fk = FALSE
        BY <4>1, StoreAssumption
      <4>3. pcapFiles'[p] = None
        BY <1>2 DEF CaptureInv
      <4> QED
        BY <3>1, <3>2, <4>2, <4>3
    <3>3. CASE pcapOf[s] # p
      BY <1>2, <2>1, <3>1, <3>3 DEF CaptureInv, Captures, SessionHasItsCapture
    <3> QED
      BY <3>2, <3>3
  <2> QED
    BY <1>2, <1>3, <2>1 DEF SessionHasItsCapture
<1> QED
  BY <1>4, <1>5, <1>6 DEF Captures

\* Requests and the commands behind their upload touch no capture.
LEMMA CaptureRequest ==
    ASSUME CaptureInv, AnalyzeNext
    PROVE  CapturesStay
<1>1. PICK q \in Requests : AnalyzeStep(q) /\ UNCHANGED uploadVars
  BY DEF AnalyzeNext, RequestRuns
<1>2. UNCHANGED <<pcapFiles, usedPcaps, pcapOf, live>>
  <2> USE DEF StatementFails, storeVars, tableVars, historyVars, sessionVars, pcapVars
  <2>1. CASE \/ \E s \in Sessions : GetSession(q, s)
             \/ GetSessionFails(q) \/ CountRounds(q) \/ CountRoundsFails(q)
             \/ SetUp(q) \/ SetUpFails(q) \/ Disconnect(q)
    BY <2>1
    DEF GetSession, GetSessionFails, CountRounds, CountRoundsFails, SetUp, SetUpFails, Disconnect
  <2>2. CASE \/ CollectFails(q) \/ CollectScope(q) \/ RunRound(q) \/ RunRoundFails(q)
    BY <2>2 DEF CollectFails, CollectScope, RunRound, RunRoundFails, StreamEnds, MaySnapshot,
                SaveSnapshot
  <2>3. CASE \/ FlushEvent(q) \/ FlushRound(q) \/ FlushQuery(q)
             \/ FlushTitle(q) \/ FlushStatus(q) \/ FlushFails(q)
    BY <2>3 DEF FlushEvent, FlushRound, FlushQuery, FlushTitle, FlushStatus, FlushFails,
                InsertEvent, SaveRound, SaveRoundQuery, UpdateSessionTitle, UpdateSessionStatus
  <2> QED
    BY <1>1, <2>1, <2>2, <2>3 DEF AnalyzeStep
<1> QED
  BY <1>1, <1>2 DEF CapturesStay, uploadVars

LEMMA CaptureCommand ==
    ASSUME CaptureInv, CommandNext
    PROVE  Captures'
<1>1. PICK k \in Commands : CommandStep(k)
  BY DEF CommandNext, CommandRuns
<1>2. ASSUME NEW s \in Sessions, AnalyzeCapture(k, s)
      PROVE  Captures'
  BY <1>2, CaptureUpload DEF AnalyzeCapture
<1>3. CASE CommandUploads(k)
  <2>1. cmdTarget[k] \in Sessions
    BY <1>3 DEF CommandUploads, CaptureInv, TypeInv, CommandKeys
  <2> QED
    BY <1>3, <2>1, CaptureUpload DEF CommandUploads
<1>4. CASE \/ CopyCapture(k) \/ CountForCommand(k) \/ CommandSetUpFails(k)
           \/ CommandCollects(k) \/ CommandRound(k) \/ CommandRoundFails(k)
           \/ \E s \in Sessions : ResumeSession(k, s)
  <2>1. CapturesStay
    BY <1>4
    DEF CopyCapture, CountForCommand, CommandSetUpFails, CommandCollects, CommandRound,
        CommandRoundFails, ResumeSession, MaySnapshot, SaveSnapshot, SaveRound, StatementFails,
        CapturesStay, storeVars, tableVars, historyVars, sessionVars, pcapVars, uploadVars
  <2> QED
    BY <2>1, CaptureQuiet
<1> QED
  BY <1>1, <1>2, <1>3, <1>4 DEF CommandStep

LEMMA CaptureStep == CaptureInv /\ [Next]_vars => CaptureInv'
<1> SUFFICES ASSUME CaptureInv, [Next]_vars PROVE Captures'
  BY TypeInvStep DEF CaptureInv
<1> USE DEF storeVars, tableVars, historyVars, sessionVars, pcapVars, uploadVars
<1>1. CASE UploadNext
  <2>1. PICK s \in Sessions : UploadStep(s)
    BY <1>1 DEF UploadNext
  <2> QED
    BY <2>1, CaptureUpload DEF UploadStep
<1>2. CASE AnalyzeNext
  BY <1>2, CaptureRequest, CaptureQuiet
<1>3. CASE CommandNext
  BY <1>3, CaptureCommand
<1>4. CASE HandleDeletePcap
  BY <1>4, CaptureDeleted
<1>5. CASE HandleDeleteSession \/ Shutdown
  <2>1. CapturesStay
    BY <1>5 DEF HandleDeleteSession, DeleteSession, Shutdown, Close, CapturesStay
  <2> QED
    BY <2>1, CaptureQuiet
<1>6. CASE Restart \/ CommandStop
  <2>1. CapturesStay
    BY <1>6 DEF Restart, Reopen, CommandStop, CommandStops, UploadsDie, CapturesStay
  <2> QED
    BY <2>1, CaptureQuiet
<1>7. CASE UNCHANGED vars
  BY <1>7, CaptureQuiet DEF vars, CapturesStay
<1> QED
  BY <1>1, <1>2, <1>3, <1>4, <1>5, <1>6, <1>7 DEF Next

\* A session never gets another capture than the one uploaded for it: the id an
\* upload found, or was given, may lose its row before the session is created
\* (handler_pcap.go, store.go:146), and no later upload is given it again.
THEOREM SessionsHaveTheirCapture == Spec => []SessionHasItsCapture
<1>1. CaptureInv => SessionHasItsCapture
  BY DEF CaptureInv, Captures
<1> QED
  BY CaptureInit, CaptureStep, <1>1, PTL DEF Spec
=============================================================================
