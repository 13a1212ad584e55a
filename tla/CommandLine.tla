---------------------------- MODULE CommandLine ----------------------------
(***************************************************************************)
(* "pcapchu analyze" and "pcapchu session resume" (internal/cli): each a   *)
(* process of its own on the database file, as the server is.              *)
(*                                                                         *)
(* A command makes a session or reads one, numbers its rounds once, and    *)
(* then stores each round as soon as it is finished, with no events, no    *)
(* query and no status.                                                    *)
(***************************************************************************)
EXTENDS Upload

VARIABLES
    cmdPc,        \* where the command is
    cmdTarget,    \* its session
    cmdRound,     \* round, in the loop of RunInvestigation
    cmdEnd        \* endRound

commandVars == <<cmdPc, cmdTarget, cmdRound, cmdEnd>>

\* The stages of RunInvestigation.
Investigating == {"key_findings", "planner_history", "round"}

CommandTypeOK ==
    /\ cmdPc \in [Commands -> {"ready", "upload", "copy", "count", "over"} \cup Investigating]
    /\ cmdTarget \in [Commands -> Sessions \cup {None}]
    /\ cmdRound \in [Commands -> RoundNo]
    /\ cmdEnd \in [Commands -> RoundNo]

CommandInit ==
    /\ cmdPc = [k \in Commands |-> "ready"]
    /\ cmdTarget = [k \in Commands |-> None]
    /\ cmdRound = [k \in Commands |-> 1]
    /\ cmdEnd = [k \in Commands |-> 1]

CommandGoes(k, stage) == cmdPc' = [cmdPc EXCEPT ![k] = stage]

\* The command returns; the numbers of its rounds are of no use any more.
CommandOver(k) ==
    /\ CommandGoes(k, "over")
    /\ cmdRound' = [cmdRound EXCEPT ![k] = 1]
    /\ cmdEnd' = [cmdEnd EXCEPT ![k] = 1]
    /\ UNCHANGED cmdTarget

\* analyze --pcap: the upload of the file begins, for n rounds from round 1.
AnalyzeCapture(k, s) ==
    /\ cmdPc[k] = "ready"
    /\ LookUpPcap(s, k)
    /\ cmdTarget' = [cmdTarget EXCEPT ![k] = s]
    /\ \E n \in RoundNo : cmdEnd' = [cmdEnd EXCEPT ![k] = n]
    /\ CommandGoes(k, "upload")
    /\ UNCHANGED cmdRound

\* The upload ends with the session made, or ends the command.
CommandUploads(k) ==
    /\ cmdPc[k] = "upload"
    /\ UploadStatement(cmdTarget[k])
    /\ \/ /\ upPc'[cmdTarget[k]] # "over"
          /\ UNCHANGED commandVars
       \/ /\ cmdTarget[k] \in live'
          /\ CommandGoes(k, "copy")
          /\ UNCHANGED <<cmdTarget, cmdRound, cmdEnd>>
       \/ /\ upPc'[cmdTarget[k]] = "over" /\ cmdTarget[k] \notin live'
          /\ CommandOver(k)

\* The capture is copied into the container from the local file.
CopyCapture(k) ==
    /\ cmdPc[k] = "copy"
    /\ CommandGoes(k, "round")
    /\ UNCHANGED <<cmdTarget, cmdRound, cmdEnd, uploadVars, storeVars>>

\* Can the capture of the session be read from the database?
HasCapture(s) == s \in live /\ \E p \in Pcaps : pcapOf[s] = p /\ pcapFiles[p] # None

\* session resume, analyze --session: GetSession and, from the database,
\* CopyPcapToContainer.  Nothing but the id is kept of what they read.
ResumeSession(k, s) ==
    /\ cmdPc[k] = "ready"
    /\ HasCapture(s)
    /\ cmdTarget' = [cmdTarget EXCEPT ![k] = s]
    /\ CommandGoes(k, "count")
    /\ UNCHANGED <<cmdRound, cmdEnd, uploadVars, storeVars>>

\* The numbers of all its rounds are fixed here.
CountForCommand(k) ==
    /\ cmdPc[k] = "count"
    /\ \E r \in RoundNo, n \in RoundNo :
        /\ r = RoundCount(cmdTarget[k]) + 1      \* the bound on rounds
        /\ r <= n
        /\ cmdRound' = [cmdRound EXCEPT ![k] = r]
        /\ cmdEnd' = [cmdEnd EXCEPT ![k] = n]
        /\ CommandGoes(k, IF r > 1 THEN "key_findings" ELSE "round")
    /\ UNCHANGED <<cmdTarget, uploadVars, storeVars>>

\* No API key, no Docker, no such session, no capture, no file, no read.
CommandSetUpFails(k) ==
    /\ \/ /\ cmdPc[k] = "ready"
          /\ \E s \in Sessions : StatementFails(InvestigationMayFail \/ ~HasCapture(s))
       \/ cmdPc[k] = "copy" /\ StatementFails(InvestigationMayFail)
       \/ cmdPc[k] = "count" /\ StatementFails(RoundCount(cmdTarget[k]) = MaxRound)
    /\ CommandOver(k)
    /\ UNCHANGED uploadVars

\* collectScopedEntries and compressAndSnapshot for one scope.
CommandCollects(k) ==
    /\ cmdPc[k] \in Scopes
    /\ MaySnapshot(cmdTarget[k], cmdPc[k])
    /\ CommandGoes(k, IF cmdPc[k] = "key_findings" THEN "planner_history" ELSE "round")
    /\ UNCHANGED <<cmdTarget, cmdRound, cmdEnd, uploadVars>>

\* A round is planned, executed and, by the callback, stored; the next follows.
CommandRound(k) ==
    /\ cmdPc[k] = "round"
    /\ \E fk \in FkModes : SaveRound(cmdTarget[k], cmdRound[k], k, fk)
    /\ IF cmdRound[k] < cmdEnd[k]
         THEN /\ cmdRound' = [cmdRound EXCEPT ![k] = @ + 1]
              /\ CommandGoes(k, "key_findings")
              /\ UNCHANGED <<cmdTarget, cmdEnd>>
         ELSE CommandOver(k)
    /\ UNCHANGED uploadVars

\* The number of the round is taken, or its session is gone.
RoundRefused(k) ==
    \/ rounds[cmdTarget[k]][cmdRound[k]] # None
    \/ ParentMayFail(cmdTarget[k])

\* Mutant: a round that is refused is skipped, not the end of the loop.
CommandRoundContinues(k) ==
    /\ cmdPc[k] \in Investigating
    /\ StatementFails(cmdPc[k] = "round" /\ (InvestigationMayFail \/ RoundRefused(k)))
    /\ IF cmdPc[k] = "round" /\ cmdRound[k] < cmdEnd[k]
         THEN /\ cmdRound' = [cmdRound EXCEPT ![k] = @ + 1]
              /\ CommandGoes(k, "key_findings")
              /\ UNCHANGED <<cmdTarget, cmdEnd>>
         ELSE CommandOver(k)
    /\ UNCHANGED uploadVars

\* A read, the planner, the executor or the callback fails: RunInvestigation
\* breaks out of its loop, and the command reports the analysis as completed.
CommandRoundFails(k) ==
    /\ cmdPc[k] \in Investigating
    /\ StatementFails(cmdPc[k] = "round" /\ (InvestigationMayFail \/ RoundRefused(k)))
    /\ CommandOver(k)
    /\ UNCHANGED uploadVars

CommandStep(k) ==
    \/ \E s \in Sessions : AnalyzeCapture(k, s)
    \/ CommandUploads(k)
    \/ CopyCapture(k)
    \/ \E s \in Sessions : ResumeSession(k, s)
    \/ CountForCommand(k)
    \/ CommandSetUpFails(k)
    \/ CommandCollects(k)
    \/ CommandRound(k)
    \/ CommandRoundFails(k)

\* A signal: cleanup removes the container and closes the handle, and the next
\* statement ends the command; or the process dies.
CommandStops(k) ==
    /\ cmdPc[k] \notin {"ready", "over"}
    /\ CommandOver(k)
    /\ UploadsDie(k)
    /\ UNCHANGED storeVars
=============================================================================
