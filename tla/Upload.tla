------------------------------- MODULE Upload -------------------------------
(***************************************************************************)
(* How a session comes to be: look the content of the capture up by its    *)
(* SHA-256, insert it if it is new, then create a session bound to it.     *)
(* Three statements, with other clients' in between, run by               *)
(* POST /api/pcap/upload (internal/server/handler_pcap.go) and by          *)
(* "pcapchu analyze" (internal/cli/analyze.go).  The upload that makes     *)
(* session s is named s.                                                   *)
(***************************************************************************)
EXTENDS Store

VARIABLES
    upPc,        \* where the upload is
    upBy,        \* the command that runs it, None for an HTTP request
    upContent,   \* the content it uploads
    upPcap       \* the handler's pcapID

uploadVars == <<upPc, upBy, upContent, upPcap>>

UploadTypeOK ==
    /\ upPc \in [Sessions -> {"idle", "insert", "create", "over"}]
    /\ upBy \in [Sessions -> Commands \cup {None}]
    /\ upContent \in [Sessions -> Contents \cup {None}]
    /\ upPcap \in [Sessions -> Pcaps \cup {None}]

UploadInit ==
    /\ upPc = [s \in Sessions |-> "idle"]
    /\ upBy = [s \in Sessions |-> None]
    /\ upContent = [s \in Sessions |-> None]
    /\ upPcap = [s \in Sessions |-> None]

\* A command has a handle on the file of its own.
HandleOpen(s) == upBy'[s] \in Commands \/ storeOpen

\* The SELECT of InsertPcapFile.  Any error of it is read as "not there".
LookUpPcap(s, by) ==
    /\ upPc[s] = "idle"
    /\ upBy' = [upBy EXCEPT ![s] = by]
    /\ \E c \in Contents :
        /\ upContent' = [upContent EXCEPT ![s] = c]
        /\ \/ \E p \in StoredWith(c) :
                /\ HandleOpen(s)
                /\ upPcap' = [upPcap EXCEPT ![s] = p]
                /\ upPc' = [upPc EXCEPT ![s] = "create"]
           \/ /\ StoredWith(c) = {} \/ ~HandleOpen(s) \/ IoMayFail
              /\ upPc' = [upPc EXCEPT ![s] = "insert"]
              /\ UNCHANGED upPcap
    /\ UNCHANGED storeVars

\* The upload goes on to stage, or is over.
UploadGoes(s, stage) ==
    /\ upPc' = [upPc EXCEPT ![s] = stage]
    /\ UNCHANGED <<upBy, upContent>>

InsertPcap(s) ==
    /\ upPc[s] = "insert"
    /\ UploadGoes(s, "create")
    /\ HandleOpen(s)
    /\ \E p \in Pcaps :
        /\ InsertPcapRow(p, upContent[s])
        /\ upPcap' = [upPcap EXCEPT ![s] = p]

InsertPcapFails(s) ==
    /\ upPc[s] = "insert"
    /\ UploadGoes(s, "over")
    /\ StatementFails(~HandleOpen(s) \/ StoredWith(upContent[s]) # {})
    /\ UNCHANGED upPcap

\* A command names the session after its query, a request leaves it unnamed.
CreateUploadSession(s) ==
    /\ upPc[s] = "create"
    /\ UploadGoes(s, "over")
    /\ HandleOpen(s)
    /\ \E fk \in FkModes : CreateSession(s, upPcap[s], upBy[s], fk)
    /\ UNCHANGED upPcap

CreateUploadSessionFails(s) ==
    /\ upPc[s] = "create"
    /\ UploadGoes(s, "over")
    /\ StatementFails(~HandleOpen(s) \/ (TRUE \in FkModes /\ pcapFiles[upPcap[s]] = None))
    /\ UNCHANGED upPcap

\* The client goes away: the statements run under the request's context.
UploadDisconnects(s) ==
    /\ upPc[s] \in {"insert", "create"}
    /\ UploadGoes(s, "over")
    /\ UNCHANGED <<upPcap, storeVars>>

\* What follows the look-up.
UploadStatement(s) ==
    \/ InsertPcap(s)
    \/ InsertPcapFails(s)
    \/ CreateUploadSession(s)
    \/ CreateUploadSessionFails(s)

\* A step of an upload over HTTP.
UploadStep(s) ==
    /\ upBy[s] = None
    /\ \/ LookUpPcap(s, None)
       \/ UploadStatement(s)
       \/ UploadDisconnects(s)

\* A process dies: the uploads it was running, those by b, are over.
UploadsDie(b) ==
    /\ upPc' = [s \in Sessions |->
                    IF upPc[s] # "idle" /\ upBy[s] = b THEN "over" ELSE upPc[s]]
    /\ UNCHANGED <<upBy, upContent, upPcap>>
=============================================================================
