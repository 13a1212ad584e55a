------------------------------ MODULE WebStore ------------------------------
(***************************************************************************)
(* The state of the web client (web/src/lib/store.ts) and its streams      *)
(* (web/src/lib/api.ts).  The client has one thread: an action is one task *)
(* of the browser's event loop, that is, a click or the arrival of an      *)
(* answer, with all the code that runs before the next await.  Promise     *)
(* callbacks that are ready run before the next task.                      *)
(*                                                                         *)
(* What is on the screen is represented by the sessions it is about.       *)
(***************************************************************************)
EXTENDS Naturals, FiniteSets

CONSTANTS
    Sessions,       \* session ids
    MaxStreams,     \* bound on the streams that are started
    MaxAwaited,     \* bound on the requests of one kind that are awaited at once
    None,           \* null
    FaultModes      \* the sets of faults that behaviours may have

ASSUME WebAssumption ==
    /\ None \notin Sessions
    /\ MaxStreams \in Nat
    /\ MaxAwaited \in Nat \ {0}
    /\ FaultModes \subseteq SUBSET {"haste", "tail"}

VARIABLES
    faults,         \* what may happen in this behaviour; it never changes
    known,          \* the sessions that exist, which the sidebar lists
    current,        \* currentSessionId
    shown,          \* the sessions that the entries of events are about
    active,         \* sessionActive
    loading,        \* loading
    controller,     \* _abortController: the stream it aborts
    stream,         \* the state of the promise chain of each analyzeSession
    owner,          \* its session
    sending,        \* is handleSend waiting for uploadPcap?
    managing,       \* the uploads the PcapManager waits for
    opening,        \* for each session, the answers handleSelectSession waits for

    \* History: these only record what happened.
    orphaned,       \* the live streams whose controller another's callback removed
    late            \* the session on the screen whose answer came after it was left

uploads == <<sending, managing, opening>>
history == <<orphaned, late>>
vars == <<faults, known, current, shown, active, loading, controller, stream, owner,
          uploads, history>>

Streams == 1..MaxStreams

\* "cancelled": the rejection of an aborted fetch is about to be handled.
\* "ending": done was read, and the reader goes on to the end of the stream.
StreamStates ==
    {"unused", "fetching", "refused", "reading", "ending", "cancelled", "over"}

TypeOK ==
    /\ faults \in FaultModes
    /\ known \subseteq Sessions
    /\ current \in known \cup {None}
    /\ shown \subseteq known
    /\ active \in BOOLEAN
    /\ loading \in BOOLEAN
    /\ controller \in Streams \cup {None}
    /\ stream \in [Streams -> StreamStates]
    /\ owner \in [Streams -> known \cup {None}]
    /\ sending \in BOOLEAN
    /\ managing \in 0..MaxAwaited
    /\ opening \in [Sessions -> 0..MaxAwaited]
    /\ \A s \in Sessions : opening[s] > 0 => s \in known
    /\ orphaned \subseteq Streams
    /\ late \subseteq known

Init ==
    /\ faults \in FaultModes
    /\ known \in SUBSET Sessions
    /\ current = None
    /\ shown = {}
    /\ active = FALSE
    /\ loading = FALSE
    /\ controller = None
    /\ stream = [k \in Streams |-> "unused"]
    /\ owner = [k \in Streams |-> None]
    /\ sending = FALSE
    /\ managing = 0
    /\ opening = [s \in Sessions |-> 0]
    /\ orphaned = {}
    /\ late = {}

\* The next task can start: no promise callback is ready.
NextTask == \A k \in Streams : stream[k] # "cancelled"

\* Its events can still reach the screen.
Live(k) == stream[k] \in {"fetching", "refused", "reading"}

\* Nothing in the page makes a user wait for the answers that a click depends on;
\* one in haste does not.
Answered == \A k \in Streams : stream[k] \notin {"fetching", "refused"}
Opened   == \A s \in Sessions : opening[s] = 0
Settled  == Opened /\ ~sending /\ managing = 0

Click(ready) == NextTask /\ ("haste" \in faults \/ ready)

\* controller.abort().  A pending fetch rejects with AbortError, and so does
\* the text of a refusal; a reader stops without a word.
Aborted ==
    [k \in Streams |->
        IF k # controller THEN stream[k]
        ELSE CASE stream[k] \in {"fetching", "refused"} -> "cancelled"
               [] stream[k] = "reading"                 -> "over"
               [] OTHER                                 -> stream[k]]

\* Mutant: the previous stream is not aborted.
StartStreamOnly(s) ==
    \E k \in Streams :
        /\ stream[k] = "unused"
        /\ \A j \in Streams : j < k => stream[j] # "unused"
        /\ stream' = [stream EXCEPT ![k] = "fetching"]
        /\ owner' = [owner EXCEPT ![k] = s]
        /\ controller' = k
        /\ active' = TRUE

\* prev?.abort(), then analyzeSession: the fetch is under way.
StartStream(s) ==
    \E k \in Streams :
        /\ stream[k] = "unused"
        /\ \A j \in Streams : j < k => stream[j] # "unused"
        /\ stream' = [Aborted EXCEPT ![k] = "fetching"]
        /\ owner' = [owner EXCEPT ![k] = s]
        /\ controller' = k
        /\ active' = TRUE

\* set({ sessionActive: false, _abortController: null }).
Stop == active' = FALSE /\ controller' = None

\* The callbacks of stream j do so whichever stream the controller is of.
Callback(j) ==
    /\ Stop
    /\ orphaned' = orphaned \cup {k \in Streams : Live(k) /\ controller = k /\ k # j}
    /\ late' = late

----------------------------------------------------------------------------
(* Clicks.                                                                 *)

\* handleSend in a session: the query is shown, and the stream started.
Send ==
    /\ Click(Answered /\ managing = 0)
    /\ ~loading
    /\ current # None
    /\ shown' = shown \cup {current}
    /\ StartStream(current)
    /\ UNCHANGED <<known, current, loading, uploads, history>>

\* handleSend with a file: uploadPcap is awaited.
SendFile ==
    /\ Click(Answered /\ Settled)
    /\ ~loading
    /\ loading' = TRUE
    /\ sending' = TRUE
    /\ UNCHANGED <<known, current, shown, active, controller, stream, owner, managing, opening,
                   history>>

\* Files can be dropped on the PcapManager while it uploads.
ManagerUpload ==
    /\ Click(Answered /\ Settled)
    /\ managing < MaxAwaited
    /\ managing' = managing + 1
    /\ UNCHANGED <<known, current, shown, active, loading, controller, stream, owner, sending,
                   opening, history>>

\* Mutant: cancelling does not abort the stream.
CancelOnly ==
    /\ Click(TRUE)
    /\ active
    /\ Stop
    /\ UNCHANGED <<known, current, shown, loading, stream, owner, uploads, history>>

\* handleCancel; its button is there while sessionActive.
Cancel ==
    /\ Click(TRUE)
    /\ active
    /\ stream' = Aborted
    /\ Stop
    /\ UNCHANGED <<known, current, shown, loading, owner, uploads, history>>

\* set({ currentSessionId, events: [] }).
Leave(s) == current' = s /\ shown' = {} /\ late' = {} /\ orphaned' = orphaned

Await(s) == opening[s] < MaxAwaited /\ opening' = [opening EXCEPT ![s] = @ + 1]

\* Mutant: selecting a session does not abort the stream.
SelectSessionOnly(s) ==
    /\ Click(Settled)
    /\ Leave(s)
    /\ Stop
    /\ Await(s)
    /\ UNCHANGED <<known, loading, stream, owner, sending, managing>>

\* handleSelectSession, up to its await of getSession.
SelectSession(s) ==
    /\ Click(Settled)
    /\ stream' = Aborted
    /\ Leave(s)
    /\ Stop
    /\ Await(s)
    /\ UNCHANGED <<known, loading, owner, sending, managing>>

NewSession ==
    /\ Click(Opened)
    /\ stream' = Aborted
    /\ Leave(None)
    /\ Stop
    /\ UNCHANGED <<known, loading, owner, uploads>>

----------------------------------------------------------------------------
(* Answers.                                                                *)

\* A new session becomes the current one: its first query is shown, and the
\* stream started.
Begin(s) ==
    /\ current' = s
    /\ shown' = {s}
    /\ late' = {}
    /\ StartStream(s)
    /\ UNCHANGED orphaned

\* Mutant: the list of the sidebar is not refreshed.
UploadedUnlisted(s) ==
    /\ NextTask
    /\ sending
    /\ sending' = FALSE
    /\ Begin(s)
    /\ loading' = FALSE
    /\ UNCHANGED <<known, managing, opening>>

\* Mutant: the events of the session before stay on the screen.
UploadedBelow(s) ==
    /\ NextTask
    /\ sending
    /\ sending' = FALSE
    /\ known' = known \cup {s}
    /\ current' = s
    /\ shown' = shown \cup {s}
    /\ StartStream(s)
    /\ loading' = FALSE
    /\ UNCHANGED <<managing, opening, history>>

\* The rest of handleSend.
Uploaded(s) ==
    /\ NextTask
    /\ sending
    /\ sending' = FALSE
    /\ known' = known \cup {s}
    /\ Begin(s)
    /\ loading' = FALSE
    /\ UNCHANGED <<managing, opening>>

UploadFails ==
    /\ NextTask
    /\ sending
    /\ sending' = FALSE
    /\ loading' = FALSE
    /\ UNCHANGED <<known, current, shown, active, controller, stream, owner, managing, opening,
                   history>>

\* handleAnalyzeFromManager, after the PcapManager's upload.
ManagerUploaded(s) ==
    /\ NextTask
    /\ managing > 0
    /\ managing' = managing - 1
    /\ known' = known \cup {s}
    /\ Begin(s)
    /\ UNCHANGED <<loading, sending, opening>>

\* The PcapManager's upload, or its new list, fails.
ManagerUploadFails ==
    /\ NextTask
    /\ managing > 0
    /\ managing' = managing - 1
    /\ UNCHANGED <<known, current, shown, active, loading, controller, stream, owner, sending,
                   opening, history>>

Answer(s) == opening[s] > 0 /\ opening' = [opening EXCEPT ![s] = @ - 1]

\* The rest of handleSelectSession: set({ events: flat }), whichever session is
\* current by now.
SessionOpened(s) ==
    /\ NextTask
    /\ Answer(s)
    /\ shown' \in {{}, {s}}
    /\ late' = shown' \ {current}
    /\ UNCHANGED <<known, current, active, loading, controller, stream, owner, sending, managing,
                   orphaned>>

SessionNotOpened(s) ==
    /\ NextTask
    /\ Answer(s)
    /\ UNCHANGED <<known, current, shown, active, loading, controller, stream, owner, sending,
                   managing, history>>

----------------------------------------------------------------------------
(* Streams.                                                                *)

StreamMoves(k, from, to) ==
    /\ stream[k] = from
    /\ stream' = [stream EXCEPT ![k] = to]
    /\ UNCHANGED <<known, current, loading, owner, uploads>>

\* The headers are there.
Response(k) ==
    /\ NextTask
    /\ StreamMoves(k, "fetching", "reading") \/ StreamMoves(k, "fetching", "refused")
    /\ UNCHANGED <<shown, active, controller, history>>

\* .catch of an AbortError: onDone("cancelled").
Cancelled(k) ==
    /\ StreamMoves(k, "cancelled", "over")
    /\ Callback(k)
    /\ UNCHANGED shown

\* onError: a refusal, or an error of the network.  Its entry is of no session.
StreamFails(k) ==
    /\ NextTask
    /\ \E from \in {"fetching", "refused", "reading"} : StreamMoves(k, from, "over")
    /\ Callback(k)
    /\ UNCHANGED shown

\* onEvent.
StreamEvent(k) ==
    /\ NextTask
    /\ StreamMoves(k, "reading", "reading")
    /\ shown' = shown \cup {owner[k]}
    /\ UNCHANGED <<active, controller, history>>

\* onDone(status).
StreamDone(k) ==
    /\ NextTask
    /\ StreamMoves(k, "reading", "ending")
    /\ Callback(k)
    /\ UNCHANGED shown

\* The connection breaks behind the last event: onError, after onDone.
TailFails(k) ==
    /\ NextTask
    /\ "tail" \in faults
    /\ StreamMoves(k, "ending", "over")
    /\ Callback(k)
    /\ UNCHANGED shown

\* The stream is closed, with or without a done before: no callback.
StreamCloses(k) ==
    /\ NextTask
    /\ StreamMoves(k, "reading", "over") \/ StreamMoves(k, "ending", "over")
    /\ UNCHANGED <<shown, active, controller, history>>

Next ==
    /\ \/ Send
       \/ SendFile
       \/ ManagerUpload
       \/ Cancel
       \/ \E s \in known : SelectSession(s)
       \/ NewSession
       \/ \E s \in Sessions \ known : Uploaded(s)
       \/ UploadFails
       \/ \E s \in Sessions \ known : ManagerUploaded(s)
       \/ ManagerUploadFails
       \/ \E s \in Sessions : SessionOpened(s)
       \/ \E s \in Sessions : SessionNotOpened(s)
       \/ \E k \in Streams : Response(k)
       \/ \E k \in Streams : Cancelled(k)
       \/ \E k \in Streams : StreamFails(k)
       \/ \E k \in Streams : StreamEvent(k)
       \/ \E k \in Streams : StreamDone(k)
       \/ \E k \in Streams : TailFails(k)
       \/ \E k \in Streams : StreamCloses(k)
    /\ UNCHANGED faults

Spec == Init /\ [][Next]_vars

----------------------------------------------------------------------------
(* Cancelling: analyzeSession "returns an AbortController that can be used *)
(* to cancel" (api.ts:64).                                                 *)

\* A stream that can still reach the screen can be cancelled: its controller is
\* the one the store would abort.
StreamIsCancellable == NextTask => \A k \in Streams : Live(k) => controller = k

\* So it is for a user who waits for answers, where no connection breaks behind
\* its last event.
CancellableWithoutFaults == faults = {} => StreamIsCancellable

\* Whatever the user does, a live stream is out of reach for one reason only: it
\* was the store's stream when a callback of another, older one removed its
\* controller.  No click and no start of a stream leaves a live one behind.
CancellableUnlessOrphaned ==
    \A k \in Streams : Live(k) => controller = k \/ k \in orphaned

----------------------------------------------------------------------------
(* The screen.                                                             *)

\* For a user who waits for answers, the screen is about the current session
\* only, streams that were replaced, cancelled or left included.
ShownIsCurrent == faults = {} => shown \subseteq {current}

\* Whatever the user does, what is on the screen is of the current session, of
\* an orphaned stream, or the answer that came last, for a session that had been
\* left: a stream that was aborted, replaced or left never reaches it.
ShownIsAccounted == shown \subseteq {current} \cup {owner[k] : k \in orphaned} \cup late
=============================================================================
