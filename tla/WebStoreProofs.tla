--------------------------- MODULE WebStoreProofs ---------------------------
(***************************************************************************)
(* Theorems about WebStore, for every number of sessions, of streams and   *)
(* of awaited requests, and whatever the user does.                        *)
(***************************************************************************)
EXTENDS WebStore, TLAPS

----------------------------------------------------------------------------
(* The invariant.                                                          *)

\* A stream that was started is of a session that exists.
OwnersKnown == \A k \in Streams : stream[k] # "unused" => owner[k] \in known

OrphansStarted == \A k \in orphaned : stream[k] # "unused"

\* The stream that the store can abort is of the current session; any other live
\* one is an orphan.
Controlled ==
    \A k \in Streams : Live(k) => (controller = k /\ owner[k] = current) \/ k \in orphaned

WebInv == TypeOK /\ OwnersKnown /\ OrphansStarted /\ Controlled /\ ShownIsAccounted

(* What is added to it for a user who waits for answers.                   *)

\* Only one stream is live, and no callback of an aborted one is still to come
\* while it is.
OneLiveStream ==
    \A k \in Streams : Live(k) => NextTask /\ controller = k /\ owner[k] = current

\* While an upload is awaited, no other answer is.
OneAnswerAwaited ==
    /\ managing <= 1
    /\ sending => loading /\ managing = 0
    /\ sending \/ managing > 0 => Opened /\ Answered

ScreenIsCurrent ==
    /\ \A s \in Sessions : opening[s] > 0 => s = current
    /\ shown \subseteq {current}
    /\ orphaned = {} /\ late = {}

Patient == OneLiveStream /\ OneAnswerAwaited /\ ScreenIsCurrent

----------------------------------------------------------------------------
(* Starting and aborting streams.                                          *)

LEMMA WebInit == Init => WebInv /\ Patient
<1> SUFFICES ASSUME Init PROVE WebInv /\ Patient
  OBVIOUS
<1> USE WebAssumption
<1>1. TypeOK
  <2>1. opening \in [Sessions -> 0..MaxAwaited] /\ managing \in 0..MaxAwaited
    BY DEF Init
  <2>2. /\ stream \in [Streams -> StreamStates] /\ owner \in [Streams -> known \cup {None}]
        /\ \A s \in Sessions : opening[s] > 0 => s \in known
    BY DEF Init, StreamStates
  <2> QED
    BY <2>1, <2>2 DEF Init, TypeOK
<1>2. OwnersKnown /\ OrphansStarted /\ Controlled /\ ShownIsAccounted
  BY DEF Init, OwnersKnown, OrphansStarted, Controlled, ShownIsAccounted, Live
<1>3. OneLiveStream /\ OneAnswerAwaited /\ ScreenIsCurrent
  BY DEF Init, OneLiveStream, Live, OneAnswerAwaited, ScreenIsCurrent
<1> QED
  BY <1>1, <1>2, <1>3 DEF WebInv, Patient

\* abort() leaves no live stream but orphans.
LEMMA AbortedStreams ==
    ASSUME TypeOK
    PROVE  /\ Aborted \in [Streams -> StreamStates]
           /\ \A k \in Streams : Aborted[k] = "unused" <=> stream[k] = "unused"
           /\ \A k \in Streams : k # controller => Aborted[k] = stream[k]
           /\ Controlled =>
                \A k \in Streams :
                    Aborted[k] \in {"fetching", "refused", "reading"} => k \in orphaned
           /\ OneLiveStream =>
                \A k \in Streams : Aborted[k] \notin {"fetching", "refused", "reading"}
           /\ NextTask /\ Answered => \A k \in Streams : Aborted[k] # "cancelled"
BY DEF TypeOK, Aborted, StreamStates, Controlled, OneLiveStream, Live, NextTask, Answered

\* Starting a stream for s, which is made the current session with it.
LEMMA StartedStream ==
    ASSUME WebInv, NEW s \in Sessions, StartStream(s), current' = s,
           known' = known \/ known' = known \cup {s}, s \in known', orphaned' = orphaned
    PROVE  /\ stream' \in [Streams -> StreamStates]
           /\ owner' \in [Streams -> known' \cup {None}]
           /\ controller' \in Streams \cup {None} /\ active' \in BOOLEAN
           /\ OwnersKnown' /\ OrphansStarted' /\ Controlled'
           /\ \A j \in orphaned : owner'[j] = owner[j]
           /\ OneLiveStream /\ NextTask /\ Answered => OneLiveStream'
<1>1. PICK k \in Streams :
        /\ stream[k] = "unused"
        /\ stream' = [Aborted EXCEPT ![k] = "fetching"]
        /\ owner' = [owner EXCEPT ![k] = s]
        /\ controller' = k
        /\ active' = TRUE
  BY DEF StartStream
<1>2. /\ Aborted \in [Streams -> StreamStates]
      /\ \A j \in Streams : Aborted[j] = "unused" <=> stream[j] = "unused"
      /\ \A j \in Streams :
            Aborted[j] \in {"fetching", "refused", "reading"} => j \in orphaned
      /\ OneLiveStream =>
            \A j \in Streams : Aborted[j] \notin {"fetching", "refused", "reading"}
      /\ NextTask /\ Answered => \A j \in Streams : Aborted[j] # "cancelled"
  BY AbortedStreams DEF WebInv
<1>3. owner \in [Streams -> known \cup {None}] /\ orphaned \subseteq Streams
  BY DEF WebInv, TypeOK
<1>4. stream' \in [Streams -> StreamStates] /\ owner' \in [Streams -> known' \cup {None}]
  BY <1>1, <1>2, <1>3 DEF StreamStates
<1>5. OwnersKnown' /\ OrphansStarted'
  BY <1>1, <1>2, <1>3 DEF WebInv, OwnersKnown, OrphansStarted
<1>6. Controlled'
  BY <1>1, <1>2, <1>3 DEF Controlled, Live
<1>7. \A j \in orphaned : owner'[j] = owner[j]
  BY <1>1, <1>3 DEF WebInv, OrphansStarted
<1>8. ASSUME OneLiveStream, NextTask, Answered PROVE OneLiveStream'
  <2>1. \A j \in Streams :
            j # k => stream'[j] \notin {"fetching", "refused", "reading", "cancelled"}
    BY <1>1, <1>2, <1>8
  <2>2. stream'[k] = "fetching" /\ owner'[k] = s
    BY <1>1, <1>2, <1>3
  <2> QED
    BY <1>1, <2>1, <2>2 DEF OneLiveStream, Live, NextTask
<1> QED
  BY <1>1, <1>4, <1>5, <1>6, <1>7, <1>8

\* What a callback changes, whichever stream it is of.
LEMMA CallbackOrphans ==
    ASSUME TypeOK, NEW k \in Streams, Callback(k)
    PROVE  /\ orphaned \subseteq orphaned' /\ orphaned' \subseteq Streams
           /\ \A j \in orphaned' : j \in orphaned \/ Live(j)
           /\ Controlled => \A j \in Streams : Live(j) /\ j # k => j \in orphaned'
           /\ OneLiveStream /\ orphaned = {} /\ (Live(k) \/ ~NextTask) => orphaned' = {}
BY DEF TypeOK, Callback, Controlled, OneLiveStream

----------------------------------------------------------------------------
(* Every step keeps the invariant, whatever the user does.                 *)

LEMMA WebStep == WebInv /\ [Next]_vars => WebInv'
<1> SUFFICES ASSUME WebInv, [Next]_vars PROVE WebInv'
  OBVIOUS
<1> USE WebAssumption
<1>1. ASSUME Send, UNCHANGED faults PROVE WebInv'
  <2>1. /\ current \in Sessions /\ StartStream(current) /\ current' = current /\ current \in known'
        /\ known' = known \/ known' = known \cup {current}
        /\ orphaned' = orphaned
    BY <1>1 DEF WebInv, TypeOK, Send, Click, history
  <2>2. /\ stream' \in [Streams -> StreamStates]
        /\ owner' \in [Streams -> known' \cup {None}]
        /\ controller' \in Streams \cup {None} /\ active' \in BOOLEAN
        /\ OwnersKnown' /\ OrphansStarted' /\ Controlled'
        /\ \A j \in orphaned : owner'[j] = owner[j]
    BY <2>1, StartedStream
  <2>3. TypeOK'
    BY <1>1, <2>2 DEF WebInv, TypeOK, Send, Click, uploads, history
  <2>4. ShownIsAccounted'
    BY <1>1, <2>1, <2>2 DEF WebInv, ShownIsAccounted, Send, Click, history
  <2> QED
    BY <2>2, <2>3, <2>4 DEF WebInv
<1>2. ASSUME NEW s \in Sessions \ known, Uploaded(s), UNCHANGED faults PROVE WebInv'
  <2>1. /\ s \in Sessions /\ StartStream(s) /\ current' = s /\ s \in known'
        /\ known' = known \/ known' = known \cup {s}
        /\ orphaned' = orphaned
    BY <1>2 DEF WebInv, TypeOK, Uploaded, Begin, history
  <2>2. /\ stream' \in [Streams -> StreamStates]
        /\ owner' \in [Streams -> known' \cup {None}]
        /\ controller' \in Streams \cup {None} /\ active' \in BOOLEAN
        /\ OwnersKnown' /\ OrphansStarted' /\ Controlled'
        /\ \A j \in orphaned : owner'[j] = owner[j]
    BY <2>1, StartedStream
  <2>3. TypeOK'
    BY <1>2, <2>2 DEF WebInv, TypeOK, Uploaded, Begin, uploads, history
  <2>4. ShownIsAccounted'
    BY <1>2, <2>1, <2>2 DEF WebInv, ShownIsAccounted, Uploaded, Begin, history
  <2> QED
    BY <2>2, <2>3, <2>4 DEF WebInv
<1>3. ASSUME NEW s \in Sessions \ known, ManagerUploaded(s), UNCHANGED faults PROVE WebInv'
  <2>1. /\ s \in Sessions /\ StartStream(s) /\ current' = s /\ s \in known'
        /\ known' = known \/ known' = known \cup {s}
        /\ orphaned' = orphaned
    BY <1>3 DEF WebInv, TypeOK, ManagerUploaded, Begin, history
  <2>2. /\ stream' \in [Streams -> StreamStates]
        /\ owner' \in [Streams -> known' \cup {None}]
        /\ controller' \in Streams \cup {None} /\ active' \in BOOLEAN
        /\ OwnersKnown' /\ OrphansStarted' /\ Controlled'
        /\ \A j \in orphaned : owner'[j] = owner[j]
    BY <2>1, StartedStream
  <2>3. TypeOK'
    BY <1>3, <2>2 DEF WebInv, TypeOK, ManagerUploaded, Begin, uploads, history
  <2>4. ShownIsAccounted'
    BY <1>3, <2>1, <2>2 DEF WebInv, ShownIsAccounted, ManagerUploaded, Begin, history
  <2> QED
    BY <2>2, <2>3, <2>4 DEF WebInv
<1>4. ASSUME SendFile, UNCHANGED faults PROVE WebInv'
  <2>1. TypeOK'
    BY <1>4 DEF WebInv, TypeOK, StreamStates, OwnersKnown, SendFile, Click, Settled,
       uploads, history
  <2>2. OwnersKnown' /\ OrphansStarted' /\ Controlled'
    BY <1>4 DEF WebInv, TypeOK, OwnersKnown, OrphansStarted, Controlled, Live, SendFile,
       Click, Settled, uploads, history
  <2>3. ShownIsAccounted'
    BY <1>4 DEF WebInv, TypeOK, Controlled, Live, ShownIsAccounted, SendFile, Click,
       Settled, uploads, history
  <2> QED
    BY <2>1, <2>2, <2>3 DEF WebInv
<1>5. ASSUME ManagerUpload, UNCHANGED faults PROVE WebInv'
  <2>1. TypeOK'
    BY <1>5 DEF WebInv, TypeOK, StreamStates, OwnersKnown, ManagerUpload, Click,
       Settled, uploads, history
  <2>2. OwnersKnown' /\ OrphansStarted' /\ Controlled'
    BY <1>5 DEF WebInv, TypeOK, OwnersKnown, OrphansStarted, Controlled, Live,
       ManagerUpload, Click, Settled, uploads, history
  <2>3. ShownIsAccounted'
    BY <1>5 DEF WebInv, TypeOK, Controlled, Live, ShownIsAccounted, ManagerUpload,
       Click, Settled, uploads, history
  <2> QED
    BY <2>1, <2>2, <2>3 DEF WebInv
<1>6. ASSUME Cancel, UNCHANGED faults PROVE WebInv'
  <2>1. TypeOK'
    BY <1>6, AbortedStreams DEF WebInv, TypeOK, StreamStates, Cancel, Click, Stop,
       uploads, history
  <2>2. OwnersKnown' /\ OrphansStarted'
    BY <1>6, AbortedStreams DEF WebInv, TypeOK, OwnersKnown, OrphansStarted, Live,
       Cancel, Click, Stop, uploads, history
  <2>3. Controlled'
    BY <1>6, AbortedStreams DEF WebInv, TypeOK, StreamStates, Controlled, Live, Cancel,
       Click, Stop, uploads, history
  <2>4. ShownIsAccounted'
    BY <1>6 DEF WebInv, ShownIsAccounted, Cancel, Click, Stop, uploads, history
  <2> QED
    BY <2>1, <2>2, <2>3, <2>4 DEF WebInv
<1>7. ASSUME NEW s \in known, SelectSession(s), UNCHANGED faults PROVE WebInv'
  <2>1. TypeOK'
    <3>1. /\ opening' \in [Sessions -> 0..MaxAwaited]
          /\ \A q \in Sessions : opening'[q] > 0 => q \in known
      BY <1>7 DEF WebInv, TypeOK, SelectSession, Await
    <3>2. stream' \in [Streams -> StreamStates]
      BY <1>7, AbortedStreams DEF WebInv, SelectSession
    <3> QED
      BY <1>7, <3>1, <3>2 DEF WebInv, TypeOK, SelectSession, Leave, Stop
  <2>2. OwnersKnown' /\ OrphansStarted'
    BY <1>7, AbortedStreams
       DEF WebInv, TypeOK, OwnersKnown, OrphansStarted, SelectSession, Leave
  <2>3. Controlled'
    BY <1>7, AbortedStreams
       DEF WebInv, TypeOK, Controlled, Live, SelectSession, Leave, Stop
  <2>4. ShownIsAccounted'
    BY <1>7 DEF ShownIsAccounted, SelectSession, Leave
  <2> QED
    BY <2>1, <2>2, <2>3, <2>4 DEF WebInv
<1>8. ASSUME NewSession, UNCHANGED faults PROVE WebInv'
  <2>1. TypeOK'
    BY <1>8, AbortedStreams DEF WebInv, TypeOK, StreamStates, NewSession, Click, Leave,
       Stop, uploads, history
  <2>2. OwnersKnown' /\ OrphansStarted'
    BY <1>8, AbortedStreams DEF WebInv, TypeOK, OwnersKnown, OrphansStarted, Live,
       NewSession, Click, Leave, Stop, uploads, history
  <2>3. Controlled'
    BY <1>8, AbortedStreams DEF WebInv, TypeOK, StreamStates, Controlled, Live,
       NewSession, Click, Leave, Stop, uploads, history
  <2>4. ShownIsAccounted'
    BY <1>8 DEF WebInv, ShownIsAccounted, NewSession, Click, Leave, Stop, uploads,
       history
  <2> QED
    BY <2>1, <2>2, <2>3, <2>4 DEF WebInv
<1>9. ASSUME UploadFails, UNCHANGED faults PROVE WebInv'
  <2>1. TypeOK'
    BY <1>9 DEF WebInv, TypeOK, StreamStates, OwnersKnown, UploadFails, uploads, history
  <2>2. OwnersKnown' /\ OrphansStarted' /\ Controlled'
    BY <1>9 DEF WebInv, TypeOK, OwnersKnown, OrphansStarted, Controlled, Live,
       UploadFails, uploads, history
  <2>3. ShownIsAccounted'
    BY <1>9 DEF WebInv, TypeOK, Controlled, Live, ShownIsAccounted, UploadFails,
       uploads, history
  <2> QED
    BY <2>1, <2>2, <2>3 DEF WebInv
<1>10. ASSUME ManagerUploadFails, UNCHANGED faults PROVE WebInv'
  <2>1. TypeOK'
    BY <1>10 DEF WebInv, TypeOK, StreamStates, OwnersKnown, ManagerUploadFails, uploads,
       history
  <2>2. OwnersKnown' /\ OrphansStarted' /\ Controlled'
    BY <1>10 DEF WebInv, TypeOK, OwnersKnown, OrphansStarted, Controlled, Live,
       ManagerUploadFails, uploads, history
  <2>3. ShownIsAccounted'
    BY <1>10 DEF WebInv, TypeOK, Controlled, Live, ShownIsAccounted, ManagerUploadFails,
       uploads, history
  <2> QED
    BY <2>1, <2>2, <2>3 DEF WebInv
<1>11. ASSUME NEW s \in Sessions, SessionOpened(s), UNCHANGED faults PROVE WebInv'
  <2>1. TypeOK'
    BY <1>11 DEF WebInv, TypeOK, StreamStates, OwnersKnown, SessionOpened, Answer,
       uploads, history
  <2>2. OwnersKnown' /\ OrphansStarted' /\ Controlled'
    BY <1>11 DEF WebInv, TypeOK, OwnersKnown, OrphansStarted, Controlled, Live,
       SessionOpened, Answer, uploads, history
  <2>3. ShownIsAccounted'
    BY <1>11 DEF WebInv, TypeOK, Controlled, Live, ShownIsAccounted, SessionOpened,
       Answer, uploads, history
  <2> QED
    BY <2>1, <2>2, <2>3 DEF WebInv
<1>12. ASSUME NEW s \in Sessions, SessionNotOpened(s), UNCHANGED faults PROVE WebInv'
  <2>1. TypeOK'
    BY <1>12 DEF WebInv, TypeOK, StreamStates, OwnersKnown, SessionNotOpened, Answer,
       uploads, history
  <2>2. OwnersKnown' /\ OrphansStarted' /\ Controlled'
    BY <1>12 DEF WebInv, TypeOK, OwnersKnown, OrphansStarted, Controlled, Live,
       SessionNotOpened, Answer, uploads, history
  <2>3. ShownIsAccounted'
    BY <1>12 DEF WebInv, TypeOK, Controlled, Live, ShownIsAccounted, SessionNotOpened,
       Answer, uploads, history
  <2> QED
    BY <2>1, <2>2, <2>3 DEF WebInv
<1>13. ASSUME NEW k \in Streams, Response(k), UNCHANGED faults PROVE WebInv'
  <2>1. TypeOK'
    BY <1>13 DEF WebInv, TypeOK, StreamStates, OwnersKnown, Response, StreamMoves,
       uploads, history
  <2>2. OwnersKnown' /\ OrphansStarted' /\ Controlled'
    BY <1>13 DEF WebInv, TypeOK, OwnersKnown, OrphansStarted, Controlled, Live,
       Response, StreamMoves, uploads, history
  <2>3. ShownIsAccounted'
    BY <1>13 DEF WebInv, TypeOK, Controlled, Live, ShownIsAccounted, Response,
       StreamMoves, uploads, history
  <2> QED
    BY <2>1, <2>2, <2>3 DEF WebInv
<1>14. ASSUME NEW k \in Streams, Cancelled(k), UNCHANGED faults PROVE WebInv'
  <2>1. TypeOK'
    BY <1>14, CallbackOrphans DEF WebInv, TypeOK, StreamStates, Cancelled, StreamMoves,
       Callback, Stop, uploads, history
  <2>2. OwnersKnown' /\ OrphansStarted'
    BY <1>14, CallbackOrphans DEF WebInv, TypeOK, OwnersKnown, OrphansStarted, Live,
       Cancelled, StreamMoves, Callback, Stop, uploads, history
  <2>3. Controlled'
    BY <1>14, CallbackOrphans DEF WebInv, TypeOK, StreamStates, Controlled, Live,
       Cancelled, StreamMoves, Callback, Stop, uploads, history
  <2>4. ShownIsAccounted'
    BY <1>14, CallbackOrphans DEF WebInv, ShownIsAccounted, Cancelled, StreamMoves,
       Callback, Stop, uploads, history
  <2> QED
    BY <2>1, <2>2, <2>3, <2>4 DEF WebInv
<1>15. ASSUME NEW k \in Streams, StreamFails(k), UNCHANGED faults PROVE WebInv'
  <2>1. TypeOK'
    BY <1>15, CallbackOrphans DEF WebInv, TypeOK, StreamStates, StreamFails,
       StreamMoves, Callback, Stop, uploads, history
  <2>2. OwnersKnown' /\ OrphansStarted'
    BY <1>15, CallbackOrphans DEF WebInv, TypeOK, OwnersKnown, OrphansStarted, Live,
       StreamFails, StreamMoves, Callback, Stop, uploads, history
  <2>3. Controlled'
    BY <1>15, CallbackOrphans DEF WebInv, TypeOK, StreamStates, Controlled, Live,
       StreamFails, StreamMoves, Callback, Stop, uploads, history
  <2>4. ShownIsAccounted'
    BY <1>15, CallbackOrphans DEF WebInv, ShownIsAccounted, StreamFails, StreamMoves,
       Callback, Stop, uploads, history
  <2> QED
    BY <2>1, <2>2, <2>3, <2>4 DEF WebInv
<1>16. ASSUME NEW k \in Streams, StreamEvent(k), UNCHANGED faults PROVE WebInv'
  <2>1. TypeOK'
    BY <1>16 DEF WebInv, TypeOK, StreamStates, OwnersKnown, StreamEvent, StreamMoves,
       uploads, history
  <2>2. OwnersKnown' /\ OrphansStarted' /\ Controlled'
    BY <1>16 DEF WebInv, TypeOK, OwnersKnown, OrphansStarted, Controlled, Live,
       StreamEvent, StreamMoves, uploads, history
  <2>3. ShownIsAccounted'
    BY <1>16 DEF WebInv, TypeOK, Controlled, Live, ShownIsAccounted, StreamEvent,
       StreamMoves, uploads, history
  <2> QED
    BY <2>1, <2>2, <2>3 DEF WebInv
<1>17. ASSUME NEW k \in Streams, StreamDone(k), UNCHANGED faults PROVE WebInv'
  <2>1. TypeOK'
    BY <1>17, CallbackOrphans DEF WebInv, TypeOK, StreamStates, StreamDone, StreamMoves,
       Callback, Stop, uploads, history
  <2>2. OwnersKnown' /\ OrphansStarted'
    BY <1>17, CallbackOrphans DEF WebInv, TypeOK, OwnersKnown, OrphansStarted, Live,
       StreamDone, StreamMoves, Callback, Stop, uploads, history
  <2>3. Controlled'
    BY <1>17, CallbackOrphans DEF WebInv, TypeOK, StreamStates, Controlled, Live,
       StreamDone, StreamMoves, Callback, Stop, uploads, history
  <2>4. ShownIsAccounted'
    BY <1>17, CallbackOrphans DEF WebInv, ShownIsAccounted, StreamDone, StreamMoves,
       Callback, Stop, uploads, history
  <2> QED
    BY <2>1, <2>2, <2>3, <2>4 DEF WebInv
<1>18. ASSUME NEW k \in Streams, TailFails(k), UNCHANGED faults PROVE WebInv'
  <2>1. TypeOK'
    BY <1>18, CallbackOrphans DEF WebInv, TypeOK, StreamStates, TailFails, StreamMoves,
       Callback, Stop, uploads, history
  <2>2. OwnersKnown' /\ OrphansStarted'
    BY <1>18, CallbackOrphans DEF WebInv, TypeOK, OwnersKnown, OrphansStarted, Live,
       TailFails, StreamMoves, Callback, Stop, uploads, history
  <2>3. Controlled'
    BY <1>18, CallbackOrphans DEF WebInv, TypeOK, StreamStates, Controlled, Live,
       TailFails, StreamMoves, Callback, Stop, uploads, history
  <2>4. ShownIsAccounted'
    BY <1>18, CallbackOrphans DEF WebInv, ShownIsAccounted, TailFails, StreamMoves,
       Callback, Stop, uploads, history
  <2> QED
    BY <2>1, <2>2, <2>3, <2>4 DEF WebInv
<1>19. ASSUME NEW k \in Streams, StreamCloses(k), UNCHANGED faults PROVE WebInv'
  <2>1. TypeOK'
    BY <1>19 DEF WebInv, TypeOK, StreamStates, OwnersKnown, StreamCloses, StreamMoves,
       uploads, history
  <2>2. OwnersKnown' /\ OrphansStarted' /\ Controlled'
    BY <1>19 DEF WebInv, TypeOK, OwnersKnown, OrphansStarted, Controlled, Live,
       StreamCloses, StreamMoves, uploads, history
  <2>3. ShownIsAccounted'
    BY <1>19 DEF WebInv, TypeOK, Controlled, Live, ShownIsAccounted, StreamCloses,
       StreamMoves, uploads, history
  <2> QED
    BY <2>1, <2>2, <2>3 DEF WebInv
<1>20. CASE UNCHANGED vars
  BY <1>20
     DEF vars, uploads, history, WebInv, TypeOK, OwnersKnown, OrphansStarted, Controlled,
         ShownIsAccounted, Live
<1> QED
  BY <1>1, <1>2, <1>3, <1>4, <1>5, <1>6, <1>7, <1>8, <1>9, <1>10, <1>11, <1>12, <1>13,
     <1>14, <1>15, <1>16, <1>17, <1>18, <1>19, <1>20 DEF Next

LEMMA WebAlways == Spec => []WebInv
<1>1. Init => WebInv
  BY WebInit
<1> QED
  BY <1>1, WebStep, PTL DEF Spec

----------------------------------------------------------------------------
(* A user who waits for answers.                                           *)

LEMMA PatientStep ==
    ASSUME WebInv, [Next]_vars, faults = {}, Patient
    PROVE  Patient'
<1> USE WebAssumption
<1>1. ASSUME Send PROVE Patient'
  <2>1. /\ current \in Sessions /\ StartStream(current) /\ current' = current /\ current \in known'
        /\ known' = known \/ known' = known \cup {current}
        /\ orphaned' = orphaned /\ NextTask /\ Answered
    BY <1>1 DEF WebInv, TypeOK, Patient, OneAnswerAwaited, Send, Click, history
  <2>2. OneLiveStream'
    BY <2>1, StartedStream DEF Patient
  <2>3. OneAnswerAwaited'
    BY <1>1 DEF WebInv, TypeOK, Patient, OneAnswerAwaited, Opened, Send, Click, uploads
  <2>4. ScreenIsCurrent'
    BY <1>1
       DEF WebInv, TypeOK, Patient, OneAnswerAwaited, ScreenIsCurrent, Opened, Send, Click,
           uploads, history
  <2> QED
    BY <2>2, <2>3, <2>4 DEF Patient
<1>2. ASSUME NEW s \in Sessions \ known, Uploaded(s) PROVE Patient'
  <2>1. /\ s \in Sessions /\ StartStream(s) /\ current' = s /\ s \in known'
        /\ known' = known \/ known' = known \cup {s}
        /\ orphaned' = orphaned /\ NextTask /\ Answered
    BY <1>2 DEF WebInv, TypeOK, Patient, OneAnswerAwaited, Uploaded, Begin, history
  <2>2. OneLiveStream'
    BY <2>1, StartedStream DEF Patient
  <2>3. OneAnswerAwaited'
    BY <1>2 DEF WebInv, TypeOK, Patient, OneAnswerAwaited, Opened, Uploaded, Begin, uploads
  <2>4. ScreenIsCurrent'
    BY <1>2
       DEF WebInv, TypeOK, Patient, OneAnswerAwaited, ScreenIsCurrent, Opened, Uploaded, Begin,
           uploads, history
  <2> QED
    BY <2>2, <2>3, <2>4 DEF Patient
<1>3. ASSUME NEW s \in Sessions \ known, ManagerUploaded(s) PROVE Patient'
  <2>1. /\ s \in Sessions /\ StartStream(s) /\ current' = s /\ s \in known'
        /\ known' = known \/ known' = known \cup {s}
        /\ orphaned' = orphaned /\ NextTask /\ Answered
    BY <1>3 DEF WebInv, TypeOK, Patient, OneAnswerAwaited, ManagerUploaded, Begin, history
  <2>2. OneLiveStream'
    BY <2>1, StartedStream DEF Patient
  <2>3. OneAnswerAwaited'
    BY <1>3 DEF WebInv, TypeOK, Patient, OneAnswerAwaited, Opened, ManagerUploaded, Begin, uploads
  <2>4. ScreenIsCurrent'
    BY <1>3
       DEF WebInv, TypeOK, Patient, OneAnswerAwaited, ScreenIsCurrent, Opened, ManagerUploaded, Begin,
           uploads, history
  <2> QED
    BY <2>2, <2>3, <2>4 DEF Patient
<1>4. ASSUME SendFile PROVE Patient'
  <2>1. OneLiveStream'
    BY <1>4 DEF WebInv, TypeOK, Patient, OneLiveStream, NextTask, Live, SendFile, Click,
       Settled, uploads, history
  <2>2. OneAnswerAwaited'
    BY <1>4 DEF WebInv, TypeOK, Patient, OneAnswerAwaited, Opened, Answered, SendFile,
       Click, Settled, uploads, history
  <2>3. ScreenIsCurrent'
    BY <1>4 DEF WebInv, TypeOK, Patient, OneLiveStream, ScreenIsCurrent, NextTask,
       Opened, Live, SendFile, Click, Settled, uploads, history
  <2> QED
    BY <2>1, <2>2, <2>3 DEF Patient
<1>5. ASSUME ManagerUpload PROVE Patient'
  <2>1. OneLiveStream'
    BY <1>5 DEF WebInv, TypeOK, Patient, OneLiveStream, NextTask, Live, ManagerUpload,
       Click, Settled, uploads, history
  <2>2. OneAnswerAwaited'
    BY <1>5 DEF WebInv, TypeOK, Patient, OneAnswerAwaited, Opened, Answered,
       ManagerUpload, Click, Settled, uploads, history
  <2>3. ScreenIsCurrent'
    BY <1>5 DEF WebInv, TypeOK, Patient, OneLiveStream, ScreenIsCurrent, NextTask,
       Opened, Live, ManagerUpload, Click, Settled, uploads, history
  <2> QED
    BY <2>1, <2>2, <2>3 DEF Patient
<1>6. ASSUME Cancel PROVE Patient'
  <2>1. OneLiveStream'
    BY <1>6, AbortedStreams DEF WebInv, TypeOK, Patient, OneLiveStream, NextTask, Live,
       Cancel, Click, Stop, uploads, history
  <2>2. OneAnswerAwaited'
    BY <1>6, AbortedStreams DEF WebInv, TypeOK, Patient, OneAnswerAwaited, Opened,
       Answered, Cancel, Click, Stop, uploads, history
  <2>3. ScreenIsCurrent'
    BY <1>6 DEF WebInv, TypeOK, Patient, OneLiveStream, ScreenIsCurrent, NextTask,
       Opened, Live, Cancel, Click, Stop, uploads, history
  <2> QED
    BY <2>1, <2>2, <2>3 DEF Patient
<1>7. ASSUME NEW s \in known, SelectSession(s) PROVE Patient'
  <2>1. OneLiveStream'
    BY <1>7, AbortedStreams DEF WebInv, TypeOK, Patient, OneLiveStream, NextTask, Live,
       SelectSession, Click, Settled, Leave, Await, Stop, uploads, history
  <2>2. OneAnswerAwaited'
    BY <1>7, AbortedStreams DEF WebInv, TypeOK, Patient, OneAnswerAwaited, Opened,
       Answered, SelectSession, Click, Settled, Leave, Await, Stop, uploads, history
  <2>3. ScreenIsCurrent'
    BY <1>7 DEF WebInv, TypeOK, Patient, OneLiveStream, ScreenIsCurrent, NextTask,
       Opened, Live, SelectSession, Click, Settled, Leave, Await, Stop, uploads, history
  <2> QED
    BY <2>1, <2>2, <2>3 DEF Patient
<1>8. ASSUME NewSession PROVE Patient'
  <2>1. OneLiveStream'
    BY <1>8, AbortedStreams DEF WebInv, TypeOK, Patient, OneLiveStream, NextTask, Live,
       NewSession, Click, Leave, Stop, uploads, history
  <2>2. OneAnswerAwaited'
    BY <1>8, AbortedStreams DEF WebInv, TypeOK, Patient, OneAnswerAwaited, Opened,
       Answered, NewSession, Click, Leave, Stop, uploads, history
  <2>3. ScreenIsCurrent'
    BY <1>8 DEF WebInv, TypeOK, Patient, OneLiveStream, ScreenIsCurrent, NextTask,
       Opened, Live, NewSession, Click, Leave, Stop, uploads, history
  <2> QED
    BY <2>1, <2>2, <2>3 DEF Patient
<1>9. ASSUME UploadFails PROVE Patient'
  <2>1. OneLiveStream'
    BY <1>9 DEF WebInv, TypeOK, Patient, OneLiveStream, NextTask, Live, UploadFails,
       uploads, history
  <2>2. OneAnswerAwaited'
    BY <1>9 DEF WebInv, TypeOK, Patient, OneAnswerAwaited, Opened, Answered,
       UploadFails, uploads, history
  <2>3. ScreenIsCurrent'
    BY <1>9 DEF WebInv, TypeOK, Patient, OneLiveStream, ScreenIsCurrent, NextTask,
       Opened, Live, UploadFails, uploads, history
  <2> QED
    BY <2>1, <2>2, <2>3 DEF Patient
<1>10. ASSUME ManagerUploadFails PROVE Patient'
  <2>1. OneLiveStream'
    BY <1>10 DEF WebInv, TypeOK, Patient, OneLiveStream, NextTask, Live,
       ManagerUploadFails, uploads, history
  <2>2. OneAnswerAwaited'
    BY <1>10 DEF WebInv, TypeOK, Patient, OneAnswerAwaited, Opened, Answered,
       ManagerUploadFails, uploads, history
  <2>3. ScreenIsCurrent'
    BY <1>10 DEF WebInv, TypeOK, Patient, OneLiveStream, ScreenIsCurrent, NextTask,
       Opened, Live, ManagerUploadFails, uploads, history
  <2> QED
    BY <2>1, <2>2, <2>3 DEF Patient
<1>11. ASSUME NEW s \in Sessions, SessionOpened(s) PROVE Patient'
  <2>1. OneLiveStream'
    BY <1>11 DEF WebInv, TypeOK, Patient, OneLiveStream, NextTask, Live, SessionOpened,
       Answer, uploads, history
  <2>2. OneAnswerAwaited'
    BY <1>11 DEF WebInv, TypeOK, Patient, OneAnswerAwaited, Opened, Answered,
       SessionOpened, Answer, uploads, history
  <2>3. ScreenIsCurrent'
    BY <1>11 DEF WebInv, TypeOK, Patient, OneLiveStream, ScreenIsCurrent, NextTask,
       Opened, Live, SessionOpened, Answer, uploads, history
  <2> QED
    BY <2>1, <2>2, <2>3 DEF Patient
<1>12. ASSUME NEW s \in Sessions, SessionNotOpened(s) PROVE Patient'
  <2>1. OneLiveStream'
    BY <1>12 DEF WebInv, TypeOK, Patient, OneLiveStream, NextTask, Live,
       SessionNotOpened, Answer, uploads, history
  <2>2. OneAnswerAwaited'
    BY <1>12 DEF WebInv, TypeOK, Patient, OneAnswerAwaited, Opened, Answered,
       SessionNotOpened, Answer, uploads, history
  <2>3. ScreenIsCurrent'
    BY <1>12 DEF WebInv, TypeOK, Patient, OneLiveStream, ScreenIsCurrent, NextTask,
       Opened, Live, SessionNotOpened, Answer, uploads, history
  <2> QED
    BY <2>1, <2>2, <2>3 DEF Patient
<1>13. ASSUME NEW k \in Streams, Response(k) PROVE Patient'
  <2>1. OneLiveStream'
    BY <1>13 DEF WebInv, TypeOK, Patient, OneLiveStream, NextTask, Live, Response,
       StreamMoves, uploads, history
  <2>2. OneAnswerAwaited'
    BY <1>13 DEF WebInv, TypeOK, Patient, OneAnswerAwaited, Opened, Answered, Response,
       StreamMoves, uploads, history
  <2>3. ScreenIsCurrent'
    BY <1>13 DEF WebInv, TypeOK, Patient, OneLiveStream, ScreenIsCurrent, NextTask,
       Opened, Live, Response, StreamMoves, uploads, history
  <2> QED
    BY <2>1, <2>2, <2>3 DEF Patient
<1>14. ASSUME NEW k \in Streams, Cancelled(k) PROVE Patient'
  <2>1. OneLiveStream'
    BY <1>14 DEF WebInv, TypeOK, Patient, OneLiveStream, NextTask, Live, Cancelled,
       StreamMoves, Callback, Stop, uploads, history
  <2>2. OneAnswerAwaited'
    BY <1>14 DEF WebInv, TypeOK, Patient, OneAnswerAwaited, Opened, Answered, Cancelled,
       StreamMoves, Callback, Stop, uploads, history
  <2>3. ScreenIsCurrent'
    BY <1>14, CallbackOrphans DEF WebInv, TypeOK, Patient, OneLiveStream,
       ScreenIsCurrent, NextTask, Opened, Live, Cancelled, StreamMoves, Callback, Stop,
       uploads, history
  <2> QED
    BY <2>1, <2>2, <2>3 DEF Patient
<1>15. ASSUME NEW k \in Streams, StreamFails(k) PROVE Patient'
  <2>1. OneLiveStream'
    BY <1>15 DEF WebInv, TypeOK, Patient, OneLiveStream, NextTask, Live, StreamFails,
       StreamMoves, Callback, Stop, uploads, history
  <2>2. OneAnswerAwaited'
    BY <1>15 DEF WebInv, TypeOK, Patient, OneAnswerAwaited, Opened, Answered,
       StreamFails, StreamMoves, Callback, Stop, uploads, history
  <2>3. ScreenIsCurrent'
    BY <1>15, CallbackOrphans DEF WebInv, TypeOK, Patient, OneLiveStream,
       ScreenIsCurrent, NextTask, Opened, Live, StreamFails, StreamMoves, Callback, Stop,
       uploads, history
  <2> QED
    BY <2>1, <2>2, <2>3 DEF Patient
<1>16. ASSUME NEW k \in Streams, StreamEvent(k) PROVE Patient'
  <2>1. OneLiveStream'
    BY <1>16 DEF WebInv, TypeOK, Patient, OneLiveStream, NextTask, Live, StreamEvent,
       StreamMoves, uploads, history
  <2>2. OneAnswerAwaited'
    BY <1>16 DEF WebInv, TypeOK, Patient, OneAnswerAwaited, Opened, Answered,
       StreamEvent, StreamMoves, uploads, history
  <2>3. ScreenIsCurrent'
    BY <1>16 DEF WebInv, TypeOK, Patient, OneLiveStream, ScreenIsCurrent, NextTask,
       Opened, Live, StreamEvent, StreamMoves, uploads, history
  <2> QED
    BY <2>1, <2>2, <2>3 DEF Patient
<1>17. ASSUME NEW k \in Streams, StreamDone(k) PROVE Patient'
  <2>1. OneLiveStream'
    BY <1>17 DEF WebInv, TypeOK, Patient, OneLiveStream, NextTask, Live, StreamDone,
       StreamMoves, Callback, Stop, uploads, history
  <2>2. OneAnswerAwaited'
    BY <1>17 DEF WebInv, TypeOK, Patient, OneAnswerAwaited, Opened, Answered,
       StreamDone, StreamMoves, Callback, Stop, uploads, history
  <2>3. ScreenIsCurrent'
    BY <1>17, CallbackOrphans DEF WebInv, TypeOK, Patient, OneLiveStream,
       ScreenIsCurrent, NextTask, Opened, Live, StreamDone, StreamMoves, Callback, Stop,
       uploads, history
  <2> QED
    BY <2>1, <2>2, <2>3 DEF Patient
<1>18. ASSUME NEW k \in Streams, TailFails(k) PROVE Patient'
  BY <1>18 DEF TailFails
<1>19. ASSUME NEW k \in Streams, StreamCloses(k) PROVE Patient'
  <2>1. OneLiveStream'
    BY <1>19 DEF WebInv, TypeOK, Patient, OneLiveStream, NextTask, Live, StreamCloses,
       StreamMoves, uploads, history
  <2>2. OneAnswerAwaited'
    BY <1>19 DEF WebInv, TypeOK, Patient, OneAnswerAwaited, Opened, Answered,
       StreamCloses, StreamMoves, uploads, history
  <2>3. ScreenIsCurrent'
    BY <1>19 DEF WebInv, TypeOK, Patient, OneLiveStream, ScreenIsCurrent, NextTask,
       Opened, Live, StreamCloses, StreamMoves, uploads, history
  <2> QED
    BY <2>1, <2>2, <2>3 DEF Patient
<1>20. CASE UNCHANGED vars
  BY <1>20
     DEF vars, uploads, history, Patient, OneLiveStream, OneAnswerAwaited, ScreenIsCurrent,
         Live, NextTask, Opened, Answered
<1> QED
  BY <1>1, <1>2, <1>3, <1>4, <1>5, <1>6, <1>7, <1>8, <1>9, <1>10, <1>11, <1>12, <1>13,
     <1>14, <1>15, <1>16, <1>17, <1>18, <1>19, <1>20 DEF Next

LEMMA PatientAlways == Spec => [](faults = {} => Patient)
<1>1. Init => (faults = {} => Patient)
  BY WebInit
<1>2. WebInv /\ (faults = {} => Patient) /\ [Next]_vars => (faults = {} => Patient)'
  BY PatientStep DEF Next, vars
<1> QED
  BY <1>1, <1>2, WebAlways, PTL DEF Spec

----------------------------------------------------------------------------
(* What it means for the screen.                                           *)

\* The state of the store keeps its types, whatever the user does: only sessions
\* that exist are ever current, shown, opened or streamed.
THEOREM WebTypeCorrect == Spec => []TypeOK
<1>1. WebInv => TypeOK
  BY DEF WebInv
<1> QED
  BY <1>1, WebAlways, PTL

\* Whatever the user does and whenever connections break, the stream that can
\* reach the screen is the one that the store's controller aborts, or one whose
\* controller a callback of an older stream has removed.
THEOREM StreamsAreCancellable == Spec => []CancellableUnlessOrphaned
<1>1. WebInv => CancellableUnlessOrphaned
  BY DEF WebInv, Controlled, CancellableUnlessOrphaned
<1> QED
  BY <1>1, WebAlways, PTL

\* Whatever the user does and whenever connections break, the screen is about the
\* current session, an orphaned stream or the answer that came last: streams that
\* were replaced, cancelled or left never reach it.
THEOREM ScreensAreAccounted == Spec => []ShownIsAccounted
<1>1. WebInv => ShownIsAccounted
  BY DEF WebInv
<1> QED
  BY <1>1, WebAlways, PTL

\* Only a user who does not wait for answers, or a connection that breaks behind
\* its last event, makes an orphan or a late answer: without them every live stream
\* can be cancelled, and the screen is about the current session.
THEOREM WithoutFaultsAllIsCurrent == Spec => [](CancellableWithoutFaults /\ ShownIsCurrent)
<1>1. (faults = {} => Patient) => CancellableWithoutFaults /\ ShownIsCurrent
  BY DEF Patient, OneLiveStream, ScreenIsCurrent, CancellableWithoutFaults,
         StreamIsCancellable, ShownIsCurrent
<1> QED
  BY <1>1, PatientAlways, PTL
=============================================================================
