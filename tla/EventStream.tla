---------------------------- MODULE EventStream ----------------------------
(***************************************************************************)
(* One analyze request seen from its SSE stream: the handler goroutine     *)
(* (internal/server/handler_analyze.go), the investigation goroutine it    *)
(* starts, the emitter between them, and a client that may leave.          *)
(* Keep-alive comments, which touch no state, are left out.                *)
(***************************************************************************)
EXTENDS InvestigationRound

Handler == "handler"
Sse     == "sse"

ASSUME StreamAssumption == Procs = {Handler, Investigation} /\ Subscribers = {Sse}

\* The handler asks for 1024 (handler_analyze.go:72): a round fits, because
\* there are fewer events than node runs but for a few, and the runs are limited
\* to 100 (executor.go:376).  Only EmitNeverBlocks depends on it, and that both
\* goroutines end.
ASSUME BufferAssumption == MaxRunSteps + 3 <= BufSize

SessionEvent   == <<"session.created", 0>>
CompletedEvent == <<"analysis.completed", 0>>

VARIABLES
    hpc,            \* where the handler is
    ipc,            \* where the investigation is
    gone,           \* has the client disconnected (r.Context() is done)?
    container,      \* the Docker container of the runtime
    errCh,          \* number of values in errCh
    collected,      \* collector.events
    flushed         \* the events handed to flush

streamVars == <<hpc, ipc, gone, container, errCh, collected, flushed>>
vars       == <<emitterVars, roundVars, streamVars>>

StreamInit ==
    /\ EmitterInit
    /\ RoundInit
    /\ hpc = "init"
    /\ ipc = "off"
    /\ gone = FALSE
    /\ container = "none"
    /\ errCh = 0
    /\ collected = <<>>
    /\ flushed = <<>>

----------------------------------------------------------------------------
(* The handler.                                                            *)

\* NewRuntime fails: an error event, and the handler returns before rt.Close is
\* deferred.  A container it had made is removed under the request's context,
\* which does nothing any more once the client has left.
InitFails ==
    /\ hpc = "init"
    /\ hpc' = "returned"
    /\ container' \in {"none", "removed"} \cup (IF gone THEN {"running"} ELSE {})
    /\ UNCHANGED <<emitterVars, ipc, gone, errCh, roundVars, collected, flushed>>

\* NewRuntime succeeds; session.created (or session.resumed) is emitted, and
\* nobody has subscribed yet.
EmitSession ==
    /\ hpc = "init"
    /\ StartEmit(Handler, SessionEvent)
    /\ emitted' = Append(emitted, SessionEvent)
    /\ hpc' = "copy"
    /\ container' = "running"
    /\ UNCHANGED <<at, steps, idx, runs, findings, captured, ipc, gone, errCh, collected, flushed>>

\* Mutant: rt.Close is deferred where the goroutine is started, too late.
CopyFailsUndeferred ==
    /\ hpc = "copy"
    /\ hpc' = "returned"
    /\ UNCHANGED <<emitterVars, ipc, gone, container, errCh, roundVars, collected, flushed>>

CopyFails ==
    /\ hpc = "copy"
    /\ hpc' = "cleanup"
    /\ UNCHANGED <<emitterVars, ipc, gone, container, errCh, roundVars, collected, flushed>>

\* The capture is in the container: subscribe, then start the goroutine.
StartStream ==
    /\ hpc = "copy"
    /\ Subscribe(Handler, Sse)
    /\ hpc' = "loop"
    /\ ipc' = "run"
    /\ UNCHANGED <<gone, container, errCh, roundVars, collected, flushed>>

\* The select of the loop: any of its ready cases may be taken.
SelectEvent ==
    /\ hpc = "loop"
    /\ Receive(Sse)
    /\ collected' = Append(collected, Head(chan[Sse]))
    /\ UNCHANGED <<hpc, ipc, gone, container, errCh, roundVars, flushed>>

SelectDisconnect ==
    /\ hpc = "loop"
    /\ gone
    /\ hpc' = "cleanup"
    /\ UNCHANGED <<emitterVars, ipc, gone, container, errCh, roundVars, collected, flushed>>

\* Mutant: the end of the stream is taken from errCh, not from the channel.
SelectResult ==
    /\ hpc = "loop"
    /\ errCh > 0
    /\ hpc' = "result"
    /\ UNCHANGED <<emitterVars, ipc, gone, container, errCh, roundVars, collected, flushed>>

SelectClosed ==
    /\ hpc = "loop"
    /\ Drained(Sse)
    /\ hpc' = "result"
    /\ UNCHANGED <<emitterVars, ipc, gone, container, errCh, roundVars, collected, flushed>>

\* runErr := <-errCh; then analysis.completed, flush and "done".
FinishStream ==
    /\ hpc = "result"
    /\ errCh > 0
    /\ errCh' = errCh - 1
    /\ collected' = Append(collected, CompletedEvent)
    /\ flushed' = collected'
    /\ hpc' = "cleanup"
    /\ UNCHANGED <<emitterVars, ipc, gone, container, roundVars>>

\* The deferred rt.Close: the sandbox is removed, then the emitter is closed.
CleanUp ==
    /\ hpc = "cleanup"
    /\ StartClose(Handler)
    /\ hpc' = "closing"
    /\ container' = "removed"
    /\ UNCHANGED <<ipc, gone, errCh, roundVars, collected, flushed>>

Return ==
    /\ hpc = "closing"
    /\ EndClose(Handler)
    /\ hpc' = "returned"
    /\ UNCHANGED <<ipc, gone, container, errCh, roundVars, collected, flushed>>

HandlerStep ==
    \/ InitFails
    \/ EmitSession
    \/ CopyFails
    \/ StartStream
    \/ SelectEvent
    \/ SelectDisconnect
    \/ SelectClosed
    \/ FinishStream
    \/ CleanUp
    \/ Return

----------------------------------------------------------------------------
(* The investigation.                                                      *)

RunRound ==
    /\ ipc = "run"
    /\ RoundStep
    /\ UNCHANGED streamVars

SendRoundEvent ==
    /\ ipc = "run"
    /\ Send(Investigation)
    /\ UNCHANGED <<roundVars, streamVars>>

\* RunInvestigation returns.
EndRun ==
    /\ ipc = "run"
    /\ at = "over"
    /\ StartClose(Investigation)
    /\ ipc' = "closing"
    /\ UNCHANGED <<hpc, gone, container, errCh, roundVars, collected, flushed>>

CloseStream ==
    /\ ipc = "closing"
    /\ EndClose(Investigation)
    /\ ipc' = "report"
    /\ UNCHANGED <<hpc, gone, container, errCh, roundVars, collected, flushed>>

\* Mutant: errCh is unbuffered, and has no receiver once the handler left.
SendResultUnbuffered ==
    /\ ipc = "report"
    /\ hpc = "result"
    /\ errCh' = errCh + 1
    /\ ipc' = "over"
    /\ UNCHANGED <<emitterVars, hpc, gone, container, roundVars, collected, flushed>>

\* errCh <- err, into a buffer of one.
SendResult ==
    /\ ipc = "report"
    /\ errCh < 1
    /\ errCh' = errCh + 1
    /\ ipc' = "over"
    /\ UNCHANGED <<emitterVars, hpc, gone, container, roundVars, collected, flushed>>

InvestigationStep ==
    \/ RunRound
    \/ SendRoundEvent
    \/ EndRun
    \/ CloseStream
    \/ SendResult

----------------------------------------------------------------------------
Disconnect ==
    /\ ~gone
    /\ hpc # "returned"
    /\ gone' = TRUE
    /\ UNCHANGED <<emitterVars, hpc, ipc, container, errCh, roundVars, collected, flushed>>

Over == hpc = "returned" /\ ipc \in {"off", "over"}

Next == HandlerStep \/ InvestigationStep \/ Disconnect

Spec == StreamInit /\ [][Next]_vars

\* Both goroutines are scheduled, and an investigation goes on until it returns.
\* The HTTP client of the model has a timeout; of Docker it is assumed that it
\* answers, and that its image is there, for NewRuntime would ask on the terminal.
FairSpec ==
    /\ Spec
    /\ WF_vars(HandlerStep)
    /\ WF_vars(InvestigationStep)

----------------------------------------------------------------------------
TypeOK ==
    /\ RoundTypeOK
    /\ emitted \in Seq(RoundEvents \cup {SessionEvent})
    /\ subs \in {<<>>, <<Sse>>}
    /\ DOMAIN chan = Subscribers
    /\ Len(chan[Sse]) <= BufSize
    /\ chanOpen \in [Subscribers -> BOOLEAN]
    /\ closed \in BOOLEAN
    /\ call \in [Procs -> {"none", "emit", "close"}]
    /\ sendTo \in [Procs -> {1}]
    /\ hpc \in {"init", "copy", "loop", "result", "cleanup", "closing", "returned"}
    /\ ipc \in {"off", "run", "closing", "report", "over"}
    /\ gone \in BOOLEAN
    /\ container \in {"none", "running", "removed"}
    /\ errCh \in 0..1

\* A goroutine about to send has an open channel: sending on a closed one
\* panics and takes the whole server down, every other request with it.
NoSendOnClosed ==
    \A g \in Procs : call[g] = "emit" => chanOpen[subs[sendTo[g]]]

\* No emit finds the channel full, even if the client has left and nobody
\* receives any more: it would keep the read lock, and the handler that closes
\* the emitter would wait for the lock for ever.
EmitNeverBlocks ==
    \A g \in Procs : call[g] = "emit" => Len(chan[subs[sendTo[g]]]) < BufSize

\* What was emitted once the handler had subscribed, in order: what the
\* collector has, then what is in the channel, then what is being sent.
StreamLosesNothing ==
    hpc = "loop" =>
        Tail(emitted) = collected \o chan[Sse] \o
            (IF call[Investigation] = "emit" THEN <<sending[Investigation]>> ELSE <<>>)

\* A flush gets the whole of the investigation's events in their order, with
\* analysis.completed at the end, although it is the closing of a channel
\* that starts it, and the channel may still be full at that moment.
FlushIsWhole ==
    flushed # <<>> => flushed = Append(Tail(emitted), CompletedEvent)

\* Both goroutines end, whichever way the stream goes: no handler waits for a
\* lock for ever, no investigation is left behind with its sandbox.
GoroutinesEnd == <>Over

\* Whichever way the handler returns, its container is gone, unless the client
\* left before the runtime was complete.
ContainerIsRemoved ==
    hpc = "returned" /\ container = "running" => gone /\ emitted = <<>>

\* The events of a round follow the script of its plan, whatever fails, and an
\* error comes last: the client derives from their order which steps are over,
\* and takes round.completed for the completion of the last one.
RoundFollowsScript ==
    LET made    == SubSeq(emitted, 2, Len(emitted))
        isError == {k \in DOMAIN made : made[k][1] \in ErrorTypes}
        regular == Len(made) - Cardinality(isError)
    IN  /\ isError = (regular + 1)..Len(made)
        /\ IsPrefix(SubSeq(made, 1, regular), Script(steps))
=============================================================================
