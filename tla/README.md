# Pcapchu: a verification project

Pcapchu answers questions about network captures. A user uploads a capture,
which makes a *session*; each question on the session runs one *round*: a
planner model writes a plan, executor models carry it out with tools in a Docker
sandbox, and the findings are stored for the rounds that follow. The program is
a Go server and a command line over one SQLite file, with a React client.

This directory holds TLA+ models of the parts of the program whose order of
events matters, TLC configurations that check them on small instances, and
proofs that TLAPS checks for every instance. Paths below are relative to the
repository.

## 1. Inventory

| Component | State | Operations | Interacts with | What is hard |
|---|---|---|---|---|
| Store, `internal/storage/store.go` | 8 SQLite tables, a connection pool | one method per statement; `New` migrates | every other part of the server, the commands | no transactions; `PRAGMA foreign_keys` holds for one connection of the pool; UNIQUE and FK errors in the middle of a series of statements; a migration whose errors are ignored |
| Capture handlers, `internal/server/handler_pcap.go` | none of their own | upload (look up by hash, insert, create session), list, delete | Store | three statements, interleaved with deletions and other uploads; client gone between two |
| Analyze handler and collector, `handler_analyze.go`, `collector.go` | `startRound`, buffered events, buffered round | read session, count rounds, stream, flush | Store, emitter, runtime, investigation goroutine | two requests on one session; disconnects; failures; death of the process inside the flush |
| Session handlers, `handler_session.go` | none | list, detail, delete | Store | a session deleted under a running request; rounds counted from different tables |
| Server lifecycle, `server.go`, `cli/serve.go` | the store, open or closed | routes, signals | all handlers | the store is closed while handlers run |
| Command line, `internal/cli` | a runtime, a database handle of its own | `analyze`, `session resume`, listing, deletion | Store, investigation loop; the server, through the file | several rounds in one run, numbered once and stored one by one; signals; a server on the same file |
| Event emitter, `internal/events/events.go` | subscribers, their channels, `closed`, an RWMutex | `Emit`, `Subscribe`, `Close` | handler and investigation goroutine | blocking send under the read lock; two closers; send on a closed channel |
| SSE stream, `sse.go` and the loop of `handleAnalyze` | collector, `errCh` | select over disconnect, keep-alive, events | emitter, client | the end of the stream, the end of the client and buffered events race |
| Investigation loop, `internal/investigation/investigation.go` | none; reads history | one round: compress history, plan, execute, hand the round over | Store, planner, executor, compressor | every failure is a `break` and the function returns nil |
| History compression, same file and `middlewares/summarizer/compressor.go` | `history_snapshots` | read snapshot and later rounds, compress, re-read, save | Store, model | the index of the last compressed entry; reads repeated after a long call |
| Runtime, `runtime.go`, `lang.go` | sandbox, agents, emitter | `NewRuntime`, `Close` | Docker, model | partial construction, clean-up under a cancelled context; process-wide callback handlers |
| Planner and executor graph, `internal/planner`, `internal/executor` | `PlanState` | loop over the steps of a plan, final summary | models, emitter | step limit of the graph; unparsable answers |
| Executor agent and conversation summarizer, `runtime.go`, `lang.go`, `middlewares/summarizer/summary.go` | the message list | hint, count, cut, summarise, keep recent | model, tools | a tool call separated from its result; a call over the limit; a summary of nothing; `Fatalf` in a request |
| Sandbox, `sandbox/` | a container | create, copy, run, remove | Docker | a container that nobody removes; oversized outputs |
| Web client state, `web/src/lib/store.ts`, `api.ts` | current session, events, abort controller | send, cancel, select, new session | HTTP API | callbacks of an aborted stream arriving late |
| Logger, HTTP client, prompts, JSON extraction, web components | | | | I/O, text and rendering |

`PROJECT.json` gives the status of each component and, under `hazards`, the
line at which each difficulty bites and the properties that watch it.

What makes each component correct:

* **Store, analyze and commands.** The rounds of a session are numbered 1..k
  without a gap, whatever races or fails. The log of a stored round is complete,
  in order and of one request. Rows are never overwritten. What did not finish
  streaming leaves no history. The title is the query of the first round, and no
  round is shown under another's query. Every request and every command ends. The
  documentation adds: a flush is atomic, a completed session has a round, and the
  next call can always run.
* **Migration.** It happens once, and no event is lost by it.
* **Uploads.** A session has the capture that was uploaded for it, or none.
* **Emitter and stream.** No send on a closed channel, nothing lost or
  reordered, a flush only of the whole stream, no goroutine and no container left
  behind.
* **Compression.** No round is skipped before a planner has read it; the snapshot
  never moves back, never runs ahead of the history, and tells what it claims.
* **Planner and executor.** The events follow the script of a plan step by step,
  the plans the comment on the step limit speaks of fit into it, and the result
  has the findings of every step.
* **Executor agent.** A conversation is cut between turns of the model only, what
  is cut does not fit, every call is within the limit or as short as it can be,
  and what is cut reaches the summary.
* **Web client.** Whatever is running can be cancelled, and the screen is about
  the session that is selected; where the code cannot promise this, what goes wrong
  has one cause.

## 2. Modules

| Module | Models | Extends |
|---|---|---|
| `Store` | the tables and every statement that is issued on them | |
| `Upload` | how a session is made, by `POST /api/pcap/upload` or by `analyze --pcap` | `Store` |
| `Analyze` | `POST /api/sessions/{id}/analyze`: handler, collector, and the statements of the investigation | `Store` |
| `CommandLine` | `pcapchu analyze` and `pcapchu session resume` | `Upload` |
| `PcapchuServer` | the composition: handlers, commands, deletions, shutdown, death and restart; the properties | `Upload`, `Analyze`, `CommandLine` |
| `RoundLog` | abstract: a session is an append-only sequence of rounds | |
| `PcapchuServerProofs` | theorems about the numbers of rounds, and about uploads and deletions of captures | `PcapchuServer`, `TLAPS` |
| `PcapchuHistoryProofs` | theorems about what is stored in a round, with faults and without | `PcapchuServerProofs` |
| `PcapchuRefinementProofs` | the refinement of `RoundLog` as a theorem | `PcapchuHistoryProofs` |
| `SchemaMigration` | `New` on a file of an older version | |
| `SchemaMigrationProofs` | theorems about the rebuild of `session_events` | `SchemaMigration` |
| `ChannelEmitter` | emitter, RWMutex and Go channels | |
| `InvestigationRound` | one round: the planner's answer, the executor's graph node by node, the events | `ChannelEmitter` |
| `EventStream` | handler goroutine, investigation goroutine, container and client around one emitter | `InvestigationRound` |
| `EventStreamProofs` | theorems about the stream, the round it carries and the emitter between them | `EventStream` |
| `ExecutorAgent` | the conversation of the agent that executes one step of a plan | |
| `ExecutorAgentProofs` | theorems about what that conversation is cut down to | `ExecutorAgent` |
| `HistoryCompression` | the compressed history of one session in one scope | |
| `HistoryCompressionProofs` | theorems about the snapshot and what is read | `HistoryCompression` |
| `WebStore` | the web client's store and its streams | |
| `WebStoreProofs` | theorems about the screen and the controller | `WebStore` |
| `MCServer`, `MCCompression`, `MCWeb` | values for TLC and symmetry | |

### Store, Upload, Analyze, CommandLine, PcapchuServer

A table is a function from its UNIQUE key to *who wrote the row*: `rounds[s][r]`,
`queries[s][r]` and `events[s][r][i]` hold the analyze request or the command
whose row is there, or `None`; `snapshots[s]` is the set of scopes that have a
row. This is all the properties tell apart: a text is the text of the writer that
produced it, and mixing shows as two writers in one place. One action is one
statement (the code uses no transaction), so writers interleave, and processes
die, between any two.

`faults` is chosen once for a behaviour, from `FaultModes`: "io" lets any
statement fail, "investigation" lets the model, the executor or Docker fail,
"stop" lets processes be stopped, die and be started again. So one run has the
behaviours with and without them, and a property may say for which it holds.
`StatementFails` is the error of a statement: it is refused (the handle is
closed, or a constraint is violated), or "io" is among the faults. A statement that
runs picks from `FkModes` whether its connection enforces foreign keys: the pragma
is issued at `store.go:24` and `store.go:253` on whichever connection the pool
hands out.

Session ids are UUIDs and the ids of `pcap_files` are AUTOINCREMENT: neither is
used twice. `Sessions` and `Pcaps` are therefore also the bounds on how many of
them are ever made.

A request of `Analyze` goes through `pc`:

    ready -> count -> setup -> [key_findings -> planner_history ->] round
          -> flush_events -> flush_round -> flush_query [-> flush_title]
          -> flush_status -> over

with `over` reachable from each stage by the error path the handler has there
(`reply` records which one), by `Disconnect` while streaming, and by `Restart`.
`RunInvestigation` returns nil on each of its ways out, so the status is always
"completed"; `RunInvestigationFails` says so where the code asks. The collector is
abstracted to the number of buffered events and whether it has the round.

A command goes through `cmdPc`, either making a session or resuming one:

    ready -> upload -> copy ------> round -> [key_findings -> planner_history -> round]... -> over
    ready -> count -> [key_findings -> planner_history ->] round -> ... -> over

It computes the numbers of all its rounds before the first (`cmdRound`,
`cmdEnd`), and stores each as soon as it is finished, with no events, no query and
no status. It has a handle on the file of its own (`HandleOpen`), so the server's
`Close` does not touch it; `CommandStops` is a signal or its death. A round that is
refused ends the loop, and the command reports success.

What the session handlers read is defined where the properties use it:
`ListedRounds` for the list, `DetailedRounds` for the detail.

`RoundLog` promises that a session comes into being with no rounds, gets them one
at a time at its end, each request adding one at most, and goes away as a whole.
`PcapchuServer` implements it by mapping the log of a living session to the rounds
1..`RoundCount`.

### SchemaMigration

The rebuild of `session_events` is a look at `sqlite_master` and four statements,
`Rename`, `Create`, `Copy`, `Drop`, none of whose errors is looked at
(`StatementIgnored`). A table is its UNIQUE key and its rows. Every process that
opens the file does this, so several may be at it at once; each may die at any
point and start over. `INSERT OR IGNORE` passes over duplicates but not over a
violated foreign key: one event whose session is gone (`orphans`) makes it insert
nothing. `crossed` is a history variable: it is set by a `DROP` that runs while a
second process has its `RENAME` before it and a third is past its own.

### ChannelEmitter, InvestigationRound, EventStream

The RWMutex is modelled by where each goroutine is in its call (`Readers`,
`Writers`): a waiting writer keeps new readers out, as Go's does. A channel is a
sequence and a flag; receiving drains a closed channel first. `EventStream` puts
the handler (`hpc`) and the investigation (`ipc`) around it. The `select` of the
handler is one action per case, taken in any order when several are ready; the
keep-alive case changes nothing and is left out. `container` follows the runtime:
made by `NewRuntime`, removed by the deferred `Close`, or by `NewRuntime` itself when a
later part of it fails, which works only as long as the client is there.

`InvestigationRound` is what the investigation goroutine does between: `at` is a
place in the loop of `RunInvestigation` or a node of the executor's graph. A plan
is its number of steps, and findings are the steps they come from. A graph step is
one node run or one event, since an emit may block; `runs` counts node runs as
`compose.WithMaxRunSteps` does. The graph library itself is external: a run beyond
the limit is an error of `Invoke`. Its errors and those of the models end the
round with at most one error event.

### ExecutorAgent

A message is its role, its size in tokens and the turn of the model it belongs to.
Before each call of the model the conversation is rewritten: the hint is put in
front of the first message (again each time, as the message is kept), the tokens
are counted, and a conversation over `MaxBefore` becomes its system and user
messages, a summary and the blocks `Recent` picks from the newest to the oldest. A
block is a call with the results that follow it. `cut` and `told` are history
variables: the turns that are gone from the conversation, and those that the model
that wrote the summary was given.

The sum of the tokens, the choice of messages of a kind (`Select`) and `Recent` are
recursive functions over the positions of the conversation, and a block is named by
the position of its start and goes up to the next start. This is the form in which
the proofs can unfold them one message at a time.

The agent's graph and the prompt template are external (eino). What a template
makes of a key it is not given is `MissingKey`: with "error" every conversation
over the limit ends the process, since the caller uses `logger.Fatalf`; with "empty"
the summary is written from nothing.

### HistoryCompression

A text is the set of rounds it tells about. The model that compresses is taken to
keep what it is given, so anything lost is lost by the indices. Reads are separate
actions because another investigation of the session may save its snapshot between
them; a failed second read counts as "no snapshot" or "no rounds", as in the code.
`seen` and `calm` are history variables for the properties.

### WebStore

The client has one thread. An action is a click, or the arrival of an answer, with
all the code up to the next `await`; the callbacks of promises that are ready run
before anything else (`NextTask`). `stream[k]` is where the promise chain of the
k-th `analyzeSession` is. Aborting depends on it: a fetch that is pending rejects,
and the rejection reports `onDone("cancelled")` in a later microtask; a stream
that is being read stops without a callback. `shown` holds the sessions the entries
on the screen are about. A reader that has seen `done` reads on to the end of the
stream ("ending"), and reports an error if the connection breaks there.

Two things are faults of a behaviour: "haste", a user who clicks before the answers
that the click depends on are in (nothing in the page prevents it), and "tail", a
connection that breaks behind `done`. Two history variables record what these can do
to the store. `orphaned` holds the streams that were live and the store's when a
callback of another one removed their controller (`Callback`); `late` the session on
the screen whose `getSession` was answered after it had been left.

## 3. Runs

| Run | Instance | Shows |
|---|---|---|
| `analyze_faults` | 1 session, 2 requests and a command, with no faults, with deaths only, with every fault | the history of a session: 12 properties and the refinement of `RoundLog` |
| `analyze_liveness` | 1 session, 1 request and a command, every fault, connections with and without foreign keys | every request that found its session and every command ends |
| `upload` | 2 sessions made by uploads or a command, 2 captures, 2 contents | sessions keep the capture they were made for |
| `next_round` | nothing dies, investigations may fail | violated: after a failed round the session can store nothing any more |
| `migration` | the server and two commands, 2 events, one of them perhaps an orphan | without faults the migration is one-time and keeps every event, and crashes alone destroy none, unless three rebuilds cross |
| `stream` | plans of up to 4 steps, 15 node runs, a buffer of 18 | stream order, whole flushes, no panic, no emit that waits for room, no container left by a stream that began, both goroutines end; events follow the plan, plans fit the step limit, findings reach the result |
| `agent` | 3 turns of up to 2 calls, three sizes of output, with and without a hint | a conversation is cut between turns, only where it must be, and enough |
| `agent_summary` | 2 turns of one call | violated: what is cut does not reach the summary |
| `compression` | 2 investigations, 5 rounds | nothing unread is put away; the snapshot stays within the history and advances |
| `snapshot_covers` | same, 4 rounds | violated: the snapshot claims one round too many |
| `web` | 3 sessions, 3 streams, 2 awaited requests of a kind; users in haste or not, connections that break behind `done` or not | without faults what runs can be cancelled and the screen shows the current session only; with them, a live stream is out of reach only if a late callback took its controller, and the screen shows besides only what such a stream or a late answer put there |
| `web_cancel` | 3 sessions, 3 streams, a user in haste | violated: a late callback takes the controller of the next stream away |

The violated properties are stated from documentation and comments of the
repository; each finding in `PROJECT.json` quotes the line.

* `next_round`. `RunInvestigation` leaves its loop with `break` when the planner
  or executor fails, and returns nil. The handler flushes the events of the
  failed round and marks the session completed. The next call counts rows of
  `rounds`, takes the same number, and its first event violates
  `UNIQUE(session_id, round, seq)`: the flush stops there, for this call and
  each later one. The error is only logged.
* `snapshot_covers`. `CompressedUpTo` counts entries, the first of which may be
  the old snapshot; `remainingRounds` has no entry for that. From the second
  compression on, the stored number is one round too high, and the round that was
  kept uncompressed is missing from the history of later prompts (its key findings
  still reach the planner, through the list of all rounds). If the planner fails right
  after such a compression, no planner has ever read that round: this is why
  `NothingUnread` asks that prompts reach the planner (`calm`).
* `web_cancel`. `startStream` aborts the previous fetch and stores the new
  controller. If the previous fetch had not been answered yet, its rejection is
  handled afterwards, and the callback sets `_abortController` to null and
  `sessionActive` to false whichever stream they now belong to. The new stream
  goes on without a cancel button, also into the session selected next.
* `agent_summary`. The user message of the summary prompt is the template
  `{{.user_content}}` (`summary.go:113`), and `Invoke` (`summary.go:267`) supplies
  five other keys and not this one; the placeholders of `sum.md` are in single
  braces, which a Go template leaves alone. The model is asked to merge sections it
  does not get (`sum.md:19`, `sum.md:21`).

Met on the way, with no run of their own:

* A flush is five kinds of statements that commit one by one. `collector.go:17` and
  `API.md:98` speak of it as a unit; a death or an error in between leaves a part
  of it. `AtomicWithoutFaults` is what is left of the promise: no race alone breaks it.
  Likewise `CompletedHasRound` (`API.md:393`) needs investigations and statements
  that do not fail.
* After a failed round the detail of a session shows a round that the list does
  not count; after rounds of a command the list counts rounds that the detail does
  not show. `CountsAgree` holds where nothing fails and no command stored rounds.
* `session.created` is emitted before anybody has subscribed, so no stream has it
  (`API.md:156`, `API.md:177`).
* Snapshots of the compressed history are written while the stream is open, so a
  client that leaves has left something behind (`API.md:80` says nothing is persisted).
* When `NewRuntime` or the copy of the capture fails the stream ends with `error`
  and without `done` (`API.md:174`). If the client leaves while `NewRuntime` fails, its
  container is removed under a cancelled context and stays.
* `logger.Fatalf` in the summarizer ends the server, with every request it serves and
  without removing their containers.
* Three processes that open an old file at once can lose every event: a late
  `RENAME` takes the new table away under the `DROP` another process has yet to run.
  A death after the `RENAME` leaves the events in `_session_events_old`, where no
  later start looks for them. An orphaned event makes the copy fail, and the `DROP`
  then destroys all of them.
* An answer of `getSession` that comes after another session was selected fills the
  screen with the wrong session. `ShownIsAccounted` says that, but for the events of
  an orphaned stream, this is the only way it gets there.
* A stream reports its end at `done` and is read on; if the connection breaks behind
  it, `onError` takes the controller of the stream started since.

### Bounds and why they are enough

* `MaxRound` = 2: the cases are "first round" (title, no history), "later round",
  and a number that is already taken. With 1 in `upload`, where rounds do not matter.
* `MaxSeq`, `MinEvents` = 2 in `analyze_faults`: with two events a flush can stop
  before, between and after its event statements. 1..2 in `analyze_liveness`:
  different lengths let one request's log be longer than another's.
* 2 requests and a command: two that race for a number, or one that fails and one
  that comes after it, with rounds of a command before, between and after them. 1 and 1
  in `analyze_liveness`, where symmetry is not sound.
* `FkModes` = {TRUE} in `analyze_faults`: a connection without foreign keys differs
  only in what it leaves of sessions that are gone, and their ids are never used
  again (`IdsAreFresh`, proved). Both kinds in `analyze_liveness` and `upload`.
* 1 session for analyze: no statement of a request touches another session's
  rows. 2 sessions, 2 captures and 2 contents in `upload`: share, delete, upload
  again, with another content.
* `migration`: 3 processes, the least that can cross. 2 events, of which one may be
  an orphan.
* `MaxSteps` = 4, `MaxRunSteps` = 15: a first, a middle and a last step; plans of 0,
  1 and 2 steps; a plan of 3 that fits to the last run, and one of 4 that does not.
  In the code the limit is 100.
* `BufSize` = 18, the least that `BufferAssumption`, `MaxRunSteps + 3 <= BufSize`,
  allows: a round emits no more events than its graph runs nodes, but for a few. In the
  code that is 103 <= 1024. `EmitNeverBlocks` and `GoroutinesEnd` need it: after a
  disconnect the handler no longer receives, and an emit that found the buffer full
  would hold the read lock that `Close` waits for.
* `agent`: outputs that fit several times, that fit alone, and that do not fit what
  may be kept (1, 4, 8 against `MaxRecent` = 6); a conversation crosses `MaxBefore` = 9
  in its first, second or third turn, so a second summary follows a first one.
* 3 sessions and 3 streams in `web`: an aborted stream whose callback is late, the
  orphan it makes, and one more that runs beside the orphan; the state of the store
  does not depend on how many streams are over. `MaxAwaited` = 2: two answers for
  the same session, or two dropped files, in any order with the others.
  `web_cancel` needs two streams, and one request.
* `MaxRound` = 5 in `compression`: a second compression on top of a first one,
  and the round after it. `KeepRecent` = 1 is the code's default.

Symmetry: requests are interchangeable, and so are the sessions of `upload` and
`web`, and the calls of `compression`; used for safety only.

`CHECK_DEADLOCK FALSE`: every request, command, session and round is used once, so
each bounded instance comes to an end in which nothing can happen. That it ends
where it should is `EveryoneEnds` and `GoroutinesEnd`. `migration`, whose processes
start over, is checked for deadlock.

### Fairness

`PcapchuServer!Fairness` is weak fairness of each started request and command: its
goroutine or process is scheduled and the calls it makes return. For the model that
is what the code arranges: its HTTP client gives up after 120 s
(`middlewares/httpclient/client.go`). Docker calls have no timeout but the end of
their context, and `ensureImage` waits for an answer on the terminal when the image
is missing (`sandbox/environment/docker.go:168`): that Docker answers and its image
is there is an assumption. Nothing is assumed of clients, users, signals or restarts.
`EventStream!FairSpec` is weak fairness of the two goroutines; the client is free
to stay or go. A goroutine blocked on a lock or a channel is simply not enabled.

## 4. Proofs

Each theorem is about the `Spec` of its component, for every value of the
constants that the assumptions of the modules allow. TLC has checked the inductive
invariants below on the instances of section 3 as well.

| Component | Assumed | What is left open |
|---|---|---|
| `PcapchuServer` | `StoreAssumption`, `AnalyzeAssumption` | sets of sessions, captures, requests and commands; bounds on rounds and events |
| `EventStream` | `EmitterAssumption`, `RoundAssumption`, `StreamAssumption` | the length of plans, the limit on node runs, the size of the buffer; `EmitsNeverBlock` alone needs `BufferAssumption` |
| `HistoryCompression` | `CompressionAssumption` | how many investigations overlap, how many rounds there are, `KeepRecent` |
| `ExecutorAgent` | `AgentAssumption` | the limits on tokens and steps, the sizes of outputs and hints, the calls of one turn, what a template makes of a missing key |
| `WebStore` | `WebAssumption` | sessions, streams, how many requests are awaited, faults |
| `SchemaMigration` | `MigrationAssumption`, `NoneAssumption` | processes, events, orphans, faults |

| Theorem | Module | States |
|---|---|---|
| `TypeCorrect` | `PcapchuServerProofs` | `[]TypeOK` |
| `RoundsAreContiguous` | `PcapchuServerProofs` | `[]RoundsContiguous` |
| `RoundsHaveOneWriter` | `PcapchuHistoryProofs` | `[]OneWriterPerRound` |
| `RoundsHaveFullLogs` | `PcapchuHistoryProofs` | `[]RoundHasFullLog` |
| `RoundsShownUnderTheirQuery` | `PcapchuHistoryProofs` | `[]ShownUnderItsQuery` |
| `TitlesAreFirstQueries` | `PcapchuHistoryProofs` | `[]TitleIsFirstQuery` |
| `CompletedSessionsHaveLogs` | `PcapchuHistoryProofs` | `[]CompletedHasLog` |
| `UnfinishedRequestsLeaveNothing` | `PcapchuHistoryProofs` | `[]UnfinishedLeavesNoHistory` |
| `HistoryIsAppendOnly` | `PcapchuHistoryProofs` | `HistoryAppendOnly` |
| `CompletedSessionsHaveRounds` | `PcapchuHistoryProofs` | `[]CompletedHasRound` |
| `FlushesAreAtomic` | `PcapchuHistoryProofs` | `[]AtomicWithoutFaults` |
| `SessionCountsAgree` | `PcapchuHistoryProofs` | `[]CountsAgree` |
| `ServerRefinesRoundLog` | `PcapchuRefinementProofs` | `ImplementsRoundLog` |
| `SessionsHaveTheirCapture` | `PcapchuServerProofs` | `[]SessionHasItsCapture` |
| `StreamTypeCorrect` | `EventStreamProofs` | `[]TypeOK` |
| `NeverSendsOnClosed` | `EventStreamProofs` | `[]NoSendOnClosed` |
| `EmitsNeverBlock` | `EventStreamProofs` | `[]EmitNeverBlocks` |
| `StreamLosesNoEvent` | `EventStreamProofs` | `[]StreamLosesNothing` |
| `FlushesAreWhole` | `EventStreamProofs` | `[]FlushIsWhole` |
| `ContainersAreRemoved` | `EventStreamProofs` | `[]ContainerIsRemoved` |
| `PlansFit` | `EventStreamProofs` | `[]PlanFits` |
| `ResultsHaveFindings` | `EventStreamProofs` | `[]ResultHasFindings` |
| `RoundsFollowScript` | `EventStreamProofs` | `[]RoundFollowsScript` |
| `AgentTypeCorrect` | `ExecutorAgentProofs` | `[]TypeOK` |
| `TurnsStayWhole` | `ExecutorAgentProofs` | `[]TurnsAreWhole` |
| `CallsFit` | `ExecutorAgentProofs` | `[]CallFits` |
| `CutsAreWholeTurns` | `ExecutorAgentProofs` | `CutsWholeTurns` |
| `SnapshotIsWithinHistory` | `HistoryCompressionProofs` | `[]SnapshotWithinHistory` |
| `NothingIsUnread` | `HistoryCompressionProofs` | `[]NothingUnread` |
| `SnapshotOnlyAdvances` | `HistoryCompressionProofs` | `SnapshotAdvances` |
| `WebTypeCorrect` | `WebStoreProofs` | `[]TypeOK` |
| `StreamsAreCancellable` | `WebStoreProofs` | `[]CancellableUnlessOrphaned` |
| `ScreensAreAccounted` | `WebStoreProofs` | `[]ShownIsAccounted` |
| `MigrationTypeCorrect` | `SchemaMigrationProofs` | `[]TypeOK` |
| `CrashesDestroyNothing` | `SchemaMigrationProofs` | `[]CrashDestroysNothing` |
| `MigrationsAreOneTime` | `SchemaMigrationProofs` | `[]MigrationIsOneTime` |

**Types.** `TypeInv` is inductive. The lemmas follow the modules: `StatementType`
for the statements of `Store`, then `UploadType`, `AnalyzeType` and `CommandType`.

**Contiguous rounds.** `RoundsContiguous` is not inductive: the row of a round is
inserted long after its number was computed, and in between anything may happen to
the session. `ContiguousInv` adds

* `StartsReached`: the rounds below the number a request or a command holds are
  in the table as long as the session lives (a count only grows, and rows leave
  with their session alone);
* `IdsAreFresh`: a session that is not there yet has no rounds and nobody holds its
  id. Without it, a row left behind by a connection without foreign keys could
  turn up in a new session, so this is where "ids are never used again" enters.

`NextInLine` is the heart: a number whose predecessors are all there is either
taken, and UNIQUE refuses it, or the next one. `RequestsUndisturbed` and
`CommandsUndisturbed` carry `StartsReached` over the steps of others.

**History.** What is stored *in* a round rests on one observation: the first
statement of a flush is the event with sequence number 1, and UNIQUE(session_id,
round, seq) lets one request pass. From there on the round number belongs to that
request, so none of the later statements, the upsert of the query and the update of
the title included, can meet the rows of another request. `HistoryInv` says how
far each flush is:

* `HoldsLog`: what request q has flushed so far is in the table, as a prefix of its
  log and of nobody else's; behind the events the whole log, behind the query its
  query;
* `RowsAgree`: the events of a round are a prefix of one request's log, and a
  request's row in `rounds` or `queries` stands next to its whole log;
* `HeadingAgrees`: the title is the query of round 1, and "completed" needs a query;
* `Progress`, `NothingStored`, `BlankBefore`: nothing of a flush exists before it,
  or before its session.

Steps are split in two. A *quiet* step stores nothing in the history, and keeps
the invariant because every row stays (`QuietStep`; `OrderlyUpload`, `OrderlyCommand`,
`OrderlyAnalyze` and `OrderlyNext` show which steps are of this kind). A *storing* step is one of
the five statements of the flush (`FlushStores`, `StoreStep`), and
`RoundIsItsOwn` shows that the round it writes to is its own. `RowsStayStep`
gives the action property.

**Where nothing fails.** `CompletedHasRound`, `AtomicWithoutFaults` and `CountsAgree`
are promises of the documentation, kept when nothing fails. `FaultFreeInv` adds
to `HistoryInv`

* `RoundBeforeQuery`: a flush that can reach the store has a round to store, and
  behind its round statement the row is there: a statement that UNIQUE refuses
  ends the flush, so that none gets past the round statement without its row;
* `CompletedAfterRound`, its image in the table. These two allow processes to be
  stopped and to die;
* `StreamsAreLongEnough`: a stream that reached its flush has events, so that a round
  without events is one that no request has;
* `RoundsAreWhole`: the rows of a round are all there, or none, or a flush that has
  begun to store them (`Storing`) goes on, or a command has its row.

A flush is refused at its first event, and has left nothing, or later, and then
because a command has taken the number (`OnlyCommandsInterfere`). `WholeAtRest`
reads `RoundsAreWhole` for a session that no request is storing in.

**Refinement.** Every step of the server is a step of `RoundLog` or changes no log
(`StepRefines`). A row of `rounds` is an append: its number is `RoundCount` + 1
by `NextInLine`, and its writer may append by `WriterIsNew`, because a request that
is about to store its round is not in any log yet (`HistoryInv` has its log next to
its row), and a command stores in the one session it has chosen
(`CommandsHaveOneSession`, the one addition to the invariant).

**Captures.** The argument is that ids are handed out once. The id an upload found or
was given may lose its row before its session is created; then the row stays away,
because the id is in `usedPcaps` and an insertion takes another (`IdsHandedOut`). So
an upload that is about to create its session holds the id of its content, or of
nothing (`UploadsHoldTheirs`), and a session made by it keeps that
(`SessionsHoldTheirs`, and `UploadIsOver`: its content does not change any more).
With foreign keys the creation needs the row and a deletion clears the reference;
without them the reference may dangle, and the property says so.

**Stream.** `StreamInv` is proved of the three modules together. Its part about the
round, `RoundInv`, says at each node of the graph how much of the script is
emitted and how many nodes have run: behind the loop's start k runs and n events
(`InBody`), so `runs = 5 * idx + k`. `PlansFit` and `ResultsHaveFindings` are read off it;
`RoundsFollowScript` also needs that what follows the last event of the script is an
error. The part about the goroutines:

* `Closing`: the channel is closed by the first `Close` that sees a subscriber, and never
  while the investigation is in `Emit`, since `Close` waits for its read lock;
* `Flow`: what was emitted is collected, in the channel or being sent, in this order
  (`ToSender`, `ToChannel`, `ToCollector` move one event along), and at the end of the
  loop nothing is left in the channel;
* `Sandboxed`: who is left with a container.

`EmitNeverBlocks` counts what could fill the channel once nobody receives. A step of a
plan takes five node runs and emits three events, so a round never has more events
than runs, but for three and an error that ends it (`EventsFit`); what is in the channel
or being sent was emitted after the session's event (`InTransit`).

**Agent.** What is kept of a conversation is computed by recursion over its
messages, so these proofs need induction. It comes from the library's well-founded
order on the numbers: a nonempty set of numbers has a least element (`Least`), hence a
set that has 0 and the successor of each of its members has them all (`Induction`).
From it follow that a recursive function exists and is the one the recursion says
(`Recursion`, `SameRecursion`), and from these what `Tokens` and `Select` make of
a concatenation (`TokensOfParts`, `SelectOfParts`). On top of that:

* `Whole` says that each message is a call of a later turn than the one before it, or a
  result of the same turn. In such a conversation the block at a call is its
  whole turn (`BlockIsTurn`: `BlockStarts` are the calls, `TurnsRise` keeps the turns
  apart), and what is in front of the block is of earlier turns, what follows of
  later ones (`WholeParts`);
* `TakeBlock` is one step of `Recent`: with what was kept so far whole and within
  `MaxRecent`, the step keeps the block or passes it over, and in either case each
  turn met so far is there unchanged or is gone and did not fit beside the later
  turns that are kept (`KeptOrCut`). `RecentOf` is the induction over it;
* `AgentInv`: the conversation is the system message with its hints, the question, at
  most one summary, and turns. The turns are whole before a rewriting and before a
  call of the model, and while tools run they are whole up to a last call (`TurnsInv`).
  The hint is in the first message once per call of the model, and a
  conversation that was counted and is still over the limit has been cut (`SizeInv`).

None of the three properties is inductive: each is about one point of the loop, and
says nothing of the conversation while the tools run, nor of how often the hint is in
it. `CutsWholeTurns` is read off `RecentOf` for a conversation of that form.

**Compression.** `WithinHistory` (an index that any call holds is that of a stored round)
carries `SnapshotWithinHistory` with overlapping calls; in particular a second
read that fails counts as "no snapshot", and an index smaller than the first one. The
other two properties are about calls that come one after the other (`Alone`): then
what a call has read is still so (`ReadsAreFresh`), and every text is known to some
planner or in the prompt of the call under way, or the next prompt will have it
(`NothingForgotten`). The index that is stored is one too high, as `snapshot_covers`
shows; the proof confirms that this loses nothing unread *because* the call that
stores it has the text in its own prompt.

**Web client.** The theorems hold for every user. `Controlled`: a live stream is the
one of the store's controller, and of the current session, or an orphan. Every click
that starts or leaves a stream aborts what the controller is of, and `AbortedStreams`
says that this leaves only orphans live; only a callback of another stream can
separate a live stream from its controller, and `CallbackOrphans` says that it is
then recorded. `ShownIsAccounted` needs this for the events of a stream, and
`OrphansStarted` so that a recorded stream keeps its session. Without faults the
exceptions are empty (`Patient`): each click comes when the answers are in
(`OneAnswerAwaited`), so no late callback is due while a stream is live
(`OneLiveStream`), which gives `CancellableWithoutFaults` and `ShownIsCurrent`
(`WithoutFaultsAllIsCurrent`).

**Migration.** The theorems hold for any number of processes. `OneHasAll`: what one of
the two tables lacks is in the other. The danger is a second `RENAME`, which takes the
new table for the old one. `NoSecondRename` excludes it where it would hurt: while one
process is past its rename, a process that has the rename before it finds the old table
in its way. A `DROP` takes this away; it does harm only where both kinds of process
are left, which is what `crossed` records (`DropKeeps`). With two processes that cannot
happen.

**Model-checked only.** The two liveness properties, `EveryoneEnds` and `GoroutinesEnd`:
they rest on fairness, which is out of the prover's reach. Every invariant, every action
property and the refinement that a passing run checks is also a theorem.

## 5. Not modelled

* The texts: prompts, plans, findings, event payloads, HTTP and SSE framing, the
  extraction of JSON from answers.
* `LoadHistory`, `MarkCompressed`, `SaveCompressedSummaries` and `SummarizeText`:
  nobody calls them. `TouchSession`, which `SaveRound` calls, writes a time stamp
  only.
* `runServe`'s reset of "running" sessions has no effect: no code stores that
  status. It is part of `Reopen` all the same.
* Process-wide callback handlers, which each `NewRuntime` replaces: they log.
* The connection pool. Which connection a statement gets is a free choice of
  `FkModes`, which allows more than any pool does.
* The containers of the commands, and what a command does inside a container.
* Logger, HTTP client, web components: I/O and rendering; their failures are
  failures of the steps that use them.

## 6. Plan

What is left: `StorePool` for the pragma per connection, in place of the free choice of
`FkModes`.
