------------------------- MODULE InvestigationRound -------------------------
(***************************************************************************)
(* One round of RunInvestigation (internal/investigation/investigation.go) *)
(* with the planner it calls (internal/planner/planner.go) and the graph   *)
(* of the executor (internal/executor/executor.go), as the goroutine that  *)
(* emits its events: every action is one node run or one event.            *)
(*                                                                         *)
(* A plan is represented by its number of steps, an event by its type and  *)
(* the position of its step in the plan; findings by the set of the steps  *)
(* they come from.  What the models answer is left open.                   *)
(***************************************************************************)
EXTENDS ChannelEmitter, FiniteSets, SequencesExt

CONSTANTS
    MaxSteps,       \* bound on the steps of a plan
    MaxRunSteps     \* compose.WithMaxRunSteps: node runs of the executor's graph

Investigation == "investigation"

ASSUME RoundAssumption ==
    /\ Investigation \in Procs
    /\ MaxSteps \in Nat
    /\ MaxRunSteps \in Nat

VARIABLES
    at,             \* where the round is; a node of the graph, inside of it
    steps,          \* len(plan.Steps)
    idx,            \* state.CurrentStepIndex
    runs,           \* node runs so far
    findings,       \* state.ResearchFindings
    captured,       \* capturedFindings
    emitted         \* the events of the request, in order

roundVars == <<at, steps, idx, runs, findings, captured, emitted>>

\* The nodes in the order in which one follows the other.
NormalNodes == <<"normal_prepare", "normal_template", "normal_react", "normal_parse">>
FinalNodes  == <<"final_prepare", "final_template", "final_react", "final_parse">>
Nodes       == {"is_last"} \cup ToSet(NormalNodes) \cup ToSet(FinalNodes)

ErrorTypes == {"plan.error", "step.error", "error"}

RoundEvents ==
    ({"round.started", "plan.created", "report.generated", "round.completed"}
        \cup ErrorTypes) \X {0}
    \cup {"step.started", "step.findings", "step.completed", "step.error"} \X (1..MaxSteps)

RoundInit ==
    /\ at = "start"
    /\ steps = 0
    /\ idx = 0
    /\ runs = 0
    /\ findings = {}
    /\ captured = {}
    /\ emitted = <<>>

\* log.Emit(type, data).
Emit(type, step) ==
    /\ StartEmit(Investigation, <<type, step>>)
    /\ emitted' = Append(emitted, <<type, step>>)

\* A step of the goroutine that emits nothing.
Silent == call[Investigation] = "none" /\ UNCHANGED <<emitterVars, emitted>>

Continue(place) == at' = place

----------------------------------------------------------------------------
(* The loop of RunInvestigation, and the planner.                          *)

StartRound ==
    /\ at = "start"
    /\ Emit("round.started", 0)
    /\ Continue("plan")
    /\ UNCHANGED <<steps, idx, runs, findings, captured>>

\* A read of the history fails: break.
HistoryFails ==
    /\ at = "plan"
    /\ Silent
    /\ Continue("over")
    /\ UNCHANGED <<steps, idx, runs, findings, captured>>

PlannerFails ==
    /\ at = "plan"
    /\ Emit("plan.error", 0)
    /\ Continue("over")
    /\ UNCHANGED <<steps, idx, runs, findings, captured>>

\* A plan of n steps; the executor refuses the empty plan without an event.
PlannerAnswers ==
    /\ at = "plan"
    /\ \E n \in 0..MaxSteps :
        /\ steps' = n
        /\ Continue(IF n = 0 THEN "over" ELSE "is_last")
    /\ Emit("plan.created", 0)
    /\ UNCHANGED <<idx, runs, findings, captured>>

----------------------------------------------------------------------------
(* The executor's graph.                                                   *)

\* The graph runs node, unless it has used up its runs.
RunNode(node) ==
    /\ at = node
    /\ runs < MaxRunSteps
    /\ runs' = runs + 1

\* compiled.Invoke returns an error: a node failed, or no run is left.
GraphFails ==
    /\ \/ at = "failed"
       \/ at \in Nodes /\ runs >= MaxRunSteps
    /\ Emit("error", 0)
    /\ Continue("over")
    /\ UNCHANGED <<steps, idx, runs, findings, captured>>

\* Mutant: the last step is the one after the last.
IsLastOffByOne ==
    /\ RunNode("is_last")
    /\ Silent
    /\ Continue(IF steps - idx = 0 THEN "final_prepare" ELSE "normal_prepare")
    /\ UNCHANGED <<steps, idx, findings, captured>>

IsLast ==
    /\ RunNode("is_last")
    /\ Silent
    /\ Continue(IF steps - idx = 1 THEN "final_prepare" ELSE "normal_prepare")
    /\ UNCHANGED <<steps, idx, findings, captured>>

\* A post hook: the step at the index is announced, if there is one.
Prepare(node, next) ==
    /\ RunNode(node)
    /\ IF idx >= steps
         THEN Silent /\ Continue("failed")
         ELSE Emit("step.started", idx + 1) /\ Continue(next)
    /\ UNCHANGED <<steps, idx, findings, captured>>

NormalPrepare == Prepare("normal_prepare", "normal_template")
FinalPrepare  == Prepare("final_prepare", "final_template")

Template(node, next) ==
    /\ RunNode(node)
    /\ Silent
    /\ Continue(next)
    /\ UNCHANGED <<steps, idx, findings, captured>>

NormalTemplate == Template("normal_template", "normal_react")
FinalTemplate  == Template("final_template", "final_react")

\* Mutant: a model that fails is asked again.
AnswerAgain(node, next) ==
    /\ RunNode(node)
    /\ Silent
    /\ Continue(next) \/ Continue(node)
    /\ UNCHANGED <<steps, idx, findings, captured>>

\* Mutant: a model that fails is asked again inside of the node, with an event.
AnswerRetried(node, next) ==
    /\ \/ RunNode(node) /\ Silent /\ (Continue(next) \/ Continue("failed"))
       \/ at = node /\ Emit("step.error", idx + 1) /\ UNCHANGED <<at, runs>>
    /\ UNCHANGED <<steps, idx, findings, captured>>

\* A model answers, or fails.
Answer(node, next) ==
    /\ RunNode(node)
    /\ Silent
    /\ Continue(next) \/ Continue("failed")
    /\ UNCHANGED <<steps, idx, findings, captured>>

NormalReact == Answer("normal_react", "normal_parse")
FinalModel  == Answer("final_react", "final_parse")

\* normalParsePreHook, when the answer holds no JSON object.
ParseFails ==
    /\ RunNode("normal_parse")
    /\ Emit("step.error", idx + 1)
    /\ Continue("failed")
    /\ UNCHANGED <<steps, idx, findings, captured>>

\* The same, when it does: the findings are added, if there are any ...
ParseStep ==
    /\ RunNode("normal_parse")
    /\ findings' = findings \cup {idx + 1} \/ findings' = findings
    /\ Emit("step.findings", idx + 1)
    /\ Continue("parsed")
    /\ UNCHANGED <<steps, idx, captured>>

\* Mutant: the findings are captured once, at the first step.
CompleteStepOnce ==
    /\ at = "parsed"
    /\ Emit("step.completed", idx + 1)
    /\ captured' = IF idx = 0 THEN findings ELSE captured
    /\ idx' = idx + 1
    /\ Continue("is_last")
    /\ UNCHANGED <<steps, runs, findings>>

\* ... captured for the result, and the loop goes on with the next step.
CompleteStep ==
    /\ at = "parsed"
    /\ Emit("step.completed", idx + 1)
    /\ captured' = findings
    /\ idx' = idx + 1
    /\ Continue("is_last")
    /\ UNCHANGED <<steps, runs, findings>>

\* The summary is taken as it is when it holds no JSON object.
FinalParse ==
    /\ RunNode("final_parse")
    /\ Silent
    /\ Continue("report")
    /\ UNCHANGED <<steps, idx, findings, captured>>

Report ==
    /\ at = "report"
    /\ Emit("report.generated", 0)
    /\ Continue("store")
    /\ UNCHANGED <<steps, idx, runs, findings, captured>>

\* onRoundDone, which only buffers, then the last event.
CompleteRound ==
    /\ at = "store"
    /\ Emit("round.completed", 0)
    /\ Continue("over")
    /\ UNCHANGED <<steps, idx, runs, findings, captured>>

RoundStep ==
    \/ StartRound
    \/ HistoryFails
    \/ PlannerFails
    \/ PlannerAnswers
    \/ GraphFails
    \/ IsLast
    \/ NormalPrepare
    \/ NormalTemplate
    \/ NormalReact
    \/ FinalPrepare
    \/ FinalTemplate
    \/ FinalModel
    \/ ParseFails
    \/ ParseStep
    \/ CompleteStep
    \/ FinalParse
    \/ Report
    \/ CompleteRound

----------------------------------------------------------------------------
RoundTypeOK ==
    /\ at \in Nodes \cup {"start", "plan", "parsed", "failed", "report", "store", "over"}
    /\ steps \in 0..MaxSteps
    /\ idx \in 0..MaxSteps
    /\ runs \in 0..MaxRunSteps
    /\ findings \subseteq 1..MaxSteps
    /\ captured \subseteq 1..MaxSteps

\* The events of a round that goes well, for a plan of n steps: three for
\* each step but the last, whose completion is never announced.
Script(n) ==
    [k \in 1..(3 * n + 2) |->
        IF k <= 2 THEN <<(<<"round.started", "plan.created">>)[k], 0>>
        ELSE IF k > 3 * n THEN <<(<<"report.generated", "round.completed">>)[k - 3 * n], 0>>
        ELSE <<(<<"step.started", "step.findings", "step.completed">>)[((k - 3) % 3) + 1],
               ((k - 3) \div 3) + 1>>]

\* A round of a plan of n steps takes five node runs a step, so that a plan of
\* MaxRunSteps / 5 steps is the longest that fits (executor.go:376, "5 nodes
\* per loop x max 20 steps"), and fits to the last run.
PlanFits == (5 * steps <= MaxRunSteps /\ at \in Nodes) => runs < MaxRunSteps

\* The result of a round has the findings of every step that found something.
ResultHasFindings == at \in {"report", "store"} => captured = findings
=============================================================================
