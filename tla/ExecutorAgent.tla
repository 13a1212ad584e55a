--------------------------- MODULE ExecutorAgent ---------------------------
(***************************************************************************)
(* The conversation of the agent that executes one step of a plan          *)
(* (internal/investigation/runtime.go and lang.go, sandbox/tools,          *)
(* middlewares/summarizer/summary.go).                                     *)
(*                                                                         *)
(* The agent calls the model, runs the tools the model asks for, and calls *)
(* it again with their results.  Before each call the conversation is      *)
(* rewritten: the language hint is put in front of the first message, and  *)
(* a conversation over the token limit is cut down to its system and user  *)
(* messages, a summary and the recent tool calls.  A message is reduced to *)
(* its role, its size in tokens and the turn of the model it belongs to.   *)
(***************************************************************************)
EXTENDS Naturals, Sequences

CONSTANTS
    MaxBefore,      \* MaxTokensBeforeSummary
    MaxRecent,      \* MaxTokensForRecentMessages
    MaxStep,        \* react.AgentConfig.MaxStep
    MaxCalls,       \* bound on the tool calls of one turn
    Sizes,          \* sizes of a tool's output
    MaxOutput,      \* OutputGuard.MaxOutputLen
    Kept,           \* the size of an output that the guard has truncated
    Hints,          \* sizes of the language hint, 0 for no hint
    MissingKey      \* what a template makes of a key it is not given

ASSUME AgentAssumption ==
    /\ {MaxBefore, MaxRecent, MaxStep, MaxOutput, Kept} \subseteq Nat
    /\ MaxCalls \in Nat \ {0}
    /\ Sizes \cup Hints \subseteq Nat
    /\ MissingKey \subseteq {"error", "empty"}

VARIABLES
    apc,            \* where the agent is
    conv,           \* state.Messages of the agent
    hint,           \* the size of LangHintModifier.hint
    steps,          \* steps of the agent's graph so far
    turns,          \* turns of the model so far
    counted,        \* has the last rewriting had the tokens counted?
    cut,            \* history: the turns that were cut out of the conversation
    told            \* history: the turns that the summarizing model was given

vars == <<apc, conv, hint, steps, turns, counted, cut, told>>

Ended == {"done", "failed", "exited"}

Message(role, turn, size) == [role |-> role, turn |-> turn, size |-> size]

System   == Message("system", 0, 2)
Question == Message("user", 0, 1)
Summary  == Message("summary", 0, 1)

Roles == {"system", "user", "summary", "call", "result"}

Messages == [role : Roles, turn : Nat, size : Nat]

OfRole(roles) == {m \in Messages : m.role \in roles}

Tokens(ms) ==
    LET sum[n \in 0..Len(ms)] == IF n = 0 THEN 0 ELSE sum[n - 1] + ms[n].size
    IN  sum[Len(ms)]

\* The messages of ms that are in M, in their order.
Select(ms, M) ==
    LET pick[n \in 0..Len(ms)] ==
            IF n = 0 THEN <<>>
            ELSE IF ms[n] \in M THEN Append(pick[n - 1], ms[n]) ELSE pick[n - 1]
    IN  pick[Len(ms)]

TurnsIn(ms) == {ms[i].turn : i \in DOMAIN ms} \ {0}

TypeOK ==
    /\ apc \in {"rewrite", "model", "tools"} \cup Ended
    /\ \A i \in DOMAIN conv :
            /\ conv[i].role \in Roles
            /\ conv[i].turn \in 0..turns
            /\ conv[i].size \in Nat
    /\ hint \in Hints
    /\ steps \in 0..MaxStep
    /\ turns \in 0..MaxStep
    /\ counted \in BOOLEAN
    /\ cut \subseteq 1..turns
    /\ told \subseteq 1..turns

Init ==
    /\ apc = "rewrite"
    /\ conv = <<System, Question>>
    /\ hint \in Hints
    /\ steps = 0
    /\ turns = 0
    /\ counted = FALSE
    /\ cut = {}
    /\ told = {}

----------------------------------------------------------------------------
(* The parts of a conversation (SummarizeContext).                         *)

\* The hint stays in the message: it is there once for each call so far.
Hinted(ms) == [ms EXCEPT ![1].size = @ + hint]

\* The messages before the tool calls, the summary left out.
Fixed(ms) == Select(ms, OfRole({"system", "user"}))

Rest(ms) == Select(ms, OfRole({"call", "result"}))

\* Mutant: every message is a block of its own.
BlockStartsAnywhere(ms) == DOMAIN ms

\* A tool's message belongs to the block of the call it answers.
BlockStarts(ms) ==
    {i \in DOMAIN ms : ~\E j \in 1..(i - 1) :
        /\ ms[j].role = "call"
        /\ \A k \in (j + 1)..i : ms[k].role = "result" /\ ms[k].turn = ms[j].turn}

\* The block at a start goes on to the next start.
Block(ms, i) ==
    LET last == CHOOSE j \in i..Len(ms) :
                    /\ \A k \in (i + 1)..j : k \notin BlockStarts(ms)
                    /\ j = Len(ms) \/ j + 1 \in BlockStarts(ms)
    IN  SubSeq(ms, i, last)

\* Mutant: the block that crosses the limit is kept.
RecentOverLimit(ms) ==
    LET take[n \in 0..Len(ms)] ==
            IF n = 0 THEN <<>>
            ELSE LET i == (Len(ms) + 1) - n
                     kept == take[n - 1]
                 IN  IF i \in BlockStarts(ms) /\ Tokens(kept) <= MaxRecent
                       THEN Block(ms, i) \o kept ELSE kept
    IN  take[Len(ms)]

\* Mutant: the oldest blocks are taken first.
RecentFromOldest(ms) ==
    LET take[n \in 0..Len(ms)] ==
            IF n = 0 THEN <<>>
            ELSE LET kept == take[n - 1]
                 IN  IF n \in BlockStarts(ms) /\ Tokens(kept \o Block(ms, n)) <= MaxRecent
                       THEN kept \o Block(ms, n) ELSE kept
    IN  take[Len(ms)]

\* From the newest to the oldest, each block that still fits is kept: one that
\* does not fit is passed over, and an older one may be kept after it.
Recent(ms) ==
    LET take[n \in 0..Len(ms)] ==
            IF n = 0 THEN <<>>
            ELSE LET i == (Len(ms) + 1) - n
                     kept == take[n - 1]
                 IN  IF i \in BlockStarts(ms) /\ Tokens(Block(ms, i) \o kept) <= MaxRecent
                       THEN Block(ms, i) \o kept ELSE kept
    IN  take[Len(ms)]

----------------------------------------------------------------------------
(* The prompt of the summary (buildSummarizerGraph).                       *)

TemplateKeys == {"user_content"}

\* What the graph is invoked with: the turns each key tells about.
Sections(ms) ==
    LET recent == Recent(Rest(ms)) IN
    [system_prompt    |-> {},
     user_messages    |-> {},
     previous_summary |-> IF \E i \in DOMAIN ms : ms[i].role = "summary" THEN told ELSE {},
     older_messages   |-> TurnsIn(ms) \ TurnsIn(recent),
     recent_messages  |-> TurnsIn(recent)]

\* The turns that the rendered prompt tells about.
Rendered(sections) == UNION {sections[k] : k \in TemplateKeys \cap DOMAIN sections}

KeyMissing(sections) == ~(TemplateKeys \subseteq DOMAIN sections)

----------------------------------------------------------------------------
(* Steps.                                                                  *)

OverLimit(ms) == Tokens(ms) > MaxBefore

\* The conversation is short enough, and only the hint is added.
Rewrite ==
    /\ apc = "rewrite"
    /\ ~OverLimit(Hinted(conv))
    /\ conv' = Hinted(conv)
    /\ counted' = TRUE
    /\ apc' = "model"
    /\ UNCHANGED <<hint, steps, turns, cut, told>>

\* The encoding cannot be loaded: the conversation is left as it is.
CountFails ==
    /\ apc = "rewrite"
    /\ conv' = Hinted(conv)
    /\ counted' = FALSE
    /\ apc' = "model"
    /\ UNCHANGED <<hint, steps, turns, cut, told>>

Summarize ==
    /\ apc = "rewrite"
    /\ OverLimit(Hinted(conv))
    /\ KeyMissing(Sections(conv)) => "empty" \in MissingKey
    /\ conv' = Fixed(Hinted(conv)) \o <<Summary>> \o Recent(Rest(conv))
    /\ counted' = TRUE
    /\ cut' = cut \cup (TurnsIn(conv) \ TurnsIn(conv'))
    /\ told' = told \cup Rendered(Sections(conv))
    /\ apc' = "model"
    /\ UNCHANGED <<hint, steps, turns>>

\* The template or the model fails, and logger.Fatalf has the whole process
\* exit, with the requests it is serving.
SummarizeFails ==
    /\ apc = "rewrite"
    /\ OverLimit(Hinted(conv))
    /\ apc' = "exited"
    /\ UNCHANGED <<conv, hint, steps, turns, counted, cut, told>>

\* The model answers, and the answer is the agent's.
ModelAnswers ==
    /\ apc = "model"
    /\ steps < MaxStep
    /\ steps' = steps + 1
    /\ apc' = "done"
    /\ UNCHANGED <<conv, hint, turns, counted, cut, told>>

\* Mutant: the limit on steps is not looked at.
ModelCallsOn ==
    /\ apc = "model"
    /\ steps' = steps + 1
    /\ turns' = turns + 1
    /\ conv' = Append(conv, Message("call", turns + 1, 1))
    /\ apc' = "tools"
    /\ UNCHANGED <<hint, counted, cut, told>>

\* The model asks for tools to be run.
ModelCalls ==
    /\ apc = "model"
    /\ steps < MaxStep
    /\ steps' = steps + 1
    /\ turns' = turns + 1
    /\ conv' = Append(conv, Message("call", turns + 1, 1))
    /\ apc' = "tools"
    /\ UNCHANGED <<hint, counted, cut, told>>

\* bash's output is truncated by OutputGuard.
Guarded(n) == IF n <= MaxOutput THEN n ELSE Kept

\* bash, or the editor, whose output and errors are passed on as they are.
Outputs == {Guarded(n) : n \in Sizes} \cup Sizes

\* The tools answer, one message for each call.
ToolsAnswer ==
    /\ apc = "tools"
    /\ steps < MaxStep
    /\ steps' = steps + 1
    /\ \E n \in 1..MaxCalls : \E size \in [1..n -> Outputs] :
            conv' = conv \o [i \in 1..n |-> Message("result", turns, size[i])]
    /\ apc' = "rewrite"
    /\ UNCHANGED <<hint, turns, counted, cut, told>>

\* The model fails, bash cannot be run, or the limit on steps is reached.
AgentFails ==
    /\ apc \in {"model", "tools"}
    /\ apc' = "failed"
    /\ UNCHANGED <<conv, hint, steps, turns, counted, cut, told>>

Next ==
    \/ Rewrite
    \/ CountFails
    \/ Summarize
    \/ SummarizeFails
    \/ ModelAnswers
    \/ ModelCalls
    \/ ToolsAnswer
    \/ AgentFails

Spec == Init /\ [][Next]_vars

----------------------------------------------------------------------------
(* Properties of what the model is called with.                            *)

\* The model's API refuses a tool's message that does not follow the call it
\* answers and a call without its answers: however the conversation was cut,
\* a turn is there in one piece or not at all, and the turns in their order.
TurnsAreWhole ==
    apc = "model" =>
        /\ Head(conv).role = "system" /\ conv[2].role = "user"
        /\ \A i \in 3..Len(conv) :
            CASE conv[i].role = "summary" -> i = 3
              [] conv[i].role = "call" ->
                    /\ conv[i].turn > conv[i - 1].turn
                    /\ i < Len(conv) /\ conv[i + 1].role = "result"
              [] conv[i].role = "result" -> conv[i].turn = conv[i - 1].turn
              [] OTHER -> FALSE

\* No call is over the limit by more than what cannot be cut: whatever the
\* outputs of the tools, and with the hint once for each call so far.
CallFits ==
    apc = "model" /\ counted =>
        \/ ~OverLimit(conv)
        \/ Tokens(conv) <= Tokens(<<System, Question, Summary>>) + (turns + 1) * hint + MaxRecent

OfTurn(ms, t) == Select(ms, {m \in Messages : m.turn = t})

LaterThan(ms, t) == Select(ms, {m \in Messages : m.turn > t})

\* A rewriting changes nothing of a turn, or cuts the whole of it, and that only
\* if it does not fit beside the later turns that are kept: in particular the
\* model sees what came of its last turn whenever that fits at all.
CutsWholeTurns ==
    [][apc = "rewrite" =>
        \A t \in TurnsIn(conv) :
            \/ OfTurn(conv', t) = OfTurn(conv, t)
            \/ /\ OfTurn(conv', t) = <<>>
               /\ Tokens(LaterThan(conv', t) \o OfTurn(conv, t)) > MaxRecent
      ]_vars

\* What was cut out of the conversation was given to the model that writes the
\* summary (sum.md: "merge 'previous_summary' and 'older_messages'").
CutIsSummarized == cut \subseteq told
=============================================================================
