------------------------- MODULE EventStreamProofs -------------------------
(***************************************************************************)
(* Theorems about an analyze request seen from its stream: EventStream     *)
(* with InvestigationRound and ChannelEmitter, for plans of any length,    *)
(* any limit on the node runs and any buffer.  Only EmitsNeverBlock needs  *)
(* BufferAssumption.                                                       *)
(***************************************************************************)
EXTENDS EventStream, SequenceTheorems, FiniteSetTheorems, TLAPS

----------------------------------------------------------------------------
(* The invariant of the round.                                             *)

Events == RoundEvents \cup {SessionEvent}

RoundType ==
    /\ RoundTypeOK
    /\ emitted \in Seq(Events)

\* The events of the round so far are the first n of the script.
Followed(n) ==
    /\ Len(emitted) = n + 1
    /\ \A k \in 1..n : emitted[k + 1] = Script(steps)[k]

\* They are the first n of the script, then errors.
FollowedToError(n) ==
    /\ n + 1 <= Len(emitted)
    /\ \A k \in 1..n : emitted[k + 1] = Script(steps)[k]
    /\ \A k \in (n + 2)..Len(emitted) : emitted[k][1] \in ErrorTypes

\* The graph is at a node of the loop's body: k runs after the loop came around,
\* and n events of the step at the index are there.
InBody(last, k, n) ==
    /\ IF last THEN idx + 1 = steps ELSE idx + 1 < steps
    /\ runs = 5 * idx + k
    /\ Followed(3 * idx + 2 + n)

\* What has been done at each place of the round.
RoundProgress ==
    /\ at = "start" => steps = 0 /\ emitted \in {<<>>, <<SessionEvent>>}
    /\ at = "plan" => steps = 0 /\ Followed(1)
    /\ at \in {"start", "plan"} => idx = 0 /\ runs = 0 /\ findings = {} /\ captured = {}
    /\ at = "is_last" => idx < steps /\ runs = 5 * idx /\ Followed(3 * idx + 2)
    /\ at = "normal_prepare" => InBody(FALSE, 1, 0)
    /\ at = "normal_template" => InBody(FALSE, 2, 1)
    /\ at = "normal_react" => InBody(FALSE, 3, 1)
    /\ at = "normal_parse" => InBody(FALSE, 4, 1)
    /\ at = "parsed" => InBody(FALSE, 5, 2)
    /\ at = "final_prepare" => InBody(TRUE, 1, 0)
    /\ at = "final_template" => InBody(TRUE, 2, 1)
    /\ at = "final_react" => InBody(TRUE, 3, 1)
    /\ at = "final_parse" => InBody(TRUE, 4, 1)
    /\ at = "report" => InBody(TRUE, 5, 1)
    /\ at = "store" => 0 < steps /\ Followed(3 * steps + 1)
    /\ at \in {"failed", "over"} => \E n \in 0..(3 * steps + 2) : FollowedToError(n)
    /\ at \in Nodes \cup {"report", "store"} => captured = findings

RoundInv == RoundType /\ RoundProgress

----------------------------------------------------------------------------
(* The operators of the model.                                             *)

LEMMA NodesAre ==
    Nodes = {"is_last", "normal_prepare", "normal_template", "normal_react", "normal_parse",
             "final_prepare", "final_template", "final_react", "final_parse"}
BY DEF Nodes, ToSet, NormalNodes, FinalNodes

\* Where each event of a plan of n steps has its place.
LEMMA ScriptEvents ==
    ASSUME NEW n \in Nat
    PROVE  /\ Script(n)[1] = <<"round.started", 0>>
           /\ Script(n)[2] = <<"plan.created", 0>>
           /\ \A i \in Nat : i < n => Script(n)[3 * i + 3] = <<"step.started", i + 1>>
           /\ \A i \in Nat : i + 1 < n =>
                /\ Script(n)[3 * i + 4] = <<"step.findings", i + 1>>
                /\ Script(n)[3 * i + 5] = <<"step.completed", i + 1>>
           /\ n # 0 => /\ Script(n)[3 * n + 1] = <<"report.generated", 0>>
                       /\ Script(n)[3 * n + 2] = <<"round.completed", 0>>
<1>1. Script(n)[1] = <<"round.started", 0>> /\ Script(n)[2] = <<"plan.created", 0>>
  BY DEF Script
<1>2. ASSUME NEW i \in Nat, i < n
      PROVE  Script(n)[3 * i + 3] = <<"step.started", i + 1>>
  <2>1. /\ 3 * i + 3 \in 1..(3 * n + 2) /\ ~(3 * i + 3 <= 2) /\ ~(3 * i + 3 > 3 * n)
        /\ ((3 * i + 3 - 3) % 3) + 1 = 1 /\ ((3 * i + 3 - 3) \div 3) + 1 = i + 1
    BY <1>2
  <2> QED
    BY <2>1 DEF Script
<1>3. ASSUME NEW i \in Nat, i + 1 < n
      PROVE  /\ Script(n)[3 * i + 4] = <<"step.findings", i + 1>>
             /\ Script(n)[3 * i + 5] = <<"step.completed", i + 1>>
  <2>1. /\ 3 * i + 4 \in 1..(3 * n + 2) /\ ~(3 * i + 4 <= 2) /\ ~(3 * i + 4 > 3 * n)
        /\ ((3 * i + 4 - 3) % 3) + 1 = 2 /\ ((3 * i + 4 - 3) \div 3) + 1 = i + 1
    BY <1>3
  <2>2. /\ 3 * i + 5 \in 1..(3 * n + 2) /\ ~(3 * i + 5 <= 2) /\ ~(3 * i + 5 > 3 * n)
        /\ ((3 * i + 5 - 3) % 3) + 1 = 3 /\ ((3 * i + 5 - 3) \div 3) + 1 = i + 1
    BY <1>3
  <2> QED
    BY <2>1, <2>2 DEF Script
<1>4. ASSUME n # 0
      PROVE  /\ Script(n)[3 * n + 1] = <<"report.generated", 0>>
             /\ Script(n)[3 * n + 2] = <<"round.completed", 0>>
  <2>1. /\ 3 * n + 1 \in 1..(3 * n + 2) /\ ~(3 * n + 1 <= 2) /\ 3 * n + 1 > 3 * n
        /\ 3 * n + 2 \in 1..(3 * n + 2) /\ ~(3 * n + 2 <= 2) /\ 3 * n + 2 > 3 * n
        /\ (3 * n + 1) - 3 * n = 1 /\ (3 * n + 2) - 3 * n = 2
    BY <1>4
  <2> QED
    BY <2>1 DEF Script
<1> QED
  BY <1>1, <1>2, <1>3, <1>4

\* No event of a script is an error.
LEMMA ScriptHasNoError ==
    ASSUME NEW n \in Nat
    PROVE  /\ Len(Script(n)) = 3 * n + 2
           /\ \A k \in 1..(3 * n + 2) : Script(n)[k][1] \notin ErrorTypes
<1>1. ASSUME NEW k \in 1..(3 * n + 2)
      PROVE  Script(n)[k][1] \notin ErrorTypes
  <2>1. CASE k <= 2
    <3>1. k = 1 \/ k = 2
      BY <2>1
    <3> QED
      BY <3>1 DEF Script, ErrorTypes
  <2>2. CASE ~(k <= 2) /\ k > 3 * n
    <3>1. k - 3 * n = 1 \/ k - 3 * n = 2
      BY <2>2
    <3> QED
      BY <2>2, <3>1 DEF Script, ErrorTypes
  <2>3. CASE ~(k <= 2) /\ ~(k > 3 * n)
    <3>1. ((k - 3) % 3) + 1 \in {1, 2, 3}
      BY <2>3
    <3> QED
      BY <2>3, <3>1 DEF Script, ErrorTypes
  <2> QED
    BY <2>1, <2>2, <2>3
<1>2. 3 * n + 2 \in Nat
  OBVIOUS
<1>3. Len(Script(n)) = 3 * n + 2
  BY <1>2 DEF Script
<1> QED
  BY <1>1, <1>3

----------------------------------------------------------------------------
(* Every step of the round keeps its invariant.                            *)

LEMMA EventTypes ==
    /\ SessionEvent \in Events
    /\ \A type \in ErrorTypes : <<type, 0>> \in Events
    /\ \A type \in {"round.started", "plan.created", "report.generated", "round.completed"} :
            <<type, 0>> \in Events
    /\ \A type \in {"step.started", "step.findings", "step.completed", "step.error"} :
            \A i \in 1..MaxSteps : <<type, i>> \in Events
BY DEF Events, RoundEvents, ErrorTypes

\* The next event of the script is emitted.
LEMMA FollowedNext ==
    ASSUME RoundType, NEW n \in Nat, Followed(n), NEW m, m = n + 1,
           NEW event \in Events, emitted' = Append(emitted, event),
           Script(steps')[m] = event,
           \A k \in 1..n : Script(steps')[k] = Script(steps)[k]
    PROVE  Followed(m)' /\ emitted' \in Seq(Events)
<1>1. /\ emitted' \in Seq(Events) /\ Len(emitted') = Len(emitted) + 1
      /\ \A k \in 1..Len(emitted) : emitted'[k] = emitted[k]
      /\ emitted'[Len(emitted) + 1] = event
  BY AppendProperties DEF RoundType
<1>2. Len(emitted) = n + 1 /\ Len(emitted') = (n + 1) + 1
  BY <1>1 DEF Followed
<1>3. ASSUME NEW k \in 1..(n + 1)
      PROVE  emitted'[k + 1] = Script(steps')[k]
  <2>1. CASE k = n + 1
    BY <1>1, <1>2, <2>1
  <2>2. CASE k # n + 1
    <3>1. k \in 1..n /\ k + 1 \in 1..Len(emitted)
      BY <1>2, <2>2
    <3> QED
      BY <1>1, <3>1 DEF Followed
  <2> QED
    BY <2>1, <2>2
<1> QED
  BY <1>1, <1>2, <1>3 DEF Followed

\* An error is emitted.
LEMMA FollowedByError ==
    ASSUME RoundType, NEW n \in Nat, FollowedToError(n), NEW event \in Events,
           emitted' = Append(emitted, event), event[1] \in ErrorTypes, steps' = steps
    PROVE  FollowedToError(n)' /\ emitted' \in Seq(Events)
<1>1. /\ emitted' \in Seq(Events) /\ Len(emitted') = Len(emitted) + 1
      /\ \A k \in 1..Len(emitted) : emitted'[k] = emitted[k]
      /\ emitted'[Len(emitted) + 1] = event
      /\ Len(emitted) \in Nat
  BY AppendProperties, LenProperties DEF RoundType
<1>2. n + 1 <= Len(emitted')
  BY <1>1 DEF FollowedToError
<1>3. \A k \in 1..n : emitted'[k + 1] = Script(steps')[k]
  BY <1>1 DEF FollowedToError
<1>4. ASSUME NEW k \in (n + 2)..Len(emitted')
      PROVE  emitted'[k][1] \in ErrorTypes
  <2>1. CASE k = Len(emitted) + 1
    BY <1>1, <2>1
  <2>2. CASE k # Len(emitted) + 1
    <3>1. k \in (n + 2)..Len(emitted) /\ k \in 1..Len(emitted)
      BY <1>1, <2>2
    <3> QED
      BY <1>1, <3>1 DEF FollowedToError
  <2> QED
    BY <2>1, <2>2
<1> QED
  BY <1>1, <1>2, <1>3, <1>4 DEF FollowedToError

\* Wherever the round is, it has followed the script so far.
LEMMA SoFar ==
    ASSUME RoundInv, at # "start"
    PROVE  \E n \in 0..(3 * steps + 2) : FollowedToError(n)
<1>1. steps \in Nat /\ idx \in Nat /\ runs \in Nat
  BY RoundAssumption DEF RoundInv, RoundType, RoundTypeOK
<1>2. ASSUME NEW n \in Nat, Followed(n), n <= 3 * steps + 2
      PROVE  \E m \in 0..(3 * steps + 2) : FollowedToError(m)
  <2>1. Len(emitted) = n + 1 /\ (n + 2)..Len(emitted) = {}
    BY <1>2 DEF Followed
  <2>2. FollowedToError(n)
    BY <1>2, <2>1 DEF Followed, FollowedToError
  <2> QED
    BY <1>1, <1>2, <2>2
<1>3. CASE at \in {"failed", "over"}
  BY <1>3 DEF RoundInv, RoundProgress
<1>4. CASE at \notin {"failed", "over"}
  <2>1. \E n \in Nat : Followed(n) /\ n <= 3 * steps + 2
    <3>1. at \in Nodes \cup {"plan", "parsed", "report", "store"}
      BY <1>4 DEF RoundInv, RoundType, RoundTypeOK
    <3>2. CASE at \in {"plan", "store"}
      BY <1>1, <3>2 DEF RoundInv, RoundProgress
    <3>3. CASE at = "is_last"
      <4>1. 3 * idx + 2 \in Nat /\ 3 * idx + 2 <= 3 * steps + 2 /\ Followed(3 * idx + 2)
        BY <1>1, <3>3 DEF RoundInv, RoundProgress
      <4> QED
        BY <4>1
    <3>4. CASE at \notin {"plan", "store", "is_last"}
      <4>1. PICK n \in {0, 1, 2} : idx < steps /\ Followed(3 * idx + 2 + n)
        BY <1>1, <3>1, <3>4, NodesAre DEF RoundInv, RoundProgress, InBody
      <4>2. 3 * idx + 2 + n \in Nat /\ 3 * idx + 2 + n <= 3 * steps + 2
        BY <1>1, <4>1
      <4> QED
        BY <4>1, <4>2
    <3> QED
      BY <3>2, <3>3, <3>4
  <2> QED
    BY <1>2, <2>1
<1> QED
  BY <1>3, <1>4

LEMMA RoundNumbers ==
    ASSUME RoundInv
    PROVE  /\ steps \in 0..MaxSteps /\ idx \in 0..MaxSteps /\ runs \in 0..MaxRunSteps
           /\ steps \in Nat /\ idx \in Nat /\ runs \in Nat
           /\ emitted \in Seq(Events)
           /\ findings \subseteq 1..MaxSteps /\ captured \subseteq 1..MaxSteps
BY RoundAssumption DEF RoundInv, RoundType, RoundTypeOK

LEMMA RoundStepKeeps ==
    ASSUME RoundInv, emitted # <<>>, RoundStep
    PROVE  RoundInv'
<1> USE RoundAssumption, NodesAre
<1>0. /\ steps \in 0..MaxSteps /\ idx \in 0..MaxSteps /\ runs \in 0..MaxRunSteps
      /\ steps \in Nat /\ idx \in Nat /\ runs \in Nat
      /\ emitted \in Seq(Events)
      /\ findings \subseteq 1..MaxSteps /\ captured \subseteq 1..MaxSteps
  BY RoundNumbers
<1>1. CASE StartRound
  <2>1. emitted = <<SessionEvent>> /\ steps = 0 /\ emitted' = Append(emitted, <<"round.started", 0>>)
    BY <1>1 DEF RoundInv, RoundProgress, StartRound, Emit
  <2>2. Followed(0)
    BY <2>1 DEF Followed
  <2>3. <<"round.started", 0>> \in Events /\ Script(steps)[1] = <<"round.started", 0>>
    BY <1>0, EventTypes, ScriptEvents
  <2>4. Followed(1)' /\ emitted' \in Seq(Events)
    BY <1>0, <1>1, <2>1, <2>2, <2>3, FollowedNext DEF RoundInv, StartRound
  <2> QED
    BY <1>0, <1>1, <2>4
       DEF RoundInv, RoundType, RoundTypeOK, RoundProgress, InBody, Continue, StartRound
<1>2. CASE HistoryFails
  <2>1. \E n \in 0..(3 * steps + 2) : FollowedToError(n)
    BY <1>2, SoFar DEF HistoryFails
  <2> QED
    BY <1>0, <1>2, <2>1
       DEF RoundInv, RoundType, RoundTypeOK, RoundProgress, InBody, FollowedToError,
           Silent, Continue, HistoryFails
<1>3. CASE PlannerFails
  <2>1. /\ at # "start" /\ emitted' = Append(emitted, <<"plan.error", 0>>) /\ steps' = steps
        /\ at' \in {"failed", "over"}
    BY <1>3 DEF RoundInv, RoundType, RoundTypeOK, Emit, Continue, PlannerFails
  <2>2. PICK n \in 0..(3 * steps + 2) : FollowedToError(n)
    BY <2>1, SoFar
  <2>3. <<"plan.error", 0>> \in Events /\ <<"plan.error", 0>>[1] \in ErrorTypes
    BY <1>0, <1>3, EventTypes
       DEF RoundInv, RoundType, RoundTypeOK, RoundProgress, InBody, ErrorTypes,
           PlannerFails
  <2>4. FollowedToError(n)' /\ emitted' \in Seq(Events)
    BY <1>0, <2>1, <2>2, <2>3, FollowedByError DEF RoundInv
  <2> QED
    BY <1>0, <1>3, <2>1, <2>2, <2>4
       DEF RoundInv, RoundType, RoundTypeOK, RoundProgress, InBody, PlannerFails
<1>4. CASE PlannerAnswers
  <2>1. /\ at = "plan" /\ steps' \in 0..MaxSteps /\ steps' \in Nat /\ Followed(1)
        /\ emitted' = Append(emitted, <<"plan.created", 0>>)
        /\ at' = IF steps' = 0 THEN "over" ELSE "is_last"
    BY <1>4 DEF RoundInv, RoundProgress, PlannerAnswers, Emit, Continue
  <2>2. /\ <<"plan.created", 0>> \in Events
        /\ Script(steps')[2] = <<"plan.created", 0>>
        /\ \A k \in 1..1 : Script(steps')[k] = Script(steps)[k]
    <3>1. Script(steps)[1] = <<"round.started", 0>>
      BY <1>0, ScriptEvents
    <3>2. PICK n \in Nat : n = steps'
      BY <2>1
    <3>3. Script(n)[1] = <<"round.started", 0>> /\ Script(n)[2] = <<"plan.created", 0>>
      BY ScriptEvents
    <3> QED
      BY <3>1, <3>2, <3>3, EventTypes
  <2>3. Followed(2)' /\ emitted' \in Seq(Events)
    <3>1. 2 = 1 + 1 /\ 1 \in Nat /\ 2 \in Nat
      OBVIOUS
    <3> QED
      BY <1>0, <2>1, <2>2, <3>1, FollowedNext DEF RoundInv
  <2>4. CASE steps' = 0
    <3>1. FollowedToError(2)'
      BY <2>3 DEF Followed, FollowedToError
    <3>2. 2 \in 0..(3 * steps' + 2)
      BY <2>1, <2>4
    <3> QED
      BY <1>0, <1>4, <2>1, <2>3, <2>4, <3>1, <3>2
         DEF RoundInv, RoundType, RoundTypeOK, RoundProgress, InBody, PlannerAnswers
  <2>5. CASE steps' # 0
    <3>1. idx' = 0 /\ runs' = 0 /\ captured' = {} /\ findings' = {} /\ at' = "is_last"
      BY <1>4, <2>1, <2>5 DEF RoundInv, RoundProgress, PlannerAnswers
    <3>2. 0 < steps' /\ 5 * 0 = 0 /\ 3 * 0 + 2 = 2
      BY <2>1, <2>5
    <3>3. RoundProgress'
      BY <2>3, <3>1, <3>2 DEF RoundProgress, Followed
    <3> QED
      BY <1>0, <2>1, <2>3, <3>1, <3>3 DEF RoundInv, RoundType, RoundTypeOK
  <2> QED
    BY <2>4, <2>5
<1>5. CASE GraphFails
  <2>1. /\ at # "start" /\ emitted' = Append(emitted, <<"error", 0>>) /\ steps' = steps
        /\ at' \in {"failed", "over"}
    BY <1>5 DEF RoundInv, RoundType, RoundTypeOK, Emit, Continue, GraphFails
  <2>2. PICK n \in 0..(3 * steps + 2) : FollowedToError(n)
    BY <2>1, SoFar
  <2>3. <<"error", 0>> \in Events /\ <<"error", 0>>[1] \in ErrorTypes
    BY <1>0, <1>5, EventTypes
       DEF RoundInv, RoundType, RoundTypeOK, RoundProgress, InBody, ErrorTypes,
           GraphFails
  <2>4. FollowedToError(n)' /\ emitted' \in Seq(Events)
    BY <1>0, <2>1, <2>2, <2>3, FollowedByError DEF RoundInv
  <2> QED
    BY <1>0, <1>5, <2>1, <2>2, <2>4
       DEF RoundInv, RoundType, RoundTypeOK, RoundProgress, InBody, GraphFails
<1>6. CASE IsLast
  BY <1>0, <1>6
     DEF RoundInv, RoundType, RoundTypeOK, RoundProgress, InBody, Followed, Silent,
         Continue, IsLast, RunNode
<1>7. CASE NormalPrepare
  <2>1. /\ idx + 1 \in 1..MaxSteps /\ idx < steps /\ Followed(3 * idx + 2)
        /\ emitted' = Append(emitted, <<"step.started", idx + 1>>) /\ steps' = steps
    BY <1>0, <1>7
       DEF RoundInv, RoundType, RoundTypeOK, RoundProgress, InBody, Emit, Continue,
           NormalPrepare, Prepare, RunNode
  <2>2. PICK n \in Nat : n = 3 * idx + 2 /\ Followed(n)
    BY <1>0, <2>1
  <2>3. PICK m \in Nat : m = 3 * idx + 3 /\ m = n + 1
    BY <1>0, <2>1, <2>2
  <2>4. <<"step.started", idx + 1>> \in Events
    BY <1>0, <2>1, EventTypes
  <2>5. Script(steps)[3 * idx + 3] = <<"step.started", idx + 1>>
    BY <1>0, <2>1, ScriptEvents
  <2>6. Followed(m)' /\ emitted' \in Seq(Events)
    BY <2>1, <2>2, <2>3, <2>4, <2>5, FollowedNext DEF RoundInv
  <2>7. RoundType'
    BY <1>0, <1>7, <2>1, <2>6
       DEF RoundInv, RoundType, RoundTypeOK, Continue, NormalPrepare, Prepare, RunNode
  <2>8. RoundProgress'
    BY <1>0, <1>7, <2>1, <2>3, <2>6
       DEF RoundInv, RoundProgress, InBody, Continue, NormalPrepare, Prepare, RunNode
  <2> QED
    BY <2>7, <2>8 DEF RoundInv
<1>8. CASE FinalPrepare
  <2>1. /\ idx + 1 \in 1..MaxSteps /\ idx < steps /\ Followed(3 * idx + 2)
        /\ emitted' = Append(emitted, <<"step.started", idx + 1>>) /\ steps' = steps
    BY <1>0, <1>8
       DEF RoundInv, RoundType, RoundTypeOK, RoundProgress, InBody, Emit, Continue,
           FinalPrepare, Prepare, RunNode
  <2>2. PICK n \in Nat : n = 3 * idx + 2 /\ Followed(n)
    BY <1>0, <2>1
  <2>3. PICK m \in Nat : m = 3 * idx + 3 /\ m = n + 1
    BY <1>0, <2>1, <2>2
  <2>4. <<"step.started", idx + 1>> \in Events
    BY <1>0, <2>1, EventTypes
  <2>5. Script(steps)[3 * idx + 3] = <<"step.started", idx + 1>>
    BY <1>0, <2>1, ScriptEvents
  <2>6. Followed(m)' /\ emitted' \in Seq(Events)
    BY <2>1, <2>2, <2>3, <2>4, <2>5, FollowedNext DEF RoundInv
  <2>7. RoundType'
    BY <1>0, <1>8, <2>1, <2>6
       DEF RoundInv, RoundType, RoundTypeOK, Continue, FinalPrepare, Prepare, RunNode
  <2>8. RoundProgress'
    BY <1>0, <1>8, <2>1, <2>3, <2>6
       DEF RoundInv, RoundProgress, InBody, Continue, FinalPrepare, Prepare, RunNode
  <2> QED
    BY <2>7, <2>8 DEF RoundInv
<1>9. CASE NormalTemplate
  BY <1>0, <1>9
     DEF RoundInv, RoundType, RoundTypeOK, RoundProgress, InBody, Followed, Silent,
         Continue, NormalTemplate, Template, RunNode
<1>10. CASE FinalTemplate
  BY <1>0, <1>10
     DEF RoundInv, RoundType, RoundTypeOK, RoundProgress, InBody, Followed, Silent,
         Continue, FinalTemplate, Template, RunNode
<1>11. CASE NormalReact
  <2>1. CASE at' # "failed"
    BY <1>0, <1>11, <2>1
       DEF RoundInv, RoundType, RoundTypeOK, RoundProgress, InBody, Followed, Silent,
           Continue, NormalReact, Answer, RunNode
  <2>2. CASE at' = "failed"
    <3>1. \E n \in 0..(3 * steps + 2) : FollowedToError(n)
      BY <1>11, SoFar DEF NormalReact, Answer, RunNode
    <3> QED
      BY <1>0, <1>11, <2>2, <3>1
         DEF RoundInv, RoundType, RoundTypeOK, RoundProgress, InBody, FollowedToError,
             Silent, Continue, NormalReact, Answer, RunNode
  <2> QED
    BY <2>1, <2>2
<1>12. CASE FinalModel
  <2>1. CASE at' # "failed"
    BY <1>0, <1>12, <2>1
       DEF RoundInv, RoundType, RoundTypeOK, RoundProgress, InBody, Followed, Silent,
           Continue, FinalModel, Answer, RunNode
  <2>2. CASE at' = "failed"
    <3>1. \E n \in 0..(3 * steps + 2) : FollowedToError(n)
      BY <1>12, SoFar DEF FinalModel, Answer, RunNode
    <3> QED
      BY <1>0, <1>12, <2>2, <3>1
         DEF RoundInv, RoundType, RoundTypeOK, RoundProgress, InBody, FollowedToError,
             Silent, Continue, FinalModel, Answer, RunNode
  <2> QED
    BY <2>1, <2>2
<1>13. CASE ParseFails
  <2>1. /\ at # "start" /\ emitted' = Append(emitted, <<"step.error", idx + 1>>) /\ steps' = steps
        /\ at' \in {"failed", "over"}
    BY <1>13 DEF RoundInv, RoundType, RoundTypeOK, Emit, Continue, ParseFails, RunNode
  <2>2. PICK n \in 0..(3 * steps + 2) : FollowedToError(n)
    BY <2>1, SoFar
  <2>3. <<"step.error", idx + 1>> \in Events /\ <<"step.error", idx + 1>>[1] \in ErrorTypes
    BY <1>0, <1>13, EventTypes
       DEF RoundInv, RoundType, RoundTypeOK, RoundProgress, InBody, ErrorTypes,
           ParseFails, RunNode
  <2>4. FollowedToError(n)' /\ emitted' \in Seq(Events)
    BY <1>0, <2>1, <2>2, <2>3, FollowedByError DEF RoundInv
  <2> QED
    BY <1>0, <1>13, <2>1, <2>2, <2>4
       DEF RoundInv, RoundType, RoundTypeOK, RoundProgress, InBody, ParseFails, RunNode
<1>14. CASE ParseStep
  <2>1. /\ idx + 1 \in 1..MaxSteps /\ idx + 1 < steps /\ Followed(3 * idx + 2 + 1)
        /\ emitted' = Append(emitted, <<"step.findings", idx + 1>>) /\ steps' = steps
    BY <1>0, <1>14
       DEF RoundInv, RoundType, RoundTypeOK, RoundProgress, InBody, Emit, Continue,
           ParseStep, RunNode
  <2>2. PICK n \in Nat : n = 3 * idx + 3 /\ Followed(n)
    BY <1>0, <2>1
  <2>3. PICK m \in Nat : m = 3 * idx + 4 /\ m = n + 1
    BY <1>0, <2>1, <2>2
  <2>4. <<"step.findings", idx + 1>> \in Events
    BY <1>0, <2>1, EventTypes
  <2>5. Script(steps)[3 * idx + 4] = <<"step.findings", idx + 1>>
    BY <1>0, <2>1, ScriptEvents
  <2>6. Followed(m)' /\ emitted' \in Seq(Events)
    BY <2>1, <2>2, <2>3, <2>4, <2>5, FollowedNext DEF RoundInv
  <2>7. RoundType'
    <3>1. findings' \subseteq 1..MaxSteps
      BY <1>0, <1>14, <2>1 DEF ParseStep
    <3>2. runs' \in 0..MaxRunSteps
      BY <1>0, <1>14 DEF ParseStep, RunNode
    <3> QED
      BY <1>0, <1>14, <2>1, <2>6, <3>1, <3>2
         DEF RoundInv, RoundType, RoundTypeOK, Continue, ParseStep
  <2>8. RoundProgress'
    BY <1>0, <1>14, <2>1, <2>3, <2>6
       DEF RoundInv, RoundProgress, InBody, Continue, ParseStep, RunNode
  <2> QED
    BY <2>7, <2>8 DEF RoundInv
<1>15. CASE CompleteStep
  <2>1. /\ idx + 1 \in 1..MaxSteps /\ idx + 1 < steps /\ Followed(3 * idx + 2 + 2)
        /\ emitted' = Append(emitted, <<"step.completed", idx + 1>>) /\ steps' = steps
    BY <1>0, <1>15
       DEF RoundInv, RoundType, RoundTypeOK, RoundProgress, InBody, Emit, Continue,
           CompleteStep
  <2>2. PICK n \in Nat : n = 3 * idx + 4 /\ Followed(n)
    BY <1>0, <2>1
  <2>3. PICK m \in Nat : m = 3 * idx + 5 /\ m = n + 1
    BY <1>0, <2>1, <2>2
  <2>4. <<"step.completed", idx + 1>> \in Events
    BY <1>0, <2>1, EventTypes
  <2>5. Script(steps)[3 * idx + 5] = <<"step.completed", idx + 1>>
    BY <1>0, <2>1, ScriptEvents
  <2>6. Followed(m)' /\ emitted' \in Seq(Events)
    BY <2>1, <2>2, <2>3, <2>4, <2>5, FollowedNext DEF RoundInv
  <2>7. RoundType'
    BY <1>0, <1>15, <2>1, <2>6
       DEF RoundInv, RoundType, RoundTypeOK, Continue, CompleteStep
  <2>8. RoundProgress'
    BY <1>0, <1>15, <2>1, <2>3, <2>6
       DEF RoundInv, RoundProgress, InBody, Continue, CompleteStep
  <2> QED
    BY <2>7, <2>8 DEF RoundInv
<1>16. CASE FinalParse
  BY <1>0, <1>16
     DEF RoundInv, RoundType, RoundTypeOK, RoundProgress, InBody, Followed, Silent,
         Continue, FinalParse, RunNode
<1>17. CASE Report
  <2>1. /\ idx + 1 = steps /\ steps # 0 /\ Followed(3 * idx + 2 + 1)
        /\ emitted' = Append(emitted, <<"report.generated", 0>>) /\ steps' = steps
    BY <1>0, <1>17
       DEF RoundInv, RoundType, RoundTypeOK, RoundProgress, InBody, Emit, Continue,
           Report
  <2>2. PICK n \in Nat : n = 3 * idx + 3 /\ Followed(n)
    BY <1>0, <2>1
  <2>3. PICK m \in Nat : m = 3 * steps + 1 /\ m = n + 1
    BY <1>0, <2>1, <2>2
  <2>4. <<"report.generated", 0>> \in Events
    BY <1>0, <2>1, EventTypes
  <2>5. Script(steps)[3 * steps + 1] = <<"report.generated", 0>>
    BY <1>0, <2>1, ScriptEvents
  <2>6. Followed(m)' /\ emitted' \in Seq(Events)
    BY <2>1, <2>2, <2>3, <2>4, <2>5, FollowedNext DEF RoundInv
  <2>7. RoundType'
    BY <1>0, <1>17, <2>1, <2>6 DEF RoundInv, RoundType, RoundTypeOK, Continue, Report
  <2>8. RoundProgress'
    BY <1>0, <1>17, <2>1, <2>3, <2>6 DEF RoundInv, RoundProgress, InBody, Continue, Report
  <2> QED
    BY <2>7, <2>8 DEF RoundInv
<1>18. CASE CompleteRound
  <2>1. /\ steps # 0 /\ Followed(3 * steps + 1)
        /\ emitted' = Append(emitted, <<"round.completed", 0>>) /\ steps' = steps
    BY <1>0, <1>18 DEF RoundInv, RoundProgress, CompleteRound, Emit
  <2>2. PICK n \in Nat : n = 3 * steps + 1 /\ Followed(n)
    BY <1>0, <2>1
  <2>3. PICK m \in Nat : m = 3 * steps + 2 /\ m = n + 1
    BY <1>0, <2>2
  <2>4. <<"round.completed", 0>> \in Events
    BY EventTypes
  <2>5. Script(steps)[3 * steps + 2] = <<"round.completed", 0>>
    BY <1>0, <2>1, ScriptEvents
  <2>6. Followed(m)' /\ emitted' \in Seq(Events)
    BY <2>1, <2>2, <2>3, <2>4, <2>5, FollowedNext DEF RoundInv
  <2>7. Len(emitted') = m + 1 /\ (m + 2)..(m + 1) = {} /\ m \in 0..(3 * steps' + 2)
    BY <1>0, <2>1, <2>3, <2>6 DEF Followed
  <2>8. FollowedToError(m)'
    BY <2>6, <2>7 DEF Followed, FollowedToError
  <2> QED
    BY <1>0, <1>18, <2>6, <2>7, <2>8
       DEF RoundInv, RoundType, RoundTypeOK, RoundProgress, InBody, Continue,
           CompleteRound
<1> QED
  BY <1>1, <1>2, <1>3, <1>4, <1>5, <1>6, <1>7, <1>8, <1>9, <1>10, <1>11, <1>12, <1>13,
     <1>14, <1>15, <1>16, <1>17, <1>18
     DEF RoundStep

----------------------------------------------------------------------------
(* The invariant of the stream.                                            *)

Collected == Events \cup {CompletedEvent}

StreamType ==
    /\ subs \in {<<>>, <<Sse>>}
    /\ chan \in [Subscribers -> Seq(Events)]
    /\ Len(chan[Sse]) <= BufSize
    /\ chanOpen \in [Subscribers -> BOOLEAN]
    /\ closed \in BOOLEAN
    /\ call \in [Procs -> {"none", "emit", "close"}]
    /\ sending \in [Procs -> Events \cup {<<>>}]
    /\ sendTo \in [Procs -> {1}]
    /\ hpc \in {"init", "copy", "loop", "result", "cleanup", "closing", "returned"}
    /\ ipc \in {"off", "run", "closing", "report", "over"}
    /\ gone \in BOOLEAN
    /\ container \in {"none", "running", "removed"}
    /\ errCh \in 0..1
    /\ collected \in Seq(Collected)
    /\ flushed \in Seq(Collected)

\* The investigation is started after the handler has subscribed, and what each
\* goroutine is doing with the emitter says where it is.
Goroutines ==
    /\ hpc \in {"init", "copy"} => ipc = "off"
    /\ hpc \in {"loop", "result"} => ipc # "off"
    /\ ipc = "off" <=> subs = <<>>
    /\ ipc = "off" => at = "start"
    /\ ipc # "off" => emitted # <<>>
    /\ call[Handler] = IF hpc = "closing" THEN "close" ELSE "none"
    /\ call[Investigation] = "close" <=> ipc = "closing"
    /\ call[Investigation] = "emit" => ipc = "run"

\* The channel is closed by the first who closes the emitter, once a channel is
\* there, and by nobody while a goroutine sends on it.
Closing ==
    /\ closed => hpc = "returned" \/ ipc \in {"report", "over"}
    /\ ipc \in {"report", "over"} => closed
    /\ chanOpen[Sse] <=> ~(closed /\ subs # <<>>)
    /\ call[Investigation] = "emit" => ~closed /\ sending[Investigation] \in Events

Pending == IF call[Investigation] = "emit" THEN <<sending[Investigation]>> ELSE <<>>

\* What was emitted is collected, in the channel or being sent.
Flow ==
    /\ hpc = "init" => emitted = <<>>
    /\ hpc = "copy" => emitted = <<SessionEvent>>
    /\ hpc \in {"init", "copy"} => collected = <<>> /\ chan[Sse] = <<>> /\ flushed = <<>>
    /\ hpc \in {"loop", "result"} => Tail(emitted) = collected \o chan[Sse] \o Pending
    /\ hpc = "result" => ipc \in {"report", "over"} /\ chan[Sse] = <<>>
    /\ flushed # <<>> =>
            /\ ipc \in {"report", "over"}
            /\ flushed = Append(Tail(emitted), CompletedEvent)

Sandboxed ==
    /\ hpc = "closing" => container = "removed"
    /\ hpc = "returned" /\ container = "running" => gone /\ emitted = <<>>

StreamInv ==
    /\ RoundInv
    /\ StreamType
    /\ Goroutines
    /\ Closing
    /\ Flow
    /\ Sandboxed

LEMMA StreamStart == StreamInit => StreamInv
<1> SUFFICES ASSUME StreamInit PROVE StreamInv
  OBVIOUS
<1> USE StreamAssumption, EmitterAssumption, RoundAssumption DEF StreamInit, EmitterInit, RoundInit
<1>0. Handler \in Procs /\ Investigation \in Procs /\ Sse \in Subscribers
  OBVIOUS
<1>1. RoundInv
  BY EmptySeq, NodesAre DEF RoundInv, RoundType, RoundTypeOK, RoundProgress
<1>2. StreamType
  <2>1. chan[Sse] = <<>> /\ Len(chan[Sse]) <= BufSize /\ chan \in [Subscribers -> Seq(Events)]
    BY <1>0, EmptySeq
  <2>2. collected \in Seq(Collected) /\ flushed \in Seq(Collected)
    BY EmptySeq
  <2>3. /\ sending \in [Procs -> Events \cup {<<>>}] /\ sendTo \in [Procs -> {1}]
        /\ call \in [Procs -> {"none", "emit", "close"}]
        /\ chanOpen \in [Subscribers -> BOOLEAN]
    OBVIOUS
  <2>4. subs \in {<<>>, <<Sse>>} /\ errCh \in 0..1
    OBVIOUS
  <2>6. closed \in BOOLEAN
    OBVIOUS
  <2>7. gone \in BOOLEAN
    OBVIOUS
  <2>5. hpc = "init" /\ ipc = "off" /\ container = "none"
    OBVIOUS
  <2> HIDE DEF StreamInit, EmitterInit, RoundInit
  <2> QED
    BY <2>1, <2>2, <2>3, <2>4, <2>5, <2>6, <2>7 DEF StreamType
<1>3. Goroutines /\ Closing /\ Flow /\ Sandboxed
  BY <1>0 DEF Goroutines, Closing, Flow, Sandboxed
<1> QED
  BY <1>1, <1>2, <1>3 DEF StreamInv

\* An event that is being sent is in the channel next.
LEMMA ToChannel ==
    ASSUME NEW S, NEW a \in Seq(S), NEW b \in Seq(S), NEW e \in S
    PROVE  a \o b \o <<e>> = a \o Append(b, e) \o <<>>
<1>1. <<e>> \in Seq(S) /\ Append(b, e) = b \o <<e>> /\ Append(b, e) \in Seq(S)
  BY AppendIsConcat, AppendProperties
<1>2. (a \o b) \o <<e>> = a \o Append(b, e)
  BY <1>1, ConcatAssociative
<1>3. a \o Append(b, e) \in Seq(S)
  BY <1>1, ConcatProperties
<1> QED
  BY <1>2, <1>3, ConcatEmptySeq

\* An event that is emitted is being sent next.
LEMMA ToSender ==
    ASSUME NEW S, NEW a \in Seq(S), NEW b \in Seq(S), NEW e \in S
    PROVE  Append(a \o b \o <<>>, e) = a \o b \o <<e>>
<1>1. a \o b \in Seq(S)
  BY ConcatProperties
<1> QED
  BY <1>1, ConcatEmptySeq, AppendIsConcat

\* The oldest event of the channel is the last of the collector next.
LEMMA ToCollector ==
    ASSUME NEW S, NEW a \in Seq(S), NEW b \in Seq(S), b # <<>>, NEW c
    PROVE  Append(a, Head(b)) \o Tail(b) \o c = a \o b \o c
<1>1. Head(b) \in S /\ Tail(b) \in Seq(S) /\ <<Head(b)>> \in Seq(S)
  BY HeadTailProperties
<1>2. b = <<Head(b)>> \o Tail(b)
  BY <1>1
<1>3. Append(a, Head(b)) = a \o <<Head(b)>>
  BY <1>1, AppendIsConcat
<1>4. (a \o <<Head(b)>>) \o Tail(b) = a \o (<<Head(b)>> \o Tail(b))
  BY <1>1, ConcatAssociative
<1> QED
  BY <1>2, <1>3, <1>4

\* A step of the round emits one event, or leaves the emitter alone.
LEMMA RoundStepEmits ==
    ASSUME RoundInv, RoundStep
    PROVE  \/ UNCHANGED <<emitterVars, emitted>>
           \/ \E event \in Events :
                StartEmit(Investigation, event) /\ emitted' = Append(emitted, event)
<1>0. steps \in Nat /\ idx \in Nat /\ steps \in 0..MaxSteps /\ MaxSteps \in Nat
  BY RoundNumbers, RoundAssumption
<1>1. CASE \/ HistoryFails \/ IsLast \/ NormalTemplate \/ NormalReact
           \/ FinalTemplate \/ FinalModel \/ FinalParse
  BY <1>1
     DEF HistoryFails, IsLast, NormalTemplate, NormalReact, FinalTemplate, FinalModel, 
              FinalParse, Template, Answer, Silent
<1>2. CASE \/ StartRound \/ PlannerFails \/ PlannerAnswers \/ GraphFails \/ Report
           \/ CompleteRound
  BY <1>2, EventTypes DEF StartRound, PlannerFails, PlannerAnswers, GraphFails, Report,
              CompleteRound, Emit, ErrorTypes
<1>3. CASE NormalPrepare \/ FinalPrepare \/ ParseFails \/ ParseStep \/ CompleteStep
  <2>1. CASE idx < steps
    <3>1. idx + 1 \in 1..MaxSteps
      BY <1>0, <2>1
    <3> QED
      BY <1>3, <3>1, EventTypes
         DEF NormalPrepare, FinalPrepare, Prepare, Silent, ParseFails, ParseStep, CompleteStep, Emit
  <2>2. CASE ~(idx < steps)
    BY <1>0, <1>3, <2>2
       DEF RoundInv, RoundProgress, InBody, NormalPrepare, FinalPrepare, Prepare, RunNode,
           ParseFails, ParseStep, CompleteStep
  <2> QED
    BY <2>1, <2>2
<1> QED
  BY <1>1, <1>2, <1>3 DEF RoundStep

\* The emitter belongs to the handler and the investigation, and has one channel.
LEMMA Parties ==
    /\ Procs = {Handler, Investigation} /\ Handler # Investigation
    /\ Subscribers = {Sse} /\ BufSize \in Nat
BY StreamAssumption, EmitterAssumption DEF Handler, Investigation

\* Where nothing of the round changes, neither does what is said of it.
LEMMA RoundStands ==
    ASSUME RoundInv, UNCHANGED roundVars
    PROVE  RoundInv'
BY DEF roundVars, RoundInv, RoundType, RoundTypeOK, RoundProgress, InBody, Followed,
       FollowedToError

LEMMA InitFailsKeeps ==
    ASSUME StreamInv, InitFails
    PROVE  StreamInv'
<1> USE Parties
<1>1. RoundInv'
  BY RoundStands DEF StreamInv, roundVars, InitFails
<1>2. StreamType'
  BY DEF StreamInv, StreamType, emitterVars, InitFails
<1>3. Goroutines'
  BY DEF StreamInv, StreamType, Goroutines, Closing, emitterVars, roundVars, InitFails
<1>4. Closing'
  BY DEF StreamInv, StreamType, Goroutines, Closing, Flow, emitterVars, roundVars,
         InitFails
<1>5. Flow'
  BY DEF StreamInv, StreamType, Goroutines, Closing, Flow, Pending, emitterVars,
         roundVars, InitFails
<1>6. Sandboxed'
  BY DEF StreamInv, StreamType, Goroutines, Flow, Sandboxed, emitterVars, roundVars,
         InitFails
<1> QED
  BY <1>1, <1>2, <1>3, <1>4, <1>5, <1>6 DEF StreamInv

LEMMA EmitSessionKeeps ==
    ASSUME StreamInv, EmitSession
    PROVE  StreamInv'
<1> USE Parties
<1>0. /\ at = "start" /\ emitted = <<>> /\ subs = <<>> /\ hpc = "init"
      /\ emitted' = <<SessionEvent>> /\ emitted' \in Seq(Events)
      /\ UNCHANGED <<subs, chan, chanOpen, closed, call, sending, sendTo>>
  BY EventTypes DEF StreamInv, Goroutines, Flow, EmitSession, StartEmit
<1>1. RoundInv'
  BY <1>0, NodesAre
     DEF StreamInv, RoundInv, RoundType, RoundTypeOK, RoundProgress, EmitSession
<1>2. StreamType'
  BY <1>0 DEF StreamInv, StreamType, EmitSession
<1>3. Goroutines'
  BY <1>0
     DEF StreamInv, StreamType, Goroutines, Closing, emitterVars, roundVars,
         EmitSession, StartEmit
<1>4. Closing'
  BY <1>0
     DEF StreamInv, StreamType, Goroutines, Closing, Flow, emitterVars, roundVars,
         EmitSession, StartEmit
<1>5. Flow'
  BY <1>0 DEF StreamInv, Flow, EmitSession
<1>6. Sandboxed'
  BY <1>0
     DEF StreamInv, StreamType, Goroutines, Flow, Sandboxed, emitterVars, roundVars,
         EmitSession, StartEmit
<1> QED
  BY <1>1, <1>2, <1>3, <1>4, <1>5, <1>6 DEF StreamInv

LEMMA CopyFailsKeeps ==
    ASSUME StreamInv, CopyFails
    PROVE  StreamInv'
<1> USE Parties
<1>1. RoundInv'
  BY RoundStands DEF StreamInv, roundVars, CopyFails
<1>2. StreamType'
  BY DEF StreamInv, StreamType, emitterVars, CopyFails
<1>3. Goroutines'
  BY DEF StreamInv, StreamType, Goroutines, Closing, emitterVars, roundVars, CopyFails
<1>4. Closing'
  BY DEF StreamInv, StreamType, Goroutines, Closing, Flow, emitterVars, roundVars,
         CopyFails
<1>5. Flow'
  BY DEF StreamInv, StreamType, Goroutines, Closing, Flow, Pending, emitterVars,
         roundVars, CopyFails
<1>6. Sandboxed'
  BY DEF StreamInv, StreamType, Goroutines, Flow, Sandboxed, emitterVars, roundVars,
         CopyFails
<1> QED
  BY <1>1, <1>2, <1>3, <1>4, <1>5, <1>6 DEF StreamInv

LEMMA StartStreamKeeps ==
    ASSUME StreamInv, StartStream
    PROVE  StreamInv'
<1> USE Parties
<1>1. RoundInv'
  BY RoundStands DEF StreamInv, roundVars, StartStream, Subscribe
<1>0. /\ subs = <<>> /\ subs' = <<Sse>> /\ subs' # <<>> /\ emitted' # <<>>
      /\ ipc' = "run" /\ hpc' = "loop" /\ call' = call
      /\ call[Handler] = "none" /\ call[Investigation] = "none"
  <2>1. subs = <<>> /\ subs' = Append(subs, Sse)
    BY DEF StreamInv, Goroutines, StartStream, Subscribe
  <2>2. subs' # <<>>
    BY <2>1
  <2>3. emitted = <<SessionEvent>> /\ emitted' = emitted
    BY DEF StreamInv, Flow, StartStream, roundVars
  <2>4. ipc' = "run" /\ hpc' = "loop" /\ call' = call
    BY DEF StartStream, Subscribe
  <2>5. ipc = "off" /\ hpc = "copy"
    BY DEF StreamInv, Goroutines, StartStream
  <2>6. call[Handler] = "none"
    BY <2>5 DEF StreamInv, Goroutines
  <2>7. call[Investigation] # "emit" /\ call[Investigation] # "close"
    BY <2>5 DEF StreamInv, Goroutines
  <2>8. call[Investigation] \in {"none", "emit", "close"}
    BY DEF StreamInv, StreamType
  <2> QED
    BY <2>1, <2>2, <2>3, <2>4, <2>6, <2>7, <2>8
<1>2. StreamType'
  <2> QED
    BY <1>0 DEF StreamInv, StreamType, StartStream, Subscribe
<1>3. Goroutines'
  BY <1>0
     DEF StreamInv, StreamType, Goroutines, Closing, emitterVars, roundVars,
         StartStream, Subscribe
<1>4. Closing'
  BY <1>0
     DEF StreamInv, StreamType, Goroutines, Closing, Flow, emitterVars, roundVars,
         StartStream, Subscribe
<1>5. Flow'
  <2>1. /\ emitted = <<SessionEvent>> /\ collected = <<>> /\ chan[Sse] = <<>>
        /\ call[Investigation] # "emit" /\ flushed = <<>>
        /\ UNCHANGED <<emitted, collected, chan, call, flushed>>
    BY DEF StreamInv, Goroutines, Flow, StartStream, Subscribe, roundVars
  <2>2. Tail(emitted) = <<>> /\ <<>> \o <<>> \o <<>> = <<>>
    BY <2>1
  <2> QED
    BY <2>1, <2>2 DEF Flow, Pending, StartStream
<1>6. Sandboxed'
  BY DEF StreamInv, StreamType, Goroutines, Flow, Sandboxed, emitterVars, roundVars,
         StartStream, Subscribe
<1> QED
  BY <1>1, <1>2, <1>3, <1>4, <1>5, <1>6 DEF StreamInv

LEMMA SelectEventKeeps ==
    ASSUME StreamInv, SelectEvent
    PROVE  StreamInv'
<1> USE Parties
<1>1. RoundInv'
  BY RoundStands DEF StreamInv, roundVars, SelectEvent, Receive
<1>0. /\ chan[Sse] # <<>> /\ chan' = [chan EXCEPT ![Sse] = Tail(chan[Sse])]
      /\ chan \in [Subscribers -> Seq(Events)] /\ chan[Sse] \in Seq(Events)
      /\ collected \in Seq(Collected) /\ chan[Sse] \in Seq(Collected)
      /\ Len(chan[Sse]) <= BufSize
  <2>1. chan[Sse] \in Seq(Events)
    BY DEF StreamInv, StreamType
  <2>2. chan[Sse] \in Seq(Collected)
    BY <2>1, SeqMonotonic DEF Collected
  <2> QED
    BY <2>1, <2>2 DEF StreamInv, StreamType, SelectEvent, Receive
<1>2. StreamType'
  <2>1. /\ Tail(chan[Sse]) \in Seq(Events) /\ Len(Tail(chan[Sse])) = Len(chan[Sse]) - 1
        /\ Head(chan[Sse]) \in Collected /\ Len(chan[Sse]) \in Nat
    BY <1>0, HeadTailProperties, LenProperties DEF Collected
  <2>2. Append(collected, Head(chan[Sse])) \in Seq(Collected)
    BY <1>0, <2>1, AppendProperties
  <2>3. chan' \in [Subscribers -> Seq(Events)] /\ Len(chan'[Sse]) <= BufSize
    BY <1>0, <2>1
  <2> QED
    BY <2>2, <2>3 DEF StreamInv, StreamType, SelectEvent, Receive
<1>3. Goroutines'
  BY DEF StreamInv, StreamType, Goroutines, Closing, emitterVars, roundVars,
         SelectEvent, Receive
<1>4. Closing'
  BY DEF StreamInv, StreamType, Goroutines, Closing, Flow, emitterVars, roundVars,
         SelectEvent, Receive
<1>5. Flow'
  <2>2. Append(collected, Head(chan[Sse])) \o Tail(chan[Sse]) \o Pending
            = collected \o chan[Sse] \o Pending
    BY <1>0, ToCollector
  <2>3. /\ hpc = "loop" /\ hpc' = "loop" /\ chan'[Sse] = Tail(chan[Sse])
        /\ collected' = Append(collected, Head(chan[Sse]))
        /\ UNCHANGED <<call, sending, emitted, ipc, flushed>> /\ Pending' = Pending
    BY <1>0 DEF SelectEvent, Receive, Pending, roundVars
  <2>4. Tail(emitted) = collected \o chan[Sse] \o Pending
    BY <2>3 DEF StreamInv, Flow
  <2> QED
    BY <2>2, <2>3, <2>4 DEF StreamInv, Flow
<1>6. Sandboxed'
  BY DEF StreamInv, StreamType, Goroutines, Flow, Sandboxed, emitterVars, roundVars,
         SelectEvent, Receive
<1> QED
  BY <1>1, <1>2, <1>3, <1>4, <1>5, <1>6 DEF StreamInv

LEMMA SelectDisconnectKeeps ==
    ASSUME StreamInv, SelectDisconnect
    PROVE  StreamInv'
<1> USE Parties
<1>1. RoundInv'
  BY RoundStands DEF StreamInv, roundVars, SelectDisconnect
<1>2. StreamType'
  BY DEF StreamInv, StreamType, emitterVars, SelectDisconnect
<1>3. Goroutines'
  BY DEF StreamInv, StreamType, Goroutines, Closing, emitterVars, roundVars,
         SelectDisconnect
<1>4. Closing'
  BY DEF StreamInv, StreamType, Goroutines, Closing, Flow, emitterVars, roundVars,
         SelectDisconnect
<1>5. Flow'
  BY DEF StreamInv, StreamType, Goroutines, Closing, Flow, Pending, emitterVars,
         roundVars, SelectDisconnect
<1>6. Sandboxed'
  BY DEF StreamInv, StreamType, Goroutines, Flow, Sandboxed, emitterVars, roundVars,
         SelectDisconnect
<1> QED
  BY <1>1, <1>2, <1>3, <1>4, <1>5, <1>6 DEF StreamInv

LEMMA SelectClosedKeeps ==
    ASSUME StreamInv, SelectClosed
    PROVE  StreamInv'
<1> USE Parties
<1>1. RoundInv'
  BY RoundStands DEF StreamInv, roundVars, SelectClosed, Drained
<1>2. StreamType'
  BY DEF StreamInv, StreamType, emitterVars, SelectClosed, Drained
<1>3. Goroutines'
  BY DEF StreamInv, StreamType, Goroutines, Closing, emitterVars, roundVars,
         SelectClosed, Drained
<1>4. Closing'
  BY DEF StreamInv, StreamType, Goroutines, Closing, Flow, emitterVars, roundVars,
         SelectClosed, Drained
<1>5. Flow'
  <2>1. ipc \in {"report", "over"} /\ chan[Sse] = <<>>
    BY DEF StreamInv, StreamType, Goroutines, Closing, SelectClosed, Drained
  <2> QED
    BY <2>1 DEF StreamInv, Flow, Pending, SelectClosed, emitterVars, roundVars
<1>6. Sandboxed'
  BY DEF StreamInv, StreamType, Goroutines, Flow, Sandboxed, emitterVars, roundVars,
         SelectClosed, Drained
<1> QED
  BY <1>1, <1>2, <1>3, <1>4, <1>5, <1>6 DEF StreamInv

LEMMA FinishStreamKeeps ==
    ASSUME StreamInv, FinishStream
    PROVE  StreamInv'
<1> USE Parties
<1>1. RoundInv'
  BY RoundStands DEF StreamInv, roundVars, FinishStream
<1>0. collected' = Append(collected, CompletedEvent) /\ collected' \in Seq(Collected)
  BY AppendProperties DEF StreamInv, StreamType, FinishStream, Collected
<1>2. StreamType'
  BY <1>0 DEF StreamInv, StreamType, emitterVars, FinishStream
<1>3. Goroutines'
  BY DEF StreamInv, StreamType, Goroutines, Closing, emitterVars, roundVars, FinishStream
<1>4. Closing'
  BY DEF StreamInv, StreamType, Goroutines, Closing, Flow, emitterVars, roundVars,
         FinishStream
<1>5. Flow'
  <2>1. /\ hpc = "result" /\ ipc \in {"report", "over"} /\ chan[Sse] = <<>>
        /\ call[Investigation] # "emit"
        /\ Tail(emitted) = collected \o chan[Sse] \o Pending
    BY DEF StreamInv, Goroutines, Flow, FinishStream
  <2>2. collected \in Seq(Collected)
    BY DEF StreamInv, StreamType
  <2>3. Tail(emitted) = collected
    <3>1. Pending = <<>>
      BY <2>1 DEF Pending
    <3>2. collected \o <<>> \o <<>> = collected
      BY <2>2, ConcatEmptySeq
    <3> QED
      BY <2>1, <3>1, <3>2
  <2> QED
    BY <1>0, <2>1, <2>3 DEF Flow, FinishStream, roundVars, emitterVars
<1>6. Sandboxed'
  BY DEF StreamInv, StreamType, Goroutines, Flow, Sandboxed, emitterVars, roundVars,
         FinishStream
<1> QED
  BY <1>1, <1>2, <1>3, <1>4, <1>5, <1>6 DEF StreamInv

LEMMA CleanUpKeeps ==
    ASSUME StreamInv, CleanUp
    PROVE  StreamInv'
<1> USE Parties
<1>1. RoundInv'
  BY RoundStands DEF StreamInv, roundVars, CleanUp, StartClose
<1>2. StreamType'
  BY DEF StreamInv, StreamType, emitterVars, CleanUp, StartClose
<1>3. Goroutines'
  BY DEF StreamInv, StreamType, Goroutines, Closing, emitterVars, roundVars, CleanUp,
         StartClose
<1>4. Closing'
  BY DEF StreamInv, StreamType, Goroutines, Closing, Flow, emitterVars, roundVars,
         CleanUp, StartClose
<1>5. Flow'
  BY DEF StreamInv, StreamType, Goroutines, Closing, Flow, Pending, emitterVars,
         roundVars, CleanUp, StartClose
<1>6. Sandboxed'
  BY DEF StreamInv, StreamType, Goroutines, Flow, Sandboxed, emitterVars, roundVars,
         CleanUp, StartClose
<1> QED
  BY <1>1, <1>2, <1>3, <1>4, <1>5, <1>6 DEF StreamInv

LEMMA ReturnKeeps ==
    ASSUME StreamInv, Return
    PROVE  StreamInv'
<1> USE Parties
<1>1. RoundInv'
  BY RoundStands DEF StreamInv, roundVars, Return, EndClose
<1>0. /\ chanOpen'[Sse] = IF ~closed /\ subs # <<>> THEN FALSE ELSE chanOpen[Sse]
      /\ closed' = TRUE /\ subs' = subs /\ hpc' = "returned" /\ ipc' = ipc
      /\ call[Investigation] # "emit" /\ call'[Investigation] # "emit"
  <2>1. ASSUME subs = <<>> PROVE Sse \notin {subs[i] : i \in DOMAIN subs}
    BY <2>1
  <2>2. ASSUME subs = <<Sse>> PROVE Sse \in {subs[i] : i \in DOMAIN subs} /\ subs # <<>>
    <3>1. 1 \in DOMAIN subs /\ subs[1] = Sse
      BY <2>2
    <3> QED
      BY <2>2, <3>1
  <2>3. Sse \in {subs[i] : i \in DOMAIN subs} <=> subs # <<>>
    BY <2>1, <2>2 DEF StreamInv, StreamType
  <2>4. call[Investigation] # "emit" /\ call'[Investigation] # "emit"
    BY DEF StreamInv, StreamType, Return, EndClose, Readers
  <2> QED
    BY <2>3, <2>4 DEF Return, EndClose
<1>2. StreamType'
  BY DEF StreamInv, StreamType, Return, EndClose
<1>3. Goroutines'
  BY DEF StreamInv, StreamType, Goroutines, Closing, emitterVars, roundVars, Return,
         EndClose
<1>4. Closing'
  BY <1>0
     DEF StreamInv, StreamType, Goroutines, Closing, Flow, emitterVars, roundVars,
         Return, EndClose
<1>5. Flow'
  BY DEF StreamInv, StreamType, Goroutines, Closing, Flow, Pending, emitterVars,
         roundVars, Return, EndClose
<1>6. Sandboxed'
  BY DEF StreamInv, StreamType, Goroutines, Flow, Sandboxed, emitterVars, roundVars,
         Return, EndClose
<1> QED
  BY <1>1, <1>2, <1>3, <1>4, <1>5, <1>6 DEF StreamInv

LEMMA RunRoundKeeps ==
    ASSUME StreamInv, RunRound
    PROVE  StreamInv'
<1> USE Parties
<1>1. /\ ipc = "run" /\ RoundStep /\ RoundInv /\ emitted # <<>> /\ emitted \in Seq(Events)
      /\ UNCHANGED streamVars
  BY DEF StreamInv, Goroutines, RunRound, RoundInv, RoundType
<1>2. RoundInv'
  BY <1>1, RoundStepKeeps
<1>3. CASE UNCHANGED <<emitterVars, emitted>>
  BY <1>1, <1>2, <1>3
     DEF StreamInv, StreamType, Goroutines, Closing, Flow, Pending, Sandboxed, emitterVars,
         streamVars
<1>4. ASSUME NEW event \in Events,
             StartEmit(Investigation, event), emitted' = Append(emitted, event)
      PROVE  StreamInv'
  <2>1. /\ emitted' # <<>> /\ Tail(emitted') = Append(Tail(emitted), event)
        /\ Tail(emitted) \in Seq(Events)
    BY <1>1, <1>4, AppendProperties, HeadTailAppend, HeadTailProperties
  <2>2. StreamType'
    BY <1>1, <1>4 DEF StreamInv, StreamType, StartEmit, streamVars
  <2>3. Goroutines'
    BY <1>1, <1>4, <2>1 DEF StreamInv, StreamType, Goroutines, StartEmit, streamVars
  <2>4. Closing'
    BY <1>1, <1>4 DEF StreamInv, StreamType, Goroutines, Closing, StartEmit, streamVars
  <2>5. Flow'
    <3>1. /\ hpc \notin {"init", "copy", "result"} /\ flushed = <<>> /\ ipc \notin {"report", "over"}
      BY <1>1 DEF StreamInv, Goroutines, Flow
    <3>2. CASE hpc = "loop"
      <4>1. /\ call[Investigation] # "emit" /\ call'[Investigation] = "emit"
            /\ sending'[Investigation] = event /\ chan' = chan
        BY <1>1, <1>4, <3>2 DEF StreamInv, StreamType, Goroutines, Closing, StartEmit
      <4>2. Pending = <<>> /\ Pending' = <<event>>
        BY <4>1 DEF Pending
      <4>3. Tail(emitted) = collected \o chan[Sse] \o <<>>
        BY <3>2, <4>2 DEF StreamInv, Flow
      <4>4. collected \in Seq(Collected) /\ chan[Sse] \in Seq(Collected) /\ event \in Collected
        <5>1. chan[Sse] \in Seq(Events)
          BY DEF StreamInv, StreamType
        <5>2. chan[Sse] \in Seq(Collected)
          BY <5>1, SeqMonotonic DEF Collected
        <5> QED
          BY <5>2 DEF StreamInv, StreamType, Collected
      <4>5. Append(collected \o chan[Sse] \o <<>>, event) = collected \o chan[Sse] \o <<event>>
        BY <4>4, ToSender
      <4>6. Tail(emitted') = collected \o chan[Sse] \o <<event>>
        BY <2>1, <4>3, <4>5
      <4> QED
        BY <1>1, <3>1, <3>2, <4>1, <4>2, <4>6 DEF Flow, streamVars
    <3>3. CASE hpc # "loop"
      BY <1>1, <3>1, <3>3 DEF Flow, streamVars
    <3> QED
      BY <3>2, <3>3
  <2>6. Sandboxed'
    BY <1>1 DEF StreamInv, Goroutines, Sandboxed, streamVars
  <2> QED
    BY <1>2, <2>2, <2>3, <2>4, <2>5, <2>6 DEF StreamInv
<1> QED
  BY <1>1, <1>3, <1>4, RoundStepEmits

LEMMA SendRoundEventKeeps ==
    ASSUME StreamInv, SendRoundEvent
    PROVE  StreamInv'
<1> USE Parties
<1>0. /\ ipc = "run" /\ call[Investigation] = "emit" /\ sendTo[Investigation] = 1
      /\ subs = <<Sse>> /\ sending[Investigation] \in Events
      /\ Len(chan[Sse]) < BufSize
      /\ chan' = [chan EXCEPT ![Sse] = Append(chan[Sse], sending[Investigation])]
      /\ call' = [call EXCEPT ![Investigation] = "none"]
      /\ UNCHANGED <<subs, chanOpen, closed, sending, sendTo, roundVars, streamVars>>
  <2>1. /\ ipc = "run" /\ call[Investigation] = "emit" /\ sendTo[Investigation] = 1
        /\ subs = <<Sse>> /\ sending[Investigation] \in Events
    BY DEF StreamInv, StreamType, Goroutines, Closing, SendRoundEvent, Send
  <2>2. subs[1] = Sse /\ Len(subs) = 1
    BY <2>1
  <2> QED
    BY <2>1, <2>2 DEF SendRoundEvent, Send
<1>1. RoundInv'
  BY <1>0, RoundStands DEF StreamInv
<1>2. StreamType'
  <2>1. chan[Sse] \in Seq(Events) /\ chan \in [Subscribers -> Seq(Events)]
    BY DEF StreamInv, StreamType
  <2>2. /\ Append(chan[Sse], sending[Investigation]) \in Seq(Events)
        /\ Len(Append(chan[Sse], sending[Investigation])) = Len(chan[Sse]) + 1
        /\ Len(chan[Sse]) \in Nat
    BY <1>0, <2>1, AppendProperties, LenProperties
  <2>3. chan' \in [Subscribers -> Seq(Events)] /\ Len(chan'[Sse]) <= BufSize
    BY <1>0, <2>1, <2>2
  <2> QED
    BY <1>0, <2>3 DEF StreamInv, StreamType, streamVars
<1>3. Goroutines'
  BY <1>0
     DEF StreamInv, StreamType, Goroutines, Closing, emitterVars, roundVars,
         SendRoundEvent, Send, streamVars
<1>4. Closing'
  BY <1>0
     DEF StreamInv, StreamType, Goroutines, Closing, Flow, emitterVars, roundVars,
         SendRoundEvent, Send, streamVars
<1>5. Flow'
  <2> DEFINE event == sending[Investigation]
  <2>1. hpc \notin {"init", "copy", "result"} /\ flushed = <<>>
    BY <1>0 DEF StreamInv, Goroutines, Flow
  <2>2. CASE hpc = "loop"
    <3>1. Tail(emitted) = collected \o chan[Sse] \o <<event>>
      BY <1>0, <2>2 DEF StreamInv, Flow, Pending
    <3>2. collected \in Seq(Collected) /\ chan[Sse] \in Seq(Collected) /\ event \in Collected
      <4>1. chan[Sse] \in Seq(Events)
        BY DEF StreamInv, StreamType
      <4>2. chan[Sse] \in Seq(Collected)
        BY <4>1, SeqMonotonic DEF Collected
      <4> QED
        BY <1>0, <4>2 DEF StreamInv, StreamType, Collected
    <3>3. collected \o chan[Sse] \o <<event>> = collected \o Append(chan[Sse], event) \o <<>>
      BY <3>2, ToChannel
    <3>4. chan'[Sse] = Append(chan[Sse], event) /\ Pending' = <<>>
      BY <1>0 DEF StreamInv, StreamType, Pending
    <3> QED
      BY <1>0, <2>1, <2>2, <3>1, <3>3, <3>4 DEF Flow, roundVars, streamVars
  <2>3. CASE hpc # "loop"
    BY <1>0, <2>1, <2>3 DEF Flow, roundVars, streamVars
  <2> QED
    BY <2>2, <2>3
<1>6. Sandboxed'
  BY <1>0
     DEF StreamInv, StreamType, Goroutines, Flow, Sandboxed, emitterVars, roundVars,
         SendRoundEvent, Send, streamVars
<1> QED
  BY <1>1, <1>2, <1>3, <1>4, <1>5, <1>6 DEF StreamInv

LEMMA EndRunKeeps ==
    ASSUME StreamInv, EndRun
    PROVE  StreamInv'
<1> USE Parties
<1>1. RoundInv'
  BY RoundStands DEF StreamInv, roundVars, EndRun, StartClose
<1>2. StreamType'
  BY DEF StreamInv, StreamType, emitterVars, EndRun, StartClose
<1>3. Goroutines'
  BY DEF StreamInv, StreamType, Goroutines, Closing, emitterVars, roundVars, EndRun,
         StartClose
<1>4. Closing'
  BY DEF StreamInv, StreamType, Goroutines, Closing, Flow, emitterVars, roundVars,
         EndRun, StartClose
<1>5. Flow'
  BY DEF StreamInv, StreamType, Goroutines, Closing, Flow, Pending, emitterVars,
         roundVars, EndRun, StartClose
<1>6. Sandboxed'
  BY DEF StreamInv, StreamType, Goroutines, Flow, Sandboxed, emitterVars, roundVars,
         EndRun, StartClose
<1> QED
  BY <1>1, <1>2, <1>3, <1>4, <1>5, <1>6 DEF StreamInv

LEMMA CloseStreamKeeps ==
    ASSUME StreamInv, CloseStream
    PROVE  StreamInv'
<1> USE Parties
<1>1. RoundInv'
  BY RoundStands DEF StreamInv, roundVars, CloseStream, EndClose
<1>2. StreamType'
  BY DEF StreamInv, StreamType, emitterVars, CloseStream, EndClose
<1>3. Goroutines'
  BY DEF StreamInv, StreamType, Goroutines, Closing, emitterVars, roundVars,
         CloseStream, EndClose
<1>4. Closing'
  BY DEF StreamInv, StreamType, Goroutines, Closing, Flow, emitterVars, roundVars,
         CloseStream, EndClose
<1>5. Flow'
  BY DEF StreamInv, StreamType, Goroutines, Closing, Flow, Pending, emitterVars,
         roundVars, CloseStream, EndClose
<1>6. Sandboxed'
  BY DEF StreamInv, StreamType, Goroutines, Flow, Sandboxed, emitterVars, roundVars,
         CloseStream, EndClose
<1> QED
  BY <1>1, <1>2, <1>3, <1>4, <1>5, <1>6 DEF StreamInv

LEMMA SendResultKeeps ==
    ASSUME StreamInv, SendResult
    PROVE  StreamInv'
<1> USE Parties
<1>1. RoundInv'
  BY RoundStands DEF StreamInv, roundVars, SendResult
<1>2. StreamType'
  BY DEF StreamInv, StreamType, emitterVars, SendResult
<1>3. Goroutines'
  BY DEF StreamInv, StreamType, Goroutines, Closing, emitterVars, roundVars, SendResult
<1>4. Closing'
  BY DEF StreamInv, StreamType, Goroutines, Closing, Flow, emitterVars, roundVars,
         SendResult
<1>5. Flow'
  BY DEF StreamInv, StreamType, Goroutines, Closing, Flow, Pending, emitterVars,
         roundVars, SendResult
<1>6. Sandboxed'
  BY DEF StreamInv, StreamType, Goroutines, Flow, Sandboxed, emitterVars, roundVars,
         SendResult
<1> QED
  BY <1>1, <1>2, <1>3, <1>4, <1>5, <1>6 DEF StreamInv

LEMMA DisconnectKeeps ==
    ASSUME StreamInv, Disconnect
    PROVE  StreamInv'
<1> USE Parties
<1>1. RoundInv'
  BY RoundStands DEF StreamInv, roundVars, Disconnect
<1>2. StreamType'
  BY DEF StreamInv, StreamType, emitterVars, Disconnect
<1>3. Goroutines'
  BY DEF StreamInv, StreamType, Goroutines, Closing, emitterVars, roundVars, Disconnect
<1>4. Closing'
  BY DEF StreamInv, StreamType, Goroutines, Closing, Flow, emitterVars, roundVars,
         Disconnect
<1>5. Flow'
  BY DEF StreamInv, StreamType, Goroutines, Closing, Flow, Pending, emitterVars,
         roundVars, Disconnect
<1>6. Sandboxed'
  BY DEF StreamInv, StreamType, Goroutines, Flow, Sandboxed, emitterVars, roundVars,
         Disconnect
<1> QED
  BY <1>1, <1>2, <1>3, <1>4, <1>5, <1>6 DEF StreamInv

----------------------------------------------------------------------------
(* The invariant holds always.                                             *)

LEMMA StreamStep == StreamInv /\ [Next]_vars => StreamInv'
<1> SUFFICES ASSUME StreamInv, [Next]_vars PROVE StreamInv'
  OBVIOUS
<1>1. CASE HandlerStep
  BY <1>1, InitFailsKeeps, EmitSessionKeeps, CopyFailsKeeps, StartStreamKeeps,
     SelectEventKeeps, SelectDisconnectKeeps, SelectClosedKeeps, FinishStreamKeeps,
     CleanUpKeeps, ReturnKeeps DEF HandlerStep
<1>2. CASE InvestigationStep
  BY <1>2, RunRoundKeeps, SendRoundEventKeeps, EndRunKeeps, CloseStreamKeeps,
     SendResultKeeps DEF InvestigationStep
<1>3. CASE Disconnect
  BY <1>3, DisconnectKeeps
<1>4. CASE UNCHANGED vars
  <2>1. RoundInv'
    BY <1>4, RoundStands DEF vars, StreamInv
  <2>2. StreamType'
    BY <1>4 DEF vars, emitterVars, streamVars, StreamInv, StreamType
  <2>3. Goroutines'
    BY <1>4 DEF vars, emitterVars, roundVars, streamVars, StreamInv, Goroutines
  <2>4. Closing'
    BY <1>4 DEF vars, emitterVars, streamVars, StreamInv, Closing
  <2>5. Flow' /\ Sandboxed'
    BY <1>4
       DEF vars, emitterVars, roundVars, streamVars, StreamInv, Flow, Pending, Sandboxed
  <2> QED
    BY <2>1, <2>2, <2>3, <2>4, <2>5 DEF StreamInv
<1> QED
  BY <1>1, <1>2, <1>3, <1>4 DEF Next

LEMMA StreamAlways == Spec => []StreamInv
BY StreamStart, StreamStep, PTL DEF Spec

----------------------------------------------------------------------------
(* The channel has room for the events of a request.                       *)

\* A request emits no more events than its graph runs nodes, but for three, and
\* for a fourth that ends the round.
EventsFit == at # "start" => Len(emitted) <= runs + (IF at = "over" THEN 4 ELSE 3)

\* What is on its way to the handler was emitted after the session's event.
InTransit ==
    \/ chan[Sse] = <<>> /\ call[Investigation] # "emit"
    \/ Len(chan[Sse]) + Len(Pending) < Len(emitted)

RoomInv == EventsFit /\ InTransit

LEMMA FewAtTheStart == RoundInv /\ at = "start" => Len(emitted) <= 1
<1>1. Len(<<>>) = 0 /\ Len(<<SessionEvent>>) = 1
  OBVIOUS
<1>2. RoundInv /\ at = "start" => emitted = <<>> \/ emitted = <<SessionEvent>>
  BY DEF RoundInv, RoundProgress
<1>3. emitted = <<>> \/ emitted = <<SessionEvent>> => Len(emitted) \in {0, 1}
  BY <1>1, Zenon
<1>4. \A n \in {0, 1} : n <= 1
  OBVIOUS
<1> QED
  BY <1>2, <1>3, <1>4, Zenon

LEMMA RoundStepFits ==
    ASSUME RoundInv, EventsFit, RoundStep
    PROVE  EventsFit'
<1>1. runs \in Nat /\ idx \in Nat /\ Len(emitted) \in Nat /\ emitted \in Seq(Events)
  BY LenProperties, RoundNumbers DEF RoundInv, RoundType, RoundTypeOK
<1>2. Len(emitted') = Len(emitted) \/ Len(emitted') = Len(emitted) + 1
  <2>1. \A event \in Events : Len(Append(emitted, event)) = Len(emitted) + 1
    BY <1>1, AppendProperties
  <2> QED
    BY <2>1, RoundStepEmits
<1>3. CASE \/ IsLast \/ NormalPrepare \/ NormalTemplate \/ NormalReact \/ FinalPrepare
           \/ FinalTemplate \/ FinalModel \/ ParseFails \/ ParseStep \/ FinalParse
  <2>1. at \notin {"start", "over"} /\ at' # "over" /\ runs' = runs + 1
    BY <1>3
       DEF IsLast, NormalPrepare, FinalPrepare, Prepare, NormalTemplate, FinalTemplate, Template,
           NormalReact, FinalModel, Answer, ParseFails, ParseStep, FinalParse, RunNode, Continue
  <2> QED
    BY <1>1, <1>2, <2>1 DEF EventsFit
<1>4. CASE StartRound
  <2>1. at = "start" /\ at' = "plan" /\ runs' = runs
    BY <1>4 DEF StartRound, Continue
  <2>2. Len(emitted) <= 1
    BY <2>1, FewAtTheStart
  <2> QED
    BY <1>1, <1>2, <2>1, <2>2 DEF EventsFit
<1>5. CASE HistoryFails
  BY <1>1, <1>5 DEF HistoryFails, Silent, Continue, EventsFit
<1>6. CASE PlannerFails \/ GraphFails \/ CompleteRound
  <2>1. at \notin {"start", "over"} /\ at' = "over" /\ runs' = runs
    BY <1>6, NodesAre DEF PlannerFails, GraphFails, CompleteRound, Continue
  <2> QED
    BY <1>1, <1>2, <2>1 DEF EventsFit
<1>7. CASE PlannerAnswers
  <2>1. Len(emitted) = 2 /\ runs' = runs
    BY <1>7 DEF PlannerAnswers, RoundInv, RoundProgress, Followed
  <2>2. Len(emitted') \in {2, 3}
    BY <1>2, <2>1
  <2>3. runs' \in Nat
    BY <1>1, <2>1
  <2>4. \A n \in {2, 3} : \A r \in Nat : n <= r + 3 /\ n <= r + 4
    OBVIOUS
  <2>5. Len(emitted') <= runs' + 3 /\ Len(emitted') <= runs' + 4
    BY <2>2, <2>3, <2>4
  <2> QED
    BY <2>5 DEF EventsFit
<1>8. CASE CompleteStep \/ Report
  <2>1. Len(emitted) <= 3 * idx + 5 /\ runs = 5 * idx + 5 /\ runs' = runs
    BY <1>1, <1>8 DEF CompleteStep, Report, RoundInv, RoundProgress, InBody, Followed
  <2> QED
    BY <1>1, <1>2, <2>1 DEF EventsFit
<1> QED
  BY <1>3, <1>4, <1>5, <1>6, <1>7, <1>8 DEF RoundStep

LEMMA EventsFitStep ==
    ASSUME StreamInv, EventsFit, [Next]_vars
    PROVE  EventsFit'
<1>1. CASE RunRound
  BY <1>1, RoundStepFits DEF RunRound, StreamInv
<1>2. CASE EmitSession
  BY <1>2 DEF EmitSession, StreamInv, Goroutines, EventsFit
<1>3. CASE UNCHANGED roundVars
  BY <1>3 DEF roundVars, EventsFit
<1>4. CASE ~RunRound /\ ~EmitSession
  <2>1. UNCHANGED roundVars
    BY <1>4
       DEF Next, HandlerStep, InvestigationStep, vars, InitFails, CopyFails, StartStream,
           SelectEvent, SelectDisconnect, SelectClosed, FinishStream, CleanUp, Return,
           SendRoundEvent, EndRun, CloseStream, SendResult, Disconnect
  <2> QED
    BY <1>3, <2>1
<1> QED
  BY <1>1, <1>2, <1>4

LEMMA InTransitStep ==
    ASSUME StreamInv, InTransit, [Next]_vars
    PROVE  InTransit'
<1> USE Parties
<1>1. /\ emitted \in Seq(Events) /\ Len(emitted) \in Nat
      /\ chan \in [Subscribers -> Seq(Events)] /\ chan[Sse] \in Seq(Events)
      /\ Len(chan[Sse]) \in Nat /\ call \in [Procs -> {"none", "emit", "close"}]
  BY LenProperties DEF StreamInv, StreamType, RoundInv, RoundType
<1>2. Len(Pending) = IF call[Investigation] = "emit" THEN 1 ELSE 0
  BY DEF Pending
<1>3. Len(Pending') = IF call'[Investigation] = "emit" THEN 1 ELSE 0
  BY DEF Pending
<1>4. CASE RunRound
  <2>1. CASE UNCHANGED <<emitterVars, emitted>>
    BY <2>1 DEF emitterVars, InTransit, Pending
  <2>2. ASSUME NEW event \in Events,
               StartEmit(Investigation, event), emitted' = Append(emitted, event)
        PROVE  InTransit'
    <3>1. /\ Len(emitted') = Len(emitted) + 1 /\ chan' = chan
          /\ call[Investigation] # "emit"
      BY <1>1, <2>2, AppendProperties DEF StartEmit
    <3>2. Len(emitted) > 0
      <4>1. emitted # <<>>
        BY <1>4 DEF RunRound, StreamInv, Goroutines
      <4> QED
        BY <1>1, <4>1, EmptySeq
    <3>3. Len(chan[Sse]) < Len(emitted)
      BY <1>1, <1>2, <3>1, <3>2, EmptySeq DEF InTransit
    <3>4. Len(chan'[Sse]) + Len(Pending') < Len(emitted')
      BY <1>1, <1>3, <3>1, <3>3
    <3> QED
      BY <3>4 DEF InTransit
  <2> QED
    BY <1>4, <2>1, <2>2, RoundStepEmits DEF RunRound, StreamInv
<1>5. CASE SendRoundEvent
  <2>1. /\ call[Investigation] = "emit" /\ sendTo[Investigation] = 1 /\ subs = <<Sse>>
        /\ sending[Investigation] \in Events
    BY <1>5 DEF StreamInv, StreamType, Goroutines, Closing, SendRoundEvent, Send
  <2>2. subs[1] = Sse /\ Len(subs) = 1
    BY <2>1
  <2>3. /\ chan' = [chan EXCEPT ![Sse] = Append(chan[Sse], sending[Investigation])]
        /\ call' = [call EXCEPT ![Investigation] = "none"] /\ emitted' = emitted
    BY <1>5, <2>1, <2>2 DEF SendRoundEvent, Send, roundVars
  <2>4. Len(chan'[Sse]) = Len(chan[Sse]) + 1 /\ call'[Investigation] = "none"
    BY <1>1, <2>1, <2>3, AppendProperties
  <2>5. Len(chan'[Sse]) + Len(Pending') < Len(emitted')
    BY <1>1, <1>2, <1>3, <2>1, <2>3, <2>4 DEF InTransit
  <2> QED
    BY <2>5 DEF InTransit
<1>6. CASE SelectEvent
  <2>1. /\ chan[Sse] # <<>> /\ chan'[Sse] = Tail(chan[Sse])
        /\ UNCHANGED <<call, sending, emitted>>
    BY <1>1, <1>6 DEF SelectEvent, Receive, roundVars
  <2>2. Len(chan'[Sse]) = Len(chan[Sse]) - 1
    BY <1>1, <2>1, HeadTailProperties
  <2>3. Len(chan'[Sse]) + Len(Pending') < Len(emitted')
    BY <1>1, <1>2, <1>3, <2>1, <2>2 DEF InTransit
  <2> QED
    BY <2>3 DEF InTransit
<1>7. CASE EmitSession
  BY <1>7 DEF EmitSession, StartEmit, StreamInv, StreamType, Goroutines, Flow, InTransit
<1>8. CASE CleanUp \/ Return \/ EndRun \/ CloseStream
  <2>1. /\ chan' = chan /\ emitted' = emitted
        /\ call'[Investigation] = "emit" <=> call[Investigation] = "emit"
    BY <1>1, <1>8
       DEF CleanUp, Return, EndRun, CloseStream, StartClose, EndClose, roundVars, StreamInv,
           Goroutines
  <2> QED
    BY <1>2, <1>3, <2>1 DEF InTransit
<1>9. CASE \/ InitFails \/ CopyFails \/ StartStream \/ SelectDisconnect \/ SelectClosed
           \/ FinishStream \/ SendResult \/ Disconnect \/ UNCHANGED vars
  <2>1. UNCHANGED <<chan, call, sending, emitted>>
    BY <1>9
       DEF InitFails, CopyFails, StartStream, Subscribe, SelectDisconnect, SelectClosed,
           FinishStream, SendResult, Disconnect, vars, emitterVars, roundVars
  <2> QED
    BY <2>1 DEF InTransit, Pending
<1> QED
  BY <1>4, <1>5, <1>6, <1>7, <1>8, <1>9 DEF Next, HandlerStep, InvestigationStep

LEMMA RoomAlways == Spec => [](StreamInv /\ RoomInv)
<1>1. StreamInit => RoomInv
  <2> SUFFICES ASSUME StreamInit PROVE RoomInv
    OBVIOUS
  <2> QED
    BY Parties DEF StreamInit, EmitterInit, RoundInit, RoomInv, EventsFit, InTransit
<1>2. StreamInv /\ RoomInv /\ [Next]_vars => RoomInv'
  BY EventsFitStep, InTransitStep DEF RoomInv
<1> QED
  BY <1>1, <1>2, StreamStart, StreamStep, PTL DEF Spec

----------------------------------------------------------------------------
(* What it means for a request.                                            *)

\* Every variable of the request, its round and its emitter keeps its type; the
\* channel never holds more than its buffer.
THEOREM StreamTypeCorrect == Spec => []TypeOK
<1>1. StreamInv => TypeOK
  BY DEF StreamInv, RoundInv, RoundType, Events, StreamType, TypeOK
<1> QED
  BY <1>1, StreamAlways, PTL

\* No goroutine sends on a closed channel, whenever the handler and the
\* investigation close the emitter, and whoever is first.
THEOREM NeverSendsOnClosed == Spec => []NoSendOnClosed
<1>1. StreamInv => NoSendOnClosed
  <2> SUFFICES ASSUME StreamInv, NEW g \in Procs, call[g] = "emit"
               PROVE  chanOpen[subs[sendTo[g]]]
    BY DEF NoSendOnClosed
  <2>1. g = Investigation
    BY Parties DEF StreamInv, Goroutines
  <2>2. subs = <<Sse>> /\ sendTo[g] = 1
    BY <2>1 DEF StreamInv, StreamType, Goroutines
  <2>3. ~closed
    BY <2>1 DEF StreamInv, Closing
  <2>4. chanOpen[Sse]
    BY <2>3 DEF StreamInv, Closing
  <2> QED
    BY <2>2, <2>4
<1> QED
  BY <1>1, StreamAlways, PTL

\* With the buffer that the handler asks for, no emit ever waits for room in the
\* channel, wherever the handler is and whether or not its client has left; so
\* nobody waits for ever for the lock that an emit holds.
THEOREM EmitsNeverBlock == Spec => []EmitNeverBlocks
<1>1. StreamInv /\ RoomInv => EmitNeverBlocks
  <2> SUFFICES ASSUME StreamInv, RoomInv, NEW g \in Procs, call[g] = "emit"
               PROVE  Len(chan[subs[sendTo[g]]]) < BufSize
    BY DEF EmitNeverBlocks
  <2>1. g = Investigation
    BY Parties DEF StreamInv, Goroutines
  <2>2. sendTo[g] = 1 /\ subs = <<Sse>> /\ Len(Pending) = 1
    BY <2>1 DEF StreamInv, StreamType, Goroutines, Pending
  <2>3. /\ chan[Sse] \in Seq(Events) /\ Len(chan[Sse]) \in Nat /\ Len(emitted) \in Nat
        /\ runs \in Nat /\ runs <= MaxRunSteps /\ MaxRunSteps \in Nat /\ BufSize \in Nat
    BY Parties, LenProperties, RoundAssumption
       DEF StreamInv, StreamType, RoundInv, RoundType, RoundTypeOK
  <2>4. Len(chan[Sse]) + 1 < Len(emitted)
    BY <2>1, <2>2 DEF RoomInv, InTransit
  <2>5. at # "start"
    BY <2>3, <2>4, FewAtTheStart DEF StreamInv
  <2>6. Len(emitted) <= MaxRunSteps + 4
    BY <2>3, <2>5 DEF RoomInv, EventsFit
  <2>7. Len(chan[Sse]) < BufSize
    BY <2>3, <2>4, <2>6, BufferAssumption
  <2>8. subs[sendTo[g]] = Sse
    BY <2>2
  <2> QED
    BY <2>7, <2>8
<1> QED
  BY <1>1, RoomAlways, PTL

\* While the handler collects, no event of the investigation is lost, doubled or
\* out of its order between Emit and the collector.
THEOREM StreamLosesNoEvent == Spec => []StreamLosesNothing
<1>1. StreamInv => StreamLosesNothing
  BY DEF StreamInv, Flow, Pending, StreamLosesNothing
<1> QED
  BY <1>1, StreamAlways, PTL

\* What is flushed to the store is every event the investigation emitted, and then
\* analysis.completed.
THEOREM FlushesAreWhole == Spec => []FlushIsWhole
<1>1. StreamInv => FlushIsWhole
  BY DEF StreamInv, Flow, FlushIsWhole
<1> QED
  BY <1>1, StreamAlways, PTL

\* A handler that has returned has left no container, unless the client was gone
\* before its runtime was complete.
THEOREM ContainersAreRemoved == Spec => []ContainerIsRemoved
<1>1. StreamInv => ContainerIsRemoved
  BY DEF StreamInv, Sandboxed, ContainerIsRemoved
<1> QED
  BY <1>1, StreamAlways, PTL

\* A plan of MaxRunSteps / 5 steps, or less, never runs out of node runs.
THEOREM PlansFit == Spec => []PlanFits
<1>1. StreamInv => PlanFits
  <2> SUFFICES ASSUME RoundInv, 5 * steps <= MaxRunSteps, at \in Nodes
               PROVE  runs < MaxRunSteps
    BY DEF StreamInv, PlanFits
  <2>1. steps \in Nat /\ idx \in Nat /\ runs \in Nat /\ MaxRunSteps \in Nat
    BY RoundNumbers, RoundAssumption
  <2>2. PICK k \in 0..4 : idx < steps /\ runs = 5 * idx + k
    BY <2>1, NodesAre DEF RoundInv, RoundProgress, InBody
  <2> QED
    BY <2>1, <2>2
<1> QED
  BY <1>1, StreamAlways, PTL

\* A report is made of the findings of every step that found something.
THEOREM ResultsHaveFindings == Spec => []ResultHasFindings
<1>1. StreamInv => ResultHasFindings
  BY DEF StreamInv, RoundInv, RoundProgress, ResultHasFindings
<1> QED
  BY <1>1, StreamAlways, PTL

\* The events after the first, when n of them are regular.
LEMMA Regular ==
    ASSUME RoundInv, NEW n \in 0..(3 * steps + 2), FollowedToError(n)
    PROVE  RoundFollowsScript
<1> DEFINE made    == SubSeq(emitted, 2, Len(emitted))
           isError == {k \in DOMAIN made : made[k][1] \in ErrorTypes}
           regular == Len(made) - Cardinality(isError)
<1>1. steps \in Nat /\ n \in Nat /\ emitted \in Seq(Events) /\ Len(emitted) \in Nat
  BY RoundNumbers, LenProperties
<1>2. PICK len \in Nat : len + 1 = Len(emitted) /\ n <= len
  <2>1. n + 1 <= Len(emitted)
    BY DEF FollowedToError
  <2>2. Len(emitted) - 1 \in Nat /\ n <= Len(emitted) - 1
    BY <1>1, <2>1
  <2> QED
    BY <1>1, <2>2
<1>3. /\ made \in Seq(Events) /\ Len(made) = len /\ DOMAIN made = 1..len
      /\ \A k \in 1..len : made[k] = emitted[k + 1]
  <2>1. \A k \in 2..Len(emitted) : emitted[k] \in Events
    BY <1>1, ElementOfSeq
  <2>2. /\ made \in Seq(Events)
        /\ Len(made) = IF 2 <= Len(emitted) THEN Len(emitted) - 2 + 1 ELSE 0
        /\ \A k \in 1..(Len(emitted) - 2 + 1) : made[k] = emitted[2 + k - 1]
    BY <1>1, <2>1, SubSeqProperties
  <2>3. Len(made) = len /\ Len(emitted) - 2 + 1 = len
    BY <1>2, <2>2
  <2>4. DOMAIN made = 1..len
    BY <2>2, <2>3
  <2>5. ASSUME NEW k \in 1..len
        PROVE  made[k] = emitted[k + 1]
    <3>1. 2 + k - 1 = k + 1
      OBVIOUS
    <3> QED
      BY <2>2, <2>3, <3>1
  <2> QED
    BY <2>2, <2>3, <2>4, <2>5
<1> HIDE DEF made
<1>4. \A k \in 1..n : made[k] = Script(steps)[k]
  BY <1>1, <1>2, <1>3 DEF FollowedToError
<1>5. isError = (n + 1)..len
  <2>1. ASSUME NEW k \in 1..len, k <= n
        PROVE  made[k][1] \notin ErrorTypes
    <3>1. k \in 1..n /\ k \in 1..(3 * steps + 2)
      BY <1>1, <2>1
    <3> QED
      BY <1>1, <1>4, <3>1, ScriptHasNoError
  <2>2. ASSUME NEW k \in 1..len, n < k
        PROVE  made[k][1] \in ErrorTypes
    <3>1. k + 1 \in (n + 2)..Len(emitted)
      BY <1>1, <1>2, <2>2
    <3> QED
      BY <1>3, <3>1 DEF FollowedToError
  <2> QED
    BY <1>1, <1>2, <1>3, <2>1, <2>2
<1>6. regular = n
  <2>1. Cardinality((n + 1)..len) = IF n + 1 > len THEN 0 ELSE len - (n + 1) + 1
    BY <1>1, FS_Interval
  <2>2. Cardinality((n + 1)..len) = len - n
    BY <1>1, <1>2, <2>1
  <2>3. Cardinality(isError) = len - n
    BY <1>5, <2>2
  <2> HIDE DEF isError
  <2> QED
    BY <1>1, <1>2, <1>3, <2>3
<1>7. IsPrefix(SubSeq(made, 1, n), Script(steps))
  <2> DEFINE first  == SubSeq(made, 1, n)
             script == SubSeq(Script(steps), 1, n)
             Values == {Script(steps)[k] : k \in 1..n}
  <2>1. \A k \in 1..n : made[k] \in Values /\ Script(steps)[k] \in Values
    BY <1>4
  <2> HIDE DEF Values
  <2>9. 1 \in Int /\ n \in Int
    BY <1>1
  <2>2. /\ first \in Seq(Values)
        /\ Len(first) = IF 1 <= n THEN n - 1 + 1 ELSE 0
        /\ \A k \in 1..(n - 1 + 1) : first[k] = made[1 + k - 1]
    BY <2>1, <2>9, SubSeqProperties
  <2>3. /\ script \in Seq(Values)
        /\ Len(script) = IF 1 <= n THEN n - 1 + 1 ELSE 0
        /\ \A k \in 1..(n - 1 + 1) : script[k] = Script(steps)[1 + k - 1]
    BY <2>1, <2>9, SubSeqProperties
  <2>4. /\ Len(first) = n /\ Len(script) = n /\ n - 1 + 1 = n
        /\ \A k \in 1..n : 1 + k - 1 = k
    BY <1>1, <2>2, <2>3
  <2> HIDE DEF first, script, Values
  <2>5. \A k \in 1..n : first[k] = script[k]
    BY <1>4, <2>2, <2>3, <2>4
  <2>6. first = script
    BY <2>2, <2>3, <2>4, <2>5, SeqEqual
  <2>7. SubSeq(first, 1, n) = first
    <3>1. \A k \in 1..n : first[k] \in Values
      BY <2>2, <2>4, ElementOfSeq
    <3>2. /\ SubSeq(first, 1, n) \in Seq(Values)
          /\ Len(SubSeq(first, 1, n)) = IF 1 <= n THEN n - 1 + 1 ELSE 0
          /\ \A k \in 1..(n - 1 + 1) : SubSeq(first, 1, n)[k] = first[1 + k - 1]
      BY <1>1, <3>1, SubSeqProperties
    <3> DEFINE again == SubSeq(first, 1, n)
    <3>3. Len(again) = n
      BY <1>1, <3>2
    <3>4. \A k \in 1..n : again[k] = first[k]
      BY <2>4, <3>2
    <3> HIDE DEF again
    <3>5. again \in Seq(Values)
      BY <3>2 DEF again
    <3>6. again = first
      BY <2>2, <2>4, <3>3, <3>4, <3>5, SeqEqual
    <3> QED
      BY <3>6 DEF again
  <2>8. Len(first) <= Len(Script(steps))
    BY <1>1, <2>4, ScriptHasNoError
  <2> QED
    BY <2>4, <2>6, <2>7, <2>8 DEF IsPrefix, first, script
<1> QED
  BY <1>3, <1>5, <1>6, <1>7 DEF RoundFollowsScript, made

\* Whatever fails, the events of a round are the first of its plan's script, and
\* after them errors only.
THEOREM RoundsFollowScript == Spec => []RoundFollowsScript
<1>1. RoundInv => RoundFollowsScript
  <2> SUFFICES ASSUME RoundInv PROVE RoundFollowsScript
    OBVIOUS
  <2>1. CASE at # "start"
    BY <2>1, SoFar, Regular
  <2>2. CASE at = "start" /\ emitted = <<SessionEvent>>
    <3>1. Len(emitted) = 1 /\ 0 \in 0..(3 * steps + 2)
      BY <2>2, RoundNumbers
    <3>2. 1..0 = {} /\ (0 + 2)..1 = {} /\ 0 + 1 <= 1
      OBVIOUS
    <3>3. FollowedToError(0)
      BY <3>1, <3>2 DEF FollowedToError
    <3> QED
      BY <3>1, <3>3, Regular
  <2>3. CASE emitted = <<>>
    <3> DEFINE made    == SubSeq(emitted, 2, Len(emitted))
               isError == {k \in DOMAIN made : made[k][1] \in ErrorTypes}
               regular == Len(made) - Cardinality(isError)
    <3>1. made = <<>>
      BY <2>3, SubSeqEmpty
    <3>2. isError = {} /\ Len(made) = 0
      BY <3>1
    <3>3. Cardinality(isError) = 0
      BY <3>2, FS_EmptySet
    <3> HIDE DEF made, isError
    <3>4. regular = 0 /\ (regular + 1)..Len(made) = {}
      BY <3>2, <3>3
    <3>5. SubSeq(made, 1, 0) = <<>> /\ SubSeq(Script(steps), 1, 0) = <<>>
      BY SubSeqEmpty
    <3>6. IsPrefix(<<>>, Script(steps))
      <4>1. Len(Script(steps)) = 3 * steps + 2 /\ steps \in Nat
        BY RoundNumbers, ScriptHasNoError
      <4>2. SubSeq(<<>>, 1, 0) = <<>> /\ Len(<<>>) = 0
        BY SubSeqEmpty
      <4> QED
        BY <3>5, <4>1, <4>2 DEF IsPrefix
    <3>7. isError = (regular + 1)..Len(made) /\ IsPrefix(SubSeq(made, 1, regular), Script(steps))
      BY <3>1, <3>2, <3>4, <3>5, <3>6
    <3> QED
      BY <3>7 DEF RoundFollowsScript, made, isError
  <2> QED
    BY <2>1, <2>2, <2>3 DEF RoundInv, RoundProgress
<1>2. StreamInv => RoundFollowsScript
  BY <1>1 DEF StreamInv
<1> QED
  BY <1>2, StreamAlways, PTL
=============================================================================
