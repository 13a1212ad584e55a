------------------------- MODULE HistoryCompression -------------------------
(***************************************************************************)
(* The compressed history of one session in one scope                      *)
(* (internal/investigation/investigation.go, collectScopedEntries and      *)
(* compressAndSnapshot; middlewares/summarizer/compressor.go).             *)
(*                                                                         *)
(* An investigation reads the snapshot and the rounds after the one it     *)
(* says it covers, has the model compress all entries but the most recent  *)
(* when they are over the token limit, and saves the result as the new     *)
(* snapshot.  A text is represented by the set of the rounds it tells      *)
(* about: the model is taken to keep everything it is given, so that what  *)
(* is lost here is lost by the code around it.                             *)
(***************************************************************************)
EXTENDS Naturals, Sequences, FiniteSets

CONSTANTS
    Calls,          \* investigations of the session that can overlap
    MaxRound,       \* bound on the rounds of the session
    KeepRecent      \* HistoryCompressor.KeepRecent

ASSUME CompressionAssumption == MaxRound \in Nat /\ KeepRecent \in Nat \ {0}

VARIABLES
    texts,          \* table rounds: has the round a text in this scope?
    snap,           \* the row of history_snapshots; upTo = 0 when there is none
    pc,             \* where a call is
    round,          \* the round the call is to make
    entries,        \* the entries of the call's prompt
    older,          \* result.CompressedUpTo
    base,           \* afterRound, then baseRound
    upTo,           \* newCompressedUpTo
    seen,           \* history: the rounds whose text some planner was given
    calm            \* history: no calls have overlapped, no error was ignored,
                    \* every prompt has reached the planner

vars == <<texts, snap, pc, round, entries, older, base, upTo, seen, calm>>

Count == Len(texts)

NoSnapshot == [upTo |-> 0, content |-> {}]

Init ==
    /\ texts = <<>>
    /\ snap = NoSnapshot
    /\ pc = [c \in Calls |-> "idle"]
    /\ round = [c \in Calls |-> 1]
    /\ entries = [c \in Calls |-> <<>>]
    /\ older = [c \in Calls |-> 0]
    /\ base = [c \in Calls |-> 0]
    /\ upTo = [c \in Calls |-> 0]
    /\ seen = {}
    /\ calm = TRUE

Goto(c, stage) == pc' = [pc EXCEPT ![c] = stage]

\* compressAndSnapshot returns, RunInvestigation returns: their locals go.
LeaveCompression(c) ==
    /\ older' = [older EXCEPT ![c] = 0]
    /\ base' = [base EXCEPT ![c] = 0]
    /\ upTo' = [upTo EXCEPT ![c] = 0]

Leave(c) ==
    /\ Goto(c, "idle")
    /\ round' = [round EXCEPT ![c] = 1]
    /\ entries' = [entries EXCEPT ![c] = <<>>]
    /\ LeaveCompression(c)

\* The rounds after round n, in their order (LoadRoundsAfter).
RoundsAfter(n) == [i \in 1..(IF n < Count THEN Count - n ELSE 0) |-> n + i]

\* Those of them that have a text: the i-th is the one that i of them do not
\* come after.
TextsAfter(n) ==
    LET withText == {r \in (n + 1)..Count : texts[r]} IN
    [i \in 1..Cardinality(withText) |->
        CHOOSE r \in withText : Cardinality({q \in withText : q <= r}) = i]

\* The text made of a sequence of entries.
Joined(es) == UNION {es[i] : i \in DOMAIN es}

\* One call makes one round, the one after those that are stored.
Start(c) ==
    /\ pc[c] = "idle"
    /\ Count < MaxRound
    /\ round' = [round EXCEPT ![c] = Count + 1]
    /\ Goto(c, IF Count = 0 THEN "plan" ELSE "load")
    /\ calm' = (calm /\ \A d \in Calls : pc[d] = "idle")
    /\ UNCHANGED <<texts, snap, entries, older, base, upTo, seen>>

\* collectScopedEntries, its first statement: LoadSnapshot.
LoadSnapshot(c) ==
    /\ pc[c] = "load"
    /\ base' = [base EXCEPT ![c] = snap.upTo]
    /\ entries' = [entries EXCEPT ![c] = IF snap.content # {} THEN <<snap.content>> ELSE <<>>]
    /\ Goto(c, "collect")
    /\ UNCHANGED <<texts, snap, round, older, upTo, seen, calm>>

\* Its second: LoadRoundsAfter.  A round without a text makes no entry.
Collect(c) ==
    /\ pc[c] = "collect"
    /\ LET new == TextsAfter(base[c])
       IN  entries' = [entries EXCEPT ![c] = @ \o [i \in DOMAIN new |-> {new[i]}]]
    /\ Goto(c, IF entries'[c] = <<>> THEN "plan" ELSE "compress")
    /\ LeaveCompression(c)
    /\ UNCHANGED <<texts, snap, round, seen, calm>>

\* Either read fails: the investigation is over.
CollectFails(c) ==
    /\ pc[c] \in {"load", "collect"}
    /\ Leave(c)
    /\ UNCHANGED <<texts, snap, seen, calm>>

\* Under the token limit, too few entries, or the model fails: used as they are.
UseRaw(c) ==
    /\ pc[c] = "compress"
    /\ Goto(c, "plan")
    /\ UNCHANGED <<texts, snap, round, entries, older, base, upTo, seen, calm>>

Compress(c) ==
    /\ pc[c] = "compress"
    /\ KeepRecent < Len(entries[c])
    /\ LET n == Len(entries[c]) - KeepRecent IN
        /\ older' = [older EXCEPT ![c] = n]
        /\ entries' = [entries EXCEPT ![c] =
                <<Joined(SubSeq(@, 1, n))>> \o SubSeq(@, n + 1, Len(@))]
    /\ Goto(c, "reload")
    /\ UNCHANGED <<texts, snap, round, base, upTo, seen, calm>>

\* The snapshot is read again to place the index; an error counts as "none".
ReloadSnapshot(c) ==
    /\ pc[c] = "reload"
    /\ \/ base' = [base EXCEPT ![c] = snap.upTo] /\ UNCHANGED calm
       \/ base' = [base EXCEPT ![c] = 0] /\ calm' = FALSE
    /\ Goto(c, "measure")
    /\ UNCHANGED <<texts, snap, round, entries, older, upTo, seen>>

\* The number of the last compressed round, if the rounds after the base that
\* remain have one at that index.
Measured(c, remaining) ==
    upTo' = [upTo EXCEPT ![c] =
        IF older[c] <= Len(remaining) THEN remaining[older[c]] ELSE base[c]]

\* Mutant: the index is added to the base, not looked up in what remains.
MeasureUnchecked(c) ==
    /\ pc[c] = "measure"
    /\ upTo' = [upTo EXCEPT ![c] = base[c] + older[c]]
    /\ Goto(c, "save")
    /\ UNCHANGED <<texts, snap, round, entries, older, base, seen, calm>>

\* Mutant: the same, with the exclusive index taken as an inclusive one.
MeasureInclusive(c) ==
    /\ pc[c] = "measure"
    /\ upTo' = [upTo EXCEPT ![c] = base[c] + older[c] + 1]
    /\ Goto(c, "save")
    /\ UNCHANGED <<texts, snap, round, entries, older, base, seen, calm>>

\* Mutant: the index is looked up in all rounds, not in those after the base.
MeasureFromFirst(c) ==
    /\ pc[c] = "measure"
    /\ Measured(c, RoundsAfter(0))
    /\ Goto(c, "save")
    /\ UNCHANGED <<texts, snap, round, entries, older, base, seen, calm>>

\* The rounds are read again; an error counts as "none".
Measure(c) ==
    /\ pc[c] = "measure"
    /\ \/ Measured(c, RoundsAfter(base[c])) /\ UNCHANGED calm
       \/ Measured(c, <<>>) /\ calm' = FALSE
    /\ Goto(c, "save")
    /\ UNCHANGED <<texts, snap, round, entries, older, base, seen>>

SaveSnapshot(c) ==
    /\ pc[c] = "save"
    /\ snap' = [upTo |-> upTo[c], content |-> Head(entries[c])]
    /\ Goto(c, "plan")
    /\ LeaveCompression(c)
    /\ UNCHANGED <<texts, round, entries, seen, calm>>

\* The error of SaveSnapshot is logged.
SaveSnapshotFails(c) ==
    /\ pc[c] = "save"
    /\ Goto(c, "plan")
    /\ LeaveCompression(c)
    /\ UNCHANGED <<texts, snap, round, entries, seen, calm>>

\* The planner is given the entries.
Plan(c) ==
    /\ pc[c] = "plan"
    /\ seen' = seen \cup Joined(entries[c])
    /\ Goto(c, "run")
    /\ UNCHANGED <<texts, snap, round, entries, older, base, upTo, calm>>

\* The round is stored, with or without a text; it must not be there yet.
StoreRound(c) ==
    /\ pc[c] = "run"
    /\ round[c] = Count + 1
    /\ \E hasText \in BOOLEAN : texts' = Append(texts, hasText)
    /\ Leave(c)
    /\ UNCHANGED <<snap, seen, calm>>

\* The planner, the executor or the flush fails, as the flush of a round that
\* is there already always does.
RunFails(c) ==
    /\ pc[c] \in {"plan", "run"}
    /\ Leave(c)
    /\ calm' = (calm /\ pc[c] # "plan")
    /\ UNCHANGED <<texts, snap, seen>>

Next ==
    \E c \in Calls :
        \/ Start(c)
        \/ LoadSnapshot(c)
        \/ Collect(c)
        \/ CollectFails(c)
        \/ UseRaw(c)
        \/ Compress(c)
        \/ ReloadSnapshot(c)
        \/ Measure(c)
        \/ SaveSnapshot(c)
        \/ SaveSnapshotFails(c)
        \/ Plan(c)
        \/ StoreRound(c)
        \/ RunFails(c)

Spec == Init /\ [][Next]_vars

----------------------------------------------------------------------------
WithText == {r \in 1..Count : texts[r]}

\* A snapshot never claims to cover a round that is not stored, whatever
\* overlaps or fails: such a round would be left out of every prompt from the
\* day it is made (compressAndSnapshot's test against len(remainingRounds)).
SnapshotWithinHistory == snap.upTo <= Count

\* While calls come one after the other, the part of the history that is
\* compressed only grows.
SnapshotAdvances == [][calm' => snap'.upTo >= snap.upTo]_vars

\* While calls come one after the other, no text is put away in a snapshot,
\* or skipped by one, before some planner has been given it.  (That a prompt
\* reaches the planner is needed because a snapshot may claim the most recent
\* round, which is in that prompt only: SnapshotCoversUpTo.)
NothingUnread ==
    calm => \A c \in Calls : pc[c] = "run" => \A r \in WithText : r < round[c] => r \in seen

\* compressed_up_to is the "round number up to which entries were compressed"
\* (models.go:88): the snapshot tells about every round up to that number.
SnapshotCoversUpTo == calm => \A r \in WithText : r <= snap.upTo => r \in snap.content
=============================================================================
