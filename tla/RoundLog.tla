------------------------------ MODULE RoundLog ------------------------------
(***************************************************************************)
(* What the rounds of a session promise, whatever the number of requests   *)
(* and commands on it and whatever fails: a log that grows at its end, one *)
(* round at a time, and goes away only with its session.  A request adds   *)
(* one round, and no writer adds rounds to two sessions.                   *)
(***************************************************************************)
EXTENDS Naturals, Sequences

CONSTANTS
    Sessions,
    Writers,    \* who makes rounds
    Once        \* those of them who make one round only

VARIABLES
    alive,    \* sessions that exist
    log       \* the writers that made the rounds of a session, in order

LogInit ==
    /\ alive = {}
    /\ log = [s \in Sessions |-> <<>>]

Create(s) ==
    /\ s \notin alive
    /\ alive' = alive \cup {s}
    /\ UNCHANGED log

AppendRound(s, q) ==
    /\ s \in alive
    /\ \A t \in Sessions : \A i \in DOMAIN log[t] : log[t][i] = q => t = s /\ q \notin Once
    /\ log' = [log EXCEPT ![s] = Append(@, q)]
    /\ UNCHANGED alive

Delete(s) ==
    /\ s \in alive
    /\ alive' = alive \ {s}
    /\ log' = [log EXCEPT ![s] = <<>>]

LogNext ==
    \E s \in Sessions :
        \/ Create(s)
        \/ Delete(s)
        \/ \E q \in Writers : AppendRound(s, q)

LogSpec == LogInit /\ [][LogNext]_<<alive, log>>
=============================================================================
