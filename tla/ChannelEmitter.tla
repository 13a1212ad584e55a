--------------------------- MODULE ChannelEmitter ---------------------------
(***************************************************************************)
(* The event emitter (internal/events/events.go): a list of subscriber     *)
(* channels under a sync.RWMutex.  Emit sends on every channel while it    *)
(* holds the read lock, and blocks there when a channel is full; Subscribe *)
(* and Close take the write lock.  A writer that waits for the lock keeps  *)
(* new readers out.                                                        *)
(***************************************************************************)
EXTENDS Naturals, Sequences

CONSTANTS
    Procs,          \* goroutines that call the emitter
    Subscribers,    \* channels that Subscribe can hand out
    BufSize         \* capacity of a channel

ASSUME EmitterAssumption == BufSize \in Nat \ {0}

VARIABLES
    subs,           \* e.subs, in the order of the Subscribe calls
    chan,           \* the events buffered in a channel
    chanOpen,       \* has the channel not been closed?
    closed,         \* e.closed
    call,           \* where a goroutine is in its call of the emitter
    sending,        \* the event it emits
    sendTo          \* index in subs of the channel it sends it on

emitterVars == <<subs, chan, chanOpen, closed, call, sending, sendTo>>

\* Goroutines that hold the read lock, and that wait for the write lock.
Readers == {g \in Procs : call[g] = "emit"}
Writers == {g \in Procs : call[g] = "close"}

EmitterInit ==
    /\ subs = <<>>
    /\ chan = [c \in Subscribers |-> <<>>]
    /\ chanOpen = [c \in Subscribers |-> TRUE]
    /\ closed = FALSE
    /\ call = [g \in Procs |-> "none"]
    /\ sending = [g \in Procs |-> <<>>]
    /\ sendTo = [g \in Procs |-> 1]

\* Emit: take the read lock.  An emitter that is closed, or that nobody has
\* subscribed to, drops the event.
StartEmit(g, event) ==
    /\ call[g] = "none"
    /\ Writers = {}
    /\ IF closed \/ subs = <<>>
         THEN UNCHANGED <<call, sending, sendTo>>
         ELSE /\ call' = [call EXCEPT ![g] = "emit"]
              /\ sending' = [sending EXCEPT ![g] = event]
              /\ sendTo' = [sendTo EXCEPT ![g] = 1]
    /\ UNCHANGED <<subs, chan, chanOpen, closed>>

\* Mutant: the index is advanced before it is compared.
SendAdvancing(g) ==
    /\ call[g] = "emit"
    /\ LET c == subs[sendTo[g]] IN
        /\ Len(chan[c]) < BufSize
        /\ chan' = [chan EXCEPT ![c] = Append(@, sending[g])]
    /\ sendTo' = [sendTo EXCEPT ![g] = @ + 1]
    /\ call' = [call EXCEPT ![g] = IF sendTo'[g] > Len(subs) THEN "none" ELSE "emit"]
    /\ UNCHANGED <<subs, chanOpen, closed, sending>>

\* sub <- event, for the next channel of subs; after the last one, unlock.
Send(g) ==
    /\ call[g] = "emit"
    /\ LET c == subs[sendTo[g]] IN
        /\ Len(chan[c]) < BufSize
        /\ chan' = [chan EXCEPT ![c] = Append(@, sending[g])]
    /\ IF sendTo[g] < Len(subs)
         THEN sendTo' = [sendTo EXCEPT ![g] = @ + 1] /\ UNCHANGED call
         ELSE call' = [call EXCEPT ![g] = "none"] /\ UNCHANGED sendTo
    /\ UNCHANGED <<subs, chanOpen, closed, sending>>

\* A channel made after Close is never closed.
Subscribe(g, c) ==
    /\ call[g] = "none"
    /\ Readers = {}
    /\ c \notin {subs[i] : i \in DOMAIN subs}
    /\ subs' = Append(subs, c)
    /\ UNCHANGED <<chan, chanOpen, closed, call, sending, sendTo>>

\* Close: ask for the write lock, then close the channels, once.
StartClose(g) ==
    /\ call[g] = "none"
    /\ call' = [call EXCEPT ![g] = "close"]
    /\ UNCHANGED <<subs, chan, chanOpen, closed, sending, sendTo>>

\* Mutant: Close does not take the lock.
CloseUnlocked(g) ==
    /\ call[g] = "close"
    /\ closed' = TRUE
    /\ chanOpen' = [c \in Subscribers |->
            IF c \in {subs[i] : i \in DOMAIN subs} THEN FALSE ELSE chanOpen[c]]
    /\ call' = [call EXCEPT ![g] = "none"]
    /\ UNCHANGED <<subs, chan, sending, sendTo>>

EndClose(g) ==
    /\ call[g] = "close"
    /\ Readers = {}
    /\ closed' = TRUE
    /\ chanOpen' = [c \in Subscribers |->
            IF ~closed /\ c \in {subs[i] : i \in DOMAIN subs} THEN FALSE ELSE chanOpen[c]]
    /\ call' = [call EXCEPT ![g] = "none"]
    /\ UNCHANGED <<subs, chan, sending, sendTo>>

\* Mutant: the receiver takes the newest event.
ReceiveLast(c) ==
    /\ chan[c] # <<>>
    /\ chan' = [chan EXCEPT ![c] = SubSeq(@, 1, Len(@) - 1)]
    /\ UNCHANGED <<subs, chanOpen, closed, call, sending, sendTo>>

\* ev, ok := <-ch with ok TRUE: a closed channel is drained first.
Receive(c) ==
    /\ chan[c] # <<>>
    /\ chan' = [chan EXCEPT ![c] = Tail(@)]
    /\ UNCHANGED <<subs, chanOpen, closed, call, sending, sendTo>>

\* ev, ok := <-ch with ok FALSE.
Drained(c) == chan[c] = <<>> /\ ~chanOpen[c]
=============================================================================
