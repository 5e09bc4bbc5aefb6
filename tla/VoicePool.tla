------------------------------- MODULE VoicePool -------------------------------
(***************************************************************************)
(* The voice pool (lina/providers/pool.py): a chain of providers behind a   *)
(* semaphore.  A call waits for a slot, then tries one provider after the   *)
(* other until one speaks; a stream that has begun to speak is never        *)
(* voiced again by another.                                                 *)
(***************************************************************************)
EXTENDS Naturals, Sequences, SequencesExt

CONSTANTS
    Calls,       \* the callers, each with one call at a time
    Providers,   \* the length of the chain
    Slots        \* max_concurrent

ASSUME PoolAssumption == Providers \in Nat \ {0} /\ Slots \in Nat \ {0}

VARIABLES
    call,     \* the calls
    queue,    \* the semaphore's waiters, first come first served
    free      \* its free slots

pool_vars == <<call, queue, free>>

NoCall == [pc |-> "none", stream |-> FALSE, provider |-> 1, heard |-> {}]

PoolInit ==
    /\ call = [c \in Calls |-> NoCall]
    /\ queue = <<>>
    /\ free = Slots

CallAt(c, pc) == call[c].pc = pc

\* generate, generate_stream
Ask(c, stream) ==
    /\ CallAt(c, "none")
    /\ call' = [call EXCEPT ![c] = [NoCall EXCEPT !.pc = "waiting", !.stream = stream]]
    /\ queue' = Append(queue, c)
    /\ UNCHANGED free

Grant(c) ==
    /\ queue # <<>> /\ Head(queue) = c /\ free > 0
    /\ call' = [call EXCEPT ![c].pc = "calling"]
    /\ queue' = Tail(queue)
    /\ free' = free - 1

EndCall(c, pc) ==
    /\ call' = [call EXCEPT ![c].pc = pc]
    /\ free' = free + 1
    /\ UNCHANGED queue

TryNext(c) ==
    IF call[c].provider < Providers
    THEN /\ call' = [call EXCEPT ![c].provider = @ + 1]
         /\ UNCHANGED <<queue, free>>
    ELSE EndCall(c, "failed")

\* The provider answers with words, or its stream comes to its end.
Answers(c) ==
    /\ CallAt(c, "calling")
    /\ call[c].stream => call[c].heard # {}
    /\ EndCall(c, "answered")

\* The first chunk of a stream; those that follow change nothing.
Speaks(c) ==
    /\ CallAt(c, "calling") /\ call[c].stream
    /\ call[c].provider \notin call[c].heard
    /\ call' = [call EXCEPT ![c].heard = @ \cup {call[c].provider}]
    /\ UNCHANGED <<queue, free>>

\* Mutant: a stream that breaks falls back, even after it has spoken.
BreaksAlways(c) ==
    /\ CallAt(c, "calling")
    /\ TryNext(c)

\* Mutant: a stream that breaks takes its slot with it.
BreaksWithSlot(c) ==
    /\ CallAt(c, "calling")
    /\ IF call[c].heard = {} THEN TryNext(c)
       ELSE /\ call' = [call EXCEPT ![c].pc = "failed"]
            /\ UNCHANGED <<queue, free>>

\* An error, an empty completion, an empty stream.
Breaks(c) ==
    /\ CallAt(c, "calling")
    /\ IF call[c].heard = {} THEN TryNext(c) ELSE EndCall(c, "failed")

Place(c) == CHOOSE i \in DOMAIN queue : queue[i] = c

\* The task that awaits the call is cancelled, and with it a place in the queue.
Cancel(c) ==
    /\ call' = [call EXCEPT ![c] = NoCall]
    /\ queue' = IF c \in Range(queue) THEN RemoveAt(queue, Place(c)) ELSE queue
    /\ free' = IF CallAt(c, "calling") THEN free + 1 ELSE free

\* Its outcome is taken by the caller.
Collect(c) ==
    /\ call' = [call EXCEPT ![c] = NoCall]
    /\ UNCHANGED <<queue, free>>

PoolTypeOK ==
    /\ call \in [Calls -> [pc : {"none", "waiting", "calling", "answered", "failed"},
                           stream : BOOLEAN, provider : 1..Providers,
                           heard : SUBSET (1..Providers)]]
    /\ queue \in Seq(Calls)
    /\ free \in 0..Slots

\* What a caller hears of one call comes from one provider: once her words flow,
\* a failure is surfaced, never silently re-voiced.
OneVoice == \A c \in Calls : \A p, q \in call[c].heard : p = q
==============================================================================
