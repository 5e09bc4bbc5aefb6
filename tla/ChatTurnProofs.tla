----------------------------- MODULE ChatTurnProofs -----------------------------
(***************************************************************************)
(* Theorems about chat turns, for any number of them, any chain of         *)
(* providers, any number of slots and any ceilings.                        *)
(*                                                                         *)
(* A slot is free or held by a call that is being answered (Slotted); a    *)
(* call is heard by one provider, the one it is at (Voiced); what is about *)
(* to be recorded is the pass that was judged last (Judged).  A turn has a *)
(* bounded number of steps left (Left), and there is always one to wait    *)
(* for (Paced).                                                            *)
(***************************************************************************)
EXTENDS ChatTurn, FiniteSetTheorems, SequenceTheorems, TLAPS

CallState == [pc : {"none", "waiting", "calling", "answered", "failed"},
              stream : BOOLEAN, provider : 1..Providers, heard : SUBSET (1..Providers)]
TurnState == [pc : {"idle", "drain", "await", "judge", "log", "record",
                    "close", "raise", "done"},
              stream : BOOLEAN, pass : 1..MaxToolPasses,
              repeats : 0..MaxRepeats, judged : 0..MaxToolPasses,
              outcome : {"none", "finished", "error", "left"}]
Entry == [passes : SUBSET (1..MaxToolPasses), weighed : 0..MaxToolPasses]

InCall == {c \in Calls : CallAt(c, "calling")}

Slotted == IsFiniteSet(InCall) /\ free \in Nat /\ free + Cardinality(InCall) = Slots

Voiced == \A c \in Calls : call[c].heard \subseteq {call[c].provider}

\* Who stands in the queue waits, and stands there once.
Queued ==
    /\ queue \in Seq(Calls)
    /\ \A i \in 1..Len(queue) : CallAt(queue[i], "waiting")
    /\ \A i, j \in 1..Len(queue) : queue[i] = queue[j] => i = j

PoolInv == call \in [Calls -> CallState] /\ Queued /\ Slotted /\ Voiced

TurnInv ==
    /\ turn \in [Calls -> TurnState] /\ archive \in [Calls -> SUBSET Entry]
    /\ silent \subseteq Calls /\ faults \in Nat
    /\ spoken \in [Calls -> SUBSET (1..MaxToolPasses)]

\* What a turn is about to record is the pass it judged last.
Judged == \A t \in Calls : turn[t].pc \in {"log", "record"} => turn[t].judged = turn[t].pass

Ended == \A t \in Calls : turn[t].outcome # "none" => turn[t].pc = "done"

IInv == PoolInv /\ TurnInv

------------------------------------------------------------------------------
(* The pool *)

LEMMA PoolInitial == PoolInit => PoolInv
<1>. SUFFICES ASSUME PoolInit PROVE PoolInv
    OBVIOUS
<1>1. NoCall \in CallState /\ 1 \in 1..Providers
    BY PoolAssumption DEF NoCall, CallState
<1>2. call \in [Calls -> CallState] /\ \A c \in Calls : call[c].pc = "none" /\ call[c].heard = {}
    BY <1>1 DEF PoolInit, NoCall
<1>3. InCall = {}
    BY <1>2 DEF InCall, CallAt
<1>4. Slotted
    BY <1>3, FS_EmptySet, PoolAssumption DEF PoolInit, Slotted
<1>5. Queued
    BY DEF PoolInit, Queued
<1>. QED
    BY <1>2, <1>4, <1>5 DEF PoolInv, Voiced

\* A call that goes on to v.
LEMMA Calling ==
    ASSUME PoolInv, NEW c \in Calls, NEW v \in CallState, call' = [call EXCEPT ![c] = v],
           v.heard \subseteq {v.provider}, Queued',
           free' = CASE v.pc = "calling" /\ call[c].pc # "calling" -> free - 1
                     [] v.pc # "calling" /\ call[c].pc = "calling" -> free + 1
                     [] OTHER -> free,
           v.pc = "calling" /\ call[c].pc # "calling" => free > 0
    PROVE  PoolInv'
<1>1. /\ call' \in [Calls -> CallState]
      /\ \A b \in Calls : call'[b] = IF b = c THEN v ELSE call[b]
    BY DEF PoolInv
<1>2. Voiced'
    BY <1>1 DEF PoolInv, Voiced
<1>3. IsFiniteSet(InCall) /\ free \in Nat /\ free + Cardinality(InCall) = Slots
      /\ Cardinality(InCall) \in Nat /\ Slots \in Nat
    BY FS_CardinalityType, PoolAssumption DEF PoolInv, Slotted
<1>4. CASE v.pc = "calling" /\ call[c].pc # "calling"
    <2>1. InCall' = InCall \cup {c} /\ c \notin InCall
        BY <1>1, <1>4 DEF InCall, CallAt
    <2>2. IsFiniteSet(InCall') /\ Cardinality(InCall') = Cardinality(InCall) + 1
        BY <1>3, <2>1, FS_AddElement
    <2>. QED
        BY <1>1, <1>2, <1>3, <1>4, <2>2 DEF PoolInv, Slotted
<1>5. CASE v.pc # "calling" /\ call[c].pc = "calling"
    <2>1. InCall' = InCall \ {c} /\ c \in InCall
        BY <1>1, <1>5 DEF InCall, CallAt
    <2>2. IsFiniteSet(InCall') /\ Cardinality(InCall') = Cardinality(InCall) - 1
        BY <1>3, <2>1, FS_RemoveElement
    <2>. QED
        BY <1>1, <1>2, <1>3, <1>5, <2>2 DEF PoolInv, Slotted
<1>6. CASE v.pc = "calling" <=> call[c].pc = "calling"
    <2>1. InCall' = InCall
        BY <1>1, <1>6 DEF InCall, CallAt
    <2>. QED
        BY <1>1, <1>2, <1>3, <1>6, <2>1 DEF PoolInv, Slotted
<1>. QED
    BY <1>4, <1>5, <1>6

\* Calls that are not in the queue may go on; the others may not.
LEMMA Staying ==
    ASSUME PoolInv, NEW c \in Calls, NEW v \in CallState, call' = [call EXCEPT ![c] = v],
           queue' = queue, call[c].pc # "waiting"
    PROVE  Queued'
<1>1. queue \in Seq(Calls) /\ \A i \in 1..Len(queue) : queue[i] \in Calls /\ queue[i] # c
    BY DEF PoolInv, Queued, CallAt
<1>2. \A i \in 1..Len(queue) : call'[queue[i]] = call[queue[i]]
    BY <1>1 DEF PoolInv
<1>. QED
    BY <1>1, <1>2 DEF PoolInv, Queued, CallAt

LEMMA Joining ==
    ASSUME PoolInv, NEW c \in Calls, NEW v \in CallState, call' = [call EXCEPT ![c] = v],
           queue' = Append(queue, c), call[c].pc # "waiting", v.pc = "waiting"
    PROVE  Queued'
<1>1. queue \in Seq(Calls) /\ Len(queue) \in Nat
      /\ \A i \in 1..Len(queue) : queue[i] \in Calls /\ queue[i] # c
    BY DEF PoolInv, Queued, CallAt
<1>2. queue' \in Seq(Calls) /\ Len(queue') = Len(queue) + 1
      /\ \A i \in 1..Len(queue') : queue'[i] = IF i = Len(queue) + 1 THEN c ELSE queue[i]
    BY <1>1
<1>3. \A b \in Calls : call'[b] = IF b = c THEN v ELSE call[b]
    BY DEF PoolInv
<1>4. \A i \in 1..Len(queue') : call'[queue'[i]].pc = "waiting"
    BY <1>1, <1>2, <1>3 DEF PoolInv, Queued, CallAt
<1>5. \A i, j \in 1..Len(queue') : queue'[i] = queue'[j] => i = j
    BY <1>1, <1>2 DEF PoolInv, Queued
<1>. QED
    BY <1>2, <1>4, <1>5 DEF Queued, CallAt

\* A call that leaves the queue from its place n.
LEMMA Leaving ==
    ASSUME PoolInv, NEW c \in Calls, NEW v \in CallState, call' = [call EXCEPT ![c] = v],
           NEW n \in 1..Len(queue), queue[n] = c, queue' \in Seq(Calls),
           Len(queue') = Len(queue) - 1,
           \A i \in 1..Len(queue') : queue'[i] = IF i < n THEN queue[i] ELSE queue[i + 1]
    PROVE  Queued'
<1>0. Len(queue) \in Nat /\ queue \in Seq(Calls)
    BY DEF PoolInv, Queued
<1>1. \A b \in Calls : call'[b] = IF b = c THEN v ELSE call[b]
    BY DEF PoolInv
<1>2. ASSUME NEW i \in 1..Len(queue')
      PROVE  \E m \in 1..Len(queue) : /\ m = (IF i < n THEN i ELSE i + 1) /\ m # n
                                      /\ queue'[i] = queue[m]
    BY <1>0
<1>3. \A i \in 1..Len(queue') : call'[queue'[i]].pc = "waiting"
    <2>. SUFFICES ASSUME NEW i \in 1..Len(queue') PROVE call'[queue'[i]].pc = "waiting"
        OBVIOUS
    <2>1. PICK m \in 1..Len(queue) : m # n /\ queue'[i] = queue[m]
        BY <1>2
    <2>2. queue[m] # c /\ queue[m] \in Calls /\ call[queue[m]].pc = "waiting"
        BY <1>0, <2>1 DEF PoolInv, Queued, CallAt
    <2>. QED
        BY <1>1, <2>1, <2>2
<1>4. \A i, j \in 1..Len(queue') : queue'[i] = queue'[j] => i = j
    <2>. SUFFICES ASSUME NEW i \in 1..Len(queue'), NEW j \in 1..Len(queue'), queue'[i] = queue'[j]
                  PROVE  i = j
        OBVIOUS
    <2>1. PICK m \in 1..Len(queue) : m = (IF i < n THEN i ELSE i + 1) /\ queue'[i] = queue[m]
        BY <1>2
    <2>2. PICK k \in 1..Len(queue) : k = (IF j < n THEN j ELSE j + 1) /\ queue'[j] = queue[k]
        BY <1>2
    <2>3. m = k
        BY <2>1, <2>2 DEF PoolInv, Queued
    <2>. QED
        BY <1>0, <2>1, <2>2, <2>3
<1>. QED
    BY <1>3, <1>4 DEF Queued, CallAt

LEMMA Removing ==
    ASSUME NEW q \in Seq(Calls), NEW n \in 1..Len(q)
    PROVE  /\ RemoveAt(q, n) \in Seq(Calls) /\ Len(RemoveAt(q, n)) = Len(q) - 1
           /\ \A i \in 1..(Len(q) - 1) : RemoveAt(q, n)[i] = IF i < n THEN q[i] ELSE q[i + 1]
<1>. DEFINE a == SubSeq(q, 1, n - 1)
            b == SubSeq(q, n + 1, Len(q))
<1>0. Len(q) \in Nat
    OBVIOUS
<1>1. a \in Seq(Calls) /\ Len(a) = n - 1 /\ \A i \in 1..(n - 1) : a[i] = q[i]
    <2>1. 1 \in 1..(Len(q) + 1) /\ n - 1 \in 0..Len(q)
        BY <1>0
    <2>. QED
        BY <2>1, SubSeqProperties
<1>2. b \in Seq(Calls) /\ Len(b) = Len(q) - n /\ \A i \in 1..(Len(q) - n) : b[i] = q[n + i]
    <2>1. n + 1 \in 1..(Len(q) + 1) /\ Len(q) \in 0..Len(q)
        BY <1>0
    <2>2. /\ b \in Seq(Calls)
          /\ Len(b) = IF n + 1 <= Len(q) THEN Len(q) - (n + 1) + 1 ELSE 0
          /\ \A i \in 1 .. Len(q) - (n + 1) + 1 : b[i] = q[(n + 1) + i - 1]
        BY <2>1, SubSeqProperties
    <2>3. Len(q) - (n + 1) + 1 = Len(q) - n /\ \A i \in Nat : (n + 1) + i - 1 = n + i
        BY <1>0
    <2>. HIDE DEF b
    <2>4. Len(b) = Len(q) - n
        BY <1>0, <2>2
    <2>5. ASSUME NEW i \in 1..(Len(q) - n) PROVE b[i] = q[n + i]
        <3>1. i \in 1 .. Len(q) - (n + 1) + 1 /\ (n + 1) + i - 1 = n + i
            BY <1>0
        <3>. QED
            BY <2>2, <3>1
    <2>. QED
        BY <2>2, <2>4, <2>5
<1>3. RemoveAt(q, n) = a \o b
    BY DEF RemoveAt
<1>. HIDE DEF a, b
<1>4. /\ a \o b \in Seq(Calls) /\ Len(a \o b) = Len(q) - 1
      /\ \A i \in 1..(Len(q) - 1) : (a \o b)[i] = IF i < n THEN a[i] ELSE b[i - (n - 1)]
    <2>1. /\ a \o b \in Seq(Calls) /\ Len(a \o b) = Len(a) + Len(b)
          /\ \A i \in 1..(Len(a) + Len(b)) :
                (a \o b)[i] = IF i <= Len(a) THEN a[i] ELSE b[i - Len(a)]
        BY <1>1, <1>2, ConcatProperties
    <2>2. Len(a) + Len(b) = Len(q) - 1 /\ \A i \in Nat : i < n <=> i <= n - 1
        BY <1>0, <1>1, <1>2
    <2>. QED
        BY <1>1, <2>1, <2>2
<1>5. \A i \in 1..(Len(q) - 1) : i >= n => i - (n - 1) \in 1..(Len(q) - n)
                                           /\ n + (i - (n - 1)) = i + 1
    BY <1>0
<1>6. ASSUME NEW i \in 1..(Len(q) - 1) PROVE (a \o b)[i] = IF i < n THEN q[i] ELSE q[i + 1]
    <2>1. CASE i < n
        <3>1. i \in 1..(n - 1)
            BY <1>0, <2>1
        <3>. QED
            BY <1>1, <1>4, <2>1, <3>1
    <2>2. CASE ~(i < n)
        <3>1. i - (n - 1) \in 1..(Len(q) - n) /\ n + (i - (n - 1)) = i + 1
            BY <1>0, <1>5, <2>2
        <3>. QED
            BY <1>2, <1>4, <2>2, <3>1
    <2>. QED
        BY <2>1, <2>2
<1>. QED
    BY <1>3, <1>4, <1>6

LEMMA PoolSteps ==
    ASSUME PoolInv, NEW c \in Calls,
           \/ \E stream \in BOOLEAN : Ask(c, stream)
           \/ Grant(c) \/ Answers(c) \/ Speaks(c) \/ Breaks(c) \/ Cancel(c)
           \/ (CallAt(c, "answered") /\ Collect(c)) \/ (CallAt(c, "failed") /\ Collect(c))
    PROVE  PoolInv'
<1>0. /\ call \in [Calls -> CallState] /\ queue \in Seq(Calls) /\ call[c] \in CallState
      /\ call[c].heard \subseteq {call[c].provider} /\ free \in Nat
    BY DEF PoolInv, Voiced, Slotted, Queued
<1>1. NoCall \in CallState /\ NoCall.heard = {} /\ NoCall.pc = "none"
    BY PoolAssumption DEF NoCall, CallState
<1>2. ASSUME NEW stream \in BOOLEAN, Ask(c, stream) PROVE PoolInv'
    <2>. DEFINE v == [NoCall EXCEPT !.pc = "waiting", !.stream = stream]
    <2>1. v \in CallState /\ v.heard = {} /\ v.pc = "waiting"
        BY <1>1 DEF CallState, NoCall
    <2>2. call' = [call EXCEPT ![c] = v] /\ queue' = Append(queue, c) /\ free' = free
          /\ call[c].pc # "calling" /\ call[c].pc # "waiting"
        BY <1>2 DEF Ask, CallAt
    <2>. HIDE DEF v
    <2>3. Queued'
        BY <2>1, <2>2, Joining
    <2>. QED
        BY <2>1, <2>2, <2>3, Calling
<1>3. CASE Grant(c)
    <2>. DEFINE v == [call[c] EXCEPT !.pc = "calling"]
    <2>1. queue # <<>> /\ Head(queue) = c /\ free > 0 /\ queue' = Tail(queue) /\ free' = free - 1
        BY <1>3 DEF Grant
    <2>2. call' = [call EXCEPT ![c] = v]
        BY <1>0, <1>3 DEF Grant
    <2>3. v \in CallState /\ v.heard \subseteq {v.provider} /\ v.pc = "calling"
        BY <1>0 DEF CallState
    <2>4. 1 \in 1..Len(queue) /\ queue[1] = c /\ queue' \in Seq(Calls) /\ Len(queue') = Len(queue) - 1
          /\ \A i \in 1..Len(queue') : queue'[i] = queue[i + 1] /\ ~(i < 1)
        BY <1>0, <2>1
    <2>. HIDE DEF v
    <2>5. Queued'
        BY <2>2, <2>3, <2>4, Leaving
    <2>6. call[c].pc # "calling"
        BY <2>4 DEF PoolInv, Queued, CallAt
    <2>. QED
        BY <2>1, <2>2, <2>3, <2>5, <2>6, Calling
\* A call in progress ends, or goes on to v.
<1>4. ASSUME NEW v \in CallState, call' = [call EXCEPT ![c] = v], v.heard \subseteq {v.provider},
             call[c].pc = "calling", queue' = queue,
             free' = IF v.pc = "calling" THEN free ELSE free + 1
      PROVE  PoolInv'
    <2>1. Queued'
        BY <1>4, Staying
    <2>. QED
        BY <1>4, <2>1, Calling
<1>5. ASSUME NEW pc \in {"answered", "failed"}, CallAt(c, "calling"), EndCall(c, pc) PROVE PoolInv'
    <2>. DEFINE v == [call[c] EXCEPT !.pc = pc]
    <2>1. v \in CallState /\ v.heard \subseteq {v.provider} /\ v.pc = pc /\ pc # "calling"
        BY <1>0 DEF CallState
    <2>2. call' = [call EXCEPT ![c] = v] /\ queue' = queue /\ free' = free + 1
        BY <1>0, <1>5 DEF EndCall
    <2>. HIDE DEF v
    <2>. QED
        BY <1>4, <1>5, <2>1, <2>2 DEF CallAt
<1>6. CASE Speaks(c)
    <2>. DEFINE v == [call[c] EXCEPT !.heard = @ \cup {call[c].provider}]
    <2>1. v \in CallState /\ v.heard \subseteq {v.provider} /\ v.pc = call[c].pc
        BY <1>0 DEF CallState
    <2>2. call' = [call EXCEPT ![c] = v] /\ queue' = queue /\ free' = free /\ call[c].pc = "calling"
        BY <1>0, <1>6 DEF Speaks, CallAt
    <2>. HIDE DEF v
    <2>. QED
        BY <1>4, <2>1, <2>2
<1>7. ASSUME CallAt(c, "calling"), TryNext(c), call[c].heard = {} PROVE PoolInv'
    <2>. DEFINE v == [call[c] EXCEPT !.provider = @ + 1]
    <2>1. CASE call[c].provider < Providers
        <3>1. v \in CallState /\ v.heard = {} /\ v.pc = call[c].pc
            <4>1. call[c].provider + 1 \in 1..Providers
                BY <1>0, <2>1, PoolAssumption DEF CallState
            <4>. QED
                BY <1>0, <1>7, <4>1 DEF CallState
        <3>2. call' = [call EXCEPT ![c] = v] /\ queue' = queue /\ free' = free
            BY <1>0, <1>7, <2>1 DEF TryNext
        <3>. HIDE DEF v
        <3>. QED
            BY <1>4, <1>7, <3>1, <3>2 DEF CallAt
    <2>2. CASE ~(call[c].provider < Providers)
        BY <1>5, <1>7, <2>2 DEF TryNext
    <2>. QED
        BY <2>1, <2>2
<1>8. CASE Cancel(c)
    <2>1. call' = [call EXCEPT ![c] = NoCall]
          /\ free' = IF call[c].pc = "calling" THEN free + 1 ELSE free
        BY <1>8 DEF Cancel, CallAt
    <2>2. Queued'
        <3>1. CASE c \in Range(queue)
            <4>1. \E i \in DOMAIN queue : queue[i] = c
                BY <3>1 DEF Range
            <4>2. Place(c) \in 1..Len(queue) /\ queue[Place(c)] = c
                BY <1>0, <4>1 DEF Place
            <4>3. queue' = RemoveAt(queue, Place(c))
                BY <1>8, <3>1 DEF Cancel
            <4>. QED
                BY <1>0, <1>1, <2>1, <4>2, <4>3, Leaving, Removing
        <3>2. CASE c \notin Range(queue)
            <4>1. queue' = queue
                BY <1>8, <3>2 DEF Cancel
            <4>2. \A i \in 1..Len(queue) : queue[i] # c /\ queue[i] \in Calls
                BY <1>0, <3>2 DEF Range
            <4>3. \A i \in 1..Len(queue) : call'[queue[i]] = call[queue[i]]
                BY <1>0, <2>1, <4>2
            <4>. QED
                BY <4>1, <4>3 DEF PoolInv, Queued, CallAt
        <3>. QED
            BY <3>1, <3>2
    <2>. QED
        BY <1>1, <2>1, <2>2, Calling
<1>9. CASE Collect(c) /\ (CallAt(c, "answered") \/ CallAt(c, "failed"))
    <2>1. call' = [call EXCEPT ![c] = NoCall] /\ queue' = queue /\ free' = free
          /\ call[c].pc # "waiting" /\ call[c].pc # "calling"
        BY <1>9 DEF Collect, CallAt
    <2>2. Queued'
        BY <1>1, <2>1, Staying
    <2>. QED
        BY <1>1, <2>1, <2>2, Calling
<1>. QED
    BY <1>2, <1>3, <1>5, <1>6, <1>7, <1>8, <1>9 DEF Answers, Breaks

------------------------------------------------------------------------------
(* The turns *)

LEMMA Initial == Init => IInv /\ Judged /\ Ended /\ RecordIsWeighed /\ InterruptedIsKept
<1>. SUFFICES ASSUME Init
              PROVE  IInv /\ Judged /\ Ended /\ RecordIsWeighed /\ InterruptedIsKept
    OBVIOUS
<1>1. PoolInv
    BY PoolInitial DEF Init
<1>2. 1 \in 1..MaxToolPasses /\ 0 \in 0..MaxRepeats /\ 0 \in 0..MaxToolPasses
    BY TurnAssumption
<1>3. turn \in [Calls -> TurnState]
    BY <1>2 DEF Init, TurnState
<1>4. TurnInv
    BY <1>3 DEF Init, TurnInv
<1>5. \A t \in Calls : turn[t].pc = "idle" /\ turn[t].outcome = "none" /\ archive[t] = {}
    BY DEF Init
<1>. QED
    BY <1>1, <1>4, <1>5 DEF IInv, Judged, Ended, RecordIsWeighed, InterruptedIsKept

TurnStep(t) == \/ \E stream \in BOOLEAN : Begin(t, stream)
               \/ Proceed(t) \/ Emit(t) \/ Voice(t) \/ Fault(t) \/ Leave(t)

\* What the turns do with the pool keeps it.
LEMMA Pooling == ASSUME IInv, NEW t \in Calls, TurnStep(t) PROVE PoolInv'
<1>1. PoolInv /\ turn[t].stream \in BOOLEAN
    BY DEF IInv, TurnInv, TurnState
<1>2. CASE UNCHANGED pool_vars
    BY <1>1, <1>2 DEF pool_vars, PoolInv, Queued, Slotted, Voiced, InCall, CallAt
<1>3. CASE \E stream \in BOOLEAN : Begin(t, stream)
    BY <1>1, <1>3, PoolSteps DEF Begin
<1>4. CASE Proceed(t)
    <2>1. CASE \E same \in BOOLEAN : Continue(t, same)
        BY <1>1, <2>1, PoolSteps DEF Continue
    <2>2. CASE VoiceAnswered(t) \/ VoiceFailed(t)
        BY <1>1, <2>2, PoolSteps DEF VoiceAnswered, VoiceFailed
    <2>. QED
        BY <1>2, <1>4, <2>1, <2>2 DEF Proceed, Drained, JudgeLast, BreakOff, Log, Record, Close,
           Interrupted
<1>5. CASE Emit(t) \/ Voice(t)
    BY <1>1, <1>5, PoolSteps DEF Emit, Voice
<1>6. CASE Fault(t)
    BY <1>2, <1>6 DEF Fault
<1>7. CASE Leave(t)
    BY <1>1, <1>2, <1>7, PoolSteps DEF Leave
<1>. QED
    BY <1>3, <1>4, <1>5, <1>6, <1>7 DEF TurnStep

\* How a turn goes on: to v, with what it may add to the archive.
Moved(t, v) ==
    /\ turn' = [turn EXCEPT ![t] = v] /\ v \in TurnState
    /\ v.pc \in {"log", "record"} =>
          (v.judged = v.pass \/ (turn[t].pc = "log" /\ v.judged = turn[t].judged /\ v.pass = turn[t].pass))
    /\ v.outcome # "none" => v.pc = "done" \/ v.outcome = turn[t].outcome

LEMMA Moving ==
    ASSUME IInv, Ended, NEW t \in Calls, TurnStep(t), ~Emit(t), ~Voice(t)
    PROVE  /\ turn[t].pc # "done"
           /\ \E v \in TurnState : Moved(t, v)
<1>0. turn \in [Calls -> TurnState] /\ turn[t] \in TurnState
    BY DEF IInv, TurnInv
<1>. DEFINE On(pc) == [turn[t] EXCEPT !.pc = pc]
            Out(outcome) == [turn[t] EXCEPT !.pc = "done", !.outcome = outcome]
<1>1. ASSUME NEW pc \in {"await", "judge", "record", "close", "raise"}, Goto(t, pc),
             turn[t].pc # "done", pc = "record" => turn[t].pc = "log"
      PROVE  \E v \in TurnState : Moved(t, v)
    <2>1. On(pc) \in TurnState /\ turn' = [turn EXCEPT ![t] = On(pc)]
        BY <1>0, <1>1 DEF Goto, TurnState
    <2>2. On(pc).judged = turn[t].judged /\ On(pc).pass = turn[t].pass /\ On(pc).pc = pc
          /\ On(pc).outcome = turn[t].outcome
        BY <1>0 DEF TurnState
    <2>. QED
        BY <1>1, <2>1, <2>2 DEF Moved
<1>2. ASSUME NEW outcome \in {"finished", "error", "left"}, Over(t, outcome)
      PROVE  \E v \in TurnState : Moved(t, v)
    <2>1. Out(outcome) \in TurnState /\ turn' = [turn EXCEPT ![t] = Out(outcome)]
        BY <1>0, <1>2 DEF Over, TurnState
    <2>2. Out(outcome).pc = "done"
        BY <1>0 DEF TurnState
    <2>. QED
        BY <2>1, <2>2 DEF Moved
<1>3. ASSUME turn' = [turn EXCEPT ![t].judged = turn[t].pass, ![t].pc = "log"]
      PROVE  \E v \in TurnState : Moved(t, v)
    <2>. DEFINE v == [turn[t] EXCEPT !.judged = turn[t].pass, !.pc = "log"]
    <2>1. turn[t].pass \in 0..MaxToolPasses
        BY <1>0 DEF TurnState
    <2>2. v \in TurnState /\ turn' = [turn EXCEPT ![t] = v]
        BY <1>0, <1>3, <2>1 DEF TurnState
    <2>3. v.judged = v.pass /\ v.outcome = turn[t].outcome
        BY <1>0 DEF TurnState
    <2>. QED
        BY <2>2, <2>3 DEF Moved
<1>4. ASSUME NEW stream \in BOOLEAN, Begin(t, stream)
      PROVE  turn[t].pc # "done" /\ \E v \in TurnState : Moved(t, v)
    <2>. DEFINE v == [turn[t] EXCEPT !.pc = "drain", !.stream = stream]
    <2>1. v \in TurnState /\ turn' = [turn EXCEPT ![t] = v] /\ turn[t].pc = "idle"
        BY <1>0, <1>4 DEF Begin, TurnState, At
    <2>2. v.pc = "drain" /\ v.outcome = turn[t].outcome
        BY <1>0 DEF TurnState
    <2>. QED
        BY <2>1, <2>2 DEF Moved
<1>5. ASSUME NEW same \in BOOLEAN, Continue(t, same)
      PROVE  turn[t].pc # "done" /\ \E v \in TurnState : Moved(t, v)
    <2>. DEFINE n == Repeats(t, same)
                v == [turn[t] EXCEPT !.judged = turn[t].pass, !.pc = "await", !.pass = @ + 1,
                                     !.repeats = n]
    <2>1. n \in 0..MaxRepeats /\ turn[t].pass + 1 \in 1..MaxToolPasses
          /\ turn[t].pass \in 0..MaxToolPasses
        <3>1. turn[t].repeats \in 0..MaxRepeats /\ turn[t].pass \in 1..MaxToolPasses
            BY <1>0 DEF TurnState
        <3>. QED
            BY <1>5, <3>1, TurnAssumption DEF Continue, Repeats
    <2>. HIDE DEF n
    <2>2. v \in TurnState
        BY <1>0, <2>1 DEF TurnState
    <2>3. turn' = [turn EXCEPT ![t] = v] /\ turn[t].pc = "judge"
        BY <1>0, <1>5 DEF Continue, At, n
    <2>4. v.pc = "await" /\ v.outcome = turn[t].outcome
        BY <1>0 DEF TurnState
    <2>. QED
        BY <2>2, <2>3, <2>4 DEF Moved
<1>6. CASE Proceed(t)
    BY <1>1, <1>2, <1>3, <1>5, <1>6 DEF Proceed, Drained, VoiceAnswered, VoiceFailed, JudgeLast,
       BreakOff, Log, Record, Close, Interrupted, At
<1>7. CASE Fault(t)
    BY <1>1, <1>2, <1>7 DEF Fault, At
<1>8. CASE Leave(t)
    BY <1>2, <1>8 DEF Leave, At
<1>. QED
    BY <1>4, <1>6, <1>7, <1>8 DEF TurnStep

\* What a step does to the records.
Recorder(t) ==
    /\ archive' \in [Calls -> SUBSET Entry] /\ silent' \subseteq Calls /\ faults' \in Nat
    /\ spoken' \in [Calls -> SUBSET (1..MaxToolPasses)]
    /\ \A u \in Calls : u # t => /\ archive'[u] = archive[u] /\ spoken'[u] = spoken[u]
                                 /\ u \in silent' <=> u \in silent
    /\ archive[t] \subseteq archive'[t] /\ silent \subseteq silent'
    /\ \A r \in archive'[t] \ archive[t] : r.weighed # 0 => r.passes = {r.weighed}

LEMMA Recording == ASSUME IInv, Judged, NEW t \in Calls, TurnStep(t) PROVE Recorder(t)
<1>0. /\ archive \in [Calls -> SUBSET Entry] /\ silent \subseteq Calls /\ faults \in Nat
      /\ spoken \in [Calls -> SUBSET (1..MaxToolPasses)] /\ turn[t] \in TurnState
    BY DEF IInv, TurnInv
<1>1. CASE UNCHANGED <<archive, silent, faults, spoken>>
    BY <1>0, <1>1 DEF Recorder
\* An entry is added.
<1>2. ASSUME NEW r \in Entry, archive' = [archive EXCEPT ![t] = @ \cup {r}],
             r.weighed # 0 => r.passes = {r.weighed}, UNCHANGED <<silent, faults, spoken>>
      PROVE  Recorder(t)
    BY <1>0, <1>2 DEF Recorder
<1>3. CASE Emit(t)
    <2>1. turn[t].pass \in 1..MaxToolPasses
        BY <1>0 DEF TurnState
    <2>2. /\ spoken' \in [Calls -> SUBSET (1..MaxToolPasses)]
          /\ \A u \in Calls : u # t => spoken'[u] = spoken[u]
        BY <1>0, <1>3, <2>1 DEF Emit
    <2>. QED
        BY <1>0, <1>3, <2>2 DEF Emit, Recorder
<1>4. CASE Record(t)
    <2>. DEFINE r == [passes |-> {turn[t].pass}, weighed |-> turn[t].judged]
    <2>1. turn[t].judged = turn[t].pass /\ turn[t].pass \in 1..MaxToolPasses
          /\ turn[t].judged \in 0..MaxToolPasses
        BY <1>0, <1>4 DEF Record, At, Judged, TurnState
    <2>2. r \in Entry /\ r.passes = {r.weighed}
        BY <2>1 DEF Entry
    <2>3. archive' = [archive EXCEPT ![t] = @ \cup {r}] /\ UNCHANGED <<silent, faults, spoken>>
        BY <1>4 DEF Record
    <2>. HIDE DEF r
    <2>. QED
        BY <1>2, <2>2, <2>3
<1>5. CASE Interrupted(t)
    <2>. DEFINE r == [passes |-> spoken[t], weighed |-> 0]
    <2>1. r \in Entry /\ r.weighed = 0
        BY <1>0, TurnAssumption DEF Entry
    <2>2. CASE spoken[t] = {}
        BY <1>1, <1>5, <2>2 DEF Interrupted
    <2>3. CASE spoken[t] # {}
        <3>1. archive' = [archive EXCEPT ![t] = @ \cup {r}] /\ UNCHANGED <<silent, faults, spoken>>
            BY <1>5, <2>3 DEF Interrupted
        <3>. HIDE DEF r
        <3>. QED
            BY <1>2, <2>1, <3>1
    <2>. QED
        BY <2>2, <2>3
<1>6. CASE Fault(t) \/ Leave(t)
    BY <1>0, <1>6 DEF Fault, Leave, Recorder
<1>. QED
    BY <1>1, <1>3, <1>4, <1>5, <1>6 DEF TurnStep, Begin, Voice, Proceed, Drained, VoiceAnswered,
       VoiceFailed, JudgeLast, Continue, BreakOff, Log, Close

\* Words end in the archive when a turn ends with an error.
LEMMA Keeping ==
    ASSUME IInv, Ended, NEW t \in Calls, TurnStep(t), turn'[t].outcome = "error",
           t \notin silent', turn[t].outcome = "error" => spoken[t] \subseteq Recorded(t)
    PROVE  spoken'[t] \subseteq Recorded(t)'
<1>0. turn \in [Calls -> TurnState] /\ turn[t] \in TurnState /\ archive \in [Calls -> SUBSET Entry]
    BY DEF IInv, TurnInv
<1>1. CASE turn[t].outcome = "error"
    <2>1. turn[t].pc = "done"
        BY <1>1 DEF Ended
    <2>2. Emit(t) \/ Voice(t)
        BY <2>1, Moving
    <2>3. spoken' = spoken /\ archive' = archive
        BY <2>1, <2>2 DEF Emit, Voice, At
    <2>. QED
        BY <1>1, <2>3 DEF Recorded
<1>2. CASE Interrupted(t)
    <2>1. spoken' = spoken /\ (spoken[t] # {} => [passes |-> spoken[t], weighed |-> 0] \in archive'[t])
        BY <1>0, <1>2 DEF Interrupted
    <2>. QED
        BY <2>1 DEF Recorded
<1>3. CASE turn[t].outcome # "error" /\ ~Interrupted(t)
    <2>1. ASSUME NEW outcome \in {"none", "finished", "left"},
                 turn'[t].outcome \in {turn[t].outcome, outcome}
          PROVE  FALSE
        BY <1>3, <2>1
    <2>2. ASSUME NEW pc, Goto(t, pc) PROVE FALSE
        BY <1>0, <1>3, <2>2 DEF Goto, TurnState
    <2>3. ASSUME NEW outcome \in {"finished", "left"}, Over(t, outcome) PROVE FALSE
        BY <1>0, <2>3 DEF Over, TurnState
    <2>4. CASE Emit(t) \/ Voice(t)
        BY <1>3, <2>4 DEF Emit, Voice
    <2>5. CASE \E stream \in BOOLEAN : Begin(t, stream)
        BY <1>0, <1>3, <2>5 DEF Begin, TurnState
    <2>6. CASE Proceed(t)
        <3>1. CASE JudgeLast(t) \/ \E same \in BOOLEAN : Continue(t, same) \/ BreakOff(t, same)
            BY <1>0, <1>3, <3>1 DEF JudgeLast, Continue, BreakOff, TurnState
        <3>. QED
            BY <1>3, <2>2, <2>3, <2>6, <3>1 DEF Proceed, Drained, VoiceAnswered, VoiceFailed, Log,
               Record, Close
    <2>7. CASE Fault(t)
        BY <2>2, <2>7 DEF Fault
    <2>8. CASE Leave(t)
        BY <2>3, <2>8 DEF Leave
    <2>. QED
        BY <2>4, <2>5, <2>6, <2>7, <2>8 DEF TurnStep
<1>. QED
    BY <1>1, <1>2, <1>3

TurnsInv == IInv /\ Judged /\ Ended /\ RecordIsWeighed /\ InterruptedIsKept

LEMMA Stepping == ASSUME TurnsInv, NEW t \in Calls, TurnStep(t) PROVE TurnsInv'
<1>0. IInv /\ Judged /\ Ended /\ RecordIsWeighed /\ InterruptedIsKept /\ TurnInv
    BY DEF TurnsInv, IInv
<1>1. PoolInv' /\ Recorder(t)
    BY <1>0, Pooling, Recording
<1>3. /\ turn' \in [Calls -> TurnState] /\ Judged' /\ Ended'
      /\ \A u \in Calls : u # t => turn'[u] = turn[u]
    <2>1. CASE Emit(t) \/ Voice(t)
        BY <1>0, <2>1 DEF Emit, Voice, TurnInv, Judged, Ended
    <2>2. CASE ~Emit(t) /\ ~Voice(t)
        <3>1. PICK v \in TurnState : Moved(t, v)
            BY <1>0, <2>2, Moving
        <3>2. turn' \in [Calls -> TurnState] /\ turn'[t] = v /\ turn[t].pc # "done"
              /\ \A u \in Calls : u # t => turn'[u] = turn[u]
            BY <1>0, <2>2, <3>1, Moving DEF Moved, TurnInv
        <3>3. v.pc \in {"log", "record"} => v.judged = v.pass
            BY <1>0, <3>1 DEF Moved, Judged
        <3>4. v.outcome # "none" => v.pc = "done"
            BY <1>0, <3>1, <3>2 DEF Moved, Ended
        <3>5. Judged'
            BY <1>0, <3>2, <3>3 DEF Judged
        <3>6. Ended'
            BY <1>0, <3>2, <3>4 DEF Ended
        <3>. QED
            BY <3>2, <3>5, <3>6
    <2>. QED
        BY <2>1, <2>2
<1>4. TurnInv'
    BY <1>1, <1>3 DEF TurnInv, Recorder
<1>5. RecordIsWeighed'
    BY <1>0, <1>1 DEF RecordIsWeighed, Recorder
<1>6. InterruptedIsKept'
    <2>. SUFFICES ASSUME NEW u \in Calls, turn'[u].outcome = "error", u \notin silent'
                  PROVE  spoken'[u] \subseteq Recorded(u)'
        BY DEF InterruptedIsKept
    <2>1. CASE u = t
        <3>1. turn[t].outcome = "error" => spoken[t] \subseteq Recorded(t)
            BY <1>0, <1>1, <2>1 DEF InterruptedIsKept, Recorder
        <3>. QED
            BY <1>0, <2>1, <3>1, Keeping
    <2>2. CASE u # t
        <3>1. turn'[u] = turn[u] /\ archive'[u] = archive[u] /\ spoken'[u] = spoken[u]
              /\ u \notin silent
            BY <1>1, <1>3, <2>2 DEF Recorder
        <3>. QED
            BY <1>0, <3>1 DEF InterruptedIsKept, Recorded
    <2>. QED
        BY <2>1, <2>2
<1>. QED
    BY <1>1, <1>3, <1>4, <1>5, <1>6 DEF TurnsInv, IInv

LEMMA Preserved == TurnsInv /\ [Next]_vars => TurnsInv'
<1>1. ASSUME TurnsInv, UNCHANGED vars PROVE TurnsInv'
    <2>1. PoolInv'
        BY <1>1 DEF vars, pool_vars, TurnsInv, IInv, PoolInv, Queued, Slotted, Voiced, InCall, CallAt
    <2>. QED
        BY <1>1, <2>1 DEF vars, TurnsInv, IInv, TurnInv, Judged, Ended, RecordIsWeighed,
           InterruptedIsKept, Recorded
<1>. QED
    BY <1>1, Stepping DEF Next, TurnStep

\* The invariant the theorems follow from.
THEOREM Invariance == Spec => []TurnsInv
<1>1. Init => TurnsInv
    BY Initial DEF TurnsInv
<1>. QED
    BY <1>1, Preserved, PTL DEF Spec

\* The types: among them, that no turn goes beyond the ceiling of passes.
THEOREM Typed == Spec => []TypeOK
<1>1. ASSUME TurnsInv PROVE TypeOK
    <2>1. free \in 0..Slots
        <3>1. Cardinality(InCall) \in Nat /\ free \in Nat /\ free + Cardinality(InCall) = Slots
            BY <1>1, FS_CardinalityType DEF TurnsInv, IInv, PoolInv, Slotted
        <3>. QED
            BY <3>1, PoolAssumption
    <2>. QED
        BY <1>1, <2>1 DEF TurnsInv, IInv, PoolInv, Queued, TurnInv, TypeOK, PoolTypeOK, CallState,
           TurnState, Entry
<1>. QED
    BY <1>1, Invariance, PTL

\* No slot is lost or given out twice, however calls break off and are cancelled:
\* a slot is free exactly as far as no call holds it, so a call that waits while
\* nobody is answered finds one.
THEOREM NoSlotIsLost ==
    Spec => [](/\ free = Slots - Cardinality(InCall)
               /\ InCall = {} => free > 0)
<1>1. ASSUME TurnsInv
      PROVE  /\ free = Slots - Cardinality(InCall)
             /\ InCall = {} => free > 0
    <2>1. Cardinality(InCall) \in Nat /\ free \in Nat /\ free + Cardinality(InCall) = Slots
        BY <1>1, FS_CardinalityType DEF TurnsInv, IInv, PoolInv, Slotted
    <2>. QED
        BY <2>1, FS_EmptySet, PoolAssumption
<1>. QED
    BY <1>1, Invariance, PTL

\* What a caller hears of one call comes from one provider.
THEOREM SpeaksWithOneVoice == Spec => []OneVoice
<1>1. TurnsInv => OneVoice
    BY DEF TurnsInv, IInv, PoolInv, Voiced, OneVoice
<1>. QED
    BY <1>1, Invariance, PTL

\* Her recorded words are the ones the evaluation they are tied to has weighed.
THEOREM WeighedAsSpoken == Spec => []RecordIsWeighed
<1>1. TurnsInv => RecordIsWeighed
    BY DEF TurnsInv
<1>. QED
    BY <1>1, Invariance, PTL

\* A turn that fails keeps what it has spoken, unless the archive itself cannot be
\* written.
THEOREM NothingSpokenIsLost == Spec => []InterruptedIsKept
<1>1. TurnsInv => InterruptedIsKept
    BY DEF TurnsInv
<1>. QED
    BY <1>1, Invariance, PTL

------------------------------------------------------------------------------
(***************************************************************************)
(* Progress.  EveryTurnEnds is checked on a small instance; what it rests  *)
(* on is proved: a turn has only so many steps in it, each is spent by the *)
(* turn that takes it and by no other (EveryStepIsSpent), and until it is  *)
(* over there is one that can be taken (NobodyWaitsForNothing).            *)
(***************************************************************************)

\* The most steps a call goes through until it has an outcome and is collected.
VoiceLeft(c) ==
    CASE c.pc = "none" -> 0
      [] c.pc \in {"answered", "failed"} -> 1
      [] c.pc = "calling" -> 2 * (Providers - c.provider) + (IF c.heard = {} THEN 3 ELSE 2)
      [] OTHER -> 2 * Providers + 2

\* And a pass of the turn, beside its call.
StepsFrom(pc) ==
    CASE pc = "idle" -> 2 * Providers + 10 [] pc = "drain" -> 7 [] pc = "await" -> 6
      [] pc = "judge" -> 5 [] pc = "log" -> 4 [] pc = "record" -> 3 [] pc = "close" -> 2
      [] pc = "raise" -> 1 [] OTHER -> 0

Left(t) == StepsFrom(turn[t].pc) + VoiceLeft(call[t])

Spends(t) ==
    /\ \/ turn'[t].pass = turn[t].pass + 1
       \/ turn'[t].pass = turn[t].pass /\ Left(t)' < Left(t)
    /\ \A u \in Calls \ {t} : turn'[u].pass = turn[u].pass /\ Left(u)' = Left(u)

InQueue(t) == \E i \in 1..Len(queue) : queue[i] = t

\* A call is out exactly while its turn drains or awaits, or is over.
Paced(t) ==
    /\ turn[t].pc \in {"drain", "await"} => call[t].pc # "none"
    /\ turn[t].pc \in {"idle", "judge", "log", "record", "close", "raise"} => call[t].pc = "none"
    /\ call[t].pc = "waiting" => InQueue(t)

LEMMA StepsLeft ==
    /\ StepsFrom("idle") = 2 * Providers + 10 /\ StepsFrom("drain") = 7 /\ StepsFrom("await") = 6
    /\ StepsFrom("judge") = 5 /\ StepsFrom("log") = 4 /\ StepsFrom("record") = 3
    /\ StepsFrom("close") = 2 /\ StepsFrom("raise") = 1 /\ StepsFrom("done") = 0
    BY DEF StepsFrom

LEMMA VoicesLeft ==
    ASSUME NEW c \in CallState
    PROVE  /\ VoiceLeft(c) \in 0..(2 * Providers + 2)
           /\ c.pc = "none" => VoiceLeft(c) = 0
           /\ c.pc \in {"answered", "failed"} => VoiceLeft(c) = 1
           /\ c.pc = "calling" => VoiceLeft(c) =
                 2 * (Providers - c.provider) + (IF c.heard = {} THEN 3 ELSE 2)
           /\ c.pc = "calling" => VoiceLeft(c) \in 2..(2 * Providers + 1)
           /\ c.pc = "waiting" => VoiceLeft(c) = 2 * Providers + 2
<1>1. /\ c.provider \in 1..Providers /\ Providers \in Nat
      /\ c.pc \in {"none", "waiting", "calling", "answered", "failed"}
    BY PoolAssumption DEF CallState
<1>2. Providers - c.provider \in 0..(Providers - 1)
    BY <1>1
<1>. DEFINE said == IF c.heard = {} THEN 3 ELSE 2
<1>3. said \in 2..3
    OBVIOUS
<1>4. c.pc = "calling" => VoiceLeft(c) = 2 * (Providers - c.provider) + said
    BY DEF VoiceLeft
<1>5. c.pc # "calling" => VoiceLeft(c) = IF c.pc = "none" THEN 0
                            ELSE IF c.pc \in {"answered", "failed"} THEN 1
                            ELSE 2 * Providers + 2
    BY DEF VoiceLeft
<1>. HIDE DEF said
<1>6. c.pc = "calling" => VoiceLeft(c) \in 2..(2 * Providers + 1)
    BY <1>1, <1>2, <1>3, <1>4
<1>. QED
    BY <1>1, <1>4, <1>5, <1>6 DEF said

\* The place of another in the queue is kept, whatever t does with its call.
LEMMA PlaceKept ==
    ASSUME PoolInv, NEW t \in Calls, NEW u \in Calls, u # t, InQueue(u),
           \/ \E stream \in BOOLEAN : Ask(t, stream)
           \/ Grant(t) \/ Cancel(t) \/ queue' = queue
    PROVE  InQueue(u)'
<1>0. queue \in Seq(Calls) /\ Len(queue) \in Nat
    BY DEF PoolInv, Queued
<1>1. PICK i \in 1..Len(queue) : queue[i] = u
    BY DEF InQueue
<1>2. CASE \E stream \in BOOLEAN : Ask(t, stream)
    <2>1. queue' = Append(queue, t)
        BY <1>2 DEF Ask
    <2>2. i \in 1..Len(queue') /\ queue'[i] = u
        BY <1>0, <1>1, <2>1
    <2>. QED
        BY <2>2 DEF InQueue
\* One that is taken out at place n.
<1>3. ASSUME NEW n \in 1..Len(queue), queue[n] = t, Len(queue') = Len(queue) - 1,
             \A j \in 1..Len(queue') : queue'[j] = IF j < n THEN queue[j] ELSE queue[j + 1]
      PROVE  InQueue(u)'
    <2>1. i # n
        BY <1>1, <1>3
    <2>2. CASE i < n
        <3>1. i \in 1..Len(queue') /\ queue'[i] = u
            BY <1>0, <1>1, <1>3, <2>2
        <3>. QED
            BY <3>1 DEF InQueue
    <2>3. CASE ~(i < n)
        <3>1. i - 1 \in 1..Len(queue') /\ ~(i - 1 < n) /\ (i - 1) + 1 = i
            BY <1>0, <1>3, <2>1, <2>3
        <3>2. queue'[i - 1] = u
            BY <1>1, <1>3, <3>1
        <3>. QED
            BY <3>1, <3>2 DEF InQueue
    <2>. QED
        BY <2>2, <2>3
<1>4. CASE Grant(t)
    <2>1. queue # <<>> /\ Head(queue) = t /\ queue' = Tail(queue)
        BY <1>4 DEF Grant
    <2>2. 1 \in 1..Len(queue) /\ queue[1] = t /\ Len(queue') = Len(queue) - 1
          /\ \A j \in 1..Len(queue') : queue'[j] = queue[j + 1] /\ ~(j < 1)
        BY <1>0, <2>1
    <2>. QED
        BY <1>3, <2>2
<1>5. CASE Cancel(t)
    <2>1. CASE t \in Range(queue)
        <3>1. \E j \in DOMAIN queue : queue[j] = t
            BY <2>1 DEF Range
        <3>2. Place(t) \in 1..Len(queue) /\ queue[Place(t)] = t
            BY <1>0, <3>1 DEF Place
        <3>3. queue' = RemoveAt(queue, Place(t))
            BY <1>5, <2>1 DEF Cancel
        <3>. QED
            BY <1>0, <1>3, <3>2, <3>3, Removing
    <2>2. CASE t \notin Range(queue)
        BY <1>1, <1>5, <2>2 DEF Cancel, InQueue
    <2>. QED
        BY <2>1, <2>2
<1>6. CASE queue' = queue
    BY <1>1, <1>6 DEF InQueue
<1>. QED
    BY <1>2, <1>4, <1>5, <1>6

\* A provider's step brings the call closer to its outcome.
LEMMA Voicing ==
    ASSUME PoolInv, NEW t \in Calls, Grant(t) \/ Answers(t) \/ Breaks(t) \/ Speaks(t)
    PROVE  /\ call' \in [Calls -> CallState]
           /\ \A u \in Calls : u # t => call'[u] = call[u]
           /\ call[t].pc # "none" /\ call'[t].pc \in {"calling", "answered", "failed"}
           /\ VoiceLeft(call'[t]) < VoiceLeft(call[t])
<1>0. /\ call \in [Calls -> CallState] /\ call[t] \in CallState /\ Providers \in Nat
      /\ call[t].heard \subseteq {call[t].provider}
    BY PoolAssumption DEF PoolInv, Voiced
<1>1. call' \in [Calls -> CallState] /\ call'[t] \in CallState
    <2>1. PoolInv'
        BY PoolSteps
    <2>. QED
        BY <2>1 DEF PoolInv
<1>2. ASSUME NEW c, call' = [call EXCEPT ![t] = c], call[t].pc # "none",
             c.pc \in {"calling", "answered", "failed"}, VoiceLeft(c) < VoiceLeft(call[t])
      PROVE  /\ \A u \in Calls : u # t => call'[u] = call[u]
             /\ call[t].pc # "none" /\ call'[t].pc \in {"calling", "answered", "failed"}
             /\ VoiceLeft(call'[t]) < VoiceLeft(call[t])
    BY <1>0, <1>2
<1>3. CASE Grant(t)
    <2>. DEFINE c == [call[t] EXCEPT !.pc = "calling"]
    <2>1. call' = [call EXCEPT ![t] = c] /\ c \in CallState /\ c.pc = "calling"
        BY <1>0, <1>3 DEF Grant, CallState
    <2>2. call[t].pc = "waiting"
        <3>1. queue \in Seq(Calls) /\ queue # <<>> /\ Head(queue) = t
            BY <1>3 DEF Grant, PoolInv, Queued
        <3>2. 1 \in 1..Len(queue) /\ queue[1] = t
            BY <3>1
        <3>. QED
            BY <3>2 DEF PoolInv, Queued, CallAt
    <2>. HIDE DEF c
    <2>3. VoiceLeft(c) < VoiceLeft(call[t])
        <3>1. VoiceLeft(c) \in 2..(2 * Providers + 1)
            BY <2>1, VoicesLeft
        <3>2. VoiceLeft(call[t]) = 2 * Providers + 2
            BY <1>0, <2>2, VoicesLeft
        <3>. QED
            BY <1>0, <3>1, <3>2
    <2>. QED
        BY <1>1, <1>2, <2>1, <2>2, <2>3
<1>4. ASSUME NEW pc \in {"answered", "failed"}, CallAt(t, "calling"), EndCall(t, pc)
      PROVE  /\ \A u \in Calls : u # t => call'[u] = call[u]
             /\ call[t].pc # "none" /\ call'[t].pc \in {"calling", "answered", "failed"}
             /\ VoiceLeft(call'[t]) < VoiceLeft(call[t])
    <2>. DEFINE c == [call[t] EXCEPT !.pc = pc]
    <2>1. call' = [call EXCEPT ![t] = c] /\ c \in CallState /\ c.pc = pc /\ call[t].pc = "calling"
        BY <1>0, <1>4 DEF EndCall, CallState, CallAt
    <2>. HIDE DEF c
    <2>2. VoiceLeft(c) = 1 /\ VoiceLeft(call[t]) \in 2..(2 * Providers + 1)
        BY <1>0, <2>1, VoicesLeft
    <2>3. VoiceLeft(c) < VoiceLeft(call[t])
        BY <1>0, <2>2
    <2>. QED
        BY <1>2, <2>1, <2>3
<1>5. CASE Answers(t)
    BY <1>1, <1>4, <1>5 DEF Answers
<1>6. CASE Speaks(t)
    <2>. DEFINE c == [call[t] EXCEPT !.heard = @ \cup {call[t].provider}]
    <2>1. /\ call' = [call EXCEPT ![t] = c] /\ c \in CallState /\ c.pc = "calling"
          /\ call[t].pc = "calling" /\ c.provider = call[t].provider /\ c.heard # {}
        BY <1>0, <1>6 DEF Speaks, CallState, CallAt
    <2>2. call[t].heard = {}
        BY <1>0, <1>6 DEF Speaks
    <2>. HIDE DEF c
    <2>3. VoiceLeft(c) < VoiceLeft(call[t])
        <3>. DEFINE k == Providers - call[t].provider
        <3>1. k \in Int
            BY <1>0 DEF CallState
        <3>2. VoiceLeft(c) = 2 * k + 2 /\ VoiceLeft(call[t]) = 2 * k + 3
            BY <1>0, <2>1, <2>2, VoicesLeft
        <3>. HIDE DEF k
        <3>. QED
            BY <3>1, <3>2
    <2>. QED
        BY <1>1, <1>2, <2>1, <2>3
\* The next of the chain is tried only while nothing was heard.
<1>7. CASE Breaks(t)
    <2>1. CASE call[t].heard = {} /\ call[t].provider < Providers
        <3>. DEFINE c == [call[t] EXCEPT !.provider = @ + 1]
        <3>1. call[t].provider \in 1..Providers /\ call[t].provider + 1 \in 1..Providers
            BY <1>0, <2>1 DEF CallState
        <3>2. /\ call' = [call EXCEPT ![t] = c] /\ c \in CallState /\ c.pc = "calling"
              /\ call[t].pc = "calling" /\ c.provider = call[t].provider + 1 /\ c.heard = {}
            BY <1>0, <1>7, <2>1, <3>1 DEF Breaks, TryNext, CallState, CallAt
        <3>. HIDE DEF c
        <3>3. VoiceLeft(c) < VoiceLeft(call[t])
            <4>. DEFINE k == Providers - call[t].provider
            <4>1. k \in Int /\ Providers - c.provider = k - 1
                BY <1>0, <3>1, <3>2
            <4>2. VoiceLeft(c) = 2 * (k - 1) + 3 /\ VoiceLeft(call[t]) = 2 * k + 3
                BY <1>0, <2>1, <3>2, <4>1, VoicesLeft
            <4>. HIDE DEF k
            <4>. QED
                BY <4>1, <4>2
        <3>. QED
            BY <1>1, <1>2, <3>2, <3>3
    <2>2. CASE ~(call[t].heard = {} /\ call[t].provider < Providers)
        <3>1. CallAt(t, "calling") /\ EndCall(t, "failed")
            BY <1>7, <2>2 DEF Breaks, TryNext
        <3>. QED
            BY <1>1, <1>4, <3>1
    <2>. QED
        BY <2>1, <2>2
<1>. QED
    BY <1>3, <1>5, <1>6, <1>7

Asks(t) == \E stream \in BOOLEAN : Ask(t, stream)

\* What becomes of the caller's own call.
LEMMA OwnCall ==
    ASSUME PoolInv, NEW t \in Calls, Asks(t) \/ Collect(t) \/ Cancel(t)
    PROVE  /\ \A u \in Calls : u # t => call'[u] = call[u]
           /\ Asks(t) => call[t].pc = "none" /\ call'[t].pc = "waiting" /\ InQueue(t)'
           /\ Collect(t) \/ Cancel(t) => call'[t].pc = "none"
<1>0. call \in [Calls -> CallState] /\ queue \in Seq(Calls)
    BY DEF PoolInv, Queued
<1>1. ASSUME NEW stream \in BOOLEAN, Ask(t, stream)
      PROVE  /\ \A u \in Calls : u # t => call'[u] = call[u]
             /\ call[t].pc = "none" /\ call'[t].pc = "waiting" /\ InQueue(t)'
    <2>1. /\ \A u \in Calls : u # t => call'[u] = call[u]
          /\ call[t].pc = "none" /\ call'[t].pc = "waiting" /\ queue' = Append(queue, t)
        BY <1>0, <1>1 DEF Ask, NoCall, CallAt
    <2>2. Len(queue) + 1 \in 1..Len(queue') /\ queue'[Len(queue) + 1] = t
        BY <1>0, <2>1
    <2>. QED
        BY <2>1, <2>2 DEF InQueue
<1>2. ASSUME Collect(t) \/ Cancel(t)
      PROVE  call'[t].pc = "none" /\ \A u \in Calls : u # t => call'[u] = call[u]
    BY <1>0, <1>2 DEF Collect, Cancel, NoCall
<1>. QED
    BY <1>1, <1>2 DEF Asks

\* The ways a turn goes on, by what they do with its call: each lowers what is
\* left of the pass, or begins the next one.
Moves(t, from, to) ==
    turn[t].pc \in from /\ turn'[t].pc \in to /\ turn'[t].pass = turn[t].pass

Alone(t) ==
    /\ \/ Moves(t, {"drain"}, {"await"}) \/ Moves(t, {"judge"}, {"log", "raise"})
       \/ Moves(t, {"log"}, {"record", "raise"}) \/ Moves(t, {"record"}, {"close"})
       \/ Moves(t, {"close"}, {"raise", "done"}) \/ Moves(t, {"raise"}, {"done"})
    /\ UNCHANGED pool_vars

NextPass(t) ==
    /\ turn[t].pc = "judge" /\ turn'[t].pc = "await" /\ turn'[t].pass = turn[t].pass + 1
    /\ Asks(t)

Gone(t) ==
    /\ Moves(t, {"drain", "await", "judge", "log", "record", "close", "raise"}, {"done"})
    /\ IF turn[t].pc = "await" THEN Cancel(t) ELSE UNCHANGED pool_vars

Provided(t) == turn' = turn /\ (Grant(t) \/ Answers(t) \/ Breaks(t) \/ Speaks(t))

LEMMA Going ==
    ASSUME IInv, NEW t \in Calls, TurnStep(t)
    PROVE  \/ Moves(t, {"idle"}, {"drain"}) /\ Asks(t)
           \/ Moves(t, {"await"}, {"judge", "raise"}) /\ Collect(t)
           \/ Alone(t) \/ NextPass(t) \/ Gone(t) \/ Provided(t)
<1>0. turn \in [Calls -> TurnState] /\ turn[t].stream \in BOOLEAN
    BY DEF IInv, TurnInv, TurnState
<1>1. ASSUME \E stream \in BOOLEAN : Begin(t, stream)
      PROVE  Moves(t, {"idle"}, {"drain"}) /\ Asks(t)
    BY <1>0, <1>1 DEF Begin, Asks, At, Moves
<1>2. ASSUME NEW from, NEW to, At(t, from), Goto(t, to) \/ \E o : to = "done" /\ Over(t, o)
      PROVE  turn[t].pc = from /\ turn'[t].pc = to /\ turn'[t].pass = turn[t].pass
    BY <1>0, <1>2 DEF At, Goto, Over, TurnState
<1>3. ASSUME VoiceAnswered(t) \/ VoiceFailed(t)
      PROVE  Moves(t, {"await"}, {"judge", "raise"}) /\ Collect(t)
    BY <1>2, <1>3 DEF VoiceAnswered, VoiceFailed, Moves
<1>4. ASSUME NEW same \in BOOLEAN, Continue(t, same) PROVE NextPass(t)
    <2>1. turn[t].pc = "judge" /\ turn'[t].pc = "await" /\ turn'[t].pass = turn[t].pass + 1
        BY <1>0, <1>4 DEF Continue, At, TurnState
    <2>2. Asks(t)
        BY <1>0, <1>4 DEF Continue, Asks
    <2>. QED
        BY <2>1, <2>2 DEF NextPass
<1>5. ASSUME JudgeLast(t) \/ \E same \in BOOLEAN : BreakOff(t, same) PROVE Alone(t)
    <2>1. turn[t].pc = "judge" /\ UNCHANGED pool_vars
          /\ turn' = [turn EXCEPT ![t].judged = turn[t].pass, ![t].pc = "log"]
        BY <1>5 DEF JudgeLast, BreakOff, At
    <2>2. turn'[t].pc = "log" /\ turn'[t].pass = turn[t].pass
        BY <1>0, <2>1 DEF TurnState
    <2>. QED
        BY <2>1, <2>2 DEF Alone, Moves
<1>6. ASSUME Drained(t) \/ Log(t) \/ Record(t) \/ Close(t) \/ Interrupted(t) PROVE Alone(t)
    <2>1. CASE Drained(t)
        BY <1>2, <2>1 DEF Drained, Alone, Moves
    <2>2. CASE Log(t)
        BY <1>2, <2>2 DEF Log, Alone, Moves
    <2>3. CASE Record(t)
        BY <1>2, <2>3 DEF Record, Alone, Moves
    <2>4. CASE Close(t)
        BY <1>2, <2>4 DEF Close, Alone, Moves
    <2>5. CASE Interrupted(t)
        BY <1>2, <2>5 DEF Interrupted, Alone, Moves
    <2>. QED
        BY <1>6, <2>1, <2>2, <2>3, <2>4, <2>5
<1>7. ASSUME Emit(t) \/ Voice(t) PROVE Provided(t)
    BY <1>7 DEF Emit, Voice, Provided
<1>8. ASSUME Fault(t) PROVE Alone(t)
    <2>1. UNCHANGED pool_vars
        BY <1>8 DEF Fault
    <2>2. CASE turn[t].pc \in {"judge", "log", "close"} /\ Goto(t, "raise")
        BY <1>2, <2>1, <2>2 DEF Alone, Moves, At
    <2>3. CASE At(t, "record") /\ Goto(t, "close")
        BY <1>2, <2>1, <2>3 DEF Alone, Moves
    <2>4. CASE At(t, "raise") /\ Over(t, "error")
        BY <1>2, <2>1, <2>4 DEF Alone, Moves
    <2>. QED
        BY <1>8, <2>2, <2>3, <2>4 DEF Fault
<1>9. ASSUME Leave(t) PROVE Gone(t)
    <2>1. turn[t].pc \in {"drain", "await", "judge", "log", "record", "close", "raise"}
        BY <1>0, <1>9 DEF Leave, At, TurnState
    <2>2. turn'[t].pc = "done" /\ turn'[t].pass = turn[t].pass
        BY <1>0, <1>9 DEF Leave, Over, TurnState
    <2>3. IF turn[t].pc = "await" THEN Cancel(t) ELSE UNCHANGED pool_vars
        BY <1>9 DEF Leave, At
    <2>. QED
        BY <2>1, <2>2, <2>3 DEF Gone, Moves
<1>. QED
    BY <1>1, <1>3, <1>4, <1>5, <1>6, <1>7, <1>8, <1>9 DEF TurnStep, Proceed

PacedAll == \A t \in Calls : Paced(t)

LEMMA Spending ==
    ASSUME TurnsInv, PacedAll, NEW t \in Calls, TurnStep(t)
    PROVE  Spends(t) /\ PacedAll'
<1>0. /\ IInv /\ PoolInv /\ Paced(t) /\ Providers \in Nat
      /\ turn \in [Calls -> TurnState] /\ turn' \in [Calls -> TurnState]
      /\ call \in [Calls -> CallState] /\ call' \in [Calls -> CallState]
    <2>1. TurnsInv'
        BY Stepping
    <2>. QED
        BY <2>1, PoolAssumption DEF TurnsInv, IInv, PoolInv, TurnInv, PacedAll
<1>1. /\ VoiceLeft(call[t]) \in 0..(2 * Providers + 2) /\ VoiceLeft(call'[t]) \in 0..(2 * Providers + 2)
      /\ call[t].pc = "none" => VoiceLeft(call[t]) = 0
      /\ call'[t].pc = "none" => VoiceLeft(call'[t]) = 0
      /\ call'[t].pc = "waiting" => VoiceLeft(call'[t]) = 2 * Providers + 2
    BY <1>0, VoicesLeft
<1>2. Left(t)' = StepsFrom(turn'[t].pc) + VoiceLeft(call'[t])
    BY DEF Left, StepsFrom, VoiceLeft
<1>3. \A u \in Calls : u # t => turn'[u] = turn[u]
    <2>1. CASE Emit(t) \/ Voice(t)
        BY <2>1 DEF Emit, Voice
    <2>2. CASE ~Emit(t) /\ ~Voice(t)
        BY <1>0, <2>2, Moving DEF Moved, TurnsInv
    <2>. QED
        BY <2>1, <2>2
\* The others are left where they were.
<1>4. ASSUME \A u \in Calls : u # t => call'[u] = call[u],
             \A u \in Calls : u # t /\ InQueue(u) => InQueue(u)'
      PROVE  \A u \in Calls \ {t} : turn'[u].pass = turn[u].pass /\ Left(u)' = Left(u) /\ Paced(u)'
    <2>. SUFFICES ASSUME NEW u \in Calls, u # t
                  PROVE  turn'[u].pass = turn[u].pass /\ Left(u)' = Left(u) /\ Paced(u)'
        OBVIOUS
    <2>1. turn'[u] = turn[u] /\ call'[u] = call[u] /\ (InQueue(u) => InQueue(u)') /\ Paced(u)
        BY <1>3, <1>4 DEF PacedAll
    <2>. QED
        BY <2>1 DEF Left, StepsFrom, VoiceLeft, Paced
<1>5. ASSUME \A u \in Calls : u # t => call'[u] = call[u],
             \A u \in Calls : u # t /\ InQueue(u) => InQueue(u)',
             \/ turn'[t].pass = turn[t].pass + 1
             \/ turn'[t].pass = turn[t].pass /\ Left(t)' < Left(t),
             Paced(t)'
      PROVE  Spends(t) /\ PacedAll'
    BY <1>4, <1>5 DEF Spends, PacedAll
<1>6. CASE Moves(t, {"idle"}, {"drain"}) /\ Asks(t)
    <2>1. /\ turn[t].pc = "idle" /\ turn'[t].pc = "drain" /\ turn'[t].pass = turn[t].pass
          /\ call[t].pc = "none" /\ call'[t].pc = "waiting" /\ InQueue(t)'
          /\ \A u \in Calls : u # t => call'[u] = call[u]
        BY <1>0, <1>6, OwnCall DEF Moves
    <2>2. Paced(t)'
        BY <2>1 DEF Paced
    <2>3. Left(t)' < Left(t)
        BY <1>0, <1>1, <1>2, <2>1, StepsLeft DEF Left
    <2>4. \A u \in Calls : u # t /\ InQueue(u) => InQueue(u)'
        BY <1>0, <1>6, PlaceKept DEF Asks
    <2>. QED
        BY <1>5, <2>1, <2>2, <2>3, <2>4
<1>7. CASE NextPass(t)
    <2>1. /\ turn'[t].pc = "await" /\ turn'[t].pass = turn[t].pass + 1
          /\ call'[t].pc = "waiting" /\ InQueue(t)'
          /\ \A u \in Calls : u # t => call'[u] = call[u]
        BY <1>0, <1>7, OwnCall DEF NextPass
    <2>2. Paced(t)'
        BY <2>1 DEF Paced
    <2>3. \A u \in Calls : u # t /\ InQueue(u) => InQueue(u)'
        BY <1>0, <1>7, PlaceKept DEF Asks, NextPass
    <2>. QED
        BY <1>5, <2>1, <2>2, <2>3
<1>8. CASE Moves(t, {"await"}, {"judge", "raise"}) /\ Collect(t)
    <2>1. /\ turn[t].pc = "await" /\ turn'[t].pc \in {"judge", "raise"} /\ turn'[t].pass = turn[t].pass
          /\ call'[t].pc = "none" /\ queue' = queue
          /\ \A u \in Calls : u # t => call'[u] = call[u]
        BY <1>0, <1>8, OwnCall DEF Moves, Collect
    <2>2. Paced(t)'
        BY <2>1 DEF Paced
    <2>3. Left(t)' < Left(t)
        <3>1. StepsFrom(turn[t].pc) = 6 /\ StepsFrom(turn'[t].pc) \in 1..5
            BY <2>1, StepsLeft
        <3>. QED
            BY <1>0, <1>1, <1>2, <2>1, <3>1 DEF Left
    <2>4. \A u \in Calls : u # t /\ InQueue(u) => InQueue(u)'
        BY <1>0, <2>1, PlaceKept
    <2>. QED
        BY <1>5, <2>1, <2>2, <2>3, <2>4
<1>9. CASE Alone(t)
    <2>1. call' = call /\ queue' = queue
        BY <1>9 DEF Alone, pool_vars
    <2>2. /\ turn'[t].pass = turn[t].pass
          /\ StepsFrom(turn'[t].pc) \in Nat /\ StepsFrom(turn[t].pc) \in Nat
          /\ StepsFrom(turn'[t].pc) < StepsFrom(turn[t].pc)
        BY <1>9, StepsLeft DEF Alone, Moves
    <2>3. Left(t)' < Left(t)
        BY <1>0, <1>1, <1>2, <2>1, <2>2 DEF Left
    <2>4. Paced(t)'
        BY <1>0, <1>9, <2>1 DEF Alone, Moves, Paced, InQueue
    <2>5. \A u \in Calls : u # t /\ InQueue(u) => InQueue(u)'
        BY <2>1 DEF InQueue
    <2>. QED
        BY <1>5, <2>1, <2>2, <2>3, <2>4, <2>5
<1>10. CASE Gone(t)
    <2>1. /\ turn[t].pc \in {"drain", "await", "judge", "log", "record", "close", "raise"}
          /\ turn'[t].pc = "done" /\ turn'[t].pass = turn[t].pass
          /\ StepsFrom(turn[t].pc) \in 1..7 /\ StepsFrom(turn'[t].pc) = 0
        BY <1>10, StepsLeft DEF Gone, Moves
    <2>2. CASE turn[t].pc = "await"
        <3>1. Cancel(t) /\ call'[t].pc = "none" /\ \A u \in Calls : u # t => call'[u] = call[u]
            BY <1>0, <1>10, <2>2, OwnCall DEF Gone
        <3>2. Paced(t)'
            BY <2>1, <3>1 DEF Paced
        <3>3. Left(t)' < Left(t)
            BY <1>0, <1>1, <1>2, <2>1, <3>1 DEF Left
        <3>4. \A u \in Calls : u # t /\ InQueue(u) => InQueue(u)'
            BY <1>0, <3>1, PlaceKept
        <3>. QED
            BY <1>5, <2>1, <3>1, <3>2, <3>3, <3>4
    <2>3. CASE turn[t].pc # "await"
        <3>1. call' = call /\ queue' = queue
            BY <1>10, <2>3 DEF Gone, pool_vars
        <3>2. Paced(t)'
            BY <1>0, <2>1, <3>1 DEF Paced, InQueue
        <3>3. Left(t)' < Left(t)
            BY <1>0, <1>1, <1>2, <2>1, <3>1 DEF Left
        <3>4. \A u \in Calls : u # t /\ InQueue(u) => InQueue(u)'
            BY <3>1 DEF InQueue
        <3>. QED
            BY <1>5, <2>1, <3>1, <3>2, <3>3, <3>4
    <2>. QED
        BY <2>2, <2>3
<1>11. CASE Provided(t)
    <2>1. /\ turn' = turn /\ call[t].pc # "none" /\ call'[t].pc \in {"calling", "answered", "failed"}
          /\ VoiceLeft(call'[t]) < VoiceLeft(call[t])
          /\ \A u \in Calls : u # t => call'[u] = call[u]
        BY <1>0, <1>11, Voicing DEF Provided
    <2>2. Paced(t)'
        BY <1>0, <2>1 DEF Paced
    <2>3. Left(t)' < Left(t)
        <3>1. StepsFrom(turn[t].pc) \in Nat
            BY <1>0, StepsLeft DEF TurnState
        <3>. QED
            BY <1>0, <1>1, <1>2, <2>1, <3>1 DEF Left
    <2>4. Grant(t) \/ queue' = queue
        BY <1>11 DEF Provided, Answers, Breaks, Speaks, EndCall, TryNext
    <2>5. \A u \in Calls : u # t /\ InQueue(u) => InQueue(u)'
        BY <1>0, <2>4, PlaceKept
    <2>. QED
        BY <1>5, <2>1, <2>2, <2>3, <2>5
<1>. QED
    BY <1>0, <1>6, <1>7, <1>8, <1>9, <1>10, <1>11, Going

LEMMA Pacing == Spec => [](TurnsInv /\ PacedAll)
<1>1. Init => TurnsInv /\ PacedAll
    BY Initial DEF TurnsInv, Init, PoolInit, NoCall, PacedAll, Paced
<1>2. TurnsInv /\ PacedAll /\ [Next]_vars => (TurnsInv /\ PacedAll)'
    <2>. SUFFICES ASSUME TurnsInv, PacedAll, [Next]_vars PROVE (TurnsInv /\ PacedAll)'
        OBVIOUS
    <2>1. ASSUME UNCHANGED vars PROVE PacedAll'
        BY <2>1 DEF vars, pool_vars, PacedAll, Paced, InQueue
    <2>2. ASSUME Next PROVE PacedAll'
        BY <2>2, Spending DEF Next, TurnStep
    <2>. QED
        BY <2>1, <2>2, Preserved
<1>. QED
    BY <1>1, <1>2, PTL DEF Spec

StepsBounded ==
    \A t \in Calls : turn[t].pass \in 1..MaxToolPasses /\ Left(t) \in 0..(2 * Providers + 10)

\* No turn can go round for ever, and none can keep another from going on: every
\* step there is (a provider's, a failure and a leaving client among them) is one
\* of a turn's, of which it has at most 2 * Providers + 10 in a pass and
\* MaxToolPasses passes, and leaves the others as many as they had.
THEOREM EveryStepIsSpent ==
    Spec => /\ []StepsBounded
            /\ [][\E t \in Calls : Spends(t)]_vars
<1>1. ASSUME TurnsInv, PacedAll, NEW t \in Calls
      PROVE  turn[t].pass \in 1..MaxToolPasses /\ Left(t) \in 0..(2 * Providers + 10)
    <2>1. turn[t] \in TurnState /\ call[t] \in CallState /\ Providers \in Nat /\ Paced(t)
        BY <1>1, PoolAssumption DEF TurnsInv, IInv, TurnInv, PoolInv, PacedAll
    <2>2. VoiceLeft(call[t]) \in 0..(2 * Providers + 2)
          /\ (call[t].pc = "none" => VoiceLeft(call[t]) = 0)
        BY <2>1, VoicesLeft
    <2>3. CASE turn[t].pc = "idle"
        <3>1. StepsFrom(turn[t].pc) = 2 * Providers + 10 /\ VoiceLeft(call[t]) = 0
            BY <2>1, <2>2, <2>3, StepsLeft DEF Paced
        <3>. QED
            BY <2>1, <3>1 DEF Left, TurnState
    <2>4. CASE turn[t].pc # "idle"
        <3>1. StepsFrom(turn[t].pc) \in 0..7
            BY <2>1, <2>4, StepsLeft DEF TurnState
        <3>. QED
            BY <2>1, <2>2, <3>1 DEF Left, TurnState
    <2>. QED
        BY <2>3, <2>4
<1>2. TurnsInv /\ PacedAll => StepsBounded
    BY <1>1 DEF StepsBounded
<1>3. TurnsInv /\ PacedAll /\ [Next]_vars => [\E t \in Calls : Spends(t)]_vars
    BY Spending DEF Next, TurnStep
<1>. QED
    BY <1>2, <1>3, Pacing, PTL DEF Spec

\* What a turn can do next, or what is being done that it waits for.
CanGoOn(t) ==
    \/ turn[t].pc \in {"drain", "judge", "log", "record", "close", "raise"}
    \/ At(t, "await") /\ (CallAt(t, "answered") \/ CallAt(t, "failed"))
    \/ CallAt(t, "calling")
    \/ InQueue(t) /\ (free > 0 \/ \E c \in Calls : CallAt(c, "calling"))

\* The turns never all wait for one another: one that has begun can go on, or its
\* words have come, or a provider is at them, or it stands in the queue while a
\* slot is free for the first in it or a provider, who will give one back, is at
\* the words of another.
THEOREM NobodyWaitsForNothing ==
    Spec => [](\A t \in Calls : ~At(t, "idle") /\ ~At(t, "done") => CanGoOn(t))
<1>1. ASSUME TurnsInv, PacedAll, NEW t \in Calls, ~At(t, "idle"), ~At(t, "done")
      PROVE  CanGoOn(t)
    <2>1. turn[t] \in TurnState /\ call[t] \in CallState /\ Paced(t) /\ PoolInv
        BY <1>1 DEF TurnsInv, IInv, TurnInv, PoolInv, PacedAll
    <2>2. free > 0 \/ \E c \in Calls : CallAt(c, "calling")
        <3>1. Cardinality(InCall) \in Nat /\ free \in Nat /\ free + Cardinality(InCall) = Slots
            BY <2>1, FS_CardinalityType DEF PoolInv, Slotted
        <3>2. CASE InCall = {}
            BY <3>1, <3>2, FS_EmptySet, PoolAssumption
        <3>3. CASE InCall # {}
            BY <3>3 DEF InCall
        <3>. QED
            BY <3>2, <3>3
    <2>3. CASE At(t, "await")
        <3>1. call[t].pc \in {"waiting", "calling", "answered", "failed"}
            BY <2>1, <2>3 DEF CallState, Paced, At
        <3>. QED
            BY <2>1, <2>2, <2>3, <3>1 DEF CanGoOn, CallAt, Paced
    <2>4. CASE ~At(t, "await")
        BY <1>1, <2>1, <2>4 DEF CanGoOn, TurnState, At
    <2>. QED
        BY <2>3, <2>4
<1>2. TurnsInv /\ PacedAll => \A t \in Calls : ~At(t, "idle") /\ ~At(t, "done") => CanGoOn(t)
    BY <1>1
<1>. QED
    BY <1>2, Pacing, PTL
================================================================================
