----------------------------- MODULE ChamberRing -----------------------------
(***************************************************************************)
(* One chamber of the bridge: a byte ring in a memory-mapped file, written *)
(* by one process and read by another (backend/ipc-core/src/buffer.rs and  *)
(* its mirror backend/lina/ipc.py).  The counters head and tail only grow; *)
(* a counter c stands for the byte at position c % Capacity.  A frame is   *)
(* Header bytes that hold the length, then the payload.                    *)
(*                                                                         *)
(* push and pop are split at every access to shared memory the other side  *)
(* could observe.  sent, start and rcvd are history variables: what was    *)
(* pushed, the counter each frame begins at, and what pop returned.        *)
(***************************************************************************)
EXTENDS Integers, Sequences

CONSTANTS
    Capacity,    \* CHAMBER_PAYLOAD, 65536 in the code
    Header,      \* RING_HEADER, 4 in the code
    Messages,    \* the messages a producer may push
    Size,        \* the length of each message, in bytes
    MaxSent,     \* bound: pushes in one behaviour
    MaxCrashes   \* bound: crashes of either process in one behaviour

ASSUME RingAssumption ==
    /\ Header \in Nat \ {0}
    /\ Capacity \in Nat
    /\ Capacity > Header
    /\ Size \in [Messages -> Nat]
    /\ MaxSent \in Nat
    /\ MaxCrashes \in Nat

VARIABLES
    cell,     \* the payload region, one entry per byte
    head,     \* producer's counter, shared
    tail,     \* consumer's counter, shared
    ppc,      \* where the producer stands in push
    pmsg,     \* the message being pushed
    cpc,      \* where the consumer stands in pop
    chead,    \* the value of head that pop loaded
    clen,     \* the length pop read from the header
    out,      \* the bytes pop has copied
    crashes,
    sent, start, rcvd

producer == <<ppc, pmsg>>
consumer == <<cpc, chead, clen, out>>
vars == <<cell, head, tail, ppc, pmsg, cpc, chead, clen, out, crashes,
          sent, start, rcvd>>

------------------------------------------------------------------------------
Position == 0 .. Capacity - 1

\* A byte of a frame's header, and a byte of a message: the data is abstract,
\* but a header byte tells no more than the length it is part of.
LengthByte(n, k) == [length |-> n, byte |-> k]
DataByte(m, k)   == [message |-> m, byte |-> k]
NoByte           == [length |-> 0, byte |-> 0]    \* zero-filled file

Heading(n) == [k \in 0 .. Header - 1 |-> LengthByte(n, k)]
Payload(m) == [k \in 0 .. Size[m] - 1 |-> DataByte(m, k)]
Fits(m)    == Size[m] <= Capacity - Header
FrameSize(m) == Header + Size[m]

\* How far position p lies ahead of counter c, going round the ring.
Ahead(p, c) == (p - c) % Capacity

\* Mutant: the write does not go round the end of the region.
WrittenUnwrapped(c, n, b) ==
    LET at == c % Capacity IN
    [p \in Position |-> IF p \in at .. at + n - 1 THEN b[p - at] ELSE cell[p]]

\* The region after the n bytes of b are written from counter c on.
Written(c, n, b) ==
    [p \in Position |-> IF Ahead(p, c) < n THEN b[Ahead(p, c)] ELSE cell[p]]

\* The n bytes found from counter c on.
ReadFrom(c, n) == [k \in 0 .. n - 1 |-> cell[(c + k) % Capacity]]

\* The header at counter c holds length n.
HoldsLength(c, n) == ReadFrom(c, Header) = Heading(n)

\* Every length a push may have written.
Lengths == {Size[m] : m \in Messages}

------------------------------------------------------------------------------
Init ==
    /\ cell = [p \in Position |-> NoByte]
    /\ head = 0 /\ tail = 0
    /\ ppc = "idle" /\ pmsg \in Messages
    /\ cpc = "idle" /\ chead = 0 /\ clen = 0 /\ out = <<>>
    /\ crashes = 0
    /\ sent = <<>> /\ start = <<0>> /\ rcvd = <<>>

\* Mutant: the room for the header is not counted.
PushBeginHeaderless(m) ==
    /\ ppc = "idle"
    /\ Len(sent) < MaxSent
    /\ Fits(m)
    /\ (head - tail) + Size[m] <= Capacity
    /\ ppc' = "header"
    /\ pmsg' = m
    /\ UNCHANGED <<cell, head, tail, consumer, crashes, sent, start, rcvd>>

\* push loads both counters and checks for room.  TooLarge and Full raise to
\* the caller and change nothing.
PushBegin(m) ==
    /\ ppc = "idle"
    /\ Len(sent) < MaxSent
    /\ Fits(m)
    /\ (head - tail) + FrameSize(m) <= Capacity
    /\ ppc' = "header"
    /\ pmsg' = m
    /\ UNCHANGED <<cell, head, tail, consumer, crashes, sent, start, rcvd>>

PushHeader ==
    /\ ppc = "header"
    /\ cell' = Written(head, Header, Heading(Size[pmsg]))
    /\ ppc' = "data"
    /\ UNCHANGED <<head, tail, pmsg, consumer, crashes, sent, start, rcvd>>

PushData ==
    /\ ppc = "data"
    /\ cell' = Written(head + Header, Size[pmsg], Payload(pmsg))
    /\ ppc' = "publish"
    /\ UNCHANGED <<head, tail, pmsg, consumer, crashes, sent, start, rcvd>>

\* The release store on head: from here on the frame is the consumer's.
PushPublish ==
    /\ ppc = "publish"
    /\ head' = head + FrameSize(pmsg)
    /\ ppc' = "idle"
    /\ sent' = Append(sent, pmsg)
    /\ start' = Append(start, head')
    /\ UNCHANGED <<cell, tail, pmsg, consumer, crashes, rcvd>>

\* pop on an empty ring returns None and changes nothing.
PopBegin ==
    /\ cpc = "idle"
    /\ head # tail
    /\ chead' = head
    /\ cpc' = "length"
    /\ UNCHANGED <<cell, head, tail, producer, clen, out, crashes,
                   sent, start, rcvd>>

\* Mutant: a frame that ends just where the ring is published counts as not
\* committed yet.
RefusedLast(n) ==
    \/ n = 0
    \/ n > Capacity - Header
    \/ chead - tail <= Header + n

\* Zero and over-long lengths count as corrupt; a frame longer than what was
\* published counts as not committed yet.
Refused(n) ==
    \/ n = 0
    \/ n > Capacity - Header
    \/ chead - tail < Header + n

\* pop returns None and leaves tail where it is.
PopRefuse ==
    /\ cpc = "length"
    /\ \E n \in Lengths : HoldsLength(tail, n) /\ Refused(n)
    /\ cpc' = "idle"
    /\ UNCHANGED <<cell, head, tail, producer, chead, clen, out, crashes,
                   sent, start, rcvd>>

\* Mutant: the copy starts at the header.
PopCopyFromHeader ==
    /\ cpc = "length"
    /\ \E n \in Lengths :
          /\ HoldsLength(tail, n)
          /\ ~Refused(n)
          /\ clen' = n
          /\ out' = ReadFrom(tail, n)
    /\ cpc' = "advance"
    /\ UNCHANGED <<cell, head, tail, producer, chead, crashes,
                   sent, start, rcvd>>

PopCopy ==
    /\ cpc = "length"
    /\ \E n \in Lengths :
          /\ HoldsLength(tail, n)
          /\ ~Refused(n)
          /\ clen' = n
          /\ out' = ReadFrom(tail + Header, n)
    /\ cpc' = "advance"
    /\ UNCHANGED <<cell, head, tail, producer, chead, crashes,
                   sent, start, rcvd>>

\* Mutant: tail moves past the payload only.
PopAdvanceShort ==
    /\ cpc = "advance"
    /\ tail' = tail + clen
    /\ cpc' = "idle"
    /\ rcvd' = Append(rcvd, out)
    /\ UNCHANGED <<cell, head, producer, chead, clen, out, crashes, sent, start>>

\* The release store on tail: the space is the producer's again.
PopAdvance ==
    /\ cpc = "advance"
    /\ tail' = tail + Header + clen
    /\ cpc' = "idle"
    /\ rcvd' = Append(rcvd, out)
    /\ UNCHANGED <<cell, head, producer, chead, clen, out, crashes, sent, start>>

\* A process dies in the middle of a call and a new one maps the same file:
\* what it had in hand is gone, the shared memory is as it left it.
ProducerCrash ==
    /\ ppc # "idle"
    /\ crashes < MaxCrashes
    /\ crashes' = crashes + 1
    /\ ppc' = "idle"
    /\ UNCHANGED <<cell, head, tail, pmsg, consumer, sent, start, rcvd>>

ConsumerCrash ==
    /\ cpc # "idle"
    /\ crashes < MaxCrashes
    /\ crashes' = crashes + 1
    /\ cpc' = "idle"
    /\ UNCHANGED <<cell, head, tail, producer, chead, clen, out,
                   sent, start, rcvd>>

Push == (\E m \in Messages : PushBegin(m))
        \/ PushHeader \/ PushData \/ PushPublish
Pop  == PopBegin \/ PopRefuse \/ PopCopy \/ PopAdvance

Next == Push \/ Pop \/ ProducerCrash \/ ConsumerCrash

Spec == Init /\ [][Next]_vars

\* Both receivers poll in a loop (Triton's main loop, the foresight window of
\* a chat turn), so a pop that can take a step takes it.  Nothing obliges a
\* producer to push, but a push once begun does not stop half way.
FairSpec == Spec /\ WF_vars(Pop) /\ WF_vars(PushHeader \/ PushData \/ PushPublish)

------------------------------------------------------------------------------
(***************************************************************************)
(* Properties.                                                             *)
(***************************************************************************)
Byte == [length : Lengths \cup {0}, byte : Nat]
        \cup [message : Messages, byte : Nat]

\* Types: among them, that pop never returns anything but a whole payload some
\* push took (buffer.rs, pop: the copied bytes go to the caller unchecked).
TypeOK ==
    /\ cell \in [Position -> Byte]
    /\ head \in Nat /\ tail \in Nat /\ chead \in Nat
    /\ ppc \in {"idle", "header", "data", "publish"}
    /\ pmsg \in Messages
    /\ cpc \in {"idle", "length", "advance"}
    /\ crashes \in Nat
    /\ sent \in Seq(Messages)
    /\ start \in Seq(Nat)
    /\ clen \in Lengths \cup {0}
    /\ rcvd \in Seq({Payload(m) : m \in Messages})

\* The frame whose i-th byte counts from the i-th start is in the ring, whole
\* and unaltered, from its publication until pop has returned it.  A write of
\* the producer over unread bytes, or a head moved before the bytes are
\* there, would break it.
FramesIntact ==
    \A i \in Len(rcvd) + 1 .. Len(sent) :
        /\ HoldsLength(start[i], Size[sent[i]])
        /\ ReadFrom(start[i] + Header, Size[sent[i]]) = Payload(sent[i])

\* The two counters never drift further apart than the ring is long, and
\* whatever the consumer loaded lies between them.
WithinCapacity ==
    /\ tail <= head
    /\ head - tail <= Capacity
    /\ cpc # "idle" => tail < chead /\ chead <= head

\* pop never meets a header it cannot make sense of: the counters always
\* stand on frame boundaries, whichever process died in between.
HeaderReadable ==
    cpc = "length" => \E n \in Lengths : HoldsLength(tail, n)

\* pop returned the pushed messages in their order, each once and unaltered.
InOrderOnce ==
    /\ Len(rcvd) <= Len(sent)
    /\ \A i \in DOMAIN rcvd : rcvd[i] = Payload(sent[i])

\* What is sent and not popped yet.
Pending == SubSeq(sent, Len(rcvd) + 1, Len(sent))
Pipe == INSTANCE MessagePipe WITH queue <- Pending, got <- rcvd
\* The chamber implements the pipe, and hands over all that is in it as long
\* as the consumer polls (main.rs, the loop over the chambers).
ImplementsPipe == Pipe!FairSpec

\* The chamber does nothing a pipe may not do, whatever push is given, data of
\* no bytes included.
PipeSafety == Pipe!Spec

\* Everything pushed is eventually popped, given a consumer that polls.
EverythingArrives ==
    \A i \in 1 .. MaxSent : Len(sent) >= i ~> Len(rcvd) >= i
==============================================================================
