----------------------------- MODULE BridgeProofs -----------------------------
(***************************************************************************)
(* Theorems about one chamber and about the bridge of two.  For every      *)
(* capacity, header size and set of messages a chamber hands over the      *)
(* pushed messages in order, once and unaltered, whichever process dies    *)
(* where, and so implements the safety part of MessagePipe.  For any       *)
(* number of turns, deaths of the spoke and restarts of the service,       *)
(* nothing that crosses the bridge is answered twice.  And what a stop     *)
(* leaves of a chamber is right but for a pop that was under way.          *)
(***************************************************************************)
EXTENDS ChamberStop, ForesightBridge, SequenceTheorems, TLAPS

------------------------------------------------------------------------------
(***************************************************************************)
(* The inductive invariant.                                                *)
(***************************************************************************)

\* The history lays the frames end to end, and the two counters stand on
\* frame boundaries: tail before the first frame pop has not returned, head
\* behind the last one published.
Layout ==
    /\ Len(start) = Len(sent) + 1
    /\ \A i \in 1 .. Len(sent) : start[i + 1] = start[i] + FrameSize(sent[i])
    /\ \A i \in 1 .. Len(sent) : \A j \in i + 1 .. Len(sent) + 1 :
          start[i] + FrameSize(sent[i]) <= start[j]
    /\ tail = start[Len(rcvd) + 1]
    /\ head = start[Len(sent) + 1]

\* Room was checked before the first byte, and the bytes written so far are
\* there although nobody may look at them yet.
ProducerInv ==
    /\ ppc # "idle" => /\ Fits(pmsg)
                       /\ (head - tail) + FrameSize(pmsg) <= Capacity
    /\ ppc \in {"data", "publish"} => HoldsLength(head, Size[pmsg])
    /\ ppc = "publish" =>
          ReadFrom(head + Header, Size[pmsg]) = Payload(pmsg)

\* What pop copied is the oldest message not returned yet.
ConsumerInv ==
    cpc = "advance" => /\ clen > 0
                       /\ clen = Size[sent[Len(rcvd) + 1]]
                       /\ out = Payload(sent[Len(rcvd) + 1])

IInv == /\ TypeOK
        /\ WithinCapacity
        /\ InOrderOnce
        /\ Layout
        /\ FramesIntact
        /\ ProducerInv
        /\ ConsumerInv
------------------------------------------------------------------------------
(***************************************************************************)
(* Counters and positions.                                                 *)
(***************************************************************************)

\* Dividing by n is unique.
LEMMA DivisionUnique ==
    ASSUME NEW n \in Nat, n > 0, NEW q \in Int, NEW p \in Int,
           NEW r \in 0 .. n - 1, NEW s \in 0 .. n - 1,
           n * q + r = n * p + s
    PROVE  r = s
<1>1. q = p
    BY SMT
<1>2. QED
    BY <1>1, SMT

\* Shifting before or after taking the remainder is the same.
LEMMA ShiftedMod ==
    ASSUME NEW n \in Nat, n > 0, NEW c \in Int, NEW w \in Int
    PROVE  (c - w) % n = ((c % n) - w) % n
<1>1. /\ c - w = n * ((c - w) \div n) + ((c - w) % n)
      /\ c = n * (c \div n) + (c % n)
      /\ c % n \in Int
      /\ c \div n \in Int
    BY SMT
<1>2. /\ (c % n) - w = n * (((c % n) - w) \div n) + (((c % n) - w) % n)
      /\ ((c % n) - w) \div n \in Int
      /\ ((c % n) - w) % n \in 0 .. n - 1
      /\ (c - w) \div n \in Int
      /\ (c - w) % n \in 0 .. n - 1
    BY <1>1, SMT
<1>3. n * ((c \div n) + (((c % n) - w) \div n))
         = n * (c \div n) + n * (((c % n) - w) \div n)
    BY <1>1, <1>2, SMT
<1>4. n * ((c - w) \div n) + ((c - w) % n)
         = n * ((c \div n) + (((c % n) - w) \div n)) + (((c % n) - w) % n)
    BY <1>1, <1>2, <1>3, SMT
<1>5. (c \div n) + (((c % n) - w) \div n) \in Int
    BY <1>1, <1>2, SMT
<1>6. QED
    BY <1>2, <1>4, <1>5, DivisionUnique

\* The byte counter c stands for lies c - w bytes ahead of counter w.
LEMMA AheadOfCounter ==
    ASSUME NEW c \in Int, NEW w \in Int
    PROVE  /\ c % Capacity \in Position
           /\ Ahead(c % Capacity, w) = (c - w) % Capacity
<1>1. /\ Capacity \in Nat
      /\ Capacity > 0
    BY RingAssumption
<1>2. c % Capacity \in 0 .. Capacity - 1
    BY <1>1, SMT
<1>3. (c - w) % Capacity = ((c % Capacity) - w) % Capacity
    BY <1>1, ShiftedMod
<1>4. QED
    BY <1>2, <1>3 DEF Ahead, Position

\* Both cases in which the distance is known outright.
LEMMA AheadInside ==
    ASSUME NEW w \in Int, NEW k \in 0 .. Capacity - 1
    PROVE  /\ (w + k) % Capacity \in Position
           /\ Ahead((w + k) % Capacity, w) = k
<1>1. Capacity \in Nat /\ Capacity > 0
    BY RingAssumption
<1> DEFINE c == w + k
<1>2. c \in Int /\ c - w = k
    BY <1>1
<1> HIDE DEF c
<1>3. /\ c % Capacity \in Position
      /\ Ahead(c % Capacity, w) = (c - w) % Capacity
    BY <1>2, AheadOfCounter
<1>4. (c - w) % Capacity = k
    <2>1. k % Capacity = k
        BY <1>1, SMT
    <2>2. QED
        BY <1>2, <2>1
<1>5. QED
    BY <1>3, <1>4 DEF c

LEMMA AheadOutside ==
    ASSUME NEW w \in Int, NEW c \in Int, c < w, w - c <= Capacity
    PROVE  /\ c % Capacity \in Position
           /\ Ahead(c % Capacity, w) = Capacity - (w - c)
<1>1. Capacity \in Nat /\ Capacity > 0
    BY RingAssumption
<1>2. /\ c % Capacity \in Position
      /\ Ahead(c % Capacity, w) = (c - w) % Capacity
    BY <1>1, AheadOfCounter
<1>3. (c - w) % Capacity = Capacity - (w - c)
    BY <1>1, SMT
<1>4. QED
    BY <1>2, <1>3

------------------------------------------------------------------------------
(***************************************************************************)
(* Reading and writing.                                                    *)
(***************************************************************************)

\* What was just written can be read back.
LEMMA ReadBack ==
    ASSUME NEW w \in Nat, NEW n \in 0 .. Capacity, NEW b,
           b = [k \in 0 .. n - 1 |-> b[k]],
           cell' = Written(w, n, b)
    PROVE  ReadFrom(w, n)' = b
<1>1. Capacity \in Nat /\ Capacity > 0
    BY RingAssumption
<1>2. ASSUME NEW k \in 0 .. n - 1
      PROVE  cell'[(w + k) % Capacity] = b[k]
    <2>1. /\ (w + k) % Capacity \in Position
          /\ Ahead((w + k) % Capacity, w) = k
        BY <1>1, AheadInside
    <2>2. QED
        BY <1>1, <2>1 DEF Written
<1>3. ReadFrom(w, n)' = [k \in 0 .. n - 1 |-> b[k]]
    BY <1>2 DEF ReadFrom
<1>4. QED
    BY <1>3

\* Bytes that lie behind the write, and less than a ring behind its end, are
\* not touched by it.
LEMMA ReadUndisturbed ==
    ASSUME NEW w \in Nat, NEW n \in Nat, NEW b,
           cell' = Written(w, n, b),
           NEW c \in Nat, NEW m \in Nat,
           c + m <= w, w + n <= c + Capacity
    PROVE  ReadFrom(c, m)' = ReadFrom(c, m)
<1>1. Capacity \in Nat /\ Capacity > 0
    BY RingAssumption
<1>2. ASSUME NEW k \in 0 .. m - 1
      PROVE  cell'[(c + k) % Capacity] = cell[(c + k) % Capacity]
    <2>1. c + k < w /\ w - (c + k) <= Capacity
        BY <1>1, SMT
    <2>2. /\ (c + k) % Capacity \in Position
          /\ Ahead((c + k) % Capacity, w) = Capacity - (w - (c + k))
        BY <1>1, <2>1, AheadOutside
    <2>3. ~(Ahead((c + k) % Capacity, w) < n)
        BY <1>1, <2>2, SMT
    <2>4. QED
        BY <2>2, <2>3 DEF Written
<1>3. QED
    BY <1>2 DEF ReadFrom

\* The header of a frame and its message.
LEMMA FrameFacts ==
    ASSUME NEW m \in Messages
    PROVE  /\ Size[m] \in Nat
           /\ FrameSize(m) \in Nat
           /\ FrameSize(m) = Header + Size[m]
           /\ FrameSize(m) > 0
           /\ Heading(Size[m]) = [k \in 0 .. Header - 1 |-> Heading(Size[m])[k]]
           /\ Payload(m) = [k \in 0 .. Size[m] - 1 |-> Payload(m)[k]]
           /\ Size[m] \in Lengths
    BY RingAssumption DEF FrameSize, Heading, Payload, Lengths

\* A header holds one length only.
LEMMA OneLength ==
    ASSUME NEW c, NEW n, NEW m, HoldsLength(c, n), HoldsLength(c, m)
    PROVE  n = m
<1>1. Heading(n) = Heading(m)
    BY DEF HoldsLength
<1>2. 0 \in 0 .. Header - 1
    BY RingAssumption, SMT
<1>3. Heading(n)[0] = LengthByte(n, 0) /\ Heading(m)[0] = LengthByte(m, 0)
    BY <1>2 DEF Heading
<1>4. LengthByte(n, 0) = LengthByte(m, 0)
    BY <1>1, <1>3
<1>5. LengthByte(n, 0).length = n /\ LengthByte(m, 0).length = m
    BY DEF LengthByte
<1>6. QED
    BY <1>4, <1>5
------------------------------------------------------------------------------
(***************************************************************************)
(* What the invariant says about one unread frame.                         *)
(***************************************************************************)
LEMMA UnreadFrame ==
    ASSUME IInv, NEW i \in Len(rcvd) + 1 .. Len(sent)
    PROVE  /\ i \in 1 .. Len(sent)
           /\ sent[i] \in Messages
           /\ start[i] \in Nat
           /\ tail <= start[i]
           /\ start[i] + FrameSize(sent[i]) <= head
<1>0. /\ sent \in Seq(Messages) /\ start \in Seq(Nat)
      /\ Len(rcvd) \in Nat /\ Len(sent) \in Nat
      /\ Layout
    BY DEF IInv, TypeOK
<1>1. /\ Len(rcvd) \in Nat
      /\ Len(sent) \in Nat
      /\ i \in 1 .. Len(sent)
      /\ sent[i] \in Messages
      /\ Len(rcvd) + 1 \in 1 .. Len(sent)
    BY <1>0
<1>2. start[i] \in Nat /\ start[Len(rcvd) + 1] \in Nat
    <2>1. Len(start) = Len(sent) + 1
        BY <1>0 DEF Layout
    <2>2. i \in 1 .. Len(start) /\ Len(rcvd) + 1 \in 1 .. Len(start)
        BY <1>1, <2>1
    <2>3. QED
        BY <1>0, <2>2
<1>3. start[i] + FrameSize(sent[i]) <= head
    <2>1. Len(sent) + 1 \in i + 1 .. Len(sent) + 1
        BY <1>1
    <2>2. start[i] + FrameSize(sent[i]) <= start[Len(sent) + 1]
        BY <1>0, <1>1, <2>1 DEF Layout
    <2>3. head = start[Len(sent) + 1]
        BY <1>0 DEF Layout
    <2>4. QED
        BY <2>2, <2>3
<1>4. tail <= start[i]
    <2>1. CASE i = Len(rcvd) + 1
        <3>1. tail = start[Len(rcvd) + 1]
            BY <1>0 DEF Layout
        <3>2. QED
            BY <1>2, <2>1, <3>1
    <2>2. CASE i # Len(rcvd) + 1
        <3>1. i \in (Len(rcvd) + 1) + 1 .. Len(sent) + 1
            BY <1>1, <2>2
        <3>2. start[Len(rcvd) + 1] + FrameSize(sent[Len(rcvd) + 1]) <= start[i]
            <4>1. \A k \in 1 .. Len(sent) : \A j \in k + 1 .. Len(sent) + 1 :
                     start[k] + FrameSize(sent[k]) <= start[j]
                BY <1>0 DEF Layout
            <4>2. QED
                BY <1>1, <3>1, <4>1
        <3>3. sent[Len(rcvd) + 1] \in Messages
            BY <1>0, <1>1
        <3>4. FrameSize(sent[Len(rcvd) + 1]) \in Nat
            BY <3>3, FrameFacts
        <3>5. tail = start[Len(rcvd) + 1]
            BY <1>0 DEF Layout
        <3>6. QED
            BY <1>2, <3>2, <3>4, <3>5
    <2>3. QED
        BY <2>1, <2>2
<1>5. QED
    BY <1>1, <1>2, <1>3, <1>4

\* While pop is under way there is a frame it has not returned.
LEMMA FrameWaiting ==
    ASSUME IInv, cpc # "idle"
    PROVE  /\ Len(rcvd) + 1 \in Len(rcvd) + 1 .. Len(sent)
           /\ Len(rcvd) + 1 \in 1 .. Len(sent)
           /\ Len(rcvd) \in Nat /\ Len(sent) \in Nat
<1>1. tail < head /\ tail \in Nat /\ head \in Nat
    BY DEF IInv, WithinCapacity, TypeOK
<1>2. Len(rcvd) \in Nat /\ Len(sent) \in Nat /\ Len(rcvd) <= Len(sent)
    BY DEF IInv, InOrderOnce, TypeOK
<1>3. Len(rcvd) # Len(sent)
    BY <1>1 DEF IInv, Layout
<1>4. QED
    BY <1>2, <1>3

\* A write the size of what push has left to write, in the free part of the
\* ring, leaves every unread frame as it is.
LEMMA UnreadFramesKept ==
    ASSUME IInv, NEW w \in Nat, NEW n \in Nat, NEW b,
           head <= w, w + n <= tail + Capacity,
           cell' = Written(w, n, b),
           UNCHANGED <<sent, start, rcvd>>
    PROVE  FramesIntact'
<1>1. /\ Capacity \in Nat /\ Header \in Nat
      /\ tail \in Nat /\ head \in Nat
    BY RingAssumption DEF IInv, TypeOK
<1>2. SUFFICES ASSUME NEW i \in Len(rcvd) + 1 .. Len(sent)
               PROVE  /\ HoldsLength(start[i], Size[sent[i]])'
                      /\ ReadFrom(start[i] + Header, Size[sent[i]])'
                            = Payload(sent[i])
    BY DEF FramesIntact
<1>3. /\ sent[i] \in Messages
      /\ start[i] \in Nat
      /\ tail <= start[i]
      /\ start[i] + FrameSize(sent[i]) <= head
    BY UnreadFrame
<1>4. /\ Size[sent[i]] \in Nat
      /\ FrameSize(sent[i]) = Header + Size[sent[i]]
    BY <1>3, FrameFacts
<1>5. ReadFrom(start[i], Header)' = ReadFrom(start[i], Header)
    <2>1. start[i] + Header <= start[i] + FrameSize(sent[i])
        BY <1>1, <1>3, <1>4
    <2>2. start[i] + Header <= w
        <3>1. start[i] + Header <= head
            BY <1>1, <1>3, <1>4, <2>1
        <3>2. QED
            BY <1>1, <1>3, <3>1
    <2>3. w + n <= start[i] + Capacity
        BY <1>1, <1>3
    <2>4. QED
        BY <1>1, <1>3, <2>2, <2>3, ReadUndisturbed
<1>6. ReadFrom(start[i] + Header, Size[sent[i]])'
         = ReadFrom(start[i] + Header, Size[sent[i]])
    <2>1. start[i] + Header \in Nat
        BY <1>1, <1>3
    <2>2. (start[i] + Header) + Size[sent[i]] <= w
        BY <1>1, <1>3, <1>4
    <2>3. w + n <= (start[i] + Header) + Capacity
        BY <1>1, <1>3
    <2>4. QED
        BY <1>4, <2>1, <2>2, <2>3, ReadUndisturbed
<1>7. QED
    BY <1>5, <1>6 DEF IInv, FramesIntact, HoldsLength
------------------------------------------------------------------------------
(***************************************************************************)
(* One lemma per action that touches the ring, its counters or a history.  *)
(***************************************************************************)
LEMMA InitEstablishes == Init => IInv
<1> SUFFICES ASSUME Init PROVE IInv
    OBVIOUS
<1> USE RingAssumption
<1>1. TypeOK
    <2>1. NoByte \in Byte
        BY DEF NoByte, Byte
    <2>2. cell \in [Position -> Byte]
        BY <2>1 DEF Init
    <2>3. QED
        BY <2>2 DEF Init, TypeOK
<1>2. WithinCapacity
    BY DEF Init, WithinCapacity
<1>3. InOrderOnce
    BY DEF Init, InOrderOnce
<1>4. Layout
    BY DEF Init, Layout
<1>5. FramesIntact
    BY DEF Init, FramesIntact
<1>6. ProducerInv /\ ConsumerInv
    BY DEF Init, ProducerInv, ConsumerInv
<1>7. QED
    BY <1>1, <1>2, <1>3, <1>4, <1>5, <1>6 DEF IInv

LEMMA PushHeaderKeeps ==
    ASSUME IInv, PushHeader
    PROVE  IInv'
<1>1. /\ Capacity \in Nat /\ Header \in Nat
      /\ tail \in Nat /\ head \in Nat
      /\ pmsg \in Messages
      /\ head - tail + FrameSize(pmsg) <= Capacity
      /\ tail <= head
    BY RingAssumption DEF IInv, TypeOK, ProducerInv, PushHeader, WithinCapacity
<1>2. /\ Size[pmsg] \in Nat
      /\ FrameSize(pmsg) = Header + Size[pmsg]
      /\ Size[pmsg] \in Lengths
    BY <1>1, FrameFacts
<1>3. /\ cell' = Written(head, Header, Heading(Size[pmsg]))
      /\ ppc' = "data"
      /\ UNCHANGED <<head, tail, pmsg, cpc, chead, clen, out, crashes,
                     sent, start, rcvd>>
    BY DEF PushHeader, consumer
<1>4. TypeOK'
    <2>1. \A k \in 0 .. Header - 1 : Heading(Size[pmsg])[k] \in Byte
        BY <1>1, <1>2 DEF Heading, LengthByte, Byte
    <2>2. \A p \in Position : Ahead(p, head) \in Nat
        BY <1>1, RingAssumption DEF Position, Ahead
    <2>3. cell' \in [Position -> Byte]
        BY <1>1, <1>3, <2>1, <2>2 DEF Written, IInv, TypeOK
    <2>4. QED
        BY <1>3, <2>3 DEF IInv, TypeOK
<1>5. FramesIntact'
    <2>1. head + Header <= tail + Capacity
        BY <1>1, <1>2
    <2>2. QED
        BY <1>1, <1>3, <2>1, UnreadFramesKept
<1>6. ProducerInv'
    <2>1. Header \in 0 .. Capacity
        BY RingAssumption
    <2>2. ReadFrom(head, Header)' = Heading(Size[pmsg])
        BY <1>1, <1>3, <2>1, FrameFacts, ReadBack
    <2>3. HoldsLength(head, Size[pmsg])'
        BY <1>3, <2>2 DEF HoldsLength
    <2>4. QED
        BY <1>3, <2>3 DEF IInv, ProducerInv, PushHeader
<1>7. WithinCapacity' /\ InOrderOnce' /\ Layout' /\ ConsumerInv'
    BY <1>3 DEF IInv, WithinCapacity, InOrderOnce, Layout, ConsumerInv
<1>8. QED
    BY <1>4, <1>5, <1>6, <1>7 DEF IInv

LEMMA PushDataKeeps ==
    ASSUME IInv, PushData
    PROVE  IInv'
<1>1. /\ Capacity \in Nat /\ Header \in Nat
      /\ tail \in Nat /\ head \in Nat
      /\ pmsg \in Messages
      /\ head - tail + FrameSize(pmsg) <= Capacity
      /\ tail <= head
    BY RingAssumption DEF IInv, TypeOK, ProducerInv, PushData, WithinCapacity
<1>2. /\ Size[pmsg] \in Nat
      /\ FrameSize(pmsg) = Header + Size[pmsg]
    BY <1>1, FrameFacts
<1>w. head + Header \in Nat
    BY <1>1
<1>3. /\ cell' = Written(head + Header, Size[pmsg], Payload(pmsg))
      /\ ppc' = "publish"
      /\ UNCHANGED <<head, tail, pmsg, cpc, chead, clen, out, crashes,
                     sent, start, rcvd>>
    BY DEF PushData, consumer
<1>4. TypeOK'
    <2>1. \A k \in 0 .. Size[pmsg] - 1 : Payload(pmsg)[k] \in Byte
        BY <1>1, <1>2 DEF Payload, DataByte, Byte
    <2>2. \A p \in Position : Ahead(p, head + Header) \in Nat
        BY <1>1, RingAssumption DEF Position, Ahead
    <2>3. cell' \in [Position -> Byte]
        BY <1>1, <1>2, <1>3, <2>1, <2>2 DEF Written, IInv, TypeOK
    <2>4. QED
        BY <1>3, <2>3 DEF IInv, TypeOK
<1>5. FramesIntact'
    <2>1. /\ head <= head + Header
          /\ (head + Header) + Size[pmsg] <= tail + Capacity
        BY <1>1, <1>2
    <2>2. QED
        BY <1>2, <1>3, <1>w, <2>1, UnreadFramesKept
<1>6. ProducerInv'
    <2>1. Size[pmsg] \in 0 .. Capacity
        BY <1>1, <1>2
    <2>2. ReadFrom(head + Header, Size[pmsg])' = Payload(pmsg)
        BY <1>1, <1>2, <1>3, <1>w, <2>1, FrameFacts, ReadBack
    <2>3. (head + Header) + Size[pmsg] <= head + Capacity
        BY <1>1, <1>2
    <2>4. ReadFrom(head, Header)' = ReadFrom(head, Header)
        BY <1>1, <1>2, <1>3, <1>w, <2>3, ReadUndisturbed
    <2>5. HoldsLength(head, Size[pmsg])'
        BY <1>3, <2>4 DEF IInv, ProducerInv, PushData, HoldsLength
    <2>6. QED
        BY <1>3, <2>2, <2>5 DEF IInv, ProducerInv, PushData
<1>7. WithinCapacity' /\ InOrderOnce' /\ Layout' /\ ConsumerInv'
    BY <1>3 DEF IInv, WithinCapacity, InOrderOnce, Layout, ConsumerInv
<1>8. QED
    BY <1>4, <1>5, <1>6, <1>7 DEF IInv
LEMMA PushPublishKeeps ==
    ASSUME IInv, PushPublish
    PROVE  IInv'
<1> DEFINE n == Len(sent)
<1>1. /\ sent \in Seq(Messages) /\ start \in Seq(Nat)
      /\ n \in Nat
      /\ Len(start) = n + 1
    BY DEF IInv, TypeOK, Layout
<1>2. /\ head' = head + FrameSize(pmsg)
      /\ ppc' = "idle"
      /\ sent' = Append(sent, pmsg)
      /\ start' = Append(start, head')
      /\ UNCHANGED <<cell, tail, pmsg, cpc, chead, clen, out, crashes, rcvd>>
    BY DEF PushPublish, consumer
<1>3. /\ head \in Nat /\ tail \in Nat /\ tail <= head
      /\ pmsg \in Messages
      /\ ppc = "publish"
    BY DEF IInv, TypeOK, WithinCapacity, PushPublish
<1>4. FrameSize(pmsg) \in Nat /\ FrameSize(pmsg) > 0
    BY <1>3, FrameFacts
<1>5. head - tail + FrameSize(pmsg) <= Capacity
    BY <1>3 DEF IInv, ProducerInv
<1>6. head' \in Nat
    BY <1>2, <1>3, <1>4
<1>7. /\ Len(sent') = n + 1 /\ Len(start') = n + 2
      /\ \A i \in 1 .. n : sent'[i] = sent[i] /\ sent[i] \in Messages
      /\ \A i \in 1 .. n + 1 : start'[i] = start[i] /\ start[i] \in Nat
      /\ sent'[n + 1] = pmsg
      /\ start'[n + 2] = head'
    BY <1>1, <1>2, <1>3, <1>6
<1>8. /\ \A i \in 1 .. n : start[i + 1] = start[i] + FrameSize(sent[i])
      /\ \A i \in 1 .. n : \A j \in i + 1 .. n + 1 :
            start[i] + FrameSize(sent[i]) <= start[j]
      /\ head = start[n + 1]
      /\ tail = start[Len(rcvd) + 1]
    BY DEF IInv, Layout
<1>9. Len(rcvd) \in Nat /\ Len(rcvd) <= n
    BY DEF IInv, InOrderOnce, TypeOK
<1>10. TypeOK'
    BY <1>2, <1>3, <1>6 DEF IInv, TypeOK
<1>11. WithinCapacity'
    <2>1. Capacity \in Nat /\ chead \in Nat
        BY RingAssumption DEF IInv, TypeOK
    <2>2. tail <= head' /\ head' - tail <= Capacity
        BY <1>2, <1>3, <1>4, <1>5, <2>1
    <2>3. cpc # "idle" => tail < chead /\ chead <= head'
        BY <1>2, <1>3, <1>4, <2>1 DEF IInv, WithinCapacity
    <2>4. QED
        BY <1>2, <2>2, <2>3 DEF WithinCapacity
<1>12. InOrderOnce'
    <2>1. DOMAIN rcvd = 1 .. Len(rcvd)
        BY DEF IInv, TypeOK
    <2>2. ASSUME NEW i \in 1 .. Len(rcvd)
          PROVE  rcvd[i] = Payload(sent'[i])
        <3>1. i \in 1 .. n
            BY <1>1, <1>9
        <3>2. sent'[i] = sent[i]
            BY <1>7, <3>1
        <3>3. QED
            BY <2>1, <3>2 DEF IInv, InOrderOnce
    <2>3. QED
        BY <1>1, <1>2, <1>7, <1>9, <2>1, <2>2 DEF InOrderOnce
<1>13. Layout'
    <2> HIDE DEF n
    <2>1. ASSUME NEW i \in 1 .. n + 1
          PROVE  start'[i + 1] = start'[i] + FrameSize(sent'[i])
        <3>1. CASE i \in 1 .. n
            BY <1>1, <1>7, <1>8, <3>1
        <3>2. CASE i = n + 1
            BY <1>1, <1>2, <1>7, <1>8, <3>2
        <3>3. QED
            BY <1>1, <3>1, <3>2
    <2>2. ASSUME NEW i \in 1 .. n + 1, NEW j \in i + 1 .. n + 2
          PROVE  start'[i] + FrameSize(sent'[i]) <= start'[j]
        <3>1. CASE i = n + 1
            <4>1. j = n + 2
                BY <1>1, <3>1
            <4>2. start'[j] = start'[i] + FrameSize(sent'[i])
                BY <1>1, <1>2, <1>7, <1>8, <3>1, <4>1
            <4>3. QED
                BY <1>6, <1>7, <4>1, <4>2
        <3>2. CASE i \in 1 .. n /\ j # n + 2
            <4>1. j \in i + 1 .. n + 1 /\ j \in 1 .. n + 1 /\ i \in 1 .. n + 1
                BY <1>1, <3>2
            <4>2. QED
                BY <1>7, <1>8, <3>2, <4>1
        <3>3. CASE i \in 1 .. n /\ j = n + 2
            <4>1. /\ start'[i] = start[i] /\ start[i] \in Nat
                  /\ sent'[i] = sent[i] /\ sent[i] \in Messages
                BY <1>1, <1>7, <3>3
            <4>2. n + 1 \in i + 1 .. n + 1
                BY <1>1, <3>3
            <4>3. start[i] + FrameSize(sent[i]) <= head
                BY <1>8, <3>3, <4>2
            <4>4. FrameSize(sent[i]) \in Nat
                BY <4>1, FrameFacts
            <4>5. start'[j] = head + FrameSize(pmsg)
                BY <1>2, <1>7, <3>3
            <4>6. QED
                BY <1>3, <1>4, <4>1, <4>3, <4>4, <4>5
        <3>4. QED
            BY <1>1, <3>1, <3>2, <3>3
    <2>3. tail' = start'[Len(rcvd') + 1] /\ head' = start'[Len(sent') + 1]
        <3>1. Len(rcvd) + 1 \in 1 .. n + 1 /\ (n + 1) + 1 = n + 2
            BY <1>1, <1>9
        <3>2. QED
            BY <1>2, <1>7, <1>8, <3>1
    <2>4. /\ Len(sent') = n + 1
          /\ Len(start') = Len(sent') + 1
          /\ Len(sent') + 1 = n + 2
        BY <1>1, <1>7
    <2>5. QED
        BY <2>1, <2>2, <2>3, <2>4 DEF Layout
<1>14. FramesIntact'
    <2>1. ASSUME NEW i \in Len(rcvd) + 1 .. n + 1
          PROVE  /\ HoldsLength(start'[i], Size[sent'[i]])
                 /\ ReadFrom(start'[i] + Header, Size[sent'[i]])
                        = Payload(sent'[i])
        <3>1. CASE i = n + 1
            <4>1. start'[i] = head /\ sent'[i] = pmsg
                BY <1>1, <1>7, <1>8, <3>1
            <4>2. QED
                BY <1>3, <4>1 DEF IInv, ProducerInv
        <3>2. CASE i # n + 1
            <4>1. i \in Len(rcvd) + 1 .. n /\ i \in 1 .. n /\ i \in 1 .. n + 1
                BY <1>1, <1>9, <3>2
            <4>2. start'[i] = start[i] /\ sent'[i] = sent[i]
                BY <1>7, <4>1
            <4>3. QED
                BY <4>1, <4>2 DEF IInv, FramesIntact
        <3>3. QED
            BY <3>1, <3>2
    <2>2. \A i \in Len(rcvd') + 1 .. Len(sent') :
              /\ HoldsLength(start'[i], Size[sent'[i]])
              /\ ReadFrom(start'[i] + Header, Size[sent'[i]])
                     = Payload(sent'[i])
        BY <1>2, <1>7, <2>1
    <2>3. QED
        BY <1>2, <2>2 DEF FramesIntact, HoldsLength, ReadFrom
<1>15. ProducerInv'
    BY <1>2 DEF ProducerInv
<1>16. ConsumerInv'
    <2>1. ASSUME cpc = "advance"
          PROVE  sent'[Len(rcvd) + 1] = sent[Len(rcvd) + 1]
        BY <1>7, <2>1, FrameWaiting
    <2>2. QED
        BY <1>2, <2>1 DEF IInv, ConsumerInv
<1>17. QED
    BY <1>10, <1>11, <1>12, <1>13, <1>14, <1>15, <1>16 DEF IInv

LEMMA PopCopyKeeps ==
    ASSUME IInv, PopCopy
    PROVE  IInv'
<1> DEFINE i == Len(rcvd) + 1
<1>1. PICK n \in Lengths :
          /\ HoldsLength(tail, n)
          /\ clen' = n
          /\ out' = ReadFrom(tail + Header, n)
          /\ ~Refused(n)
    BY DEF PopCopy
<1>2. /\ cpc' = "advance"
      /\ UNCHANGED <<cell, head, tail, ppc, pmsg, chead, crashes,
                     sent, start, rcvd>>
    BY DEF PopCopy, producer
<1>3. i \in Len(rcvd) + 1 .. Len(sent)
    BY FrameWaiting DEF PopCopy
<1>4. /\ tail = start[i]
      /\ HoldsLength(start[i], Size[sent[i]])
      /\ ReadFrom(start[i] + Header, Size[sent[i]]) = Payload(sent[i])
    BY <1>3 DEF IInv, Layout, FramesIntact
<1>5. n = Size[sent[i]]
    BY <1>1, <1>4, OneLength
<1>6. ConsumerInv'
    <2>1. n \in Nat /\ n > 0
        BY <1>1, RingAssumption DEF Lengths, Refused
    <2>2. QED
        BY <1>1, <1>2, <1>4, <1>5, <2>1 DEF ConsumerInv
<1>7. TypeOK' /\ WithinCapacity' /\ InOrderOnce' /\ Layout'
    BY <1>1, <1>2
       DEF IInv, TypeOK, WithinCapacity, InOrderOnce, Layout, PopCopy
<1>8. FramesIntact' /\ ProducerInv'
    BY <1>2 DEF IInv, FramesIntact, ProducerInv, HoldsLength, ReadFrom
<1>9. QED
    BY <1>6, <1>7, <1>8 DEF IInv

LEMMA PopAdvanceKeeps ==
    ASSUME IInv, PopAdvance
    PROVE  IInv'
<1> DEFINE i == Len(rcvd) + 1
<1>1. i \in Len(rcvd) + 1 .. Len(sent)
    BY FrameWaiting DEF PopAdvance
<1>2. /\ i \in 1 .. Len(sent)
      /\ sent[i] \in Messages
      /\ start[i] \in Nat
      /\ start[i] + FrameSize(sent[i]) <= head
    BY <1>1, UnreadFrame
<1>3. /\ clen = Size[sent[i]] /\ out = Payload(sent[i])
      /\ FrameSize(sent[i]) = Header + Size[sent[i]]
      /\ FrameSize(sent[i]) \in Nat /\ FrameSize(sent[i]) > 0
    BY <1>2, FrameFacts DEF IInv, ConsumerInv, PopAdvance
<1>4. /\ tail' = tail + Header + clen
      /\ cpc' = "idle"
      /\ rcvd' = Append(rcvd, out)
      /\ UNCHANGED <<cell, head, ppc, pmsg, chead, clen, out, crashes,
                     sent, start>>
    BY DEF PopAdvance, producer
<1>5. /\ Header \in Nat /\ Capacity \in Nat /\ Size[sent[i]] \in Nat
      /\ tail \in Nat /\ head \in Nat
    BY <1>2, RingAssumption DEF IInv, TypeOK
<1>6. tail' = start[i] + FrameSize(sent[i])
    <2>1. tail = start[i]
        BY DEF IInv, Layout
    <2>2. tail' = tail + (Header + Size[sent[i]])
        BY <1>3, <1>4, <1>5
    <2>3. QED
        BY <1>3, <2>1, <2>2
<1>7. /\ Len(rcvd) \in Nat
      /\ Len(rcvd') = i
      /\ \A j \in 1 .. Len(rcvd) : rcvd'[j] = rcvd[j]
      /\ rcvd'[i] = out
    BY <1>4 DEF IInv, TypeOK
<1>8. TypeOK'
    <2>1. out \in {Payload(m) : m \in Messages}
        BY <1>2, <1>3
    <2>2. tail' \in Nat
        BY <1>2, <1>3, <1>6
    <2>3. rcvd' \in Seq({Payload(m) : m \in Messages})
        BY <1>4, <2>1 DEF IInv, TypeOK
    <2>4. QED
        BY <1>4, <2>2, <2>3 DEF IInv, TypeOK
<1>9. WithinCapacity'
    <2>1. tail <= tail' /\ tail' <= head /\ tail' \in Nat
        BY <1>2, <1>3, <1>5, <1>6 DEF IInv, Layout
    <2>2. QED
        BY <1>4, <1>5, <2>1 DEF IInv, WithinCapacity
<1>10. InOrderOnce'
    <2>1. Len(rcvd') <= Len(sent')
        BY <1>2, <1>4, <1>7
    <2>2. DOMAIN rcvd = 1 .. Len(rcvd) /\ DOMAIN rcvd' = 1 .. i
        BY <1>4, <1>7 DEF IInv, TypeOK
    <2>3. \A j \in 1 .. Len(rcvd) : rcvd[j] = Payload(sent[j])
        BY <2>2 DEF IInv, InOrderOnce
    <2>4. \A j \in 1 .. i : j \in 1 .. Len(rcvd) \/ j = i
        BY <1>7
    <2>5. \A j \in 1 .. i : rcvd'[j] = Payload(sent[j])
        BY <1>3, <1>7, <2>3, <2>4
    <2>6. QED
        BY <1>4, <2>1, <2>2, <2>5 DEF InOrderOnce
<1>11. Layout'
    <2>1. tail' = start[i + 1]
        BY <1>2, <1>6 DEF IInv, Layout
    <2>2. QED
        BY <1>4, <1>7, <2>1 DEF IInv, Layout
<1>12. FramesIntact'
    BY <1>4, <1>7 DEF IInv, FramesIntact, HoldsLength, ReadFrom
<1>13. ProducerInv'
    <2>1. tail <= tail' /\ tail' \in Nat
        BY <1>2, <1>3, <1>5, <1>6 DEF IInv, Layout
    <2>2. UNCHANGED <<cell, head, ppc, pmsg>>
        BY <1>4
    <2>3. ppc # "idle" => (head - tail') + FrameSize(pmsg) <= Capacity
        <3>1. FrameSize(pmsg) \in Nat
            BY FrameFacts DEF IInv, TypeOK
        <3>2. ppc # "idle" => (head - tail) + FrameSize(pmsg) <= Capacity
            BY DEF IInv, ProducerInv
        <3>3. head \in Nat /\ tail \in Nat /\ Capacity \in Nat
            BY RingAssumption DEF IInv, TypeOK
        <3>4. QED
            BY <2>1, <3>1, <3>2, <3>3
    <2>4. QED
        BY <2>2, <2>3 DEF IInv, ProducerInv, HoldsLength, ReadFrom
<1>14. ConsumerInv'
    BY <1>4 DEF ConsumerInv
<1>15. QED
    BY <1>8, <1>9, <1>10, <1>11, <1>12, <1>13, <1>14 DEF IInv
\* A step that leaves the ring, the counters and the histories alone has
\* only the program counters and local variables to account for.
LEMMA SharedUntouched ==
    ASSUME IInv, UNCHANGED <<cell, head, tail, sent, start, rcvd>>
    PROVE  /\ InOrderOnce' /\ Layout' /\ FramesIntact'
           /\ \A c, n : HoldsLength(c, n)' <=> HoldsLength(c, n)
           /\ \A c, n : ReadFrom(c, n)' = ReadFrom(c, n)
<1>1. \A c, n : ReadFrom(c, n)' = ReadFrom(c, n)
    BY DEF ReadFrom
<1>2. \A c, n : HoldsLength(c, n)' <=> HoldsLength(c, n)
    BY DEF HoldsLength, ReadFrom
<1>3. InOrderOnce' /\ Layout'
    BY DEF IInv, InOrderOnce, Layout
<1>4. FramesIntact'
    BY DEF IInv, FramesIntact, HoldsLength, ReadFrom
<1>5. QED
    BY <1>1, <1>2, <1>3, <1>4

LEMMA PushBeginKeeps ==
    ASSUME IInv, NEW m \in Messages, PushBegin(m)
    PROVE  IInv'
<1>1. /\ ppc' = "header" /\ pmsg' = m
      /\ Fits(m) /\ (head - tail) + FrameSize(m) <= Capacity
      /\ UNCHANGED <<cell, head, tail, cpc, chead, clen, out, crashes,
                     sent, start, rcvd>>
    BY DEF PushBegin, consumer
<1>2. TypeOK' /\ WithinCapacity' /\ ConsumerInv'
    BY <1>1 DEF IInv, TypeOK, WithinCapacity, ConsumerInv
<1>3. ProducerInv'
    BY <1>1 DEF ProducerInv
<1>4. InOrderOnce' /\ Layout' /\ FramesIntact'
    BY <1>1, SharedUntouched
<1>5. QED
    BY <1>2, <1>3, <1>4 DEF IInv

\* The remaining actions move a program counter or load head.
LEMMA LocalStepKeeps ==
    ASSUME IInv,
           PopBegin \/ PopRefuse \/ ProducerCrash \/ ConsumerCrash
              \/ UNCHANGED vars
    PROVE  IInv'
<1>1. UNCHANGED <<cell, head, tail, pmsg, clen, out, sent, start, rcvd>>
    BY DEF PopBegin, PopRefuse, ProducerCrash, ConsumerCrash, vars,
           producer, consumer
<1>2. InOrderOnce' /\ Layout' /\ FramesIntact'
    BY <1>1, SharedUntouched
<1>3. ppc' = ppc \/ ppc' = "idle"
    BY DEF PopBegin, PopRefuse, ProducerCrash, ConsumerCrash, vars, producer
<1>4. \/ cpc' = cpc /\ chead' = chead
      \/ cpc' = "idle" /\ chead' = chead
      \/ cpc' = "length" /\ chead' = head /\ head # tail
    BY DEF PopBegin, PopRefuse, ProducerCrash, ConsumerCrash, vars, consumer
<1>5. crashes' \in Nat
    BY DEF PopBegin, PopRefuse, ProducerCrash, ConsumerCrash, vars, IInv, TypeOK
<1>6. TypeOK'
    BY <1>1, <1>3, <1>4, <1>5 DEF IInv, TypeOK
<1>7. WithinCapacity'
    BY <1>1, <1>4 DEF IInv, TypeOK, WithinCapacity
<1>8. ProducerInv'
    <2>1. /\ ppc' \in {"data", "publish"} => HoldsLength(head, Size[pmsg])
          /\ ppc' = "publish" =>
                ReadFrom(head + Header, Size[pmsg]) = Payload(pmsg)
          /\ ppc' # "idle" => /\ Fits(pmsg)
                              /\ (head - tail) + FrameSize(pmsg) <= Capacity
        BY <1>3 DEF IInv, ProducerInv
    <2>2. QED
        BY <1>1, <2>1 DEF ProducerInv, HoldsLength, ReadFrom
<1>9. ConsumerInv'
    BY <1>1, <1>4 DEF IInv, ConsumerInv
<1>10. QED
    BY <1>2, <1>6, <1>7, <1>8, <1>9 DEF IInv

\* Every step of the chamber, crashes included, keeps the invariant.
LEMMA StepKeeps == IInv /\ [Next]_vars => IInv'
<1>1. QED
    BY PushBeginKeeps, PushHeaderKeeps, PushDataKeeps, PushPublishKeeps,
       PopCopyKeeps, PopAdvanceKeeps, LocalStepKeeps DEF Next, Push, Pop

LEMMA Invariance == Spec => []IInv
<1>1. QED
    BY InitEstablishes, StepKeeps, PTL DEF Spec

------------------------------------------------------------------------------
(***************************************************************************)
(* The theorems.                                                           *)
(***************************************************************************)

\* Every variable keeps its type, and pop only ever returns whole messages.
THEOREM TypeCorrect == Spec => []TypeOK
<1>1. IInv => TypeOK
    BY DEF IInv
<1>2. QED
    BY <1>1, Invariance, PTL

\* push never lets head run more than one ring ahead of tail, so it never
\* writes over bytes pop has not released.
THEOREM CapacityRespected == Spec => []WithinCapacity
<1>1. IInv => WithinCapacity
    BY DEF IInv
<1>2. QED
    BY <1>1, Invariance, PTL

\* A published frame stays whole in the ring until pop has returned it.
THEOREM FramesStayIntact == Spec => []FramesIntact
<1>1. IInv => FramesIntact
    BY DEF IInv
<1>2. QED
    BY <1>1, Invariance, PTL

\* pop returns what push was given: in order, once, unaltered.
THEOREM FirstInFirstOut == Spec => []InOrderOnce
<1>1. IInv => InOrderOnce
    BY DEF IInv
<1>2. QED
    BY <1>1, Invariance, PTL

\* pop always stands before a header push wrote.
THEOREM HeadersReadable == Spec => []HeaderReadable
<1>1. IInv => HeaderReadable
    <2> SUFFICES ASSUME IInv, cpc = "length"
                 PROVE  \E n \in Lengths : HoldsLength(tail, n)
        BY DEF HeaderReadable
    <2>3. Len(rcvd) + 1 \in Len(rcvd) + 1 .. Len(sent)
        BY FrameWaiting
    <2>4. HoldsLength(tail, Size[sent[Len(rcvd) + 1]])
        BY <2>3 DEF IInv, FramesIntact, Layout
    <2>5. Size[sent[Len(rcvd) + 1]] \in Lengths
        BY <2>3, UnreadFrame, FrameFacts
    <2>6. QED
        BY <2>4, <2>5
<1>2. QED
    BY <1>1, Invariance, PTL
------------------------------------------------------------------------------
(***************************************************************************)
(* The refinement.                                                         *)
(***************************************************************************)
LEMMA PipeInit == Init => Pipe!Init
    BY DEF Init, Pipe!Init, Pending

\* Appending to a sequence appends to each of its suffixes.
LEMMA SuffixAppend ==
    ASSUME NEW S, NEW s \in Seq(S), NEW e \in S, NEW r \in Nat, r <= Len(s)
    PROVE  SubSeq(Append(s, e), r + 1, Len(s) + 1)
              = Append(SubSeq(s, r + 1, Len(s)), e)
<1> DEFINE a == Append(s, e)
           p == SubSeq(s, r + 1, Len(s))
           w == SubSeq(a, r + 1, Len(s) + 1)
           q == Append(p, e)
<1>1. Len(s) \in Nat /\ a \in Seq(S) /\ Len(a) = Len(s) + 1
      /\ a[Len(s) + 1] = e /\ \A i \in 1 .. Len(s) : a[i] = s[i]
    BY AppendProperties
<1>2. p \in Seq(S) /\ Len(p) = Len(s) - r
      /\ \A i \in 1 .. Len(s) - r : p[i] = s[r + i]
    BY <1>1
<1>3. w \in Seq(S) /\ Len(w) = Len(s) + 1 - r
      /\ \A i \in 1 .. Len(s) + 1 - r : w[i] = a[r + i]
    <2> HIDE DEF a
    <2>1. QED BY <1>1
<1>4. q \in Seq(S) /\ Len(q) = Len(s) + 1 - r
      /\ q[Len(s) + 1 - r] = e /\ \A i \in 1 .. Len(s) - r : q[i] = p[i]
    <2> HIDE DEF p
    <2>1. QED BY <1>1, <1>2, AppendProperties
<1> HIDE DEF a, p, w, q
<1>5. \A i \in 1 .. Len(s) + 1 - r : w[i] = q[i]
    <2> SUFFICES ASSUME NEW i \in 1 .. Len(s) + 1 - r PROVE w[i] = q[i]
      OBVIOUS
    <2>1. CASE i = Len(s) + 1 - r
      <3>1. r + i = Len(s) + 1 BY <1>1, <2>1
      <3>2. QED BY <1>1, <1>3, <1>4, <2>1, <3>1
    <2>2. CASE i \in 1 .. Len(s) - r
      <3>1. r + i \in 1 .. Len(s) BY <1>1, <2>2
      <3>2. QED BY <1>1, <1>2, <1>3, <1>4, <2>2, <3>1
    <2>3. QED BY <1>1, <2>1, <2>2
<1>6. w = q
    BY <1>1, <1>3, <1>4, <1>5, SeqEqual
<1>7. QED
    BY <1>6 DEF w, q, a, p

LEMMA PipePublish ==
    ASSUME IInv, PushPublish
    PROVE  Pipe!Send(pmsg)
<1>1. /\ sent' = Append(sent, pmsg) /\ rcvd' = rcvd
      /\ sent \in Seq(Messages) /\ pmsg \in Messages
      /\ Len(rcvd) \in Nat /\ Len(rcvd) <= Len(sent)
      /\ Fits(pmsg)
    BY DEF IInv, TypeOK, InOrderOnce, ProducerInv, PushPublish
<1>2. Len(sent') = Len(sent) + 1
    BY <1>1
<1>3. Pending' = SubSeq(Append(sent, pmsg), Len(rcvd) + 1, Len(sent) + 1)
    BY <1>1, <1>2 DEF Pending
<1>4. Pending' = Append(Pending, pmsg)
    BY <1>1, <1>3, SuffixAppend DEF Pending
<1>5. QED
    BY <1>1, <1>4 DEF Pipe!Send

LEMMA PipeAdvance ==
    ASSUME IInv, PopAdvance
    PROVE  Pipe!Receive
<1> DEFINE i == Len(rcvd) + 1
<1>1. /\ i \in 1 .. Len(sent)
      /\ Len(rcvd) \in Nat /\ Len(sent) \in Nat
    BY FrameWaiting DEF PopAdvance
<1>2. /\ rcvd' = Append(rcvd, Payload(sent[i]))
      /\ Len(rcvd') = i
      /\ sent' = sent
      /\ sent \in Seq(Messages)
      /\ Size[sent[i]] > 0
    BY DEF IInv, TypeOK, ConsumerInv, PopAdvance
<1>3. Pending # <<>>
    <2>1. \A j \in i .. Len(sent) : sent[j] \in Messages
        BY <1>1, <1>2
    <2>2. Len(Pending) = IF i <= Len(sent) THEN Len(sent) - i + 1 ELSE 0
        BY <1>1, <2>1, SubSeqProperties DEF Pending
    <2>3. QED
        BY <1>1, <2>2
<1>4. Head(Pending) = sent[i] /\ Tail(Pending) = SubSeq(sent, i + 1, Len(sent))
    BY <1>1, <1>2, HeadTailOfSubSeq DEF Pending
<1>5. Pending' = Tail(Pending)
    BY <1>2, <1>4 DEF Pending
<1>6. ~Pipe!Empty(sent[i])
    <2>1. 0 \in DOMAIN Payload(sent[i])
        BY <1>1, <1>2, RingAssumption DEF Payload
    <2>2. QED
        BY <2>1 DEF Pipe!Empty
<1>7. QED
    BY <1>2, <1>3, <1>4, <1>5, <1>6 DEF Pipe!Receive

\* What is neither a publication nor the advance of tail is invisible.
LEMMA PipeStutter ==
    ASSUME UNCHANGED <<sent, rcvd>>
    PROVE  UNCHANGED Pipe!pipe
    BY DEF Pipe!pipe, Pending

LEMMA PipeStep == IInv /\ [Next]_vars => [Pipe!Next]_(Pipe!pipe)
<1> SUFFICES ASSUME IInv, [Next]_vars
             PROVE  Pipe!Next \/ UNCHANGED Pipe!pipe
    OBVIOUS
<1>1. CASE PushPublish
    <2>1. Pipe!Send(pmsg) /\ pmsg \in Messages
        BY <1>1, PipePublish DEF IInv, TypeOK
    <2>2. QED
        BY <2>1 DEF Pipe!Next
<1>2. CASE PopAdvance
    BY <1>2, PipeAdvance DEF Pipe!Next
<1>3. CASE ~PushPublish /\ ~PopAdvance
    <2>1. UNCHANGED <<sent, rcvd>>
        BY <1>3 DEF Next, Push, Pop, PushBegin, PushHeader, PushData, PopBegin,
                    PopRefuse, PopCopy, ProducerCrash, ConsumerCrash, vars
    <2>2. QED
        BY <2>1, PipeStutter
<1>4. QED
    BY <1>1, <1>2, <1>3

\* A chamber, with all its byte-level steps and crashes, is a pipe.
THEOREM RingImplementsPipe == Spec => PipeSafety
<1>1. QED
    BY PipeInit, PipeStep, Invariance, PTL DEF Spec, PipeSafety, Pipe!Spec

------------------------------------------------------------------------------
(***************************************************************************)
(* The stop: what of "resets it cleanly at stop" the code does keep.       *)
(***************************************************************************)

\* Both counters are reset, and the spoke is between two pops or in one that
\* will find the chamber empty.
Quiet ==
    /\ stopping \in {"reset", "stopped"}
    /\ head = 0 /\ tail = 0
    /\ cpc = "idle" \/ (cpc = "tail" /\ chead = 0)

HeadReset == stopping # "no" => head = 0

\* Once the service stops nobody pushes any more, so its own counter stays 0.
THEOREM HeadStaysReset == StopSpec => []HeadReset
<1>1. StopInit => HeadReset
    BY DEF StopInit, HeadReset
<1>2. HeadReset /\ [StopNext]_stopVars => HeadReset'
    <2> SUFFICES ASSUME HeadReset, [StopNext]_stopVars PROVE HeadReset'
        OBVIOUS
    <2>1. CASE ServicePushes
        BY <2>1 DEF ServicePushes, HeadReset
    <2>2. CASE ResetHead \/ ResetTail
        BY <2>2 DEF ResetHead, ResetTail, HeadReset
    <2>3. CASE UNCHANGED <<head, stopping>>
        BY <2>3 DEF HeadReset
    <2>4. CASE SpokeEnds
        BY <2>4 DEF SpokeEnds, vars, HeadReset
    <2>5. CASE SpokePops \/ UNCHANGED stopVars
        BY <2>3, <2>5 DEF SpokePops, LoadHead, LoadTail, ReadFrame, StoreTail, SpokeKeeps,
                      stopVars, vars
    <2>6. QED
        BY <2>1, <2>2, <2>4, <2>5 DEF StopNext
<1>3. QED
    BY <1>1, <1>2, PTL DEF StopSpec

\* A stop that meets the spoke between two pops leaves the chamber clean for
\* good, however often the spoke looks into it before it is terminated: what
\* dirties the next service's chamber is one pop under way at the reset.
THEOREM CleanStaysClean == StopSpec => [][Quiet => Quiet']_stopVars
<1>1. [StopNext]_stopVars => [Quiet => Quiet']_stopVars
    <2> SUFFICES ASSUME StopNext, Quiet PROVE Quiet'
        BY DEF Quiet, stopVars, vars
    <2>1. ~ServicePushes /\ ~ResetHead /\ ~ResetTail
        BY DEF Quiet, ServicePushes, ResetHead, ResetTail
    <2>2. CASE SpokeEnds
        BY <2>2 DEF Quiet, SpokeEnds, vars
    <2>3. CASE LoadHead
        BY <2>3 DEF Quiet, LoadHead, SpokeKeeps
    <2>4. CASE LoadTail
        BY <2>4 DEF Quiet, LoadTail, SpokeKeeps
    <2>5. ~ReadFrame /\ ~StoreTail
        BY DEF Quiet, ReadFrame, StoreTail
    <2>6. QED
        BY <2>1, <2>2, <2>3, <2>4, <2>5 DEF StopNext, SpokePops
<1>2. QED
    BY <1>1, PTL DEF StopSpec

------------------------------------------------------------------------------
(***************************************************************************)
(* The bridge: two chambers, each taken for the pipe it implements.        *)
(***************************************************************************)

\* Nothing is under way, or was taken, that has not been dispatched.
Dispatched ==
    /\ Below(tx, dispatched + 1)
    /\ Below(rx, dispatched + 1)
    /\ held <= dispatched
    /\ \A t \in Turns : turn[t].got <= dispatched

BridgeInv == BridgeTypeOK /\ EchoesInOrder /\ EchoOnce /\ Dispatched

------------------------------------------------------------------------------
\* Appending a number greater than all before it.
LEMMA AppendInOrder ==
    ASSUME NEW s \in Seq(Nat), NEW n \in Nat, Below(s, n)
    PROVE  /\ Append(s, n) \in Seq(Nat)
           /\ Numbered(s) => Numbered(Append(s, n))
           /\ \A m \in Nat : n < m => Below(Append(s, n), m)
           /\ \A m \in Nat : m < n /\ Above(s, m) => Above(Append(s, n), m)
           /\ \A r \in Seq(Nat) :
                /\ Before(r, s) /\ Below(r, n) => Before(r, Append(s, n))
                /\ Before(s, r) /\ Above(r, n) => Before(Append(s, n), r)
<1>1. /\ Append(s, n) \in Seq(Nat)
      /\ DOMAIN s = 1 .. Len(s) /\ Len(s) \in Nat
      /\ DOMAIN Append(s, n) = 1 .. Len(s) + 1
      /\ \A i \in 1 .. Len(s) : Append(s, n)[i] = s[i] /\ s[i] \in Nat
      /\ Append(s, n)[Len(s) + 1] = n
  OBVIOUS
<1> DEFINE a == Append(s, n)
<1> HIDE DEF a
<1>2. \A i \in 1 .. Len(s) : s[i] < n
  BY <1>1 DEF Below
<1>3. \A i \in 1 .. Len(s) + 1 : i \in 1 .. Len(s) \/ i = Len(s) + 1
  BY <1>1
<1>4. Numbered(s) => Numbered(a)
  BY <1>1, <1>2, <1>3 DEF Numbered, a
<1>5. ASSUME NEW m \in Nat, n < m PROVE Below(a, m)
  BY <1>1, <1>2, <1>3, <1>5 DEF Below, a
<1>6. ASSUME NEW m \in Nat, m < n, Above(s, m) PROVE Above(a, m)
  BY <1>1, <1>3, <1>6 DEF Above, a
<1>7. ASSUME NEW r \in Seq(Nat), Before(r, s), Below(r, n) PROVE Before(r, a)
  BY <1>1, <1>3, <1>7 DEF Before, Below, a
<1>8. ASSUME NEW r \in Seq(Nat), Before(s, r), Above(r, n) PROVE Before(a, r)
  BY <1>1, <1>3, <1>8 DEF Before, Above, a
<1> QED
  BY <1>1, <1>4, <1>5, <1>6, <1>7, <1>8 DEF a

\* Taking the first off a sequence.
LEMMA TailInOrder ==
    ASSUME NEW s \in Seq(Nat), s # <<>>
    PROVE  /\ Tail(s) \in Seq(Nat) /\ Head(s) \in Nat
           /\ Numbered(s) => Numbered(Tail(s)) /\ Above(Tail(s), Head(s))
           /\ \A m \in Nat : Below(s, m) => Below(Tail(s), m) /\ Head(s) < m
           /\ \A m \in Nat : Above(s, m) => Above(Tail(s), m) /\ m < Head(s)
           /\ \A r \in Seq(Nat) :
                /\ Before(r, s) => Before(r, Tail(s)) /\ Below(r, Head(s))
                /\ Before(s, r) => Before(Tail(s), r) /\ Above(r, Head(s))
<1>1. /\ Len(s) \in Nat \ {0} /\ DOMAIN s = 1 .. Len(s)
      /\ Tail(s) \in Seq(Nat) /\ Len(Tail(s)) = Len(s) - 1
      /\ \A i \in 1 .. Len(s) - 1 : Tail(s)[i] = s[i + 1]
      /\ Head(s) = s[1] /\ s[1] \in Nat
  OBVIOUS
<1>2. DOMAIN Tail(s) = 1 .. Len(s) - 1
  BY <1>1
<1> DEFINE u == Tail(s)
           h == Head(s)
<1>3. /\ DOMAIN s = 1 .. Len(s) /\ Len(s) \in Nat \ {0}
      /\ DOMAIN u = 1 .. Len(s) - 1
      /\ \A i \in 1 .. Len(s) - 1 : u[i] = s[i + 1] /\ i + 1 \in 1 .. Len(s)
      /\ h = s[1] /\ 1 \in 1 .. Len(s)
  BY <1>1, <1>2
<1> HIDE DEF u, h
<1>4. ASSUME Numbered(s) PROVE Numbered(u) /\ Above(u, h)
  <2>1. \A i, j \in 1 .. Len(s) : i < j => s[i] < s[j]
    BY <1>3, <1>4 DEF Numbered
  <2>2. ASSUME NEW i \in 1 .. Len(s) - 1, NEW j \in 1 .. Len(s) - 1, i < j
        PROVE  u[i] < u[j]
    <3>1. i + 1 \in 1 .. Len(s) /\ j + 1 \in 1 .. Len(s) /\ i + 1 < j + 1
      BY <1>3, <2>2
    <3> QED
      BY <1>3, <2>1, <3>1
  <2>3. ASSUME NEW i \in 1 .. Len(s) - 1 PROVE h < u[i]
    <3>1. i + 1 \in 1 .. Len(s) /\ 1 < i + 1
      BY <1>3
    <3> QED
      BY <1>3, <2>1, <3>1
  <2>4. Numbered(u)
    BY <1>3, <2>2 DEF Numbered
  <2>5. Above(u, h)
    BY <1>3, <2>3 DEF Above
  <2> QED
    BY <2>4, <2>5
<1>5. ASSUME NEW m \in Nat, Below(s, m) PROVE Below(u, m) /\ h < m
  BY <1>3, <1>5 DEF Below
<1>6. ASSUME NEW m \in Nat, Above(s, m) PROVE Above(u, m) /\ m < h
  BY <1>3, <1>6 DEF Above
<1>7. ASSUME NEW r \in Seq(Nat), Before(r, s) PROVE Before(r, u) /\ Below(r, h)
  BY <1>3, <1>7 DEF Before, Below
<1>8. ASSUME NEW r \in Seq(Nat), Before(s, r) PROVE Before(u, r) /\ Above(r, h)
  BY <1>3, <1>8 DEF Before, Above
<1> QED
  BY <1>1, <1>4, <1>5, <1>6, <1>7, <1>8 DEF u, h

LEMMA BelowWeaker ==
    ASSUME NEW s \in Seq(Nat), NEW m \in Nat, NEW n \in Nat, m <= n, Below(s, m)
    PROVE  Below(s, n)
BY DEF Below

LEMMA AboveWeaker ==
    ASSUME NEW s \in Seq(Nat), NEW m \in Nat, NEW n \in Nat, m <= n, Above(s, n)
    PROVE  Above(s, m)
<1>1. \A i \in DOMAIN s : s[i] \in Nat /\ n < s[i]
  BY DEF Above
<1> QED
  BY <1>1 DEF Above

\* In what order an empty chamber stands.
LEMMA EmptyInOrder ==
    /\ Numbered(<<>>)
    /\ \A n \in Nat : Below(<<>>, n) /\ Above(<<>>, n)
    /\ \A s \in Seq(Nat) : Before(<<>>, s) /\ Before(s, <<>>)
BY DEF Numbered, Below, Above, Before

------------------------------------------------------------------------------
LEMMA BridgeInitInv == BridgeInit => BridgeInv
<1> SUFFICES ASSUME BridgeInit PROVE BridgeInv
  OBVIOUS
<1> USE DEF BridgeInit, Idle
<1>1. BridgeTypeOK
  BY DEF BridgeTypeOK
<1>2. EchoesInOrder
  <2>1. \A t \in Turns : turn[t].got = 0
    OBVIOUS
  <2>2. <<>> \in Seq(Nat) /\ 0 \in Nat
    OBVIOUS
  <2>3. Numbered(<<>>) /\ Before(<<>>, <<>>) /\ Above(<<>>, 0)
    BY <2>2, EmptyInOrder
  <2>4. Numbered(rx) /\ Numbered(tx) /\ Before(rx, tx) /\ Above(rx, 0) /\ Above(tx, 0)
    BY <2>3
  <2> QED
    BY <2>1, <2>4 DEF EchoesInOrder
<1>3. EchoOnce
  <2>1. dispatched = 0
    OBVIOUS
  <2>2. \A t \in Turns : turn[t].got = 0
    OBVIOUS
  <2> HIDE DEF BridgeInit
  <2>3. \A t \in Turns : turn[t].got <= dispatched
    <3>1. 0 <= 0
      OBVIOUS
    <3> QED
      BY <2>1, <2>2, <3>1, Zenon
  <2> QED
    BY <2>2, <2>3 DEF EchoOnce
<1>4. Dispatched
  BY EmptyInOrder DEF Dispatched
<1> QED
  BY <1>1, <1>2, <1>3, <1>4 DEF BridgeInv

\* What the actions find, in the form the steps below use it.
LEMMA Found ==
    ASSUME BridgeInv
    PROVE  /\ tx \in Seq(Nat) /\ rx \in Seq(Nat) /\ held \in Nat
           /\ dispatched \in Nat /\ dispatched + 1 \in Nat
           /\ \A t \in Turns : turn[t].got \in Nat
           /\ EchoesInOrder /\ EchoOnce /\ Dispatched
BY DEF BridgeInv, BridgeTypeOK

\* An action that changes neither what is under way nor what was taken.
LEMMA Untouched ==
    ASSUME BridgeInv, BridgeTypeOK', UNCHANGED <<tx, rx, held, dispatched>>,
           \A t \in Turns : turn'[t].got = turn[t].got
    PROVE  BridgeInv'
<1>1. EchoesInOrder'
  BY DEF BridgeInv, EchoesInOrder
<1>2. EchoOnce'
  BY DEF BridgeInv, EchoOnce
<1>3. Dispatched'
  BY DEF BridgeInv, Dispatched
<1> QED
  BY <1>1, <1>2, <1>3 DEF BridgeInv

LEMMA DispatchKeeps ==
    ASSUME BridgeInv, NEW t \in Turns, Dispatch(t) PROVE BridgeInv'
<1> DEFINE n == dispatched + 1
<1>1. /\ dispatched' = n /\ rx' = rx /\ held' = held /\ taken' = taken
      /\ seen' = seen /\ up' = up /\ outages' = outages
      /\ tx' = tx \/ tx' = Append(tx, n)
      /\ turn' = [turn EXCEPT ![t] = [pc |-> "poll", own |-> n, got |-> 0]]
  BY DEF Dispatch, Tx!Send
<1>2. /\ n \in Nat /\ n + 1 \in Nat /\ n < n + 1 /\ n <= n + 1 /\ 0 < n
      /\ Below(tx, n) /\ Below(rx, n) /\ held < n /\ held <= n
      /\ \A u \in Turns : turn[u].got < n /\ turn[u].got <= n
  BY Found DEF Dispatched
<1> HIDE DEF n
<1>3. tx' \in Seq(Nat) /\ Numbered(tx') /\ Below(tx', n + 1)
  BY <1>1, <1>2, Found, AppendInOrder, BelowWeaker DEF EchoesInOrder
<1>4. Before(rx, tx') /\ (held # 0 => Above(tx', held))
  <2>1. /\ tx \in Seq(Nat) /\ rx \in Seq(Nat) /\ held \in Nat /\ Before(rx, tx)
        /\ held # 0 => Above(tx, held)
    BY Found DEF EchoesInOrder
  <2>2. CASE tx' = tx
    BY <2>1, <2>2
  <2>3. CASE tx' = Append(tx, n)
    <3>1. Before(rx, Append(tx, n))
      BY <1>2, <2>1, AppendInOrder
    <3>2. held # 0 => Above(Append(tx, n), held)
      BY <1>2, <2>1, AppendInOrder
    <3> QED
      BY <2>3, <3>1, <3>2
  <2> QED
    BY <1>1, <2>2, <2>3
<1>5. \A u \in Turns : Above(tx', turn[u].got)
  BY <1>1, <1>2, Found, AppendInOrder DEF EchoesInOrder
<1>6. \A u \in Turns : turn'[u].got = turn[u].got \/ (u = t /\ turn'[u].got = 0)
  BY <1>1 DEF BridgeInv, BridgeTypeOK
<1>7. \A s \in Seq(Nat) : Above(s, turn[t].got) => Above(s, 0)
  BY Found, AboveWeaker
<1>8. BridgeTypeOK'
  BY <1>1, <1>2, <1>3 DEF BridgeInv, BridgeTypeOK
<1>9. \A u \in Turns : /\ Above(rx, turn'[u].got)
                       /\ Above(tx', turn'[u].got)
                       /\ held # 0 => turn'[u].got < held
  <2>1. \A u \in Turns : /\ Above(rx, turn[u].got)
                         /\ Above(tx', turn[u].got)
                         /\ held # 0 => turn[u].got < held
    BY <1>5, Found DEF EchoesInOrder
  <2>2. Above(rx, 0) /\ Above(tx', 0) /\ (held # 0 => 0 < held)
    BY <1>3, <1>7, <2>1, Found
  <2> QED
    BY <1>6, <2>1, <2>2
<1>10. EchoesInOrder'
  BY <1>1, <1>3, <1>4, <1>9, Found DEF EchoesInOrder
<1>11. \A u \in Turns : turn'[u].got <= n
  BY <1>2, <1>6
<1>12. EchoOnce'
  BY <1>1, <1>6, <1>11, Found DEF EchoOnce
<1>13. Below(rx, n + 1)
  BY <1>2, Found, BelowWeaker
<1>14. Dispatched'
  BY <1>1, <1>2, <1>3, <1>11, <1>13 DEF Dispatched
<1> QED
  BY <1>8, <1>10, <1>12, <1>14 DEF BridgeInv

LEMMA TakeKeeps ==
    ASSUME BridgeInv, NEW t \in Turns, Take(t) PROVE BridgeInv'
<1> DEFINE n == Head(rx)
<1>1. /\ rx # <<>> /\ rx' = Tail(rx) /\ taken' = Append(taken, Bytes(n))
      /\ tx' = tx /\ held' = held /\ seen' = seen /\ dispatched' = dispatched
      /\ up' = up /\ outages' = outages
      /\ turn' = [turn EXCEPT ![t].pc = "done", ![t].got = n]
  BY DEF Take, Rx!Receive
<1>2. /\ n \in Nat /\ rx' \in Seq(Nat) /\ Numbered(rx') /\ Above(rx', n)
      /\ Below(rx', dispatched + 1) /\ n < dispatched + 1
  BY <1>1, Found, TailInOrder DEF EchoesInOrder, Dispatched
<1>3. /\ Before(rx', tx) /\ Above(tx, n)
      /\ held # 0 => Below(rx', held) /\ n < held
  BY <1>1, Found, TailInOrder DEF EchoesInOrder
<1>4. \A u \in Turns : Above(rx', turn[u].got) /\ turn[u].got < n
  BY <1>1, Found, TailInOrder DEF EchoesInOrder
<1> HIDE DEF n
<1>5. \A u \in Turns : turn'[u].got = IF u = t THEN n ELSE turn[u].got
  BY <1>1 DEF BridgeInv, BridgeTypeOK
<1>6. BridgeTypeOK'
  <2>1. Bytes(n) \in [{0} -> Nat]
    BY <1>2 DEF Bytes
  <2>2. taken' \in Seq([{0} -> Nat])
    BY <1>1, <2>1 DEF BridgeInv, BridgeTypeOK
  <2> QED
    BY <1>1, <1>2, <2>2 DEF BridgeInv, BridgeTypeOK
<1>7. \A u \in Turns : /\ Above(rx', turn'[u].got)
                       /\ Above(tx, turn'[u].got)
                       /\ held # 0 => turn'[u].got < held
  BY <1>2, <1>3, <1>4, <1>5, Found DEF EchoesInOrder
<1>8. EchoesInOrder'
  BY <1>1, <1>2, <1>3, <1>7, Found DEF EchoesInOrder
<1>9. \A u \in Turns : turn'[u].got <= dispatched
  <2>1. n <= dispatched /\ \A u \in Turns : turn[u].got <= dispatched
    BY <1>2, Found DEF Dispatched
  <2> QED
    BY <1>5, <2>1
<1>10. ASSUME NEW u \in Turns, NEW v \in Turns \ {u}, turn'[u].got = turn'[v].got
       PROVE  turn'[u].got = 0
  <2>1. u # t /\ v # t
    <3>1. \A w \in Turns : turn[w].got \in Nat /\ turn[w].got # n
      BY <1>2, <1>4, Found
    <3>2. CASE u = t
      BY <1>5, <1>10, <3>1, <3>2
    <3>3. CASE v = t
      BY <1>5, <1>10, <3>1, <3>3
    <3> QED
      BY <3>2, <3>3
  <2> QED
    BY <1>5, <1>10, <2>1, Found DEF EchoOnce
<1>11. EchoOnce'
  BY <1>1, <1>9, <1>10 DEF EchoOnce
<1>12. Dispatched'
  BY <1>1, <1>2, <1>9, Found DEF Dispatched
<1> QED
  BY <1>6, <1>8, <1>11, <1>12 DEF BridgeInv

LEMMA SpokePopKeeps ==
    ASSUME BridgeInv, SpokePop PROVE BridgeInv'
<1> DEFINE n == Head(tx)
<1>1. /\ tx # <<>> /\ tx' = Tail(tx) /\ seen' = Append(seen, Bytes(n))
      /\ held' = n /\ rx' = rx /\ taken' = taken /\ dispatched' = dispatched
      /\ turn' = turn /\ up' = up /\ outages' = outages
  BY DEF SpokePop, Tx!Receive
<1>2. /\ n \in Nat /\ tx' \in Seq(Nat) /\ Numbered(tx') /\ Above(tx', n)
      /\ Below(tx', dispatched + 1) /\ n < dispatched + 1 /\ n <= dispatched
  BY <1>1, Found, TailInOrder DEF EchoesInOrder, Dispatched
<1>3. Before(rx, tx') /\ Below(rx, n)
  BY <1>1, Found, TailInOrder DEF EchoesInOrder
<1>4. \A u \in Turns : Above(tx', turn[u].got) /\ turn[u].got < n
  BY <1>1, Found, TailInOrder DEF EchoesInOrder
<1> HIDE DEF n
<1>5. BridgeTypeOK'
  <2>1. Bytes(n) \in [{0} -> Nat]
    BY <1>2 DEF Bytes
  <2>2. seen' \in Seq([{0} -> Nat])
    BY <1>1, <2>1 DEF BridgeInv, BridgeTypeOK
  <2> QED
    BY <1>1, <1>2, <2>2 DEF BridgeInv, BridgeTypeOK
<1>6. EchoesInOrder'
  BY <1>1, <1>2, <1>3, <1>4, Found DEF EchoesInOrder
<1>7. EchoOnce'
  BY <1>1, Found DEF EchoOnce
<1>8. Dispatched'
  BY <1>1, <1>2, Found DEF Dispatched
<1> QED
  BY <1>5, <1>6, <1>7, <1>8 DEF BridgeInv

LEMMA SpokePushKeepsInv ==
    ASSUME BridgeInv, SpokePush PROVE BridgeInv'
<1>1. /\ held # 0 /\ held' = 0
      /\ rx' = rx \/ rx' = Append(rx, held)
      /\ tx' = tx /\ seen' = seen /\ taken' = taken /\ dispatched' = dispatched
      /\ turn' = turn /\ up' = up /\ outages' = outages
  BY DEF SpokePush, Rx!Send
<1>2. /\ Below(rx, held) /\ Above(tx, held) /\ held < dispatched + 1
      /\ \A u \in Turns : turn[u].got < held
  BY <1>1, Found DEF EchoesInOrder, Dispatched
<1>3. rx' \in Seq(Nat) /\ Numbered(rx') /\ Before(rx', tx)
  BY <1>1, <1>2, Found, AppendInOrder DEF EchoesInOrder
<1>4. Below(rx', dispatched + 1)
  BY <1>1, <1>2, Found, AppendInOrder DEF Dispatched
<1>5. \A u \in Turns : Above(rx', turn[u].got)
  BY <1>1, <1>2, Found, AppendInOrder DEF EchoesInOrder
<1>6. BridgeTypeOK'
  BY <1>1, <1>3 DEF BridgeInv, BridgeTypeOK
<1>7. EchoesInOrder'
  BY <1>1, <1>3, <1>5, Found DEF EchoesInOrder
<1>8. EchoOnce'
  BY <1>1, Found DEF EchoOnce
<1>9. Dispatched'
  BY <1>1, <1>4, Found DEF Dispatched
<1> QED
  BY <1>6, <1>7, <1>8, <1>9 DEF BridgeInv

\* An outage leaves each chamber as it is or empty, and the spoke empty-handed.
LEMMA OutageKeeps ==
    ASSUME BridgeInv, BridgeTypeOK', held' = 0, dispatched' = dispatched,
           tx' = tx \/ tx' = <<>>, rx' = rx \/ rx' = <<>>,
           \A t \in Turns : turn'[t].got = turn[t].got
    PROVE  BridgeInv'
<1>1. /\ Numbered(rx') /\ Numbered(tx') /\ Before(rx', tx')
      /\ Below(rx', dispatched + 1) /\ Below(tx', dispatched + 1)
  <2>1. /\ Numbered(rx) /\ Numbered(tx) /\ Before(rx, tx)
        /\ Below(rx, dispatched + 1) /\ Below(tx, dispatched + 1)
        /\ tx \in Seq(Nat) /\ rx \in Seq(Nat) /\ dispatched + 1 \in Nat
    BY Found DEF EchoesInOrder, Dispatched
  <2>2. <<>> \in Seq(Nat)
    OBVIOUS
  <2>3. Below(<<>>, dispatched + 1) /\ Numbered(<<>>)
    BY <2>1, EmptyInOrder
  <2>4. Before(rx, <<>>) /\ Before(<<>>, tx) /\ Before(<<>>, <<>>)
    BY <2>1, <2>2, EmptyInOrder
  <2> QED
    BY <2>1, <2>3, <2>4
<1>2. \A t \in Turns : Above(rx', turn[t].got) /\ Above(tx', turn[t].got)
  BY Found, EmptyInOrder DEF EchoesInOrder
<1>3. EchoesInOrder'
  BY <1>1, <1>2 DEF EchoesInOrder
<1>4. EchoOnce'
  BY Found DEF EchoOnce
<1>5. Dispatched'
  BY <1>1, Found DEF Dispatched
<1> QED
  BY <1>3, <1>4, <1>5 DEF BridgeInv

LEMMA BridgeNextKeeps == BridgeInv /\ [BridgeNext]_bridge_vars => BridgeInv'
<1> SUFFICES ASSUME BridgeInv, [BridgeNext]_bridge_vars PROVE BridgeInv'
  OBVIOUS
<1>1. ASSUME NEW t \in Turns, Dispatch(t) PROVE BridgeInv'
  BY <1>1, DispatchKeeps
<1>2. ASSUME NEW t \in Turns, Take(t) PROVE BridgeInv'
  BY <1>2, TakeKeeps
<1>3. ASSUME NEW t \in Turns, NEW pc \in {"wait", "done"},
             turn' = [turn EXCEPT ![t].pc = pc],
             UNCHANGED <<chambers, held, up, dispatched, outages>>
      PROVE  BridgeInv'
  <2>1. BridgeTypeOK'
    BY <1>3 DEF BridgeInv, BridgeTypeOK, chambers
  <2>2. \A u \in Turns : turn'[u].got = turn[u].got
    BY <1>3 DEF BridgeInv, BridgeTypeOK
  <2> QED
    BY <1>3, <2>1, <2>2, Untouched DEF chambers
<1>4. ASSUME NEW t \in Turns, Sleep(t) PROVE BridgeInv'
  BY <1>3, <1>4 DEF Sleep
<1>5. ASSUME NEW t \in Turns, TimeOut(t) PROVE BridgeInv'
  BY <1>3, <1>5 DEF TimeOut
<1>6. CASE SpokeDies
  <2>1. BridgeTypeOK'
    <3>1. /\ UNCHANGED <<tx, rx, seen, taken, turn, dispatched>>
          /\ held' = 0 /\ up' = FALSE /\ outages' = outages + 1
      BY <1>6 DEF SpokeDies, chambers
    <3>2. up' \in BOOLEAN
      BY <3>1
    <3>3. held' \in Nat /\ outages' \in Nat
      BY <3>1 DEF BridgeInv, BridgeTypeOK
    <3> QED
      BY <3>1, <3>2, <3>3, Zenon DEF BridgeInv, BridgeTypeOK
  <2> QED
    BY <1>6, <2>1, OutageKeeps DEF SpokeDies, chambers
<1>7. ASSUME NEW orderly \in BOOLEAN, Restart(orderly) PROVE BridgeInv'
  <2>1. /\ turn' \in [Turns -> [pc : {"idle", "poll", "wait", "done", "cut"},
                                own : Nat, got : Nat]]
        /\ \A t \in Turns : turn'[t].got = turn[t].got
    BY <1>7 DEF BridgeInv, BridgeTypeOK, Restart
  <2>2. /\ held' = 0 /\ dispatched' = dispatched
        /\ seen' = seen /\ taken' = taken
        /\ up' \in BOOLEAN /\ outages' = outages + 1
        /\ tx' = tx \/ tx' = <<>>
        /\ rx' = rx \/ rx' = <<>>
    BY <1>7 DEF Restart
  <2>3. BridgeTypeOK'
    <3>1. tx' \in Seq(Nat) /\ rx' \in Seq(Nat)
      <4>1. tx \in Seq(Nat) /\ rx \in Seq(Nat) /\ <<>> \in Seq(Nat)
        BY Found
      <4> QED
        BY <2>2, <4>1
    <3>2. held' \in Nat /\ outages' \in Nat
      BY <2>2 DEF BridgeInv, BridgeTypeOK
    <3> QED
      BY <2>1, <2>2, <3>1, <3>2, Zenon DEF BridgeInv, BridgeTypeOK
  <2> QED
    BY <2>1, <2>2, <2>3, OutageKeeps
<1>8. CASE UNCHANGED bridge_vars
  <2>1. BridgeTypeOK'
    BY <1>8 DEF BridgeInv, BridgeTypeOK, bridge_vars, chambers
  <2> QED
    BY <1>8, <2>1, Untouched DEF bridge_vars, chambers
<1> QED
  BY <1>1, <1>2, <1>4, <1>5, <1>6, <1>7, <1>8, SpokePopKeeps, SpokePushKeepsInv
     DEF BridgeNext, Loop, Serve

------------------------------------------------------------------------------
\* The invariant the theorems follow from.
THEOREM BridgeInvariance == BridgeSpec => []BridgeInv
BY BridgeInitInv, BridgeNextKeeps, PTL DEF BridgeSpec

\* The bridge keeps its types, for any number of turns and outages.
THEOREM BridgeTypeCorrect == BridgeSpec => []BridgeTypeOK
<1>1. BridgeInv => BridgeTypeOK
  BY DEF BridgeInv
<1> QED
  BY <1>1, BridgeInvariance, PTL

\* What is under way stays in the order of dispatch, and what was taken lies
\* behind all of it.
THEOREM OrderIsKept == BridgeSpec => []EchoesInOrder
<1>1. BridgeInv => EchoesInOrder
  BY DEF BridgeInv
<1> QED
  BY <1>1, BridgeInvariance, PTL

\* No echo is taken twice, whatever dies and restarts.
THEOREM NoEchoTwice == BridgeSpec => []EchoOnce
<1>1. BridgeInv => EchoOnce
  BY DEF BridgeInv
<1> QED
  BY <1>1, BridgeInvariance, PTL
==============================================================================
