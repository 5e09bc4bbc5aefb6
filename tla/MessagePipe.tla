----------------------------- MODULE MessagePipe -----------------------------
(***************************************************************************)
(* What one chamber of the bridge promises to its two ends: a pipe that    *)
(* hands over every message once, in the order it was sent, and unaltered. *)
(* The pipe may refuse to hand over a message without bytes (a zero length *)
(* is how a chamber recognises a corrupt frame), and then hands over       *)
(* nothing behind it either.                                               *)
(***************************************************************************)
EXTENDS Integers, Sequences

CONSTANTS Messages,     \* what a sender may send
          Payload(_),   \* the bytes of a message, as a function on 0..n-1
          Fits(_)       \* whether a message is small enough to be sent

VARIABLES queue,        \* messages sent and not handed over yet
          got           \* payloads handed over, oldest first

pipe == <<queue, got>>

Init == queue = <<>> /\ got = <<>>

Send(m) ==
    /\ Fits(m)
    /\ queue' = Append(queue, m)
    /\ UNCHANGED got

Empty(m) == DOMAIN Payload(m) = {}

Receive ==
    /\ queue # <<>>
    /\ ~Empty(Head(queue))
    /\ got' = Append(got, Payload(Head(queue)))
    /\ queue' = Tail(queue)

Next == Receive \/ \E m \in Messages : Send(m)

Spec == Init /\ [][Next]_pipe

\* A receiver that keeps polling gets what is there to be had.
FairSpec == Spec /\ WF_pipe(Receive)
==============================================================================
