---------------------------- MODULE ForesightBridge ----------------------------
(***************************************************************************)
(* The bridge between the chat turns of the service (lina_service.py) and  *)
(* the spoke, the Triton process (triton/src/main.rs): two chambers, each  *)
(* taken for the pipe it implements.  A turn pushes its message into tx,   *)
(* then polls rx within a window while the voice is answering; the spoke   *)
(* pops tx, processes the message (it echoes it) and pushes the result.    *)
(*                                                                         *)
(* Messages carry nothing that says whose they are; here each is the       *)
(* number of its dispatch.  seen and taken are the pipes' histories.       *)
(***************************************************************************)
EXTENDS Integers, Sequences, FiniteSets

CONSTANTS
    Turns,       \* the chat turns of one behaviour
    Room,        \* messages a chamber has room for
    MaxOutages   \* bound: deaths of the spoke and restarts of the service

ASSUME BridgeAssumption ==
    /\ Room \in Nat \ {0}
    /\ MaxOutages \in Nat

VARIABLES
    tx, rx,       \* what stands in the two chambers
    seen,         \* what the spoke has popped
    taken,        \* what turns have popped
    turn,         \* own is a turn's message, got the one it took; 0 is none
    held,         \* the message the spoke is processing, 0 for none
    up,           \* the spoke runs
    dispatched,   \* messages dispatched so far
    outages

chambers == <<tx, rx, seen, taken>>
bridge_vars == <<chambers, turn, held, up, dispatched, outages>>

------------------------------------------------------------------------------
Bytes(n) == [byte \in {0} |-> n]
Small(n) == TRUE

Tx == INSTANCE MessagePipe WITH
    queue <- tx, got <- seen, Messages <- Nat, Payload <- Bytes, Fits <- Small
Rx == INSTANCE MessagePipe WITH
    queue <- rx, got <- taken, Messages <- Nat, Payload <- Bytes, Fits <- Small

Idle == [pc |-> "idle", own |-> 0, got |-> 0]

\* From the push of its message to its first look into rx a turn does not
\* yield, so no other turn moves in between.
Yielded == \A t \in Turns : turn[t].pc # "poll"

BridgeInit ==
    /\ tx = <<>> /\ rx = <<>> /\ seen = <<>> /\ taken = <<>>
    /\ turn = [t \in Turns |-> Idle]
    /\ held = 0
    /\ up \in BOOLEAN
    /\ dispatched = 0 /\ outages = 0

\* A chamber without room refuses the message; the turn goes on without.
Dispatch(t) ==
    LET n == dispatched + 1 IN
    /\ turn[t].pc = "idle" /\ Yielded
    /\ \/ Len(tx) < Room /\ Tx!Send(n)
       \/ Len(tx) >= Room /\ UNCHANGED <<tx, seen>>
    /\ turn' = [turn EXCEPT ![t] = [pc |-> "poll", own |-> n, got |-> 0]]
    /\ dispatched' = n
    /\ UNCHANGED <<rx, taken, held, up, outages>>

\* Mutant: the frame is copied and tail is not advanced.
TakeLeaves(t) ==
    /\ turn[t].pc = "poll" \/ (turn[t].pc = "wait" /\ Yielded)
    /\ rx # <<>>
    /\ taken' = Append(taken, Bytes(Head(rx)))
    /\ turn' = [turn EXCEPT ![t].pc = "done", ![t].got = Head(rx)]
    /\ UNCHANGED <<tx, rx, seen, held, up, dispatched, outages>>

Take(t) ==
    /\ turn[t].pc = "poll" \/ (turn[t].pc = "wait" /\ Yielded)
    /\ Rx!Receive
    /\ turn' = [turn EXCEPT ![t].pc = "done", ![t].got = Head(rx)]
    /\ UNCHANGED <<tx, seen, held, up, dispatched, outages>>

\* Mutant: what pop returns is taken whether or not it is a message (-1 is None).
SleepTakesNone(t) ==
    /\ turn[t].pc = "poll" /\ rx = <<>>
    /\ turn' = [turn EXCEPT ![t].pc = "done", ![t].got = -1]
    /\ UNCHANGED <<chambers, held, up, dispatched, outages>>

\* pop returns None on an empty chamber, and the turn sleeps.
Sleep(t) ==
    /\ turn[t].pc = "poll" /\ rx = <<>>
    /\ turn' = [turn EXCEPT ![t].pc = "wait"]
    /\ UNCHANGED <<chambers, held, up, dispatched, outages>>

\* Mutant: there is no window as long as the spoke is up.
TimeOutIfDown(t) ==
    /\ turn[t].pc = "wait" /\ Yielded
    /\ ~up
    /\ turn' = [turn EXCEPT ![t].pc = "done"]
    /\ UNCHANGED <<chambers, held, up, dispatched, outages>>

\* The window closes; how long it is, with the spoke up or down, is left open.
TimeOut(t) ==
    /\ turn[t].pc = "wait" /\ Yielded
    /\ turn' = [turn EXCEPT ![t].pc = "done"]
    /\ UNCHANGED <<chambers, held, up, dispatched, outages>>

SpokePop ==
    /\ up /\ held = 0
    /\ Tx!Receive
    /\ held' = Head(tx)
    /\ UNCHANGED <<rx, taken, turn, up, dispatched, outages>>

\* Mutant: what was processed is pushed again on the next round.
SpokePushKeeps ==
    /\ up /\ held # 0
    /\ \/ Len(rx) < Room /\ Rx!Send(held)
       \/ Len(rx) >= Room /\ UNCHANGED <<rx, taken>>
    /\ UNCHANGED <<tx, seen, turn, held, up, dispatched, outages>>

\* Mutant: the spoke waits for room in rx.
SpokePushWaits ==
    /\ up /\ held # 0
    /\ Len(rx) < Room /\ Rx!Send(held)
    /\ held' = 0
    /\ UNCHANGED <<tx, seen, turn, up, dispatched, outages>>

\* Without room in rx the result is dropped.
SpokePush ==
    /\ up /\ held # 0
    /\ \/ Len(rx) < Room /\ Rx!Send(held)
       \/ Len(rx) >= Room /\ UNCHANGED <<rx, taken>>
    /\ held' = 0
    /\ UNCHANGED <<tx, seen, turn, up, dispatched, outages>>

\* The spoke dies with what it holds, and nobody starts it again but the
\* service when it starts.
SpokeDies ==
    /\ up
    /\ outages < MaxOutages
    /\ up' = FALSE
    /\ held' = 0
    /\ outages' = outages + 1
    /\ UNCHANGED <<chambers, turn, dispatched>>

\* The service goes down, and its turns with it, and starts anew: after an
\* orderly stop the chambers are reset, after a crash they are mapped as they
\* were.  The spoke may fail to start.
Restart(orderly) ==
    /\ outages < MaxOutages
    /\ turn' = [t \in Turns |->
                  IF turn[t].pc \in {"poll", "wait"}
                  THEN [turn[t] EXCEPT !.pc = "cut"] ELSE turn[t]]
    /\ IF orderly THEN tx' = <<>> /\ rx' = <<>> ELSE UNCHANGED <<tx, rx>>
    /\ held' = 0
    /\ up' \in BOOLEAN
    /\ outages' = outages + 1
    /\ UNCHANGED <<seen, taken, dispatched>>

Loop(t) == Take(t) \/ Sleep(t) \/ TimeOut(t)
Serve == SpokePop \/ SpokePush

BridgeNext ==
    \/ \E t \in Turns : Dispatch(t) \/ Loop(t)
    \/ Serve \/ SpokeDies
    \/ \E orderly \in BOOLEAN : Restart(orderly)

BridgeSpec == BridgeInit /\ [][BridgeNext]_bridge_vars

\* The event loop resumes every turn whose sleep is over, and the spoke polls
\* as long as it runs.
BridgeFairSpec == BridgeSpec /\ WF_bridge_vars(Serve) /\ \A t \in Turns : WF_bridge_vars(Loop(t))

------------------------------------------------------------------------------
Numbered(s) == \A i, j \in DOMAIN s : i < j => s[i] < s[j]
Before(r, s) == \A i \in DOMAIN r, j \in DOMAIN s : r[i] < s[j]
Below(s, n) == \A i \in DOMAIN s : s[i] < n
Above(s, n) == \A i \in DOMAIN s : n < s[i]

\* Types: among them, that a turn that is over ended as the loop over rx ends.
BridgeTypeOK ==
    /\ tx \in Seq(Nat) /\ rx \in Seq(Nat)
    /\ seen \in Seq([{0} -> Nat]) /\ taken \in Seq([{0} -> Nat])
    /\ turn \in [Turns -> [pc : {"idle", "poll", "wait", "done", "cut"},
                           own : Nat, got : Nat]]
    /\ held \in Nat
    /\ up \in BOOLEAN
    /\ dispatched \in Nat /\ outages \in Nat

\* What is under way stands in the order of dispatch, each message in one place
\* only, across deaths of the spoke and restarts of the service, and what a turn
\* has taken lies behind all of it: pop frees a frame before its message is
\* answered, so nothing is answered twice.
EchoesInOrder ==
    /\ Numbered(rx) /\ Numbered(tx) /\ Before(rx, tx)
    /\ held # 0 => Below(rx, held) /\ Above(tx, held)
    /\ \A t \in Turns : /\ Above(rx, turn[t].got)
                        /\ Above(tx, turn[t].got)
                        /\ held # 0 => turn[t].got < held

\* No two turns take the same echo, and none takes what nobody dispatched.
EchoOnce == \A t \in Turns :
    /\ turn[t].got <= dispatched
    /\ \A u \in Turns \ {t} : turn[t].got = turn[u].got => turn[t].got = 0

\* Whatever the spoke does, dead, hung or late, no turn is held up by it: the
\* loop over rx ends for every turn.
EveryTurnEnds == \A t \in Turns :
    turn[t].pc = "poll" ~> turn[t].pc \in {"done", "cut"}

\* A spoke that runs gets to whatever stands in tx, also when rx is full of echoes
\* that nobody came for and nobody comes any more.
InTx(n) == \E i \in DOMAIN tx : tx[i] = n
SpokeKeepsUp == \A n \in 1 .. Cardinality(Turns) : InTx(n) ~> ~InTx(n) \/ ~up

\* What a turn takes for its foresight was computed from its own message.
ForesightIsOwn == \A t \in Turns : turn[t].got \in {0, turn[t].own}
==============================================================================
