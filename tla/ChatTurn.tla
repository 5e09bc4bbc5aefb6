------------------------------- MODULE ChatTurn -------------------------------
(***************************************************************************)
(* Chat turns from the user's message to the record of hers                 *)
(* (lina/lina_service.py, LINACore._chat and _run_stream_turn), on the      *)
(* voice pool they share.  The words of a turn are told apart by the pass   *)
(* of the tool loop that spoke them.                                        *)
(*                                                                         *)
(* Left to other modules: the bridge that is drained while the voice        *)
(* speaks, the ledger's part of a pass, working memory, encoder feedback.   *)
(*                                                                         *)
(* spoken is history: the passes of which the client has heard words.       *)
(***************************************************************************)
EXTENDS VoicePool

CONSTANTS
    MaxToolPasses,   \* MAX_TOOL_PASSES
    MaxRepeats,      \* as often may the same intents come in a row
    MaxFaults        \* bound: failed statements, and clients that leave

ASSUME TurnAssumption ==
    MaxToolPasses \in Nat \ {0} /\ MaxRepeats \in Nat \ {0} /\ MaxFaults \in Nat

VARIABLES
    turn,      \* the turns, one for each caller of the pool
    archive,   \* the records of her words, by turn
    silent,    \* records that could not be written
    faults,
    spoken

vars == <<pool_vars, turn, archive, silent, faults, spoken>>

At(t, pc) == turn[t].pc = pc
Goto(t, pc) == turn' = [turn EXCEPT ![t].pc = pc]
Over(t, outcome) == turn' = [turn EXCEPT ![t].pc = "done", ![t].outcome = outcome]

Init ==
    /\ PoolInit
    /\ turn = [t \in Calls |-> [pc |-> "idle", stream |-> FALSE, pass |-> 1,
                                repeats |-> 0, judged |-> 0, outcome |-> "none"]]
    /\ archive = [t \in Calls |-> {}] /\ silent = {} /\ faults = 0
    /\ spoken = [t \in Calls |-> {}]

------------------------------------------------------------------------------
\* The user's message is kept and dispatched; the voice is called in a task of
\* its own, while the turn drains the bridge.
Begin(t, stream) ==
    /\ At(t, "idle")
    /\ Ask(t, stream)
    /\ turn' = [turn EXCEPT ![t].pc = "drain", ![t].stream = stream]
    /\ UNCHANGED <<archive, silent, faults, spoken>>

Drained(t) ==
    /\ At(t, "drain")
    /\ Goto(t, "await")
    /\ UNCHANGED <<pool_vars, archive, silent, faults, spoken>>

\* emit_token: while the client is there, it hears what the pass says.
Emit(t) ==
    /\ Speaks(t)
    /\ spoken' = IF At(t, "done") THEN spoken
                 ELSE [spoken EXCEPT ![t] = @ \cup {turn[t].pass}]
    /\ UNCHANGED <<turn, archive, silent, faults>>

Voice(t) ==
    /\ Grant(t) \/ Answers(t) \/ Breaks(t)
    /\ UNCHANGED <<turn, archive, silent, faults, spoken>>

VoiceAnswered(t) ==
    /\ At(t, "await") /\ CallAt(t, "answered")
    /\ Collect(t)
    /\ Goto(t, "judge")
    /\ UNCHANGED <<archive, silent, faults, spoken>>

\* All providers failed, or one in mid-stream.
VoiceFailed(t) ==
    /\ At(t, "await") /\ CallAt(t, "failed")
    /\ Collect(t)
    /\ Goto(t, "raise")
    /\ UNCHANGED <<archive, silent, faults, spoken>>

\* Mutant: only the first response is judged.
JudgeFirst(t) ==
    /\ At(t, "judge")
    /\ turn' = [turn EXCEPT ![t].judged = IF @ = 0 THEN turn[t].pass ELSE @,
                            ![t].pc = "log"]
    /\ UNCHANGED <<pool_vars, archive, silent, faults, spoken>>

\* The polytope judges the response.  Without intents, or when none of them was
\* carried out (withheld, or awaiting counsel), the turn is hers to end.
JudgeLast(t) ==
    /\ At(t, "judge")
    /\ turn' = [turn EXCEPT ![t].judged = turn[t].pass, ![t].pc = "log"]
    /\ UNCHANGED <<pool_vars, archive, silent, faults, spoken>>

Repeats(t, same) == IF same THEN turn[t].repeats + 1 ELSE 1

\* Mutant: the passes are not counted.
ContinueUncounted(t, same) ==
    /\ At(t, "judge")
    /\ Repeats(t, same) < MaxRepeats
    /\ Ask(t, turn[t].stream)
    /\ turn' = [turn EXCEPT ![t].judged = turn[t].pass, ![t].pc = "await",
                            ![t].repeats = Repeats(t, same)]
    /\ UNCHANGED <<archive, silent, faults, spoken>>

\* Something was carried out: the fruit returns to her and she speaks again.
Continue(t, same) ==
    /\ At(t, "judge")
    /\ same => turn[t].pass > 1
    /\ turn[t].pass < MaxToolPasses /\ Repeats(t, same) < MaxRepeats
    /\ Ask(t, turn[t].stream)
    /\ turn' = [turn EXCEPT ![t].judged = turn[t].pass, ![t].pc = "await",
                            ![t].pass = @ + 1, ![t].repeats = Repeats(t, same)]
    /\ UNCHANGED <<archive, silent, faults, spoken>>

\* The fault breakers: the ceiling, and the same intents too often in a row.
BreakOff(t, same) ==
    /\ At(t, "judge")
    /\ same => turn[t].pass > 1
    /\ turn[t].pass >= MaxToolPasses \/ Repeats(t, same) >= MaxRepeats
    /\ turn' = [turn EXCEPT ![t].judged = turn[t].pass, ![t].pc = "log"]
    /\ UNCHANGED <<pool_vars, archive, silent, faults, spoken>>

\* The evaluation is inserted; then the response is appended to working memory.
Log(t) ==
    /\ At(t, "log")
    /\ Goto(t, "record")
    /\ UNCHANGED <<pool_vars, archive, silent, faults, spoken>>

\* _archive_turn, with the id of the evaluation that weighed the words.
Record(t) ==
    /\ At(t, "record")
    /\ archive' = [archive EXCEPT ![t] =
                     @ \cup {[passes |-> {turn[t].pass}, weighed |-> turn[t].judged]}]
    /\ Goto(t, "close")
    /\ UNCHANGED <<pool_vars, silent, faults, spoken>>

\* Encoder feedback and the evaluation for the next turn.
Close(t) ==
    /\ At(t, "close")
    /\ Over(t, "finished")
    /\ UNCHANGED <<pool_vars, archive, silent, faults, spoken>>

\* Mutant: only the words of the pass that failed are kept.
InterruptedPass(t) ==
    /\ At(t, "raise")
    /\ archive' = [archive EXCEPT ![t] = @ \cup
                     {[passes |-> spoken[t] \cap {turn[t].pass}, weighed |-> 0]}]
    /\ Over(t, "error")
    /\ UNCHANGED <<pool_vars, silent, faults, spoken>>

\* The turn raised: what a stream has spoken is recorded as interrupted.
Interrupted(t) ==
    /\ At(t, "raise")
    /\ archive' = IF spoken[t] = {} THEN archive
                  ELSE [archive EXCEPT ![t] =
                          @ \cup {[passes |-> spoken[t], weighed |-> 0]}]
    /\ Over(t, "error")
    /\ UNCHANGED <<pool_vars, silent, faults, spoken>>

\* A statement fails.  If it is the archive's, the turn goes on.
Fault(t) ==
    /\ faults < MaxFaults /\ faults' = faults + 1
    /\ \/ turn[t].pc \in {"judge", "log", "close"} /\ Goto(t, "raise")
          /\ UNCHANGED silent
       \/ At(t, "record") /\ Goto(t, "close") /\ silent' = silent \cup {t}
       \/ At(t, "raise") /\ Over(t, "error") /\ silent' = silent \cup {t}
    /\ UNCHANGED <<pool_vars, archive, spoken>>

\* The client of a stream leaves: the turn is cancelled.  The call goes with it
\* when the turn awaits it; while it drains the bridge, the voice is another task.
Leave(t) ==
    /\ turn[t].stream /\ ~At(t, "idle") /\ ~At(t, "done")
    /\ faults < MaxFaults /\ faults' = faults + 1
    /\ IF At(t, "await") THEN Cancel(t) ELSE UNCHANGED pool_vars
    /\ Over(t, "left")
    /\ UNCHANGED <<archive, silent, spoken>>

Proceed(t) ==
    \/ Drained(t) \/ VoiceAnswered(t) \/ VoiceFailed(t) \/ JudgeLast(t)
    \/ \E same \in BOOLEAN : Continue(t, same) \/ BreakOff(t, same)
    \/ Log(t) \/ Record(t) \/ Close(t) \/ Interrupted(t)

Next == \E t \in Calls :
    \/ \E stream \in BOOLEAN : Begin(t, stream)
    \/ Proceed(t) \/ Emit(t) \/ Voice(t) \/ Fault(t) \/ Leave(t)

Spec == Init /\ [][Next]_vars

\* The event loop runs what can go on, and a provider answers, fails or times out.
FairSpec == Spec /\ \A t \in Calls : WF_vars(Proceed(t)) /\ WF_vars(Voice(t))

------------------------------------------------------------------------------
\* Types: among them, that no turn goes beyond the ceiling of passes.
TypeOK ==
    /\ PoolTypeOK
    /\ turn \in [Calls -> [pc : {"idle", "drain", "await", "judge", "log", "record",
                                 "close", "raise", "done"},
                           stream : BOOLEAN, pass : 1..MaxToolPasses,
                           repeats : 0..MaxRepeats, judged : 0..MaxToolPasses,
                           outcome : {"none", "finished", "error", "left"}]]
    /\ archive \in [Calls -> SUBSET [passes : SUBSET (1..MaxToolPasses),
                                     weighed : 0..MaxToolPasses]]
    /\ silent \subseteq Calls /\ faults \in Nat
    /\ spoken \in [Calls -> SUBSET (1..MaxToolPasses)]

Recorded(t) == UNION {r.passes : r \in archive[t]}

\* Her delivered words are tied to the evaluation that weighed them, and to no
\* other, also at the end of a chain of passes.
RecordIsWeighed == \A t \in Calls : \A r \in archive[t] :
    r.weighed # 0 => r.passes = {r.weighed}

\* If the voice falls silent in mid-turn, or anything else fails, the words she
\* already spoke are kept in the archive.
InterruptedIsKept == \A t \in Calls :
    turn[t].outcome = "error" /\ t \notin silent => spoken[t] \subseteq Recorded(t)

\* A turn ends, whatever the providers do, however often she acts, and with
\* however many other turns it shares the pool: no slot is lost.
EveryTurnEnds == \A t \in Calls : ~At(t, "idle") ~> At(t, "done")

\* What the archive says of itself: "the full-text record of what was said".
WordsReachArchive == \A t \in Calls :
    At(t, "done") /\ t \notin silent => spoken[t] \subseteq Recorded(t)
==============================================================================
