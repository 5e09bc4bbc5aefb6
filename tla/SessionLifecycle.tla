--------------------------- MODULE SessionLifecycle ---------------------------
(***************************************************************************)
(* Sessions from their first word to their end, and the minor reflection   *)
(* that reads along (lina/lina_service.py, lina/mps.py).  A message is the  *)
(* number of its append, which also stands for its time stamp.              *)
(*                                                                         *)
(* since, lived, passed and formed are history: the clock, and whether the  *)
(* session was recorded for long enough, when an end began, the messages a *)
(* reflection went by (fresh when it looked, which is all it may read, or  *)
(* appended while it waited for the voice, which it cannot), and how often *)
(* each message was formed into memories.                                  *)
(***************************************************************************)
EXTENDS Naturals, Sequences, FiniteSets

CONSTANTS
    Sessions,
    Turns,        \* chat turns in one behaviour
    Enders,       \* calls of session end in one behaviour
    Window,       \* the messages a reflection reads at most
    MaxPasses,    \* bound: minor reflection passes
    MaxFaults     \* bound: failed statements

ASSUME SessionsAssumption ==
    Sessions # {} /\ Window \in Nat \ {0} /\ MaxPasses \in Nat /\ MaxFaults \in Nat

VARIABLES
    live,       \* working memory: each session's list in the cache
    archive,    \* lina_transcripts: how much of a session they hold
    row,        \* lina_sessions
    mark,       \* reflected_at, 0 for none
    completed,  \* lina_identity_core.sessions_completed
    moments,    \* lina_identity_core.identity_moments_count
    clock,      \* messages appended so far
    turn, ender,
    pass,       \* the minor reflection pass
    passes, faults,
    passed, formed

store    == <<live, archive, row, mark, completed, moments, clock>>
history  == <<passed, formed>>
vars     == <<store, turn, ender, pass, passes, faults, history>>

------------------------------------------------------------------------------
Idle == [pc |-> "idle", session |-> CHOOSE s \in Sessions : TRUE]
Reflecting(s) == pass.pc \in {"voice", "form", "mark"} /\ pass.session = s
Current(e) == ender[e].session

Init ==
    /\ live = [s \in Sessions |-> <<>>] /\ archive = [s \in Sessions |-> 0]
    /\ row = [s \in Sessions |-> "none"] /\ mark = [s \in Sessions |-> 0]
    /\ completed = 0 /\ moments = 0 /\ clock = 0
    /\ turn = [t \in Turns |-> Idle]
    /\ ender = [e \in Enders |-> [pc |-> "idle", session |-> Idle.session, since |-> 0, lived |-> FALSE]]
    /\ pass = [pc |-> "idle", todo |-> {}, session |-> Idle.session, fresh |-> {}]
    /\ passes = 0 /\ faults = 0
    /\ passed = {} /\ formed = <<>>

\* WorkingMemory.append
AppendTo(s) ==
    /\ clock' = clock + 1
    /\ live' = [live EXCEPT ![s] = Append(@, clock + 1)]
    /\ passed' = IF Reflecting(s) THEN passed \cup {clock + 1} ELSE passed
    /\ formed' = Append(formed, 0)
    /\ UNCHANGED <<mark, completed, moments>>

(* The cache restarts with nothing in it: the marks are kept there as well. *)
CacheLost ==
    /\ \E s \in Sessions : live[s] # <<>>
    /\ live' = [s \in Sessions |-> <<>>]
    /\ mark' = [s \in Sessions |-> 0]
    /\ UNCHANGED <<archive, row, completed, moments, clock, turn, ender, pass,
                   passes, faults, history>>

(* POST /lina/session/start: ON CONFLICT DO NOTHING. *)
Start(s) ==
    /\ row[s] = "none"
    /\ row' = [row EXCEPT ![s] = "open"]
    /\ UNCHANGED <<live, archive, mark, completed, moments, clock, turn, ender, pass,
                   passes, faults, history>>

------------------------------------------------------------------------------
(* A chat turn, as far as it writes the conversation. *)
TurnAt(t, pc) == turn[t].pc = pc
TurnGoto(t, pc) == turn' = [turn EXCEPT ![t].pc = pc]
TurnKeeps == UNCHANGED <<ender, pass, passes, faults>>

Say(t, s) ==
    /\ TurnAt(t, "idle")
    /\ AppendTo(s)
    /\ turn' = [turn EXCEPT ![t] = [pc |-> "record", session |-> s]]
    /\ UNCHANGED <<archive, row>> /\ TurnKeeps

\* _archive_turn; the voice is called next, or was.
Record(t) ==
    LET s == turn[t].session IN
    /\ turn[t].pc \in {"record", "recordAnswer"}
    /\ archive' = [archive EXCEPT ![s] = @ + 1]
    /\ TurnGoto(t, IF TurnAt(t, "record") THEN "voice" ELSE "close")
    /\ UNCHANGED <<live, row, mark, completed, moments, clock, history>> /\ TurnKeeps

\* The archive cannot be written: the turn goes on.
RecordFails(t) ==
    /\ turn[t].pc \in {"record", "recordAnswer"}
    /\ faults < MaxFaults /\ faults' = faults + 1
    /\ TurnGoto(t, IF TurnAt(t, "record") THEN "voice" ELSE "close")
    /\ UNCHANGED <<store, ender, pass, passes, history>>

VoiceFails(t) ==
    /\ TurnAt(t, "voice")
    /\ TurnGoto(t, "done")
    /\ UNCHANGED <<store, history>> /\ TurnKeeps

Answer(t) ==
    /\ TurnAt(t, "voice")
    /\ AppendTo(turn[t].session)
    /\ TurnGoto(t, "recordAnswer")
    /\ UNCHANGED <<archive, row>> /\ TurnKeeps

\* The evaluation is appended as a system message.
Close(t) ==
    /\ TurnAt(t, "close")
    /\ AppendTo(turn[t].session)
    /\ TurnGoto(t, "done")
    /\ UNCHANGED <<archive, row>> /\ TurnKeeps

------------------------------------------------------------------------------
(* POST /lina/session/end *)
EndAt(e, pc) == ender[e].pc = pc
EndGoto(e, pc) == ender' = [ender EXCEPT ![e].pc = pc]
EndKeeps == UNCHANGED <<turn, pass, passes, faults>>

\* Started, and two messages of it recorded.
Lived(s) == row[s] = "open" /\ archive[s] >= 2

\* process_session forms nothing and counts nothing below two messages.
Processed(messages) == IF messages < 2 THEN "advance" ELSE "finalize"

EndBegins(e, s, pc) ==
    /\ EndAt(e, "idle")
    /\ ender' = [ender EXCEPT ![e] = [pc |-> pc, session |-> s, since |-> clock, lived |-> Lived(s)]]
    /\ UNCHANGED <<store, history>> /\ EndKeeps

\* Mutant: the archive is not asked when the buffer is gone.
EndReadsLive(e, s) == EndBegins(e, s, Processed(Len(live[s])))

\* The live buffer when it has two messages, else the archive.
EndReads(e, s) ==
    EndBegins(e, s, IF Len(live[s]) >= 2 THEN Processed(Len(live[s])) ELSE "rebuild")

EndRebuilds(e) ==
    /\ EndAt(e, "rebuild")
    /\ EndGoto(e, Processed(archive[Current(e)]))
    /\ UNCHANGED <<store, history>> /\ EndKeeps

\* Mutant: an early return between the two updates.
EndFinalizesOnly(e) ==
    /\ EndAt(e, "finalize")
    /\ row' = [row EXCEPT ![Current(e)] = IF @ = "none" THEN @ ELSE "ended"]
    /\ EndGoto(e, "advance")
    /\ UNCHANGED <<live, archive, mark, completed, moments, clock, history>> /\ EndKeeps

\* An UPDATE: without a row there is nothing to end.
EndFinalizes(e) ==
    /\ EndAt(e, "finalize")
    /\ row' = [row EXCEPT ![Current(e)] = IF @ = "none" THEN @ ELSE "ended"]
    /\ EndGoto(e, "count")
    /\ UNCHANGED <<live, archive, mark, completed, moments, clock, history>> /\ EndKeeps

\* The moments she wrote for herself would count here; no code writes them.
SelfNotes(s) == <<>>
EndCounts(e) ==
    /\ EndAt(e, "count")
    /\ completed' = completed + 1
    /\ moments' = moments + Len(SelfNotes(Current(e)))
    /\ EndGoto(e, "advance")
    /\ UNCHANGED <<live, archive, row, mark, clock, history>> /\ EndKeeps

\* advance_season_if_ready, after which the session's row may be flagged.
EndAdvances(e) ==
    /\ EndAt(e, "advance")
    /\ EndGoto(e, "clear")
    /\ UNCHANGED <<store, history>> /\ EndKeeps

\* She was ready: the advance raises (LockRaises of SeasonAdvance), and so the call.
EndRaises(e) ==
    /\ EndAt(e, "advance")
    /\ EndGoto(e, "raised")
    /\ UNCHANGED <<store, history>> /\ EndKeeps

\* Mutant: the buffer is kept.
EndClearsNothing(e) ==
    /\ EndAt(e, "clear")
    /\ EndGoto(e, "done")
    /\ UNCHANGED <<store, history>> /\ EndKeeps

EndClears(e) ==
    /\ EndAt(e, "clear")
    /\ live' = [live EXCEPT ![Current(e)] = <<>>]
    /\ EndGoto(e, "done")
    /\ UNCHANGED <<archive, row, mark, completed, moments, clock, history>> /\ EndKeeps

\* A statement fails: the caller gets an error.
EndFails(e) ==
    /\ ender[e].pc \notin {"idle", "done", "raised"}
    /\ faults < MaxFaults /\ faults' = faults + 1
    /\ EndGoto(e, "done")
    /\ UNCHANGED <<store, turn, pass, passes, history>>

------------------------------------------------------------------------------
(* The minor reflection pass; the service runs one after the other. *)
PassKeeps == UNCHANGED <<live, archive, row, completed, moments, clock, turn, ender>>
Done == [pass EXCEPT !.pc = "next", !.fresh = {}]

PassBegins ==
    /\ pass.pc = "idle" /\ passes < MaxPasses
    /\ passes' = passes + 1
    /\ pass' = [pass EXCEPT !.pc = "next",
                            !.todo = {s \in Sessions : row[s] = "open"}]
    /\ UNCHANGED <<mark, faults, history>> /\ PassKeeps

PassEnds ==
    /\ pass.pc = "next" /\ pass.todo = {}
    /\ pass' = [pass EXCEPT !.pc = "idle"]
    /\ UNCHANGED <<mark, passes, faults, history>> /\ PassKeeps

Elements(q) == {q[i] : i \in 1..Len(q)}

\* Mutant: the first message after the mark is passed over.
FreshButOne(s) == {m \in Elements(live[s]) : m > mark[s] + 1}
Fresh(s) == {m \in Elements(live[s]) : m > mark[s]}

\* What the session's list holds by now, and is younger than its mark.
PassLooks(s) ==
    /\ pass.pc = "next" /\ s \in pass.todo
    /\ pass' = [pc |-> IF Cardinality(Fresh(s)) < 2 THEN "next" ELSE "voice",
                todo |-> pass.todo \ {s}, session |-> s,
                fresh |-> IF Cardinality(Fresh(s)) < 2 THEN {} ELSE Fresh(s)]
    /\ UNCHANGED <<mark, passes, faults, history>> /\ PassKeeps

\* The voice finds nothing (or fails, which is caught): no mark is set.
NothingFound ==
    /\ pass.pc = "voice"
    /\ pass' = Done
    /\ UNCHANGED <<mark, passes, faults, history>> /\ PassKeeps

\* The last of them, and of these as many as fit into the prompt; the very last
\* always does.
Recent(messages) == {some \in SUBSET messages :
    /\ some # {} /\ Cardinality(some) <= Window
    /\ \A m \in some, n \in messages : n > m => n \in some}

MomentsFound ==
    /\ pass.pc = "voice"
    /\ \E recent \in Recent(pass.fresh) :
         /\ pass' = [pass EXCEPT !.pc = "form", !.fresh = recent]
    /\ passed' = passed \cup pass.fresh
    /\ UNCHANGED <<mark, passes, faults, formed>> /\ PassKeeps

\* form_items
Form ==
    /\ pass.pc = "form"
    /\ pass' = [pass EXCEPT !.pc = "mark"]
    /\ formed' = [m \in DOMAIN formed |-> IF m \in pass.fresh THEN formed[m] + 1
                                          ELSE formed[m]]
    /\ UNCHANGED <<mark, passes, faults, passed>> /\ PassKeeps

\* Mutant: the mark is forgotten.
MarkNothing ==
    /\ pass.pc = "mark"
    /\ pass' = Done
    /\ UNCHANGED <<mark, passes, faults, history>> /\ PassKeeps

\* Mutant: the mark is set past the last message.
MarkAhead ==
    /\ pass.pc = "mark"
    /\ mark' = [mark EXCEPT ![pass.session] = clock + 1]
    /\ pass' = Done
    /\ UNCHANGED <<passes, faults, history>> /\ PassKeeps

\* reflected_at is the time of this write, not of the reading.
Mark ==
    /\ pass.pc = "mark"
    /\ mark' = [mark EXCEPT ![pass.session] = clock]
    /\ pass' = Done
    /\ UNCHANGED <<passes, faults, history>> /\ PassKeeps

\* A failed statement ends the whole pass.
PassFails ==
    /\ pass.pc # "idle"
    /\ faults < MaxFaults /\ faults' = faults + 1
    /\ pass' = [pass EXCEPT !.pc = "idle", !.todo = {}, !.fresh = {}]
    /\ UNCHANGED <<mark, passes, history>> /\ PassKeeps

TurnStep(t) == Record(t) \/ VoiceFails(t) \/ Answer(t) \/ Close(t)
EndStep(e) ==
    \/ EndRebuilds(e) \/ EndFinalizes(e) \/ EndCounts(e) \/ EndAdvances(e)
    \/ EndRaises(e) \/ EndClears(e)
PassStep ==
    \/ PassEnds \/ NothingFound \/ MomentsFound \/ Form \/ Mark
    \/ \E s \in Sessions : PassLooks(s)

Next ==
    \/ \E s \in Sessions :
         \/ Start(s)
         \/ \E t \in Turns : Say(t, s)
         \/ \E e \in Enders : EndReads(e, s)
    \/ \E t \in Turns : TurnStep(t) \/ RecordFails(t)
    \/ \E e \in Enders : EndStep(e) \/ EndFails(e)
    \/ CacheLost \/ PassBegins \/ PassStep \/ PassFails

Spec == Init /\ [][Next]_vars

------------------------------------------------------------------------------
\* Types: among them, that messages are the numbers of their appends.
TypeOK ==
    /\ live \in [Sessions -> Seq(1..clock)]
    /\ archive \in [Sessions -> Nat]
    /\ row \in [Sessions -> {"none", "open", "ended"}]
    /\ mark \in [Sessions -> 0..clock]
    /\ completed \in Nat /\ moments \in Nat /\ clock \in Nat
    /\ turn \in [Turns -> [pc : {"idle", "record", "voice", "recordAnswer", "close",
                                 "done"}, session : Sessions]]
    /\ ender \in [Enders -> [pc : {"idle", "rebuild", "finalize", "count", "advance",
                                   "clear", "done", "raised"},
                             session : Sessions, since : 0..clock, lived : BOOLEAN]]
    /\ pass \in [pc : {"idle", "next", "voice", "form", "mark"},
                 todo : SUBSET Sessions, session : Sessions, fresh : SUBSET (1..clock)]
    /\ passes \in Nat /\ faults \in Nat
    /\ passed \subseteq 1..clock
    /\ formed \in [1..clock -> Nat]

\* No message is formed into memories by two minor reflections, unless a pass
\* broke off between forming and marking.
FormedOnce == faults = 0 => \A m \in 1..clock : formed[m] <= 1

\* The mark leaves no gap: what lies below it was fresh to a reflection that found
\* moments, or was appended while one waited.
MarkLeavesNoGap == \A s \in Sessions : \A m \in Elements(live[s]) :
    m <= mark[s] => m \in passed

\* The count that her season depends on misses no session that was ended.
EveryEndCounts ==
    faults = 0 /\ (\A e \in Enders : ~EndAt(e, "count")) =>
        completed >= Cardinality({s \in Sessions : row[s] = "ended"})

\* What lingers in the buffer of a session after a call of session end that was
\* answered, and it has no TTL, was said after that call began.
EndLeavesNothing == \A e \in Enders :
    faults = 0 /\ EndAt(e, "done") =>
        \A m \in Elements(live[Current(e)]) : m > ender[e].since

\* A session of which two messages were recorded is ended by a call of session
\* end, whatever became of its buffer and of her advance, unless a statement fails.
LivedSessionEnds == \A e \in Enders :
    faults = 0 /\ ender[e].pc \in {"done", "raised"} /\ ender[e].lived =>
        row[Current(e)] = "ended"
==============================================================================
