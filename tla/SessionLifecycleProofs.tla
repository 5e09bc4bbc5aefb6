------------------------ MODULE SessionLifecycleProofs ------------------------
(***************************************************************************)
(* Theorems about sessions and the minor reflection, for any number of     *)
(* sessions, turns, calls of session end, passes and faults: no message is *)
(* formed twice or passed over by a mark, every end counts, and an end     *)
(* leaves nothing behind.                                                  *)
(***************************************************************************)
EXTENDS SessionLifecycle, FiniteSetTheorems, SequenceTheorems, TLAPS

------------------------------------------------------------------------------
(***************************************************************************)
(* The inductive invariant, one part for each thing a session promises.    *)
(***************************************************************************)

\* A message stands in the list of one session, and what a pass has read in
\* the list of no other session than the one it is at.
Apart ==
    /\ \A s, u \in Sessions : \A m \in Elements(live[s]) :
         m \in Elements(live[u]) => s = u
    /\ \A s \in Sessions : \A m \in Elements(live[s]) :
         m \in pass.fresh => s = pass.session

\* What lies above the mark was never formed, except between forming and marking,
\* and neither was what a pass is about to form.
FormInv == faults = 0 =>
    /\ \A m \in 1..clock : formed[m] <= 1
    /\ \A s \in Sessions : \A m \in Elements(live[s]) :
         m > mark[s] /\ ~(pass.pc = "mark" /\ pass.session = s) => formed[m] = 0
    /\ pass.pc \in {"voice", "form"} => \A m \in pass.fresh : formed[m] = 0

\* A pass goes by everything in the list of its session: it has read it, or it was
\* gone by before.
MarkInv ==
    /\ MarkLeavesNoGap
    /\ pass.pc = "voice" => \A m \in Elements(live[pass.session]) :
         m \in passed \cup pass.fresh
    /\ pass.pc \in {"form", "mark"} => Elements(live[pass.session]) \subseteq passed

\* Every ended session is counted, or about to be.
Ended == {s \in Sessions : row[s] = "ended"}
Uncounted == {Current(e) : e \in {x \in Enders : EndAt(x, "count")}}
CountInv ==
    /\ IsFiniteSet(Ended)
    /\ faults = 0 => completed >= Cardinality(Ended \ Uncounted)

\* A call that found a lived session ends it on its way.
LivedInv == \A e \in Enders : faults = 0 /\ ender[e].lived =>
    /\ EndAt(e, "rebuild") => archive[Current(e)] >= 2
    /\ ender[e].pc \in {"rebuild", "finalize"} => row[Current(e)] # "none"
    /\ ender[e].pc \in {"count", "advance", "clear", "done", "raised"} => row[Current(e)] = "ended"

IInv == TypeOK /\ Apart /\ FormInv /\ MarkInv /\ CountInv /\ EndLeavesNothing /\ LivedInv

------------------------------------------------------------------------------
(***************************************************************************)
(* What the operators on messages give.                                    *)
(***************************************************************************)

LEMMA NoElements == Elements(<<>>) = {}
BY DEF Elements

LEMMA ElementsAppended ==
    ASSUME NEW S, NEW q \in Seq(S), NEW x \in S
    PROVE  Elements(Append(q, x)) = Elements(q) \cup {x}
<1>1. /\ Len(Append(q, x)) = Len(q) + 1 /\ Len(q) \in Nat
      /\ \A i \in 1..Len(q) : Append(q, x)[i] = q[i]
      /\ Append(q, x)[Len(q) + 1] = x
  OBVIOUS
<1>2. 1..Len(q) + 1 = 1..Len(q) \cup {Len(q) + 1}
  BY <1>1
<1> QED
  BY <1>1, <1>2 DEF Elements

LEMMA ElementsInside ==
    ASSUME NEW S, NEW q \in Seq(S)
    PROVE  Elements(q) \subseteq S
BY DEF Elements

LEMMA IdleSession == Idle = [pc |-> "idle", session |-> Idle.session] /\ Idle.session \in Sessions
BY SessionsAssumption DEF Idle

LEMMA FunctionIsSequence ==
    ASSUME NEW n \in Nat, NEW f \in [1..n -> Nat]
    PROVE  f \in Seq(Nat) /\ Len(f) = n
<1>1. f = [i \in 1..n |-> f[i]] /\ \A i \in 1..n : f[i] \in Nat
  OBVIOUS
<1>2. [i \in 1..n |-> f[i]] \in Seq(Nat) /\ Len([i \in 1..n |-> f[i]]) = n
  BY <1>1
<1> QED
  BY <1>1, <1>2

\* A list of messages stays one when the clock goes on.
LEMMA MessagesStay ==
    ASSUME NEW n \in Nat, NEW q \in Seq(1..n)
    PROVE  q \in Seq(1..n + 1) /\ Append(q, n + 1) \in Seq(1..n + 1)
<1>1. 1..n \subseteq 1..n + 1 /\ n + 1 \in 1..n + 1
  OBVIOUS
<1>2. q \in Seq(1..n + 1)
  BY <1>1
<1> QED
  BY <1>1, <1>2

------------------------------------------------------------------------------
(***************************************************************************)
(* Type correctness.                                                       *)
(***************************************************************************)

LEMMA InitTypes == Init => TypeOK
<1> SUFFICES ASSUME Init PROVE TypeOK
  OBVIOUS
<1>1. formed \in [1..clock -> Nat]
  BY DEF Init
<1>2. live \in [Sessions -> Seq(1..clock)]
  BY DEF Init
<1>3. /\ turn \in [Turns -> [pc : {"idle", "record", "voice", "recordAnswer", "close",
                                 "done"}, session : Sessions]]
  BY IdleSession DEF Init
<1>4. pass \in [pc : {"idle", "next", "voice", "form", "mark"},
                 todo : SUBSET Sessions, session : Sessions, fresh : SUBSET (1..clock)]
  BY IdleSession DEF Init
<1>5. ender \in [Enders -> [pc : {"idle", "rebuild", "finalize", "count", "advance",
                                   "clear", "done", "raised"},
                             session : Sessions, since : 0..clock, lived : BOOLEAN]]
  BY IdleSession DEF Init
<1>6. archive \in [Sessions -> Nat] /\ mark \in [Sessions -> 0..clock]
  BY DEF Init
<1>7. row \in [Sessions -> {"none", "open", "ended"}]
  BY DEF Init
<1> QED
  BY <1>1, <1>2, <1>3, <1>4, <1>5, <1>6, <1>7 DEF Init, TypeOK

\* An append moves the clock on, under every list, mark and call.
LEMMA AppendTypes ==
    ASSUME TypeOK, NEW s \in Sessions, AppendTo(s),
           UNCHANGED <<archive, row, ender, pass, passes, faults>>,
           NEW t \in Turns, NEW p \in {"record", "recordAnswer", "done"},
           \/ turn' = [turn EXCEPT ![t] = [pc |-> p, session |-> s]]
           \/ turn' = [turn EXCEPT ![t].pc = p]
    PROVE  TypeOK'
<1>1. /\ clock \in Nat /\ clock' = clock + 1 /\ clock' \in Nat
      /\ 1..clock \subseteq 1..clock' /\ 0..clock \subseteq 0..clock'
      /\ clock' \in 1..clock'
  <2>1. clock \in Nat
    BY DEF TypeOK
  <2>2. clock' = clock + 1
    BY DEF AppendTo
  <2> QED
    BY <2>1, <2>2
<1>2. live' \in [Sessions -> Seq(1..clock')]
  <2>1. \A u \in Sessions : live[u] \in Seq(1..clock)
    BY DEF TypeOK
  <2>2. \A u \in Sessions : live[u] \in Seq(1..clock') /\ Append(live[u], clock + 1) \in Seq(1..clock')
    BY <1>1, <2>1, MessagesStay
  <2> QED
    BY <2>2 DEF AppendTo, TypeOK
<1>3. mark' \in [Sessions -> 0..clock']
  BY <1>1 DEF AppendTo, TypeOK
<1>4. passed' \subseteq 1..clock'
  BY <1>1 DEF AppendTo, TypeOK
<1>5. formed' \in [1..clock' -> Nat]
  <2>1. formed \in Seq(Nat) /\ Len(formed) = clock
    BY FunctionIsSequence DEF TypeOK
  <2>2. formed' \in Seq(Nat) /\ Len(formed') = clock'
    BY <1>1, <2>1 DEF AppendTo
  <2> QED
    BY <2>2, LenProperties
<1>6. pass' \in [pc : {"idle", "next", "voice", "form", "mark"},
                  todo : SUBSET Sessions, session : Sessions, fresh : SUBSET (1..clock')]
  BY <1>1 DEF TypeOK
<1>7. ender' \in [Enders -> [pc : {"idle", "rebuild", "finalize", "count", "advance",
                                    "clear", "done", "raised"},
                              session : Sessions, since : 0..clock', lived : BOOLEAN]]
  BY <1>1 DEF TypeOK
<1>8. turn' \in [Turns -> [pc : {"idle", "record", "voice", "recordAnswer", "close",
                                 "done"}, session : Sessions]]
  <2>0. turn \in [Turns -> [pc : {"idle", "record", "voice", "recordAnswer", "close",
                                   "done"}, session : Sessions]]
    BY DEF TypeOK
  <2>1. CASE turn' = [turn EXCEPT ![t] = [pc |-> p, session |-> s]]
    BY <2>0, <2>1
  <2>2. CASE turn' = [turn EXCEPT ![t].pc = p]
    BY <2>0, <2>2
  <2> QED
    BY <2>1, <2>2
<1> QED
  BY <1>1, <1>2, <1>3, <1>4, <1>5, <1>6, <1>7, <1>8 DEF TypeOK, AppendTo

LEMMA GotoTypes ==
    ASSUME TypeOK, NEW t \in Turns, NEW p \in {"voice", "close", "done"}, TurnGoto(t, p)
    PROVE  turn' \in [Turns -> [pc : {"idle", "record", "voice", "recordAnswer", "close",
                                     "done"}, session : Sessions]]
<1>1. turn \in [Turns -> [pc : {"idle", "record", "voice", "recordAnswer", "close",
                                 "done"}, session : Sessions]]
  BY DEF TypeOK
<1> QED
  BY <1>1 DEF TurnGoto

LEMMA TurnTypes ==
    ASSUME TypeOK, NEW t \in Turns, TurnStep(t) \/ RecordFails(t)
    PROVE  TypeOK'
<1>1. turn[t].session \in Sessions /\ archive[turn[t].session] \in Nat
  BY DEF TypeOK
<1>2. CASE Record(t)
  <2>1. archive' \in [Sessions -> Nat]
    BY <1>1, <1>2 DEF Record, TypeOK
  <2>2. turn' \in [Turns -> [pc : {"idle", "record", "voice", "recordAnswer", "close",
                                   "done"}, session : Sessions]]
    BY <1>2, GotoTypes DEF Record
  <2> QED
    BY <1>2, <2>1, <2>2 DEF Record, TurnKeeps, history, TypeOK
<1>3. CASE RecordFails(t) \/ VoiceFails(t)
  <2>1. turn' \in [Turns -> [pc : {"idle", "record", "voice", "recordAnswer", "close",
                                   "done"}, session : Sessions]]
    BY <1>3, GotoTypes DEF RecordFails, VoiceFails
  <2>2. faults' \in Nat
    BY <1>3 DEF RecordFails, VoiceFails, TurnKeeps, TypeOK
  <2> QED
    BY <1>3, <2>1, <2>2 DEF RecordFails, VoiceFails, TurnKeeps, store, history, TypeOK
<1>4. CASE Answer(t) \/ Close(t)
  <2>1. PICK p \in {"recordAnswer", "done"} : turn' = [turn EXCEPT ![t].pc = p]
    BY <1>4 DEF Answer, Close, TurnGoto
  <2>2. AppendTo(turn[t].session) /\ UNCHANGED <<archive, row, ender, pass, passes, faults>>
    BY <1>4 DEF Answer, Close, TurnKeeps
  <2> QED
    BY <1>1, <2>1, <2>2, AppendTypes
<1> QED
  BY <1>2, <1>3, <1>4 DEF TurnStep

LEMMA SayTypes ==
    ASSUME TypeOK, NEW t \in Turns, NEW s \in Sessions, Say(t, s)
    PROVE  TypeOK'
<1>1. AppendTo(s) /\ UNCHANGED <<archive, row, ender, pass, passes, faults>>
  BY DEF Say, TurnKeeps
<1>2. turn' = [turn EXCEPT ![t] = [pc |-> "record", session |-> s]]
  BY DEF Say
<1> QED
  BY <1>1, <1>2, AppendTypes

LEMMA EndTypes ==
    ASSUME TypeOK, NEW e \in Enders,
           EndStep(e) \/ EndFails(e) \/ \E s \in Sessions : EndReads(e, s)
    PROVE  TypeOK'
<1>1. Current(e) \in Sessions
  BY DEF Current, TypeOK
<1>2. ender' \in [Enders -> [pc : {"idle", "rebuild", "finalize", "count", "advance",
                                    "clear", "done", "raised"},
                              session : Sessions, since : 0..clock, lived : BOOLEAN]]
  <2>0. ender \in [Enders -> [pc : {"idle", "rebuild", "finalize", "count", "advance",
                                    "clear", "done", "raised"},
                              session : Sessions, since : 0..clock, lived : BOOLEAN]]
    BY DEF TypeOK
  <2>1. CASE EndStep(e) \/ EndFails(e)
    <3>1. PICK pc \in {"finalize", "advance", "count", "clear", "done", "raised"} :
            ender' = [ender EXCEPT ![e].pc = pc]
      BY <2>1 DEF EndStep, EndFails, EndRebuilds, EndFinalizes, EndCounts, EndAdvances, EndRaises,
                  EndClears, EndGoto, Processed
    <3> QED
      BY <2>0, <3>1
  <2>2. ASSUME NEW s \in Sessions, EndReads(e, s)
        PROVE  ender' \in [Enders -> [pc : {"idle", "rebuild", "finalize", "count", "advance",
                                            "clear", "done", "raised"},
                                      session : Sessions, since : 0..clock, lived : BOOLEAN]]
    <3>1. PICK pc \in {"rebuild", "finalize", "advance"} :
            ender' = [ender EXCEPT ![e] = [pc |-> pc, session |-> s, since |-> clock,
                                           lived |-> Lived(s)]]
      BY <2>2 DEF EndReads, EndBegins, Processed
    <3>2. Lived(s) \in BOOLEAN /\ clock \in 0..clock
      BY DEF Lived, TypeOK
    <3> QED
      BY <2>0, <3>1, <3>2
  <2> QED
    BY <2>1, <2>2
<1>3. clock' = clock /\ UNCHANGED <<archive, mark, turn, pass, passes, passed, formed>>
  BY DEF EndStep, EndFails, EndRebuilds, EndFinalizes, EndCounts, EndAdvances, EndRaises, EndClears,
         EndReads, EndBegins, EndKeeps, store, history
<1>4. live' \in [Sessions -> Seq(1..clock)]
  <2>1. CASE EndClears(e)
    BY <1>1, <2>1 DEF EndClears, TypeOK
  <2>2. CASE ~EndClears(e)
    BY <2>2 DEF EndStep, EndFails, EndRebuilds, EndFinalizes, EndCounts, EndAdvances, EndRaises,
                EndReads, EndBegins, store, TypeOK
  <2> QED
    BY <2>1, <2>2
<1>5. row' \in [Sessions -> {"none", "open", "ended"}]
  <2>1. CASE EndFinalizes(e)
    BY <1>1, <2>1 DEF EndFinalizes, TypeOK
  <2>2. CASE ~EndFinalizes(e)
    BY <2>2 DEF EndStep, EndFails, EndRebuilds, EndClears, EndCounts, EndAdvances, EndRaises,
                EndReads, EndBegins, store, TypeOK
  <2> QED
    BY <2>1, <2>2
<1>6. completed' \in Nat /\ moments' \in Nat
  <2>1. CASE EndCounts(e)
    BY <2>1 DEF EndCounts, SelfNotes, TypeOK
  <2>2. CASE ~EndCounts(e)
    BY <2>2 DEF EndStep, EndFails, EndRebuilds, EndClears, EndFinalizes, EndAdvances, EndRaises,
                EndReads, EndBegins, store, TypeOK
  <2> QED
    BY <2>1, <2>2
<1>7. faults' \in Nat
  <2>1. faults \in Nat
    BY DEF TypeOK
  <2>2. faults' = faults \/ faults' = faults + 1
    BY DEF EndStep, EndFails, EndRebuilds, EndFinalizes, EndCounts, EndAdvances, EndRaises, EndClears,
           EndReads, EndBegins, EndKeeps
  <2> QED
    BY <2>1, <2>2
<1> QED
  BY <1>2, <1>3, <1>4, <1>5, <1>6, <1>7 DEF TypeOK

LEMMA PassTypes ==
    ASSUME TypeOK, PassBegins \/ PassStep \/ PassFails
    PROVE  TypeOK'
<1>1. UNCHANGED <<live, archive, row, completed, moments, clock, turn, ender>>
  BY DEF PassBegins, PassStep, PassFails, PassEnds, NothingFound, MomentsFound, Form, Mark,
         PassLooks, PassKeeps
<1>2. pass' \in [pc : {"idle", "next", "voice", "form", "mark"},
                 todo : SUBSET Sessions, session : Sessions, fresh : SUBSET (1..clock)]
  <2>1. CASE PassBegins \/ PassFails \/ PassEnds \/ NothingFound \/ Form \/ Mark
    <3> DEFINE open == {s \in Sessions : row[s] = "open"}
    <3>1. open \in SUBSET Sessions
      OBVIOUS
    <3>2. PICK pc \in {"idle", "next", "mark"} :
            \/ pass' = [pass EXCEPT !.pc = pc]
            \/ pass' = [pass EXCEPT !.pc = pc, !.fresh = {}]
            \/ pass' = [pass EXCEPT !.pc = pc, !.todo = {}, !.fresh = {}]
            \/ pass' = [pass EXCEPT !.pc = pc, !.todo = open]
      BY <2>1 DEF PassBegins, PassFails, PassEnds, NothingFound, Form, Mark, Done
    <3> HIDE DEF open
    <3> QED
      BY <3>1, <3>2 DEF TypeOK
  <2>2. CASE MomentsFound
    BY <2>2 DEF MomentsFound, Recent, TypeOK
  <2>3. ASSUME NEW s \in Sessions, PassLooks(s)
        PROVE  pass' \in [pc : {"idle", "next", "voice", "form", "mark"},
                 todo : SUBSET Sessions, session : Sessions, fresh : SUBSET (1..clock)]
    <3>1. Fresh(s) \subseteq 1..clock
      BY ElementsInside DEF Fresh, TypeOK
    <3>2. pass.todo \ {s} \in SUBSET Sessions
      BY DEF TypeOK
    <3>3. CASE Cardinality(Fresh(s)) < 2
      <4>1. pass' = [pc |-> "next", todo |-> pass.todo \ {s}, session |-> s, fresh |-> {}]
        BY <2>3, <3>3 DEF PassLooks
      <4> QED
        BY <3>2, <4>1
    <3>4. CASE ~(Cardinality(Fresh(s)) < 2)
      <4>1. pass' = [pc |-> "voice", todo |-> pass.todo \ {s}, session |-> s,
                     fresh |-> Fresh(s)]
        BY <2>3, <3>4 DEF PassLooks
      <4> QED
        BY <3>1, <3>2, <4>1
    <3> QED
      BY <3>3, <3>4
  <2> QED
    BY <2>1, <2>2, <2>3 DEF PassStep
<1>3. mark' \in [Sessions -> 0..clock]
  <2>1. CASE Mark
    BY <2>1 DEF Mark, TypeOK
  <2>2. CASE ~Mark
    BY <2>2 DEF PassBegins, PassStep, PassFails, PassEnds, NothingFound, MomentsFound, Form,
                PassLooks, TypeOK
  <2> QED
    BY <2>1, <2>2
<1>4. formed' \in [1..clock -> Nat]
  <2>1. CASE Form
    BY <2>1 DEF Form, TypeOK
  <2>2. CASE ~Form
    BY <2>2 DEF PassBegins, PassStep, PassFails, PassEnds, NothingFound, MomentsFound, Mark,
                PassLooks, history, TypeOK
  <2> QED
    BY <2>1, <2>2
<1>5. passed' \subseteq 1..clock
  BY DEF PassBegins, PassStep, PassFails, PassEnds, NothingFound, MomentsFound, Form, Mark,
         PassLooks, history, TypeOK
<1>6. passes' \in {passes, passes + 1} /\ faults' \in {faults, faults + 1}
  BY DEF PassBegins, PassStep, PassFails, PassEnds, NothingFound, MomentsFound, Form, Mark,
         PassLooks
<1>7. passes' \in Nat /\ faults' \in Nat
  BY <1>6 DEF TypeOK
<1> QED
  BY <1>1, <1>2, <1>3, <1>4, <1>5, <1>7 DEF TypeOK

LEMMA NextTypes == TypeOK /\ [Next]_vars => TypeOK'
<1> SUFFICES ASSUME TypeOK, [Next]_vars PROVE TypeOK'
  OBVIOUS
<1>1. ASSUME NEW s \in Sessions, Start(s) PROVE TypeOK'
  BY <1>1 DEF Start, history, TypeOK
<1>2. CASE CacheLost
  <2>1. live' \in [Sessions -> Seq(1..clock)] /\ mark' \in [Sessions -> 0..clock]
    BY <1>2 DEF CacheLost, TypeOK
  <2> QED
    BY <1>2, <2>1 DEF CacheLost, history, TypeOK
<1>3. CASE UNCHANGED vars
  BY <1>3 DEF vars, store, history, TypeOK
<1> QED
  BY <1>1, <1>2, <1>3, SayTypes, TurnTypes, EndTypes, PassTypes DEF Next

\* Types, for every number of sessions, turns and calls.
THEOREM SessionTyped == Spec => []TypeOK
<1> QED
  BY InitTypes, NextTypes, PTL DEF Spec

------------------------------------------------------------------------------
(***************************************************************************)
(* What a step may do to the messages, and what it then leaves.            *)
(***************************************************************************)

LEMMA MessageSteps ==
    ASSUME TypeOK, [Next]_vars
    PROVE  \/ \E s \in Sessions : AppendTo(s) /\ UNCHANGED <<pass, faults, row, archive, ender>>
           \/ \E s \in Sessions : /\ live' = [live EXCEPT ![s] = <<>>]
                                  /\ UNCHANGED <<mark, pass, passed, formed, clock, faults>>
           \/ CacheLost
           \/ PassBegins \/ PassStep \/ PassFails
           \/ UNCHANGED <<live, mark, pass, passed, formed, clock>> /\ faults' \in {faults, faults + 1}
<1>1. ASSUME NEW s \in Sessions, NEW t \in Turns, Say(t, s)
      PROVE  AppendTo(s) /\ UNCHANGED <<pass, faults, row, archive, ender>>
  BY <1>1 DEF Say, TurnKeeps
<1>2. ASSUME NEW t \in Turns, Answer(t) \/ Close(t)
      PROVE  \E s \in Sessions : AppendTo(s) /\ UNCHANGED <<pass, faults, row, archive, ender>>
  <2>1. turn[t].session \in Sessions
    BY DEF TypeOK
  <2> QED
    BY <1>2, <2>1 DEF Answer, Close, TurnKeeps
<1>3. ASSUME NEW t \in Turns, Record(t) \/ VoiceFails(t) \/ RecordFails(t)
      PROVE  UNCHANGED <<live, mark, pass, passed, formed, clock>> /\ faults' \in {faults, faults + 1}
  BY <1>3 DEF Record, VoiceFails, RecordFails, TurnKeeps, store, history
<1>4. ASSUME NEW e \in Enders, EndClears(e)
      PROVE  \E s \in Sessions : /\ live' = [live EXCEPT ![s] = <<>>]
                                 /\ UNCHANGED <<mark, pass, passed, formed, clock, faults>>
  <2>1. Current(e) \in Sessions
    BY DEF Current, TypeOK
  <2> QED
    BY <1>4, <2>1 DEF EndClears, EndKeeps, history
<1>5. ASSUME NEW e \in Enders,
             \/ EndRebuilds(e) \/ EndFinalizes(e) \/ EndCounts(e) \/ EndAdvances(e) \/ EndRaises(e) \/ EndFails(e)
             \/ \E s \in Sessions : EndReads(e, s)
      PROVE  UNCHANGED <<live, mark, pass, passed, formed, clock>> /\ faults' \in {faults, faults + 1}
  BY <1>5 DEF EndRebuilds, EndFinalizes, EndCounts, EndAdvances, EndRaises, EndFails, EndReads, EndBegins,
              EndKeeps, store, history
<1>6. ASSUME NEW s \in Sessions, Start(s)
      PROVE  UNCHANGED <<live, mark, pass, passed, formed, clock>> /\ faults' \in {faults, faults + 1}
  BY <1>6 DEF Start, history
<1>7. CASE UNCHANGED vars
  BY <1>7 DEF vars, store, history
<1> QED
  BY <1>1, <1>2, <1>3, <1>4, <1>5, <1>6, <1>7 DEF Next, TurnStep, EndStep

\* A new message is newer than any message that stands, was read or is marked.
LEMMA Appended ==
    ASSUME TypeOK, NEW s \in Sessions, AppendTo(s)
    PROVE  /\ clock \in Nat /\ clock' = clock + 1 /\ mark' = mark
           /\ Elements(live'[s]) = Elements(live[s]) \cup {clock + 1}
           /\ \A u \in Sessions \ {s} : live'[u] = live[u]
           /\ \A u \in Sessions : /\ Elements(live[u]) \subseteq 1..clock
                                  /\ mark[u] \in 0..clock
           /\ pass.fresh \subseteq 1..clock
           /\ \A m \in 1..clock : formed'[m] = formed[m]
           /\ formed'[clock + 1] = 0
<1>1. /\ clock \in Nat /\ clock' = clock + 1 /\ mark' = mark
      /\ live' = [live EXCEPT ![s] = Append(@, clock + 1)] /\ formed' = Append(formed, 0)
  BY DEF AppendTo, TypeOK
<1>2. \A u \in Sessions : live[u] \in Seq(1..clock) /\ mark[u] \in 0..clock
  BY DEF TypeOK
<1>3. \A u \in Sessions : Elements(live[u]) \subseteq 1..clock
  BY <1>2, ElementsInside
<1>4. Elements(live'[s]) = Elements(live[s]) \cup {clock + 1}
  <2>1. live[s] \in Seq(1..clock + 1) /\ clock + 1 \in 1..clock + 1
    BY <1>1, <1>2, MessagesStay
  <2>2. live'[s] = Append(live[s], clock + 1)
    BY <1>1 DEF TypeOK
  <2> QED
    BY <2>1, <2>2, ElementsAppended
<1>5. \A u \in Sessions \ {s} : live'[u] = live[u]
  BY <1>1 DEF TypeOK
<1>6. (\A m \in 1..clock : formed'[m] = formed[m]) /\ formed'[clock + 1] = 0
  <2>1. formed \in Seq(Nat) /\ Len(formed) = clock
    BY <1>1, FunctionIsSequence DEF TypeOK
  <2> QED
    BY <1>1, <2>1
<1>7. pass.fresh \subseteq 1..clock
  BY DEF TypeOK
<1> QED
  BY <1>1, <1>2, <1>3, <1>4, <1>5, <1>6, <1>7

\* Clearing a list, or all of them, leaves no message that did not stand before.
LEMMA Cleared ==
    ASSUME TypeOK, NEW u \in Sessions,
           CacheLost \/ \E s \in Sessions : live' = [live EXCEPT ![s] = <<>>]
    PROVE  Elements(live'[u]) \in {Elements(live[u]), {}}
<1>1. live'[u] \in {live[u], <<>>}
  BY DEF CacheLost, TypeOK
<1> QED
  BY <1>1, NoElements

\* A pass keeps what it has read, drops of it, or reads what is fresh.
LEMMA PassReads ==
    ASSUME TypeOK, PassBegins \/ PassStep \/ PassFails
    PROVE  /\ live' = live /\ clock' = clock
           /\ \/ pass'.session = pass.session /\ pass'.fresh \subseteq pass.fresh
              \/ \E s \in Sessions : PassLooks(s) /\ pass'.session = s /\ pass'.fresh \subseteq Fresh(s)
<1>1. live' = live /\ clock' = clock
  BY DEF PassBegins, PassStep, PassFails, PassEnds, NothingFound, MomentsFound, Form, Mark,
         PassLooks, PassKeeps
<1>2. CASE PassBegins \/ PassFails \/ PassEnds \/ NothingFound \/ Form \/ Mark
  BY <1>1, <1>2 DEF PassBegins, PassFails, PassEnds, NothingFound, Form, Mark, Done, TypeOK
<1>3. CASE MomentsFound
  BY <1>1, <1>3 DEF MomentsFound, Recent, TypeOK
<1>4. ASSUME NEW s \in Sessions, PassLooks(s)
      PROVE  pass'.session = s /\ pass'.fresh \subseteq Fresh(s)
  BY <1>4 DEF PassLooks
<1> QED
  BY <1>1, <1>2, <1>3, <1>4 DEF PassStep

LEMMA NextApart == TypeOK /\ Apart /\ [Next]_vars => Apart'
<1> SUFFICES ASSUME TypeOK, Apart, [Next]_vars PROVE Apart'
  OBVIOUS
<1>1. ASSUME NEW s \in Sessions, AppendTo(s), UNCHANGED pass PROVE Apart'
  <2>1. \A u \in Sessions : \A m \in Elements(live'[u]) :
          m \in Elements(live[u]) \/ (u = s /\ m = clock + 1)
    BY <1>1, Appended
  <2>2. \A u \in Sessions : clock + 1 \notin Elements(live[u]) /\ clock + 1 \notin pass.fresh
    BY <1>1, Appended
  <2> QED
    BY <1>1, <2>1, <2>2 DEF Apart
<1>2. CASE \/ CacheLost
           \/ UNCHANGED pass /\ \E s \in Sessions : live' = [live EXCEPT ![s] = <<>>]
  <2>1. \A u \in Sessions : Elements(live'[u]) \subseteq Elements(live[u])
    BY <1>2, Cleared
  <2>2. pass' = pass
    BY <1>2 DEF CacheLost
  <2> QED
    BY <2>1, <2>2 DEF Apart
<1>3. CASE PassBegins \/ PassStep \/ PassFails
  <2>1. CASE pass'.session = pass.session /\ pass'.fresh \subseteq pass.fresh
    BY <1>3, <2>1, PassReads DEF Apart
  <2>2. ASSUME NEW s \in Sessions, pass'.session = s, pass'.fresh \subseteq Fresh(s)
        PROVE  Apart'
    BY <1>3, <2>2, PassReads DEF Apart, Fresh
  <2> QED
    BY <1>3, <2>1, <2>2, PassReads
<1>4. CASE UNCHANGED <<live, pass>>
  BY <1>4 DEF Apart
<1> QED
  BY <1>1, <1>2, <1>3, <1>4, MessageSteps

------------------------------------------------------------------------------
(***************************************************************************)
(* The mark leaves no gap, and no message is formed twice.                 *)
(***************************************************************************)

LEMMA NextMarks == TypeOK /\ MarkInv /\ [Next]_vars => MarkInv'
<1> SUFFICES ASSUME TypeOK, MarkInv, [Next]_vars PROVE MarkInv'
  OBVIOUS
<1>1. ASSUME NEW s \in Sessions, AppendTo(s), UNCHANGED pass PROVE MarkInv'
  <2>1. /\ passed \subseteq passed'
        /\ pass.pc \in {"voice", "form", "mark"} /\ pass.session = s => clock + 1 \in passed'
    BY <1>1 DEF AppendTo, Reflecting
  <2>2. \A u \in Sessions : \A m \in Elements(live'[u]) :
          m \in Elements(live[u]) \/ (u = s /\ m = clock + 1)
    BY <1>1, Appended
  <2>3. mark' = mark /\ \A u \in Sessions : ~(clock + 1 <= mark[u])
    BY <1>1, Appended
  <2>4. MarkLeavesNoGap'
    BY <2>1, <2>2, <2>3 DEF MarkInv, MarkLeavesNoGap
  <2>5. pass.session \in Sessions
    BY DEF TypeOK
  <2>6. pass.pc = "voice" => \A m \in Elements(live'[pass.session]) : m \in passed' \cup pass.fresh
    BY <2>1, <2>2, <2>5 DEF MarkInv
  <2>7. pass.pc \in {"form", "mark"} => Elements(live'[pass.session]) \subseteq passed'
    BY <2>1, <2>2, <2>5 DEF MarkInv
  <2> QED
    BY <1>1, <2>4, <2>6, <2>7 DEF MarkInv
<1>2. CASE \/ CacheLost
           \/ /\ UNCHANGED <<mark, pass, passed>>
              /\ \E s \in Sessions : live' = [live EXCEPT ![s] = <<>>]
  <2>1. \A u \in Sessions : Elements(live'[u]) \subseteq Elements(live[u])
    BY <1>2, Cleared
  <2>2. pass' = pass /\ passed' = passed /\ pass.session \in Sessions
    BY <1>2 DEF CacheLost, history, TypeOK
  <2>3. MarkLeavesNoGap'
    <3>1. CASE CacheLost
      <4>1. \A u \in Sessions : Elements(live'[u]) = {}
        BY <3>1, NoElements DEF CacheLost
      <4> QED
        BY <4>1 DEF MarkLeavesNoGap
    <3>2. CASE mark' = mark
      BY <2>1, <2>2, <3>2 DEF MarkInv, MarkLeavesNoGap
    <3> QED
      BY <1>2, <3>1, <3>2
  <2> QED
    BY <2>1, <2>2, <2>3 DEF MarkInv
<1>3. CASE PassBegins \/ PassFails \/ PassEnds \/ NothingFound
  <2>1. live' = live /\ mark' = mark /\ passed' = passed
    BY <1>3 DEF PassBegins, PassFails, PassEnds, NothingFound, PassKeeps, history
  <2>2. pass'.pc \in {"idle", "next"}
    BY <1>3 DEF PassBegins, PassFails, PassEnds, NothingFound, Done, TypeOK
  <2> QED
    BY <2>1, <2>2 DEF MarkInv, MarkLeavesNoGap
<1>4. ASSUME NEW s \in Sessions, PassLooks(s) PROVE MarkInv'
  <2>1. live' = live /\ mark' = mark /\ passed' = passed /\ pass'.session = s
    BY <1>4 DEF PassLooks, PassKeeps, history
  <2>2. MarkLeavesNoGap'
    BY <2>1 DEF MarkInv, MarkLeavesNoGap
  <2>3. pass'.pc \in {"next", "voice"} /\ (pass'.pc = "voice" => pass'.fresh = Fresh(s))
    BY <1>4 DEF PassLooks
  <2>4. \A m \in Elements(live[s]) : m \in passed \/ m \in Fresh(s)
    <3>1. \A m \in Elements(live[s]) : m \in Nat /\ mark[s] \in Nat
      BY ElementsInside DEF TypeOK
    <3> QED
      BY <3>1 DEF MarkInv, MarkLeavesNoGap, Fresh
  <2> QED
    BY <2>1, <2>2, <2>3, <2>4 DEF MarkInv
<1>5. CASE MomentsFound \/ Form
  <2>1. /\ live' = live /\ mark' = mark /\ pass'.session = pass.session
        /\ pass'.pc \in {"form", "mark"} /\ pass.session \in Sessions
    BY <1>5 DEF MomentsFound, Form, PassKeeps, TypeOK
  <2>2. passed \subseteq passed' /\ Elements(live[pass.session]) \subseteq passed'
    BY <1>5 DEF MomentsFound, Form, MarkInv
  <2> QED
    BY <2>1, <2>2 DEF MarkInv, MarkLeavesNoGap
<1>6. CASE Mark
  <2>1. /\ live' = live /\ mark' = [mark EXCEPT ![pass.session] = clock] /\ passed' = passed
        /\ pass'.pc = "next" /\ pass.pc = "mark" /\ pass.session \in Sessions
    BY <1>6 DEF Mark, PassKeeps, Done, history, TypeOK
  <2>2. ASSUME NEW u \in Sessions, NEW m \in Elements(live[u]), m <= mark'[u]
        PROVE  m \in passed
    <3>1. CASE u = pass.session
      BY <2>1, <3>1 DEF MarkInv
    <3>2. CASE u # pass.session
      BY <2>1, <2>2, <3>2 DEF MarkInv, MarkLeavesNoGap, TypeOK
    <3> QED
      BY <3>1, <3>2
  <2> QED
    BY <2>1, <2>2 DEF MarkInv, MarkLeavesNoGap
<1>7. CASE UNCHANGED <<live, mark, pass, passed>>
  BY <1>7 DEF MarkInv, MarkLeavesNoGap
<1> QED
  BY <1>1, <1>2, <1>3, <1>4, <1>5, <1>6, <1>7, MessageSteps DEF PassStep

LEMMA NextForms == TypeOK /\ Apart /\ FormInv /\ [Next]_vars => FormInv'
<1> SUFFICES ASSUME TypeOK, Apart, FormInv, [Next]_vars, faults' = 0 PROVE FormInv'
  BY DEF FormInv
<1>1. faults = 0
  <2>1. faults' \in {faults, faults + 1}
    BY MessageSteps DEF PassBegins, PassStep, PassFails, PassEnds, NothingFound, MomentsFound,
                        Form, Mark, PassLooks, CacheLost
  <2> QED
    BY <2>1 DEF TypeOK
<1>2. /\ \A m \in 1..clock : formed[m] <= 1
      /\ \A u \in Sessions : \A m \in Elements(live[u]) :
           m > mark[u] /\ ~(pass.pc = "mark" /\ pass.session = u) => formed[m] = 0
      /\ pass.pc \in {"voice", "form"} => \A m \in pass.fresh : formed[m] = 0
  BY <1>1 DEF FormInv
<1>3. ASSUME NEW s \in Sessions, AppendTo(s), UNCHANGED pass PROVE FormInv'
  <2>1. \A m \in 1..clock' : m \in 1..clock \/ m = clock + 1
    BY <1>3, Appended
  <2>2. \A m \in 1..clock' : formed'[m] <= 1
    BY <1>2, <1>3, <2>1, Appended
  <2>3. \A u \in Sessions : \A m \in Elements(live'[u]) :
          \/ m \in Elements(live[u]) /\ m \in 1..clock
          \/ m = clock + 1
    BY <1>3, Appended
  <2>4. \A u \in Sessions : \A m \in Elements(live'[u]) :
          m > mark'[u] /\ ~(pass.pc = "mark" /\ pass.session = u) => formed'[m] = 0
    BY <1>2, <1>3, <2>3, Appended
  <2>5. pass.pc \in {"voice", "form"} => \A m \in pass.fresh : formed'[m] = 0
    BY <1>2, <1>3, Appended
  <2> QED
    BY <1>3, <2>2, <2>4, <2>5 DEF FormInv
<1>4. CASE \/ CacheLost
           \/ /\ UNCHANGED <<mark, pass, formed, clock>>
              /\ \E s \in Sessions : live' = [live EXCEPT ![s] = <<>>]
  <2>1. pass' = pass /\ formed' = formed /\ clock' = clock
    BY <1>4 DEF CacheLost, history
  <2>2. \A u \in Sessions : Elements(live'[u]) \subseteq Elements(live[u])
    BY <1>4, Cleared
  <2>3. mark' = mark \/ \A u \in Sessions : Elements(live'[u]) = {}
    BY <1>4, NoElements DEF CacheLost
  <2> QED
    BY <1>2, <2>1, <2>2, <2>3 DEF FormInv
<1>5. CASE PassBegins \/ PassEnds \/ NothingFound \/ MomentsFound
  <2>1. live' = live /\ mark' = mark /\ formed' = formed /\ clock' = clock
    BY <1>5 DEF PassBegins, PassEnds, NothingFound, MomentsFound, PassKeeps, history
  <2>2. pass.pc # "mark" /\ pass'.pc # "mark"
    BY <1>5 DEF PassBegins, PassEnds, NothingFound, MomentsFound, Done, TypeOK
  <2>3. pass'.pc \in {"voice", "form"} => pass.pc = "voice" /\ pass'.fresh \subseteq pass.fresh
    BY <1>5 DEF PassBegins, PassEnds, NothingFound, MomentsFound, Recent, Done, TypeOK
  <2> QED
    BY <1>2, <2>1, <2>2, <2>3 DEF FormInv
<1>6. CASE PassFails
  BY <1>1, <1>6 DEF PassFails
<1>7. ASSUME NEW s \in Sessions, PassLooks(s) PROVE FormInv'
  <2>1. live' = live /\ mark' = mark /\ formed' = formed /\ clock' = clock /\ pass.pc = "next"
    BY <1>7 DEF PassLooks, PassKeeps, history
  <2>2. pass'.pc \in {"next", "voice"} /\ pass'.fresh \subseteq Fresh(s)
    BY <1>7 DEF PassLooks
  <2>3. \A m \in Fresh(s) : formed[m] = 0
    BY <1>2, <2>1 DEF Fresh
  <2> QED
    BY <1>2, <2>1, <2>2, <2>3 DEF FormInv
<1>8. CASE Form
  <2>1. live' = live /\ mark' = mark /\ clock' = clock
    BY <1>8 DEF Form, PassKeeps
  <2>2. pass.pc = "form" /\ pass'.pc = "mark" /\ pass'.session = pass.session
    BY <1>8 DEF Form, TypeOK
  <2>3. \A m \in 1..clock : formed'[m] = IF m \in pass.fresh THEN formed[m] + 1 ELSE formed[m]
    BY <1>8 DEF Form, TypeOK
  <2>4. \A m \in 1..clock : formed'[m] <= 1
    BY <1>2, <2>2, <2>3
  <2>5. ASSUME NEW u \in Sessions, NEW m \in Elements(live[u]), m > mark[u], pass.session # u
        PROVE  formed'[m] = 0
    <3>1. m \in 1..clock
      BY ElementsInside DEF TypeOK
    <3>2. m \notin pass.fresh
      BY <2>5 DEF Apart
    <3> QED
      BY <1>2, <2>3, <2>5, <3>1, <3>2
  <2> QED
    BY <2>1, <2>2, <2>4, <2>5 DEF FormInv
<1>9. CASE Mark
  <2>1. /\ live' = live /\ mark' = [mark EXCEPT ![pass.session] = clock]
        /\ formed' = formed /\ clock' = clock /\ pass'.pc = "next" /\ pass.session \in Sessions
    BY <1>9 DEF Mark, PassKeeps, Done, history, TypeOK
  <2>2. ASSUME NEW u \in Sessions, NEW m \in Elements(live[u]), m > mark'[u]
        PROVE  formed[m] = 0
    <3>1. m \in 1..clock /\ clock \in Nat
      BY ElementsInside DEF TypeOK
    <3>2. u # pass.session /\ mark'[u] = mark[u]
      BY <2>1, <2>2, <3>1 DEF TypeOK
    <3> QED
      BY <1>2, <2>2, <3>2
  <2> QED
    BY <1>2, <2>1, <2>2 DEF FormInv
<1>10. CASE UNCHANGED <<live, mark, pass, formed, clock>>
  BY <1>2, <1>10 DEF FormInv
<1> QED
  BY <1>3, <1>4, <1>5, <1>6, <1>7, <1>8, <1>9, <1>10, MessageSteps DEF PassStep

------------------------------------------------------------------------------
(***************************************************************************)
(* What a call of session end leaves behind.                               *)
(***************************************************************************)

\* Besides a start and the calls themselves, steps record turns at most.
LEMMA EndSteps ==
    ASSUME TypeOK, [Next]_vars
    PROVE  \/ \E s \in Sessions : Start(s)
           \/ \E e \in Enders : EndStep(e) \/ EndFails(e) \/ \E s \in Sessions : EndReads(e, s)
           \/ /\ UNCHANGED <<row, ender, completed>> /\ faults' \in {faults, faults + 1}
              /\ \A s \in Sessions : archive'[s] \in {archive[s], archive[s] + 1}
<1>1. ASSUME NEW t \in Turns, NEW s \in Sessions, Say(t, s)
      PROVE  UNCHANGED <<archive, row, ender, completed, faults>>
  BY <1>1 DEF Say, AppendTo, TurnKeeps
<1>2. ASSUME NEW t \in Turns, TurnStep(t) \/ RecordFails(t)
      PROVE  UNCHANGED <<row, ender, completed>> /\ faults' \in {faults, faults + 1}
  BY <1>2 DEF TurnStep, Record, RecordFails, VoiceFails, Answer, Close, AppendTo, TurnKeeps, store
<1>3. ASSUME NEW t \in Turns, TurnStep(t) \/ RecordFails(t), NEW s \in Sessions
      PROVE  archive'[s] \in {archive[s], archive[s] + 1}
  BY <1>3 DEF TurnStep, Record, RecordFails, VoiceFails, Answer, Close, store, TypeOK
<1>4. CASE CacheLost \/ PassBegins \/ PassStep \/ PassFails \/ UNCHANGED vars
  BY <1>4 DEF CacheLost, PassBegins, PassStep, PassFails, PassEnds, NothingFound, MomentsFound,
              Form, Mark, PassLooks, PassKeeps, vars, store
<1> QED
  BY <1>1, <1>2, <1>3, <1>4 DEF Next

\* Faults are only counted up.
LEMMA FaultsGrow ==
    ASSUME TypeOK, [Next]_vars, faults' = 0
    PROVE  faults = 0
<1>1. faults' \in {faults, faults + 1}
  BY EndSteps DEF Start, EndStep, EndFails, EndRebuilds, EndFinalizes, EndCounts, EndAdvances, EndRaises,
                  EndClears, EndReads, EndBegins, EndKeeps
<1> QED
  BY <1>1 DEF TypeOK

LEMMA FewerAreCounted ==
    ASSUME NEW S, NEW T, IsFiniteSet(T), S \subseteq T
    PROVE  IsFiniteSet(S) /\ Cardinality(S) <= Cardinality(T)
           /\ Cardinality(S) \in Nat /\ Cardinality(T) \in Nat
BY FS_Subset, FS_CardinalityType

\* An ender that is not about to count, and is not afterwards.
LEMMA UncountedStays ==
    ASSUME TypeOK, NEW e \in Enders, ~EndAt(e, "count"), ender'[e].pc # "count",
           \A x \in Enders \ {e} : ender'[x] = ender[x]
    PROVE  Uncounted' = Uncounted
BY DEF Uncounted, Current, EndAt

LEMMA NextCounts == TypeOK /\ CountInv /\ [Next]_vars => CountInv'
<1> SUFFICES ASSUME TypeOK, CountInv, [Next]_vars PROVE CountInv'
  OBVIOUS
<1>1. ASSUME Ended' = Ended, Uncounted' = Uncounted, completed' = completed PROVE CountInv'
  BY <1>1, FaultsGrow DEF CountInv
<1>2. ASSUME NEW s \in Sessions, Start(s) PROVE CountInv'
  <2>1. Ended' = Ended
    BY <1>2 DEF Start, Ended, TypeOK
  <2>2. Uncounted' = Uncounted /\ completed' = completed
    BY <1>2 DEF Start, Uncounted, Current, EndAt
  <2> QED
    BY <1>1, <2>1, <2>2
<1>3. ASSUME NEW e \in Enders, EndFinalizes(e) PROVE CountInv'
  <2> DEFINE s == Current(e)
  <2>1. /\ s \in Sessions /\ completed' = completed /\ faults' = faults
        /\ row' = [row EXCEPT ![s] = IF @ = "none" THEN @ ELSE "ended"]
        /\ ender' = [ender EXCEPT ![e].pc = "count"]
    BY <1>3 DEF EndFinalizes, EndGoto, EndKeeps, Current, TypeOK
  <2>2. Ended \subseteq Ended' /\ Ended' \subseteq Ended \cup {s}
    BY <2>1 DEF Ended, TypeOK
  <2>3. IsFiniteSet(Ended')
    <3>1. IsFiniteSet(Ended \cup {s})
      BY FS_AddElement DEF CountInv
    <3> QED
      BY <2>2, <3>1, FS_Subset
  <2>4. Uncounted \cup {s} \subseteq Uncounted'
    <3>1. /\ ender'[e].pc = "count" /\ ender'[e].session = s
          /\ \A x \in Enders \ {e} : ender'[x] = ender[x]
      BY <2>1 DEF Current, TypeOK
    <3>2. ~EndAt(e, "count")
      BY <1>3 DEF EndFinalizes, EndAt
    <3> QED
      BY <3>1, <3>2 DEF Uncounted, Current, EndAt
  <2>5. Ended' \ Uncounted' \subseteq Ended \ Uncounted
    BY <2>2, <2>4
  <2>6. IsFiniteSet(Ended \ Uncounted)
    BY FS_Subset DEF CountInv
  <2>7. Cardinality(Ended' \ Uncounted') <= Cardinality(Ended \ Uncounted)
        /\ Cardinality(Ended' \ Uncounted') \in Nat /\ Cardinality(Ended \ Uncounted) \in Nat
    BY <2>5, <2>6, FewerAreCounted
  <2> HIDE DEF s
  <2> QED
    BY <2>1, <2>3, <2>7 DEF CountInv, TypeOK
<1>4. ASSUME NEW e \in Enders, EndCounts(e) PROVE CountInv'
  <2> DEFINE s == Current(e)
  <2>1. /\ row' = row /\ completed' = completed + 1 /\ faults' = faults
        /\ ender' = [ender EXCEPT ![e].pc = "advance"]
    BY <1>4 DEF EndCounts, EndGoto, EndKeeps
  <2>2. Ended' = Ended
    BY <2>1 DEF Ended
  <2>3. Uncounted \subseteq Uncounted' \cup {s}
    <3>1. \A x \in Enders \ {e} : ender'[x] = ender[x]
      BY <2>1 DEF TypeOK
    <3> QED
      BY <3>1 DEF Uncounted, Current, EndAt
  <2>4. Ended' \ Uncounted' \subseteq (Ended \ Uncounted) \cup {s}
    BY <2>2, <2>3
  <2>5. IsFiniteSet(Ended \ Uncounted)
    BY FS_Subset DEF CountInv
  <2>6. /\ IsFiniteSet((Ended \ Uncounted) \cup {s}) /\ Cardinality(Ended \ Uncounted) \in Nat
        /\ Cardinality((Ended \ Uncounted) \cup {s}) <= Cardinality(Ended \ Uncounted) + 1
    <3>1. Cardinality(Ended \ Uncounted) \in Nat
      BY <2>5, FS_CardinalityType
    <3> QED
      BY <2>5, <3>1, FS_AddElement
  <2>7. Cardinality(Ended' \ Uncounted') <= Cardinality((Ended \ Uncounted) \cup {s})
        /\ Cardinality(Ended' \ Uncounted') \in Nat
        /\ Cardinality((Ended \ Uncounted) \cup {s}) \in Nat
    BY <2>4, <2>6, FewerAreCounted
  <2> HIDE DEF s
  <2> QED
    BY <2>1, <2>2, <2>6, <2>7 DEF CountInv, TypeOK
<1>5. ASSUME NEW e \in Enders,
             \/ EndRebuilds(e) \/ EndAdvances(e) \/ EndRaises(e) \/ EndClears(e)
             \/ \E s \in Sessions : EndReads(e, s)
      PROVE  CountInv'
  <2>1. row' = row /\ completed' = completed
    BY <1>5 DEF EndRebuilds, EndAdvances, EndRaises, EndClears, EndReads, EndBegins, store
  <2>2. /\ ~EndAt(e, "count") /\ ender'[e].pc # "count"
        /\ \A x \in Enders \ {e} : ender'[x] = ender[x]
    <3>1. ender \in [Enders -> [pc : {"idle", "rebuild", "finalize", "count", "advance",
                                     "clear", "done", "raised"},
                               session : Sessions, since : 0..clock, lived : BOOLEAN]]
      BY DEF TypeOK
    <3>2. CASE EndRebuilds(e) \/ EndAdvances(e) \/ EndRaises(e) \/ EndClears(e)
      <4>1. PICK pc \in {"finalize", "advance", "clear", "done", "raised"} :
              ender' = [ender EXCEPT ![e].pc = pc]
        BY <3>2 DEF EndRebuilds, EndAdvances, EndRaises, EndClears, EndGoto, Processed
      <4>2. ender[e].pc \in {"rebuild", "advance", "clear"}
        BY <3>2 DEF EndRebuilds, EndAdvances, EndRaises, EndClears, EndAt
      <4> QED
        BY <3>1, <4>1, <4>2 DEF EndAt
    <3>3. ASSUME NEW s \in Sessions, EndReads(e, s)
          PROVE  /\ ~EndAt(e, "count") /\ ender'[e].pc # "count"
                 /\ \A x \in Enders \ {e} : ender'[x] = ender[x]
      <4>1. PICK pc \in {"rebuild", "finalize", "advance"} :
              ender' = [ender EXCEPT ![e] = [pc |-> pc, session |-> s, since |-> clock,
                                             lived |-> Lived(s)]]
        BY <3>3 DEF EndReads, EndBegins, Processed
      <4>2. ender[e].pc = "idle"
        BY <3>3 DEF EndReads, EndBegins, EndAt
      <4> QED
        BY <3>1, <4>1, <4>2 DEF EndAt
    <3> QED
      BY <1>5, <3>2, <3>3
  <2> QED
    BY <1>1, <2>1, <2>2, UncountedStays DEF Ended
<1>6. ASSUME NEW e \in Enders, EndFails(e) PROVE CountInv'
  <2>1. row' = row /\ faults' # 0
    BY <1>6 DEF EndFails, store, TypeOK
  <2> QED
    BY <2>1 DEF CountInv, Ended
<1>7. CASE UNCHANGED <<row, ender, completed>>
  BY <1>1, <1>7 DEF Ended, Uncounted, Current, EndAt
<1> QED
  BY <1>2, <1>3, <1>4, <1>5, <1>6, <1>7, EndSteps DEF EndStep

LEMMA NextLeaves == TypeOK /\ EndLeavesNothing /\ [Next]_vars => EndLeavesNothing'
<1> SUFFICES ASSUME TypeOK, EndLeavesNothing, [Next]_vars, faults' = 0,
                    NEW e \in Enders, ender'[e].pc = "done",
                    NEW m \in Elements(live'[ender'[e].session])
             PROVE  m > ender'[e].since
  BY DEF EndLeavesNothing, EndAt, Current
<1>1. faults = 0
  BY FaultsGrow
<1>2. /\ ender[e].session \in Sessions /\ ender[e].since \in 0..clock /\ clock \in Nat
      /\ ender[e].pc = "done" => \A n \in Elements(live[ender[e].session]) : n > ender[e].since
  BY <1>1 DEF EndLeavesNothing, EndAt, Current, TypeOK
<1>3. CASE ender' = ender
  <2>1. ASSUME NEW s \in Sessions, AppendTo(s)
        PROVE  m \in Elements(live[ender[e].session]) \/ m = clock + 1
    BY <1>2, <1>3, <2>1, Appended
  <2>2. ASSUME CacheLost \/ \E s \in Sessions : live' = [live EXCEPT ![s] = <<>>]
        PROVE  m \in Elements(live[ender[e].session])
    BY <1>2, <1>3, <2>2, Cleared
  <2>3. live' = live => m \in Elements(live[ender[e].session])
    BY <1>3
  <2>4. m \in Elements(live[ender[e].session]) \/ m = clock + 1
    <3>1. \/ \E s \in Sessions : AppendTo(s)
          \/ CacheLost \/ \E s \in Sessions : live' = [live EXCEPT ![s] = <<>>]
          \/ live' = live
      BY MessageSteps, PassReads
    <3>2. CASE \E s \in Sessions : AppendTo(s)
      BY <2>1, <3>2
    <3>3. CASE CacheLost \/ \E s \in Sessions : live' = [live EXCEPT ![s] = <<>>]
      BY <2>2, <3>3
    <3>4. CASE live' = live
      BY <2>3, <3>4
    <3> QED
      BY <3>1, <3>2, <3>3, <3>4
  <2> QED
    BY <1>2, <1>3, <2>4
<1>4. ASSUME NEW x \in Enders, EndClears(x) PROVE m > ender'[e].since
  <2>1. /\ ender'[e].session = ender[e].session /\ ender'[e].since = ender[e].since
        /\ x # e => ender'[e] = ender[e]
        /\ live' = [live EXCEPT ![ender[x].session] = <<>>]
    BY <1>4 DEF EndClears, EndGoto, Current, TypeOK
  <2>2. CASE x = e
    <3>1. Elements(live'[ender'[e].session]) = {}
      BY <1>2, <2>1, <2>2, NoElements DEF TypeOK
    <3> QED
      BY <3>1
  <2>3. CASE x # e
    <3>1. ender[x].session \in Sessions
      BY DEF TypeOK
    <3>2. m \in Elements(live[ender[e].session])
      BY <1>2, <2>1, <3>1, Cleared
    <3> QED
      BY <1>2, <2>1, <2>3, <3>2
  <2> QED
    BY <2>2, <2>3
<1>5. ASSUME NEW x \in Enders,
             \/ EndRebuilds(x) \/ EndFinalizes(x) \/ EndCounts(x) \/ EndAdvances(x) \/ EndRaises(x)
             \/ \E s \in Sessions : EndReads(x, s)
      PROVE  m > ender'[e].since
  <2>1. live' = live
    BY <1>5 DEF EndRebuilds, EndFinalizes, EndCounts, EndAdvances, EndRaises, EndReads,
           EndBegins, store
  <2>2. x # e => ender'[e] = ender[e]
    BY <1>5 DEF EndRebuilds, EndFinalizes, EndCounts, EndAdvances, EndRaises, EndReads,
                EndBegins, EndGoto, TypeOK
  <2>3. ender'[x].pc # "done"
    <3>1. CASE \E s \in Sessions : EndReads(x, s)
      BY <3>1 DEF EndReads, EndBegins, Processed, TypeOK
    <3>2. CASE EndRebuilds(x) \/ EndFinalizes(x) \/ EndCounts(x) \/ EndAdvances(x) \/ EndRaises(x)
      <4>1. PICK pc \in {"finalize", "count", "advance", "clear", "raised"} : EndGoto(x, pc)
        BY <3>2 DEF EndRebuilds, EndFinalizes, EndCounts, EndAdvances, EndRaises, Processed
      <4> QED
        BY <4>1 DEF EndGoto, TypeOK
    <3> QED
      BY <1>5, <3>1, <3>2
  <2> QED
    BY <1>2, <2>1, <2>2, <2>3
<1>6. ASSUME NEW x \in Enders, EndFails(x) PROVE FALSE
  BY <1>1, <1>6 DEF EndFails
<1>7. ASSUME NEW s \in Sessions, Start(s) PROVE ender' = ender
  BY <1>7 DEF Start
<1> QED
  BY <1>3, <1>4, <1>5, <1>6, <1>7, EndSteps DEF EndStep

\* A call goes on from where it stands; its session and what it found stay.
LEMMA LivedStep ==
    ASSUME TypeOK, LivedInv, faults = 0, NEW e \in Enders, EndStep(e)
    PROVE  LivedInv'
<1>1. /\ Current(e) \in Sessions
      /\ \A x \in Enders : ender'[x].session = ender[x].session /\ ender'[x].lived = ender[x].lived
      /\ \A x \in Enders \ {e} : ender'[x] = ender[x]
      /\ archive' = archive
  <2>1. archive' = archive
    BY DEF EndStep, EndRebuilds, EndFinalizes, EndCounts, EndAdvances, EndRaises, EndClears, store
  <2>2. PICK pc \in {"finalize", "count", "advance", "clear", "done", "raised"} :
          ender' = [ender EXCEPT ![e].pc = pc]
    BY DEF EndStep, EndRebuilds, EndFinalizes, EndCounts, EndAdvances, EndRaises, EndClears, EndGoto,
           Processed
  <2> QED
    BY <2>1, <2>2 DEF Current, TypeOK
<1>2. \A s \in Sessions : /\ row[s] = "ended" => row'[s] = "ended"
                          /\ row[s] # "none" => row'[s] # "none"
  BY DEF EndStep, EndRebuilds, EndFinalizes, EndCounts, EndAdvances, EndRaises, EndClears, store, TypeOK
<1>3. ASSUME NEW x \in Enders \ {e}, ender[x].lived
      PROVE  /\ ender[x].pc = "rebuild" => archive[ender[x].session] >= 2
             /\ ender[x].pc \in {"rebuild", "finalize"} => row'[ender[x].session] # "none"
             /\ ender[x].pc \in {"count", "advance", "clear", "done", "raised"} => row'[ender[x].session] = "ended"
  <2>1. ender[x].session \in Sessions
    BY DEF TypeOK
  <2> QED
    BY <1>2, <1>3, <2>1 DEF LivedInv, EndAt, Current
<1>4. ASSUME ender[e].lived
      PROVE  /\ ender'[e].pc # "rebuild"
             /\ ender'[e].pc = "finalize" => row'[Current(e)] # "none"
             /\ ender'[e].pc \in {"count", "advance", "clear", "done", "raised"} => row'[Current(e)] = "ended"
  <2>1. /\ EndAt(e, "rebuild") => archive[Current(e)] >= 2
        /\ ender[e].pc \in {"rebuild", "finalize"} => row[Current(e)] # "none"
        /\ ender[e].pc \in {"count", "advance", "clear", "done", "raised"} => row[Current(e)] = "ended"
    BY <1>4 DEF LivedInv
  <2>2. CASE EndRebuilds(e)
    <3>1. archive[Current(e)] \in Nat /\ archive[Current(e)] >= 2 /\ row[Current(e)] # "none"
      BY <1>1, <2>1, <2>2 DEF EndRebuilds, EndAt, TypeOK
    <3>2. Processed(archive[Current(e)]) = "finalize"
      BY <3>1 DEF Processed
    <3>3. ender'[e].pc = "finalize"
      BY <2>2, <3>2 DEF EndRebuilds, EndGoto, TypeOK
    <3> QED
      BY <1>1, <1>2, <3>1, <3>3
  <2>3. CASE EndFinalizes(e)
    <3>1. row[Current(e)] # "none" /\ row' = [row EXCEPT ![Current(e)] = IF @ = "none" THEN @ ELSE "ended"]
      BY <2>1, <2>3 DEF EndFinalizes, EndAt
    <3>2. row'[Current(e)] = "ended"
      BY <1>1, <3>1 DEF TypeOK
    <3>3. ender'[e].pc = "count"
      BY <2>3 DEF EndFinalizes, EndGoto, TypeOK
    <3> QED
      BY <3>2, <3>3
  <2>4. CASE EndCounts(e) \/ EndAdvances(e) \/ EndRaises(e) \/ EndClears(e)
    <3>1. ender[e].pc \in {"count", "advance", "clear"} /\ ender'[e].pc \in {"advance", "clear", "done", "raised"}
      BY <2>4 DEF EndCounts, EndAdvances, EndRaises, EndClears, EndGoto, EndAt, TypeOK
    <3> QED
      BY <1>1, <1>2, <2>1, <3>1
  <2> QED
    BY <2>2, <2>3, <2>4 DEF EndStep
<1> QED
  BY <1>1, <1>3, <1>4 DEF LivedInv, EndAt, Current

LEMMA NextLived == TypeOK /\ LivedInv /\ [Next]_vars => LivedInv'
<1> SUFFICES ASSUME TypeOK, LivedInv, [Next]_vars, faults' = 0 PROVE LivedInv'
  BY DEF LivedInv
<1>1. faults = 0
  BY FaultsGrow
<1>2. ASSUME NEW s \in Sessions, Start(s) PROVE LivedInv'
  <2>1. /\ ender' = ender /\ archive' = archive
        /\ \A u \in Sessions : /\ row[u] = "ended" => row'[u] = "ended"
                               /\ row[u] # "none" => row'[u] # "none"
    BY <1>2 DEF Start, TypeOK
  <2>2. \A e \in Enders : ender[e].session \in Sessions
    BY DEF TypeOK
  <2>3. ASSUME NEW e \in Enders, ender[e].lived
        PROVE  /\ ender[e].pc = "rebuild" => archive[ender[e].session] >= 2
               /\ ender[e].pc \in {"rebuild", "finalize"} => row'[ender[e].session] # "none"
               /\ ender[e].pc \in {"count", "advance", "clear", "done", "raised"} =>
                    row'[ender[e].session] = "ended"
    <3>1. PICK u \in Sessions : u = ender[e].session
      BY <2>2
    <3>2. /\ ender[e].pc = "rebuild" => archive[u] >= 2
          /\ ender[e].pc \in {"rebuild", "finalize"} => row[u] # "none"
          /\ ender[e].pc \in {"count", "advance", "clear", "done", "raised"} => row[u] = "ended"
      BY <1>1, <2>3, <3>1 DEF LivedInv, EndAt, Current
    <3>3. /\ row[u] = "ended" => row'[u] = "ended"
          /\ row[u] # "none" => row'[u] # "none"
      BY <2>1
    <3> QED
      BY <3>1, <3>2, <3>3
  <2> QED
    BY <2>1, <2>3 DEF LivedInv, EndAt, Current
<1>3. ASSUME NEW e \in Enders, EndFails(e) PROVE FALSE
  BY <1>1, <1>3 DEF EndFails
<1>4. ASSUME NEW e \in Enders, NEW s \in Sessions, EndReads(e, s) PROVE LivedInv'
  <2>1. /\ row' = row /\ archive' = archive
        /\ \A x \in Enders \ {e} : ender'[x] = ender[x]
        /\ ender'[e].session = s /\ ender'[e].lived = Lived(s)
        /\ Len(live[s]) >= 2 => ender'[e].pc = Processed(Len(live[s]))
        /\ ~(Len(live[s]) >= 2) => ender'[e].pc = "rebuild"
    BY <1>4 DEF EndReads, EndBegins, store, TypeOK
  <2>2. Len(live[s]) \in Nat
    BY DEF TypeOK
  <2>3. ender'[e].pc \in {"finalize", "rebuild"}
    BY <2>1, <2>2 DEF Processed
  <2>4. \A x \in Enders \ {e} : ender[x].session \in Sessions
    BY DEF TypeOK
  <2> QED
    BY <1>1, <2>1, <2>3, <2>4 DEF LivedInv, Lived, EndAt, Current
<1>5. CASE UNCHANGED <<row, ender>> /\ \A s \in Sessions : archive'[s] \in {archive[s], archive[s] + 1}
  <2>1. \A s \in Sessions : archive[s] >= 2 => archive'[s] >= 2
    <3>1. \A s \in Sessions : archive[s] \in Nat
      BY DEF TypeOK
    <3> QED
      BY <1>5, <3>1
  <2>2. \A e \in Enders : ender[e].session \in Sessions
    BY DEF TypeOK
  <2> QED
    BY <1>1, <1>5, <2>1, <2>2 DEF LivedInv, EndAt, Current
<1> QED
  BY <1>1, <1>2, <1>3, <1>4, <1>5, LivedStep, EndSteps

------------------------------------------------------------------------------
(***************************************************************************)
(* The theorems.                                                           *)
(***************************************************************************)

LEMMA InitIInv == Init => IInv
<1> SUFFICES ASSUME Init PROVE IInv
  OBVIOUS
<1>1. \A s \in Sessions : Elements(live[s]) = {}
  BY NoElements DEF Init
<1>2. Ended = {} /\ Uncounted = {}
  BY DEF Init, Ended, Uncounted, EndAt
<1>3. \A e \in Enders : ender[e].pc = "idle"
  BY DEF Init
<1>4. pass.pc = "idle" /\ pass.session \in Sessions /\ clock = 0 /\ completed = 0
  BY IdleSession DEF Init
<1>5. CountInv
  <2>1. Ended \ Uncounted = {}
    BY <1>2
  <2> QED
    BY <1>2, <1>4, <2>1, FS_EmptySet DEF CountInv
<1>6. Apart /\ FormInv /\ MarkInv
  BY <1>1, <1>4 DEF Apart, FormInv, MarkInv, MarkLeavesNoGap
<1>7. EndLeavesNothing /\ LivedInv
  BY <1>3 DEF EndLeavesNothing, LivedInv, EndAt
<1> QED
  BY <1>5, <1>6, <1>7, InitTypes DEF IInv

LEMMA Invariance == Spec => []IInv
<1>1. IInv /\ [Next]_vars => IInv'
  BY NextTypes, NextApart, NextForms, NextMarks, NextCounts, NextLeaves, NextLived DEF IInv
<1> QED
  BY <1>1, InitIInv, PTL DEF Spec

\* However appends, ends and passes interleave, and whenever the cache is lost, no
\* message is formed into memories twice, unless a statement failed.
THEOREM NothingFormedTwice == Spec => []FormedOnce
<1>1. IInv => FormedOnce
  BY DEF IInv, FormInv, FormedOnce
<1> QED
  BY <1>1, Invariance, PTL

\* Nothing that a mark passes over was missed: it was fresh to a reflection that
\* found moments, or was appended while one waited.
THEOREM NoGapBelowMark == Spec => []MarkLeavesNoGap
<1>1. IInv => MarkLeavesNoGap
  BY DEF IInv, MarkInv
<1> QED
  BY <1>1, Invariance, PTL

\* The count misses no ended session once no call stands between the two updates.
THEOREM EndsAreCounted == Spec => []EveryEndCounts
<1>1. IInv => EveryEndCounts
  <2> SUFFICES ASSUME IInv, faults = 0, \A e \in Enders : ~EndAt(e, "count")
               PROVE  completed >= Cardinality({s \in Sessions : row[s] = "ended"})
    BY DEF EveryEndCounts
  <2>1. Uncounted = {}
    BY DEF Uncounted
  <2>2. Ended \ Uncounted = Ended
    BY <2>1
  <2> QED
    BY <2>2 DEF IInv, CountInv, Ended
<1> QED
  BY <1>1, Invariance, PTL

\* What lingers in the buffer after a call of session end was said after it began.
THEOREM EndClearsTheBuffer == Spec => []EndLeavesNothing
<1>1. IInv => EndLeavesNothing
  BY DEF IInv
<1> QED
  BY <1>1, Invariance, PTL

\* A recorded session is ended by a call of session end, its buffer lost or not.
THEOREM LivedIsEnded == Spec => []LivedSessionEnds
<1>1. IInv => LivedSessionEnds
  BY DEF IInv, LivedInv, LivedSessionEnds, EndAt
<1> QED
  BY <1>1, Invariance, PTL
==============================================================================
