-------------------------- MODULE LongTermMaintenance --------------------------
(***************************************************************************)
(* The long-term table of memories (lina/mps.py) and the passes that value *)
(* it: the monthly one turns every active memory's dial and then lets the  *)
(* subconscious ones fade or be forgotten, the yearly one reviews the      *)
(* legacy.  A pass selects its rows once and then works through what it    *)
(* selected, a statement at a time and without a transaction, while        *)
(* recalls touch the same rows; passes are run on demand, so two may work  *)
(* at once, and a failed statement breaks one off.                         *)
(*                                                                         *)
(* A row's dates are kept as the time since: Unit days a step, and no more *)
(* steps than the code tells apart.  Time moves between passes, which take *)
(* minutes.  Scores, the lines and the turns of the dial are in half       *)
(* points, rounded down.  overlapped, anchored and a row's field "born",   *)
(* the score it came with, are history.                                    *)
(***************************************************************************)
EXTENDS Integers, FiniteSets

CONSTANTS
    Items,
    Scores,      \* importance_score a memory may come with
    Monthly,     \* coroutines that run the monthly pass
    Yearly,      \* coroutines that run the yearly review
    Unit,        \* days in a step of time
    MaxAge,      \* bound: steps after which time makes no difference
    Remaining,   \* thousandths of a score left after so many idle steps
    MaxRefs,     \* bound: recalls of one memory
    MaxFaults    \* bound: failed statements in one behaviour

ASSUME MaintenanceAssumption ==
    /\ Unit \in Nat \ {0} /\ MaxAge \in Nat /\ MaxAge * Unit >= 730
    /\ Remaining \in [0..MaxAge -> 0..1000]
    /\ Scores \subseteq Nat
    /\ Monthly \cap Yearly = {}
    /\ MaxRefs \in Nat /\ MaxFaults \in Nat

VARIABLES
    row,         \* lina_memory_items
    log,         \* what the passes wrote into lina_promotion_log
    pass,        \* where each pass stands, with the rows it has selected
    done,        \* bound: the passes run since time last moved, one of each
    overlapped,  \* two passes have been at work at once
    anchored,    \* a fading memory's score when its clock was last set
    faults

vars == <<row, log, pass, done, overlapped, anchored, faults>>

------------------------------------------------------------------------------
SubconsciousLine == 8
LegacyEnter      == 19
LegacyFloor      == 16
GoneLine         == 1
SlopeGoneDays    == 730
FormationBypass  == 16
IdentityFloor    == 15
GateToLongTerm   == 10

Passes   == Monthly \cup Yearly
Standing == {"active", "legacy", "subconscious"}
Present(i) == row[i].status \in Standing

\* What has not happened lies further back than anything.
Never == MaxAge + 1
Aged(age) == IF age < MaxAge THEN age + 1 ELSE age
Days(age) == age * Unit

Larger(a, b)  == IF a >= b THEN a ELSE b
Smaller(a, b) == IF a <= b THEN a ELSE b

Absent == [status |-> "none", born |-> 0, score |-> 0, protected |-> FALSE, refs |-> 0,
           sinceRef |-> Never, sinceBorn |-> Never, sinceSlip |-> Never]

Floor(r) == IF r.protected THEN IdentityFloor ELSE 0

------------------------------------------------------------------------------
(* The valuation of one row, as maintenance_delta and its callers do it.   *)

Earned(n) == IF n >= 25 THEN 4 ELSE IF n >= 10 THEN 3 ELSE IF n >= 3 THEN 2 ELSE 0

\* Mutant: a memory is penalised by its age even when it has been recalled.
DeltaByAge(r) ==
    IF Days(r.sinceBorn) >= 180 THEN -4 ELSE IF Days(r.sinceBorn) >= 90 THEN -2 ELSE Earned(r.refs)

\* Usage rewards, and penalties only for what has never been recalled.
Delta(r) ==
    IF r.sinceRef # Never
    THEN Earned(r.refs) + (IF Days(r.sinceRef) <= 30 THEN 1 ELSE 0)
    ELSE IF Days(r.sinceBorn) >= 180 THEN -4
    ELSE IF Days(r.sinceBorn) >= 90 THEN -2 ELSE Earned(r.refs)

\* Mutant: the dial knows no floor.
AdjustFreely(score, delta, floor) == score + delta

\* MemoryDial.adjust: the dial turns by at most three points and stops at the floor.
Adjust(score, delta, floor) ==
    Larger(floor, score + (IF delta > 6 THEN 6 ELSE IF delta < -6 THEN -6 ELSE delta))

Valued(r, score, status) ==
    [r EXCEPT !.score = score, !.status = status,
              !.sinceSlip = IF status = "subconscious" THEN 0 ELSE Never]

\* apply_monthly.
Reevaluated(r) ==
    LET score == Adjust(r.score, Delta(r), Floor(r)) IN
    Valued(r, score, IF score >= LegacyEnter THEN "legacy"
                     ELSE IF score < SubconsciousLine THEN "subconscious" ELSE "active")

\* Mutant: the review forgets that the crown is protected.
ReviewedAlike(r) ==
    LET score == Adjust(r.score, Delta(r), 0) IN
    Valued(r, score, IF score < LegacyFloor THEN "subconscious" ELSE "legacy")

\* apply_legacy_review.
Reviewed(r) ==
    LET score == Adjust(r.score, Delta(r), Floor(r)) IN
    Valued(r, score, IF ~r.protected /\ score < LegacyFloor THEN "subconscious" ELSE "legacy")

\* What the pass decides about a row it has selected.
Decision(p, r) == IF p \in Monthly THEN Reevaluated(r) ELSE Reviewed(r)

Moves(p, e) == Decision(p, e.row).status # e.row.status

\* The slope's anchor: the latest of the three dates.
Anchor(r) == Smaller(r.sinceSlip, Smaller(r.sinceRef, r.sinceBorn))

Faded(r) == (r.score * Remaining[Anchor(r)]) \div 1000

\* Mutant: what has faded stays at the bottom of the slope.
GoneNever(r) == FALSE

\* slope_effective: two years unused, or faded out; the floor does not matter.
Gone(r) == Days(Anchor(r)) >= SlopeGoneDays \/ Faded(r) < GoneLine

------------------------------------------------------------------------------
Idle == [pc |-> "idle", todo |-> {}, held |-> {}]

Selected(status) == {[item |-> i, row |-> row[i]] : i \in {j \in Items : row[j].status = status}}

Init ==
    /\ row = [i \in Items |-> Absent]
    /\ log = {}
    /\ pass = [p \in Passes |-> Idle]
    /\ done = {}
    /\ overlapped = FALSE
    /\ anchored = [i \in Items |-> 0]
    /\ faults = 0

Tick ==
    /\ \A p \in Passes : pass[p].pc = "idle"
    /\ row' = [i \in Items |-> [row[i] EXCEPT !.sinceRef = Aged(@), !.sinceBorn = Aged(@),
                                              !.sinceSlip = Aged(@)]]
    /\ done' = {}
    /\ UNCHANGED <<log, pass, overlapped, anchored, faults>>

\* store_long_term: what scores high enough is crowned, what scores less than
\* five points stays in the tiers.
Form(i, score) ==
    /\ row[i] = Absent
    /\ score >= GateToLongTerm
    /\ LET crown == score >= FormationBypass IN
       row' = [row EXCEPT ![i] = [Absent EXCEPT
                 !.status = IF crown THEN "legacy" ELSE "active", !.born = score,
                 !.score = score, !.protected = crown, !.sinceBorn = 0]]
    /\ UNCHANGED <<log, pass, done, overlapped, anchored, faults>>

\* The migration of the earlier schema's tables: active whatever the score, and as
\* old as it was.
Migrate(i, score, age) ==
    /\ row[i] = Absent
    /\ row' = [row EXCEPT ![i] = [Absent EXCEPT !.status = "active", !.born = score,
                                                !.score = score, !.sinceBorn = age]]
    /\ UNCHANGED <<log, pass, done, overlapped, anchored, faults>>

\* A recall reaches the row, the subconscious ones if it is asked to include
\* them; nothing but the two columns of usage changes.
Recall(i) ==
    /\ Present(i)
    /\ row[i].refs < MaxRefs
    /\ row' = [row EXCEPT ![i].refs = @ + 1, ![i].sinceRef = 0]
    /\ anchored' = [anchored EXCEPT ![i] = row[i].score]
    /\ UNCHANGED <<log, pass, done, overlapped, faults>>

------------------------------------------------------------------------------
(* One pass *)

Begin(p) ==
    /\ pass[p].pc = "idle" /\ p \notin done
    /\ done' = done \cup {p}
    /\ pass' = [pass EXCEPT ![p] = [Idle EXCEPT !.pc = "value", !.todo = Selected(IF p \in Monthly THEN "active" ELSE "legacy")]]
    /\ overlapped' = (overlapped \/ \E q \in Passes : pass[q].pc # "idle")
    /\ UNCHANGED <<row, log, anchored, faults>>

\* Mutant: the move is not logged.
LogNothing(p, e) == UNCHANGED log

\* _log_promotion.
LogMove(p, e) == log' = log \cup {<<e.item, e.row.status, Decision(p, e.row).status>>}

\* A change of status is logged before it is written.
Log(p) ==
    /\ pass[p].pc = "value" /\ pass[p].held = {}
    /\ \E e \in pass[p].todo :
         /\ Moves(p, e)
         /\ LogMove(p, e)
         /\ pass' = [pass EXCEPT ![p].todo = @ \ {e}, ![p].held = {e}]
    /\ UNCHANGED <<row, done, overlapped, anchored, faults>>

\* The UPDATE of a row as the pass selected it: the columns of usage keep what
\* they have, the others are overwritten; a deleted row stays deleted.
Update(e, decision) ==
    /\ row' = IF ~Present(e.item) THEN row
              ELSE [row EXCEPT ![e.item].score = decision.score,
                               ![e.item].status = decision.status,
                               ![e.item].sinceSlip = decision.sinceSlip]
    /\ anchored' = IF Present(e.item) /\ decision.status = "subconscious"
                   THEN [anchored EXCEPT ![e.item] = decision.score] ELSE anchored

Write(p) ==
    /\ pass[p].pc = "value"
    /\ \E e \in pass[p].held \cup pass[p].todo :
         /\ e \in pass[p].held \/ (pass[p].held = {} /\ ~Moves(p, e))
         /\ Update(e, Decision(p, e.row))
         /\ pass' = [pass EXCEPT ![p].todo = @ \ {e}, ![p].held = {}]
    /\ UNCHANGED <<log, done, overlapped, faults>>

\* The monthly pass goes on to the slope and selects anew.
Slope(p) ==
    /\ pass[p].pc = "value" /\ pass[p].todo = {} /\ pass[p].held = {}
    /\ p \in Monthly
    /\ pass' = [pass EXCEPT ![p].pc = "slope", ![p].todo = Selected("subconscious")]
    /\ UNCHANGED <<row, log, done, overlapped, anchored, faults>>

\* Forgotten: the row is deleted and nothing is recorded.
Forget(p) ==
    /\ pass[p].pc = "slope"
    /\ \E e \in pass[p].todo :
         /\ Gone(e.row)
         /\ row' = IF Present(e.item) THEN [row EXCEPT ![e.item].status = "gone"] ELSE row
         /\ pass' = [pass EXCEPT ![p].todo = @ \ {e}]
    /\ UNCHANGED <<log, done, overlapped, anchored, faults>>

\* The faded score is written back, and its anchor left where it was.
Fade(p) ==
    /\ pass[p].pc = "slope"
    /\ \E e \in pass[p].todo :
         /\ ~Gone(e.row)
         /\ row' = IF Present(e.item)
                   THEN [row EXCEPT ![e.item].score = Larger(Faded(e.row), Floor(e.row))] ELSE row
         /\ pass' = [pass EXCEPT ![p].todo = @ \ {e}]
    /\ UNCHANGED <<log, done, overlapped, anchored, faults>>

End(p) ==
    /\ pass[p].todo = {} /\ pass[p].held = {}
    /\ pass[p].pc = "slope" \/ (pass[p].pc = "value" /\ p \in Yearly)
    /\ pass' = [pass EXCEPT ![p] = Idle]
    /\ UNCHANGED <<row, log, done, overlapped, anchored, faults>>

\* A statement fails, or the service is restarted: the rest of the pass is lost.
Break(p) ==
    /\ pass[p].pc # "idle"
    /\ faults < MaxFaults
    /\ faults' = faults + 1
    /\ pass' = [pass EXCEPT ![p] = Idle]
    /\ UNCHANGED <<row, log, done, overlapped, anchored>>

PassStep(p) == Log(p) \/ Write(p) \/ Slope(p) \/ Forget(p) \/ Fade(p) \/ End(p)

Next ==
    \/ Tick
    \/ \E i \in Items : Recall(i)
    \/ \E i \in Items, s \in Scores : Form(i, s) \/ \E age \in 0..MaxAge : Migrate(i, s, age)
    \/ \E p \in Passes : Begin(p) \/ PassStep(p) \/ Break(p)

Spec == Init /\ [][Next]_vars

\* Time goes on, and the event loop carries on a pass that was begun; nobody owes
\* the first step.
FairSpec == Spec /\ WF_vars(Tick) /\ \A p \in Passes : WF_vars(PassStep(p))

------------------------------------------------------------------------------
(* Properties *)

Rows == [status : Standing \cup {"none", "gone"}, born : Nat, score : Nat, protected : BOOLEAN,
         refs : 0..MaxRefs, sinceRef : 0..Never, sinceBorn : 0..Never, sinceSlip : 0..Never]

\* Types: every row and everything a pass has selected is a row of the table.
TypeOK ==
    /\ row \in [Items -> Rows]
    /\ log \subseteq Items \X Standing \X Standing
    /\ \A p \in Passes :
         /\ pass[p].pc \in {"idle", "value", "slope"}
         /\ pass[p].todo \cup pass[p].held \subseteq [item : Items, row : Rows]
         /\ Cardinality(pass[p].held) <= 1
    /\ done \subseteq Passes
    /\ overlapped \in BOOLEAN
    /\ anchored \in [Items -> Nat]
    /\ faults \in 0..MaxFaults

\* The crown stands: however passes overlap and break off, a protected memory is
\* legacy, is not worth less than its floor, and is never forgotten
\* (apply_legacy_review, "what she cannot forget defines her character").
CrownStands ==
    \A i \in Items : row[i].protected => row[i].status = "legacy" /\ row[i].score >= IdentityFloor

\* One recall is for good: maintenance_delta penalises only what was never
\* referenced.  As long as no two passes overlap, a memory that came with a
\* score above the retention line and lies in the subconscious was not recalled
\* before it slipped there.
OnceRecalledStays ==
    \A i \in Items :
        ~overlapped /\ row[i].status = "subconscious"
        /\ row[i].born >= SubconsciousLine /\ row[i].refs > 0
            => row[i].sinceRef <= row[i].sinceSlip

OneWay == {<<"active", "legacy">>, <<"active", "subconscious">>, <<"legacy", "subconscious">>}

\* As long as no two passes overlap, a memory's standing changes only downwards
\* or into the legacy, and the change is in the promotion log before the row
\* shows it ("Every promotion is recorded").
MovesAreLogged ==
    [][\A i \in Items :
          Present(i) /\ row'[i].status \in Standing /\ row'[i].status # row[i].status
              => overlapped \/ (/\ <<row[i].status, row'[i].status>> \in OneWay
                                /\ <<i, row[i].status, row'[i].status>> \in log)]_vars

\* The flat tire: as long as passes of both kinds are asked for again and again, a
\* memory that is neither protected nor ever recalled is forgotten in the end,
\* whatever passes break off.
AtWork(kind) == \E p \in kind : pass[p].pc # "idle"
FlatTire ==
    []<>AtWork(Monthly) /\ []<>AtWork(Yearly) =>
        \A i \in Items :
            Present(i) /\ ~row[i].protected ~> row[i].status = "gone" \/ row[i].refs > 0

\* "the score halves every ~200 idle days": a memory is forgotten when it has
\* lain idle for two years, or when the slope leaves less than the gone line of
\* the score it had when its clock was set.  It is forgotten much sooner: the
\* faded score is written back by every pass while the anchor stays, so the
\* slope is applied again to what it has produced.
HalfLifeHolds ==
    [][\A i \in Items :
          Present(i) /\ row'[i].status = "gone"
              => LET idle == Anchor(row[i]) IN
                 \/ Days(idle) >= SlopeGoneDays
                 \/ (anchored[i] * Remaining[idle]) \div 1000 < GoneLine]_vars
================================================================================
