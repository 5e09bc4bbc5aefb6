------------------------------ MODULE ValueEngine ------------------------------
(***************************************************************************)
(* One user's value engine (lina/value_engine.py): a response is encoded   *)
(* as a vector, shifted by what the encoder has learned, and judged by the *)
(* polytope of the season; a response that is corrected becomes a lesson   *)
(* for the encoder.  From Summer on a turn learns its lesson by itself, in *)
(* Spring the lesson is saved until the user confirms it.                  *)
(*                                                                         *)
(* Between the judgement of a response and its lesson a turn awaits its    *)
(* statements, so another turn may teach in between.  Numbers are in       *)
(* ten-thousandths; of a response, only the signals found in it matter.    *)
(*                                                                         *)
(* advised is history: whether a lesson was somebody's advice.             *)
(***************************************************************************)
EXTENDS Integers, FiniteSets, FiniteSetsExt

CONSTANTS
    Virtues,     \* the dimensions with a minimum
    Shadow,      \* the shadow of each
    Seasons,
    First,       \* the one in which lessons take the user's word
    Bound,       \* by season and dimension
    Variance,    \* by season: how far off is still acceptable
    MinDistance, \* by season: how far inside is aligned
    Neutral,     \* where an encoding starts
    Responses,
    Signals,     \* of each response, the shift of each dimension, in percent
    Advices,     \* what somebody may say: <<dimension, value>>
    Turns,
    MaxLessons,  \* bound: lessons learned
    MaxPending   \* bound: corrections saved

One     == 10000
Shadows == {Shadow[v] : v \in Virtues}
Dims    == Virtues \cup Shadows

ASSUME EngineAssumption ==
    /\ Virtues # {} /\ Virtues \cap Shadows = {} /\ IsFiniteSet(Virtues)
    /\ \A v, w \in Virtues : Shadow[v] = Shadow[w] => v = w
    /\ First \in Seasons
    /\ \A s \in Seasons :
         Bound[s] \in [Dims -> 0..One] /\ Variance[s] \in Nat /\ MinDistance[s] \in Nat
    /\ Neutral \in [Dims -> 0..One]
    /\ Responses # {} /\ Signals \in [Responses -> [Dims -> -100..100]]
    /\ Advices \subseteq Dims \X (0..One)
    /\ MaxLessons \in Nat /\ MaxPending \in Nat

VARIABLES
    season,      \* of the engine's constraints
    bias,        \* what the encoder has learned, by dimension
    turn,        \* the turns, each with the response it has judged
    pending,     \* corrections saved for the user
    lessons, advised

vars == <<season, bias, turn, pending, lessons, advised>>

------------------------------------------------------------------------------
(* DecisionEncoder *)

Clip(x, lo, hi) == IF x < lo THEN lo ELSE IF x > hi THEN hi ELSE x
AtLeast0(x) == Clip(x, 0, x)

SignalDeviation == 3500

Signalled(r) == [d \in Dims |-> Neutral[d] + (SignalDeviation * Signals[r][d]) \div 100]

Pull(x) == (45 * (x - 5000)) \div 100
Torn(pos, neg) == pos > 4000 /\ neg > 3000
Between(pos, neg) == (30 * (IF pos - 4000 < neg - 3000 THEN pos - 4000 ELSE neg - 3000)) \div 100

\* A strong virtue pulls its shadow down and the other way round; where both are
\* high, both are pulled back instead, from where they started.
Virtue(pos, neg) ==
    IF Torn(pos, neg) THEN AtLeast0(pos - Between(pos, neg))
    ELSE IF neg > 5000 THEN AtLeast0(pos - Pull(neg)) ELSE pos
ShadowOf(pos, neg) ==
    IF Torn(pos, neg) THEN AtLeast0(neg - Between(pos, neg) \div 2)
    ELSE IF pos > 5000 THEN AtLeast0(neg - Pull(pos)) ELSE neg

VirtueOf(d) == CHOOSE v \in Virtues : Shadow[v] = d

Encode ==
    [r \in Responses |-> LET x == Signalled(r) IN
        [d \in Dims |-> Clip(IF d \in Virtues THEN Virtue(x[d], x[Shadow[d]])
                             ELSE ShadowOf(x[VirtueOf(d)], x[d]), 0, One)]]

\* apply_biases
Reading(r) == [d \in Dims |-> Clip(Encode[r][d] + bias[d], 0, One)]

------------------------------------------------------------------------------
(* EthicalPolytope, in the season s *)

Lower(s, d) == IF d \in Virtues THEN Bound[s][d] ELSE 0
Upper(s, d) == IF d \in Virtues THEN One ELSE Bound[s][d]

Contains(s, x) == \A d \in Dims : x[d] \in Lower(s, d)..Upper(s, d)

\* How far inside the ethical facet of the dimension.
Margin(s, x, d) == IF d \in Virtues THEN x[d] - Lower(s, d) ELSE Upper(s, d) - x[d]
Least(s, x) == Min({Margin(s, x, d) : d \in Dims})

CenterOf(s) == [d \in Dims |-> (Lower(s, d) + Upper(s, d)) \div 2]

\* alignment_score: 0 on an ethical facet or outside, One at the center.
Score(s, x) ==
    IF ~Contains(s, x) \/ Least(s, CenterOf(s)) <= 0 THEN 0
    ELSE Clip((One * Least(s, x)) \div Least(s, CenterOf(s)), 0, One)

\* Mutant: the projection stops short of the facet.
ProjectShort(s, x) == [d \in Dims |-> Clip(x[d], Lower(s, d) + 1, Upper(s, d) - 1)]

Project(s, x) == [d \in Dims |-> Clip(x[d], Lower(s, d), Upper(s, d))]

SquareDistance(x, y) == MapThenSumSet(LAMBDA d : (x[d] - y[d]) * (x[d] - y[d]), Dims)

\* _classify_zone
Zone(s, x) ==
    IF Contains(s, x)
    THEN IF Least(s, x) >= MinDistance[s] THEN "aligned" ELSE "acceptable_variance"
    ELSE IF SquareDistance(x, Project(s, x)) <= Variance[s] * Variance[s]
         THEN "acceptable_variance" ELSE "violation"

\* A correction of more than 0.15, or an alignment below 0.4, asks for humility.
Humility(s, x, corrected) ==
    Score(s, corrected) < 4000 \/ SquareDistance(x, corrected) > 1500 * 1500

\* ValueEngine.evaluate; what is inside is its own correction.
Evaluation(r) ==
    LET x == Reading(r)
        corrected == Project(season, x) IN
    [response |-> r, reading |-> x, aligned |-> Contains(season, x), corrected |-> corrected,
     score |-> Score(season, corrected), zone |-> Zone(season, x),
     humility |-> Humility(season, x, corrected)]

------------------------------------------------------------------------------
Nothing == [response |-> CHOOSE r \in Responses : TRUE]
MaxWeightAdjustment == 3000

Fresh ==
    /\ bias' = [d \in Dims |-> 0]
    /\ turn' = [t \in Turns |-> Nothing]

Init ==
    /\ season \in Seasons
    /\ bias = [d \in Dims |-> 0]
    /\ turn = [t \in Turns |-> Nothing]
    /\ pending = {}
    /\ lessons = 0 /\ advised = FALSE

\* The engine is made anew, after a season has turned or the service restarted;
\* turns under way teach the old one, and what they save for the user they might
\* as well have saved before.
Rebuild(s) ==
    /\ season' = s
    /\ Fresh
    /\ UNCHANGED <<pending, lessons, advised>>

Judge(t, r) ==
    /\ turn[t] = Nothing
    /\ turn' = [turn EXCEPT ![t] = Evaluation(r)]
    /\ UNCHANGED <<season, bias, pending, lessons, advised>>

\* What a turn flags: the violated dimensions, corrected to the polytope's edge.
Lesson(e) == [response |-> e.response, original |-> e.reading, corrected |-> e.corrected,
              advice |-> FALSE]

\* Mutant: the learning rate is forgotten.
LearnedUnscaled(c) ==
    [d \in Dims |-> Clip(bias[d] + (c.corrected[d] - c.original[d]),
                         -MaxWeightAdjustment, MaxWeightAdjustment)]

\* Mutant: original and corrected change places.
LearnedBackwards(c) ==
    [d \in Dims |-> Clip(bias[d] + (c.original[d] - c.corrected[d]) \div 20,
                         -MaxWeightAdjustment, MaxWeightAdjustment)]

\* A twentieth of the lesson, capped.
Learned(c) ==
    [d \in Dims |-> Clip(bias[d] + (c.corrected[d] - c.original[d]) \div 20,
                         -MaxWeightAdjustment, MaxWeightAdjustment)]

\* _apply_correction
Learn(c) ==
    /\ lessons < MaxLessons /\ lessons' = lessons + 1
    /\ bias' = Learned(c)
    /\ advised' = (advised \/ c.advice)

\* The turn's encoder feedback.
Teach(t) ==
    /\ turn[t] # Nothing
    /\ turn' = [turn EXCEPT ![t] = Nothing]
    /\ IF turn[t].aligned THEN UNCHANGED <<pending, bias, lessons, advised>>
       ELSE IF season = First
       THEN /\ Cardinality(pending) < MaxPending
            /\ pending' = pending \cup {Lesson(turn[t])}
            /\ UNCHANGED <<bias, lessons, advised>>
       ELSE Learn(Lesson(turn[t])) /\ UNCHANGED pending
    /\ UNCHANGED season

\* POST /lina/feedback/flag: somebody says what a dimension should have read.
Advise(r, d, value) ==
    /\ Cardinality(pending) < MaxPending
    /\ pending' = pending \cup {[response |-> r, original |-> Reading(r),
                                 corrected |-> [Reading(r) EXCEPT ![d] = value],
                                 advice |-> TRUE]}
    /\ UNCHANGED <<season, bias, turn, lessons, advised>>

\* POST /lina/feedback/confirm by the user; a saved correction stays saved.
Confirm(c) ==
    /\ Learn(c)
    /\ UNCHANGED <<season, turn, pending>>

Next ==
    \/ \E s \in Seasons : Rebuild(s)
    \/ \E t \in Turns : Teach(t) \/ \E r \in Responses : Judge(t, r)
    \/ \E r \in Responses, a \in Advices : Advise(r, a[1], a[2])
    \/ \E c \in pending : Confirm(c)

Spec == Init /\ [][Next]_vars

------------------------------------------------------------------------------
Vectors == [Dims -> 0..One]
Corrections == [response : Responses, original : Vectors, corrected : Vectors, advice : BOOLEAN]
Evaluations ==
    [response : Responses, reading : Vectors, aligned : BOOLEAN, corrected : Vectors,
     score : 0..One, zone : {"aligned", "acceptable_variance", "violation"}, humility : BOOLEAN]

\* Types: among them, that learning stays within its cap and readings within 0 and 1.
TypeOK ==
    /\ season \in Seasons
    /\ bias \in [Dims -> -MaxWeightAdjustment..MaxWeightAdjustment]
    /\ turn \in [Turns -> Evaluations \cup {Nothing}]
    /\ pending \subseteq Corrections
    /\ lessons \in 0..MaxLessons
    /\ advised \in BOOLEAN

\* What was corrected stands on the edge: its correction is inside, scores nothing
\* of its alignment and asks for humility (evaluate, "recompute alignment score on
\* corrected vector", and the wisdom filter after it).
CorrectedIsOnEdge == \A t \in Turns :
    turn[t] # Nothing /\ ~turn[t].aligned =>
        /\ Contains(season, turn[t].corrected)
        /\ turn[t].score = 0 /\ turn[t].humility

\* How far on the wrong side of the bound a value is.
Off(d, x) == IF d \in Virtues THEN Bound[season][d] - x ELSE x - Bound[season][d]

\* "Conservative: corrections accumulate gradually", and "no single pattern shifts
\* more than this": whoever taught the lessons, from whatever readings, at once or
\* confirmed once more, a response further off than a twentieth a lesson, or than
\* the cap, is still read outside.
LessonsMoveLittle ==
    \A r \in Responses, d \in Dims :
        Off(d, Encode[r][d]) > Clip(lessons * (One \div 20), 0, MaxWeightAdjustment) =>
            Off(d, Reading(r)[d]) > 0

\* "Hard floor: ... If a response is genuinely violating, no mutual agreement changes
\* that": nobody having told it otherwise, what the encoder would read as a violation
\* by itself is not read inside for what it has learned.  The code does not keep it.
HardFloor == ~advised =>
    \A r \in Responses : Zone(season, Encode[r]) = "violation" => ~Contains(season, Reading(r))

\* Lessons of its own never turn an aligned reading into a violation, whatever the
\* order in which concurrent turns judge and teach.
AlignedStaysAligned ==
    [][lessons' > lessons /\ ~advised' =>
          \A r \in Responses : Contains(season, Reading(r)) => Contains(season, Reading(r)')]_vars
================================================================================
