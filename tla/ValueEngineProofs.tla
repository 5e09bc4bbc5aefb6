--------------------------- MODULE ValueEngineProofs ---------------------------
(***************************************************************************)
(* Theorems about the value engine, for any bounds within 0 and 1, any     *)
(* responses and any number of turns and lessons.                          *)
(*                                                                         *)
(* A lesson of the engine's own points inward (Inward), so what is inside  *)
(* stays inside; and a lesson of anybody's moves a dimension by at most a  *)
(* twentieth, so what is learned is bounded by the number of lessons       *)
(* (LearnedLittle) until the engine is made anew.                          *)
(***************************************************************************)
EXTENDS ValueEngine, WellFoundedInduction, TLAPS

\* What a turn holds is an evaluation, in the season of the engine.
Judged(e) ==
    /\ e.aligned = Contains(season, e.reading)
    /\ e.corrected = Project(season, e.reading)
    /\ e.score = Score(season, e.corrected)
    /\ e.humility = Humility(season, e.reading, e.corrected)

TurnsJudged == \A t \in Turns : turn[t] # Nothing => Judged(turn[t])

Inward(c) == \A d \in Dims :
    IF d \in Virtues THEN c.corrected[d] >= c.original[d] ELSE c.corrected[d] <= c.original[d]

PendingInward == \A c \in pending : ~c.advice => Inward(c)

\* What n lessons can have moved a dimension by.
Most(n) == Clip(n * (One \div 20), 0, MaxWeightAdjustment)

LearnedLittle == \A d \in Dims : bias[d] \in -Most(lessons)..Most(lessons)

IInv == TypeOK /\ TurnsJudged /\ PendingInward /\ LearnedLittle

------------------------------------------------------------------------------
\* Of the units, only this matters; so they stay unexpanded below.
LEMMA Units == One \in Nat /\ MaxWeightAdjustment \in Nat
BY DEF One, MaxWeightAdjustment

USE Units

LEMMA ClipRange ==
    \A x, lo, hi \in Int : lo <= hi => Clip(x, lo, hi) \in lo..hi
BY DEF Clip

LEMMA DimsFacts ==
    /\ Dims # {}
    /\ \A v \in Virtues : Shadow[v] \in Dims /\ v \in Dims /\ Shadow[v] \notin Virtues
    /\ \A d \in Dims : d \notin Virtues => VirtueOf(d) \in Virtues /\ Shadow[VirtueOf(d)] = d
BY EngineAssumption DEF Dims, Shadows, VirtueOf

LEMMA BoundsRange ==
    ASSUME NEW s \in Seasons, NEW d \in Dims
    PROVE  /\ Bound[s][d] \in 0..One /\ Lower(s, d) \in 0..One /\ Upper(s, d) \in 0..One
           /\ Lower(s, d) <= Upper(s, d)
<1>1. Bound[s][d] \in 0..One
    BY EngineAssumption
<1>. QED
    BY <1>1 DEF Lower, Upper

\* Encodings lie within 0 and 1, whatever a pair does to each other.
LEMMA EncodeRange ==
    ASSUME NEW r \in Responses
    PROVE  Encode[r] \in Vectors
<1>. DEFINE x == Signalled(r)
<1>1. \A d \in Dims : x[d] \in Int
    <2>. SUFFICES ASSUME NEW d \in Dims PROVE x[d] \in Int
        OBVIOUS
    <2>1. Neutral[d] \in Int /\ Signals[r][d] \in Int
        <3>1. Neutral[d] \in 0..One
            BY EngineAssumption
        <3>2. Signals[r] \in [Dims -> -100..100]
            BY EngineAssumption
        <3>. QED
            BY <3>1, <3>2
    <2>2. (SignalDeviation * Signals[r][d]) \div 100 \in Int
        BY <2>1 DEF SignalDeviation
    <2>. QED
        BY <2>1, <2>2 DEF Signalled
<1>2. \A d \in Virtues : Virtue(x[d], x[Shadow[d]]) \in Int
    <2>. SUFFICES ASSUME NEW d \in Virtues PROVE Virtue(x[d], x[Shadow[d]]) \in Int
        OBVIOUS
    <2>1. x[d] \in Int /\ x[Shadow[d]] \in Int
        BY <1>1, DimsFacts
    <2>. HIDE DEF x
    <2>. QED
        BY <2>1 DEF Virtue, AtLeast0, Clip, Between, Pull, Torn
<1>3. \A d \in Dims : d \notin Virtues => ShadowOf(x[VirtueOf(d)], x[d]) \in Int
    <2>. SUFFICES ASSUME NEW d \in Dims, d \notin Virtues
                  PROVE ShadowOf(x[VirtueOf(d)], x[d]) \in Int
        OBVIOUS
    <2>1. x[d] \in Int /\ x[VirtueOf(d)] \in Int
        BY <1>1, DimsFacts
    <2>. HIDE DEF x
    <2>. QED
        BY <2>1 DEF ShadowOf, AtLeast0, Clip, Between, Pull, Torn
<1>. DEFINE y == [d \in Dims |-> Clip(IF d \in Virtues THEN Virtue(x[d], x[Shadow[d]])
                                      ELSE ShadowOf(x[VirtueOf(d)], x[d]), 0, One)]
<1>4. Encode[r] = y
    BY DEF Encode
<1>. HIDE DEF x
<1>5. \A d \in Dims : y[d] \in 0..One
    <2>. SUFFICES ASSUME NEW d \in Dims PROVE y[d] \in 0..One
        OBVIOUS
    <2>. DEFINE raw == IF d \in Virtues THEN Virtue(x[d], x[Shadow[d]])
                       ELSE ShadowOf(x[VirtueOf(d)], x[d])
    <2>1. raw \in Int
        BY <1>2, <1>3
    <2>2. y[d] = Clip(raw, 0, One)
        OBVIOUS
    <2>. HIDE DEF raw, y
    <2>. QED
        BY <2>1, <2>2, ClipRange
<1>. QED
    BY <1>4, <1>5 DEF Vectors

LEMMA ReadingRange ==
    ASSUME bias \in [Dims -> -MaxWeightAdjustment..MaxWeightAdjustment], NEW r \in Responses
    PROVE  Reading(r) \in Vectors
<1>1. ASSUME NEW d \in Dims PROVE Encode[r][d] + bias[d] \in Int
    <2>1. Encode[r][d] \in Int
        BY EncodeRange DEF Vectors
    <2>2. bias[d] \in Int
        OBVIOUS
    <2>. QED
        BY <2>1, <2>2
<1>2. ASSUME NEW d \in Dims PROVE Clip(Encode[r][d] + bias[d], 0, One) \in 0..One
    <2>1. Encode[r][d] + bias[d] \in Int /\ 0 \in Int /\ One \in Int /\ 0 <= One
        BY <1>1
    <2>. QED
        BY <2>1, ClipRange
<1>. QED
    BY <1>2 DEF Reading, Vectors

\* The projection is inside.
LEMMA ProjectInside ==
    ASSUME NEW s \in Seasons, NEW x \in Vectors
    PROVE  Project(s, x) \in Vectors /\ Contains(s, Project(s, x))
<1>1. \A d \in Dims : Project(s, x)[d] \in Lower(s, d)..Upper(s, d) /\ Project(s, x)[d] \in 0..One
    <2>. SUFFICES ASSUME NEW d \in Dims
                  PROVE /\ Project(s, x)[d] \in Lower(s, d)..Upper(s, d)
                        /\ Project(s, x)[d] \in 0..One
        OBVIOUS
    <2>1. Project(s, x)[d] = Clip(x[d], Lower(s, d), Upper(s, d)) /\ x[d] \in Int
        BY DEF Project, Vectors
    <2>2. /\ Lower(s, d) \in 0..One /\ Upper(s, d) \in 0..One
          /\ Lower(s, d) <= Upper(s, d)
        BY BoundsRange
    <2>3. Clip(x[d], Lower(s, d), Upper(s, d)) \in Lower(s, d)..Upper(s, d)
        <3>1. Lower(s, d) \in Int /\ Upper(s, d) \in Int
            BY <2>2
        <3>. QED
            BY <2>1, <2>2, <3>1, ClipRange
    <2>. QED
        BY <2>1, <2>2, <2>3
<1>2. Project(s, x) = [d \in Dims |-> Project(s, x)[d]]
    BY DEF Project
<1>. QED
    BY <1>1, <1>2 DEF Vectors, Contains

\* A nonempty set of integers bounded below has a least element.
LEMMA LeastExists ==
    ASSUME NEW S, S \subseteq Int, S # {}, NEW b \in Int, \A x \in S : b <= x
    PROVE  \E x \in S : \A y \in S : x <= y
<1>. DEFINE T == {x - b : x \in S}
<1>1. T # {} /\ T \subseteq Nat
    <2>1. \A x \in S : x - b \in Nat
        OBVIOUS
    <2>. QED
        BY <2>1
<1>2. PICK m \in T : \A y \in T : ~ (<<y, m>> \in OpToRel(<, Nat))
    <2>. HIDE DEF T
    <2>. QED
        BY <1>1, WFMin, NatLessThanWellFounded
<1>3. \A y \in T : m <= y
    <2>. SUFFICES ASSUME NEW y \in T PROVE m <= y
        OBVIOUS
    <2>1. m \in Nat /\ y \in Nat
        BY <1>1
    <2>2. ~ (<<y, m>> \in OpToRel(<, Nat))
        BY <1>2
    <2>. QED
        BY <2>1, <2>2 DEF OpToRel
<1>4. PICK x \in S : m = x - b
    OBVIOUS
<1>5. \A y \in S : x <= y
    <2>. SUFFICES ASSUME NEW y \in S PROVE x <= y
        OBVIOUS
    <2>1. y - b \in T
        OBVIOUS
    <2>2. m <= y - b
        BY <1>3, <2>1
    <2>. QED
        BY <1>4, <2>2
<1>. QED
    BY <1>5

LEMMA MarginRange ==
    ASSUME NEW s \in Seasons, NEW x \in Vectors, NEW d \in Dims
    PROVE  /\ Margin(s, x, d) \in Int /\ -One <= Margin(s, x, d)
           /\ Contains(s, x) => Margin(s, x, d) >= 0
<1>1. x[d] \in 0..One
    BY DEF Vectors
<1>2. Lower(s, d) \in 0..One /\ Upper(s, d) \in 0..One
    BY BoundsRange
<1>3. Contains(s, x) => Lower(s, d) <= x[d] /\ x[d] <= Upper(s, d)
    BY <1>1, <1>2 DEF Contains
<1>. QED
    BY <1>1, <1>2, <1>3 DEF Margin

LEMMA CenterRange ==
    ASSUME NEW s \in Seasons
    PROVE  CenterOf(s) \in Vectors
<1>1. ASSUME NEW d \in Dims
      PROVE  (Lower(s, d) + Upper(s, d)) \div 2 \in 0..One
    BY BoundsRange
<1>. QED
    BY <1>1 DEF CenterOf, Vectors

LEMMA LeastMargin ==
    ASSUME NEW s \in Seasons, NEW x \in Vectors
    PROVE  /\ Least(s, x) \in Int
           /\ \A d \in Dims : Least(s, x) <= Margin(s, x, d)
           /\ \E d \in Dims : Least(s, x) = Margin(s, x, d)
<1>. DEFINE S == {Margin(s, x, d) : d \in Dims}
<1>1. \A d \in Dims : Margin(s, x, d) \in Int /\ -One <= Margin(s, x, d)
    BY MarginRange
<1>2. S \subseteq Int /\ S # {} /\ \A m \in S : -One <= m
    BY <1>1, DimsFacts
<1>3. \E m \in S : \A y \in S : m <= y
    <2>1. -One \in Int
        OBVIOUS
    <2>. HIDE DEF S
    <2>. QED
        BY <1>2, <2>1, LeastExists
<1>4. Least(s, x) \in S /\ \A y \in S : Least(s, x) <= y
    BY <1>3 DEF Least, Min
<1>. QED
    BY <1>1, <1>4

LEMMA ScoreRange ==
    ASSUME NEW s \in Seasons, NEW x \in Vectors
    PROVE  Score(s, x) \in 0..One
<1>1. CenterOf(s) \in Vectors
    BY CenterRange
<1>2. Least(s, x) \in Int /\ Least(s, CenterOf(s)) \in Int
    BY <1>1, LeastMargin
<1>3. ASSUME ~ (Least(s, CenterOf(s)) <= 0)
      PROVE  Clip((One * Least(s, x)) \div Least(s, CenterOf(s)), 0, One) \in 0..One
    <2>. DEFINE l == Least(s, x)
                c == Least(s, CenterOf(s))
                q == (One * l) \div c
    <2>1. q \in Int
        <3>1. l \in Int /\ c \in Int /\ c > 0
            BY <1>2, <1>3
        <3>. HIDE DEF l, c
        <3>. QED
            BY <3>1
    <2>. HIDE DEF q
    <2>2. Clip(q, 0, One) \in 0..One
        BY <2>1, ClipRange
    <2>. QED
        BY <2>2 DEF q
<1>. QED
    BY <1>3 DEF Score

\* What lies on an ethical facet scores nothing.
LEMMA EdgeScore ==
    ASSUME NEW s \in Seasons, NEW x \in Vectors, Contains(s, x),
           NEW d \in Dims, Margin(s, x, d) = 0
    PROVE  Score(s, x) = 0
<1>1. CenterOf(s) \in Vectors
    BY CenterRange
<1>2. Least(s, CenterOf(s)) \in Int
    BY <1>1, LeastMargin
<1>3. \A e \in Dims : Margin(s, x, e) >= 0
    BY MarginRange
<1>4. Least(s, x) = 0
    BY <1>3, LeastMargin
<1>5. ASSUME ~ (Least(s, CenterOf(s)) <= 0)
      PROVE  (One * Least(s, x)) \div Least(s, CenterOf(s)) = 0
    BY <1>2, <1>4, <1>5
<1>. QED
    BY <1>4, <1>5 DEF Score, Clip

------------------------------------------------------------------------------
(* One lesson, in one dimension: e the encoding, b what is learned so far. *)

Seen(e, b) == Clip(e + b, 0, One)
Moved(b, delta) == Clip(b + delta \div 20, -MaxWeightAdjustment, MaxWeightAdjustment)

\* Learning goes the way of the lesson, and so does the reading.
LEMMA MovesWithLesson ==
    ASSUME NEW b \in -MaxWeightAdjustment..MaxWeightAdjustment, NEW delta \in Int,
           NEW e \in 0..One
    PROVE  /\ Moved(b, delta) \in -MaxWeightAdjustment..MaxWeightAdjustment
           /\ delta = 0 => Moved(b, delta) = b
           /\ delta >= 0 => Seen(e, Moved(b, delta)) >= Seen(e, b)
           /\ delta <= 0 => Seen(e, Moved(b, delta)) <= Seen(e, b)
<1>1. /\ delta \div 20 \in Int
      /\ delta = 0 => delta \div 20 = 0
      /\ delta >= 0 => delta \div 20 >= 0
      /\ delta <= 0 => delta \div 20 <= 0
    OBVIOUS
<1>. DEFINE step == delta \div 20
<1>. HIDE DEF step
<1>2. /\ step \in Int /\ (delta = 0 => step = 0)
      /\ (delta >= 0 => step >= 0) /\ (delta <= 0 => step <= 0)
    BY <1>1 DEF step
<1>3. Moved(b, delta) = Clip(b + step, -MaxWeightAdjustment, MaxWeightAdjustment)
    BY DEF Moved, step
<1>. DEFINE m == Clip(b + step, -MaxWeightAdjustment, MaxWeightAdjustment)
<1>4. /\ m \in -MaxWeightAdjustment..MaxWeightAdjustment
      /\ (delta = 0 => m = b) /\ (delta >= 0 => m >= b) /\ (delta <= 0 => m <= b)
    BY <1>2 DEF Clip
<1>. HIDE DEF m
<1>5. /\ delta >= 0 => Seen(e, m) >= Seen(e, b)
      /\ delta <= 0 => Seen(e, m) <= Seen(e, b)
    BY <1>4 DEF Seen, Clip
<1>. QED
    BY <1>3, <1>4, <1>5 DEF m

\* One lesson more, one twentieth more.
LEMMA MovesLittle ==
    ASSUME NEW n \in Nat, NEW b \in -Most(n)..Most(n), NEW delta \in -One..One
    PROVE  Moved(b, delta) \in -Most(n + 1)..Most(n + 1)
<1>. DEFINE k == One \div 20
            step == delta \div 20
<1>1. k \in Nat /\ step \in Int /\ -k <= step /\ step <= k
    <2>1. k = 500 /\ One = 20 * 500
        BY DEF One
    <2>2. step \in Int /\ 20 * step <= delta /\ delta < 20 * (step + 1)
        OBVIOUS
    <2>3. delta \in Int /\ -10000 <= delta /\ delta <= 10000
        BY <2>1
    <2>. HIDE DEF k, step
    <2>4. step <= 500 /\ -500 <= step
        BY <2>2, <2>3
    <2>. QED
        BY <2>1, <2>2, <2>4
<1>. HIDE DEF k, step
<1>2. /\ n * k \in Nat /\ (n + 1) * k = n * k + k
      /\ Most(n) = Clip(n * k, 0, MaxWeightAdjustment)
      /\ Most(n + 1) = Clip((n + 1) * k, 0, MaxWeightAdjustment)
    BY <1>1 DEF Most, k
<1>3. Moved(b, delta) = Clip(b + step, -MaxWeightAdjustment, MaxWeightAdjustment)
    BY DEF Moved, step
<1>. DEFINE nk == n * k
<1>. HIDE DEF nk
<1>4. /\ nk \in Nat /\ Most(n) = Clip(nk, 0, MaxWeightAdjustment)
      /\ Most(n + 1) = Clip(nk + k, 0, MaxWeightAdjustment)
    BY <1>2 DEF nk
<1>5. Most(n) \in Nat /\ Most(n) <= nk /\ Most(n) <= MaxWeightAdjustment
    BY <1>4 DEF Clip
<1>6. /\ b + step \in Int
      /\ -(nk + k) <= b + step /\ b + step <= nk + k
    BY <1>1, <1>4, <1>5
<1>. QED
    BY <1>1, <1>3, <1>4, <1>6 DEF Clip

------------------------------------------------------------------------------
\* An evaluation is one.
LEMMA Evaluates ==
    ASSUME TypeOK, NEW r \in Responses
    PROVE  Evaluation(r) \in Evaluations /\ Judged(Evaluation(r))
<1>. DEFINE x == Reading(r)
            y == Project(season, x)
<1>1. x \in Vectors /\ season \in Seasons
    BY ReadingRange DEF TypeOK
<1>2. y \in Vectors
    BY <1>1, ProjectInside
<1>3. Score(season, y) \in 0..One
    BY <1>1, <1>2, ScoreRange
<1>4. Contains(season, x) \in BOOLEAN /\ Humility(season, x, y) \in BOOLEAN
    BY DEF Contains, Humility
<1>5. Zone(season, x) \in {"aligned", "acceptable_variance", "violation"}
    BY DEF Zone
<1>6. Evaluation(r) = [response |-> r, reading |-> x, aligned |-> Contains(season, x),
                       corrected |-> y, score |-> Score(season, y),
                       zone |-> Zone(season, x), humility |-> Humility(season, x, y)]
    BY DEF Evaluation
<1>. HIDE DEF x, y
<1>7. Evaluation(r) \in Evaluations
    BY <1>1, <1>2, <1>3, <1>4, <1>5, <1>6 DEF Evaluations
<1>8. Judged(Evaluation(r))
    BY <1>6 DEF Judged, y
<1>. QED
    BY <1>7, <1>8

\* Where the projection differs, it is the bound.
LEMMA ProjectsToBound ==
    ASSUME NEW s \in Seasons, NEW x \in Vectors, NEW d \in Dims
    PROVE  /\ Project(s, x)[d] \in Int
           /\ d \in Virtues => /\ Project(s, x)[d] >= x[d]
                               /\ Project(s, x)[d] # x[d] => /\ x[d] < Bound[s][d]
                                                             /\ Project(s, x)[d] = Bound[s][d]
           /\ d \notin Virtues => /\ Project(s, x)[d] <= x[d]
                                  /\ Project(s, x)[d] # x[d] => /\ x[d] > Bound[s][d]
                                                                /\ Project(s, x)[d] = Bound[s][d]
<1>1. Project(s, x)[d] = Clip(x[d], Lower(s, d), Upper(s, d)) /\ x[d] \in 0..One
    BY DEF Project, Vectors
<1>2. Bound[s][d] \in 0..One
    BY BoundsRange
<1>3. CASE d \in Virtues
    <2>1. Lower(s, d) = Bound[s][d] /\ Upper(s, d) = One
        BY <1>3 DEF Lower, Upper
    <2>. QED
        BY <1>1, <1>2, <1>3, <2>1 DEF Clip
<1>4. CASE d \notin Virtues
    <2>1. Lower(s, d) = 0 /\ Upper(s, d) = Bound[s][d]
        BY <1>4 DEF Lower, Upper
    <2>. QED
        BY <1>1, <1>2, <1>4, <2>1 DEF Clip
<1>. QED
    BY <1>3, <1>4

\* A turn's own lesson is a correction and points inward.
LEMMA OwnLesson ==
    ASSUME TypeOK, TurnsJudged, NEW t \in Turns, turn[t] # Nothing
    PROVE  Lesson(turn[t]) \in Corrections /\ Inward(Lesson(turn[t]))
<1>. DEFINE e == turn[t]
<1>1. e \in Evaluations /\ season \in Seasons
    BY DEF TypeOK
<1>2. e.response \in Responses /\ e.reading \in Vectors /\ e.corrected \in Vectors
    BY <1>1 DEF Evaluations
<1>3. e.corrected = Project(season, e.reading)
    BY DEF TurnsJudged, Judged
<1>. HIDE DEF e
<1>4. /\ Lesson(e) \in Corrections
      /\ Lesson(e).original = e.reading /\ Lesson(e).corrected = e.corrected
    BY <1>2 DEF Lesson, Corrections
<1>5. \A d \in Dims : IF d \in Virtues THEN e.corrected[d] >= e.reading[d]
                      ELSE e.corrected[d] <= e.reading[d]
    BY <1>1, <1>2, <1>3, ProjectsToBound
<1>6. Inward(Lesson(e))
    BY <1>4, <1>5 DEF Inward
<1>. QED
    BY <1>4, <1>6 DEF e

\* What is learned from a correction c, dimension by dimension.
LEMMA LearnMoves ==
    ASSUME TypeOK, NEW c \in Corrections, Learn(c)
    PROVE  /\ bias' \in [Dims -> -MaxWeightAdjustment..MaxWeightAdjustment]
           /\ \A d \in Dims : /\ c.corrected[d] - c.original[d] \in Int
                              /\ bias[d] \in -MaxWeightAdjustment..MaxWeightAdjustment
                              /\ bias'[d] = Moved(bias[d], c.corrected[d] - c.original[d])
           /\ \A r \in Responses, d \in Dims : /\ Encode[r][d] \in 0..One
                                               /\ Reading(r)[d] = Seen(Encode[r][d], bias[d])
                                               /\ Reading(r)'[d] = Seen(Encode[r][d], bias'[d])
<1>1. c.corrected \in Vectors /\ c.original \in Vectors
    BY DEF Corrections
<1>2. ASSUME NEW d \in Dims
      PROVE  /\ c.corrected[d] - c.original[d] \in Int
             /\ bias[d] \in -MaxWeightAdjustment..MaxWeightAdjustment
             /\ bias'[d] = Moved(bias[d], c.corrected[d] - c.original[d])
    BY <1>1 DEF Vectors, TypeOK, Learn, Learned, Moved
<1>3. ASSUME NEW d \in Dims
      PROVE  Moved(bias[d], c.corrected[d] - c.original[d])
                \in -MaxWeightAdjustment..MaxWeightAdjustment
    <2>1. 0 \in 0..One
        OBVIOUS
    <2>. QED
        BY <1>2, <2>1, MovesWithLesson
<1>4. bias' = [d \in Dims |-> bias'[d]]
    BY DEF Learn, Learned
<1>5. bias' \in [Dims -> -MaxWeightAdjustment..MaxWeightAdjustment]
    BY <1>2, <1>3, <1>4
<1>6. ASSUME NEW r \in Responses, NEW d \in Dims
      PROVE  /\ Encode[r][d] \in 0..One
             /\ Reading(r)[d] = Seen(Encode[r][d], bias[d])
             /\ Reading(r)'[d] = Seen(Encode[r][d], bias'[d])
    BY EncodeRange DEF Reading, Seen, Vectors
<1>. QED
    BY <1>2, <1>5, <1>6

\* No lesson that points inward takes a reading out.
LEMMA LearnKeepsInside ==
    ASSUME TypeOK, NEW c \in Corrections, Inward(c), Learn(c), season' = season,
           NEW r \in Responses, Contains(season, Reading(r))
    PROVE  Contains(season, Reading(r)')
<1>. SUFFICES ASSUME NEW d \in Dims
              PROVE  Reading(r)'[d] \in Lower(season, d)..Upper(season, d)
    BY DEF Contains
<1>. DEFINE e == Encode[r][d]
            b == bias[d]
            delta == c.corrected[d] - c.original[d]
<1>1. /\ e \in 0..One /\ delta \in Int /\ b \in -MaxWeightAdjustment..MaxWeightAdjustment
      /\ Reading(r)[d] = Seen(e, b) /\ Reading(r)'[d] = Seen(e, Moved(b, delta))
    BY LearnMoves
<1>2. IF d \in Virtues THEN delta >= 0 ELSE delta <= 0
    <2>1. c.corrected[d] \in Int /\ c.original[d] \in Int
        BY DEF Corrections, Vectors
    <2>. QED
        BY <2>1 DEF Inward
<1>3. Seen(e, b) \in Lower(season, d)..Upper(season, d)
    BY <1>1 DEF Contains
<1>4. season \in Seasons
    BY DEF TypeOK
<1>5. Lower(season, d) \in 0..One /\ Upper(season, d) \in 0..One
    BY <1>4, BoundsRange
<1>. HIDE DEF e, b, delta
<1>6. Moved(b, delta) \in Int
    BY <1>1, MovesWithLesson
<1>7. Seen(e, Moved(b, delta)) \in 0..One /\ Seen(e, b) \in 0..One
    BY <1>1, <1>6 DEF Seen, Clip
<1>8. CASE d \in Virtues
    <2>1. Seen(e, Moved(b, delta)) >= Seen(e, b)
        BY <1>1, <1>2, <1>8, MovesWithLesson
    <2>2. Upper(season, d) = One
        BY <1>8 DEF Upper
    <2>. QED
        BY <1>1, <1>3, <1>5, <1>7, <2>1, <2>2
<1>9. CASE d \notin Virtues
    <2>1. Seen(e, Moved(b, delta)) <= Seen(e, b)
        BY <1>1, <1>2, <1>9, MovesWithLesson
    <2>2. Lower(season, d) = 0
        BY <1>9 DEF Lower
    <2>. QED
        BY <1>1, <1>3, <1>5, <1>7, <2>1, <2>2
<1>. QED
    BY <1>8, <1>9

\* What is learned stays within what its lessons allow.
LEMMA LearnsLittle ==
    ASSUME TypeOK, LearnedLittle, NEW c \in Corrections, Learn(c)
    PROVE  LearnedLittle'
<1>. SUFFICES ASSUME NEW d \in Dims PROVE bias'[d] \in -Most(lessons')..Most(lessons')
    BY DEF LearnedLittle
<1>. DEFINE b == bias[d]
            delta == c.corrected[d] - c.original[d]
<1>1. bias'[d] = Moved(b, delta)
    BY LearnMoves
<1>2. delta \in -One..One
    <2>1. c.corrected[d] \in 0..One /\ c.original[d] \in 0..One
        BY DEF Corrections, Vectors
    <2>. QED
        BY <2>1
<1>3. lessons \in Nat /\ lessons' = lessons + 1
    BY DEF TypeOK, Learn
<1>4. b \in -Most(lessons)..Most(lessons)
    BY DEF LearnedLittle
<1>. HIDE DEF b, delta
<1>5. Moved(b, delta) \in -Most(lessons + 1)..Most(lessons + 1)
    BY <1>2, <1>3, <1>4, MovesLittle
<1>. QED
    BY <1>1, <1>3, <1>5

------------------------------------------------------------------------------
LEMMA Initial == Init => IInv
<1>. SUFFICES ASSUME Init PROVE IInv
    OBVIOUS
<1>1. bias \in [Dims -> -MaxWeightAdjustment..MaxWeightAdjustment]
    BY DEF Init
<1>2. TypeOK
    <2>1. lessons \in 0..MaxLessons
        BY EngineAssumption DEF Init
    <2>2. turn \in [Turns -> Evaluations \cup {Nothing}]
        BY DEF Init
    <2>4. pending \subseteq Corrections /\ season \in Seasons
        BY DEF Init
    <2>3. advised \in BOOLEAN
        BY DEF Init
    <2>. QED
        BY <1>1, <2>1, <2>2, <2>3, <2>4 DEF TypeOK
<1>3. TurnsJudged /\ PendingInward
    BY DEF Init, TurnsJudged, PendingInward
<1>4. LearnedLittle
    <2>1. Most(0) = 0
        BY DEF Most, Clip
    <2>. QED
        BY <2>1 DEF Init, LearnedLittle
<1>. QED
    BY <1>2, <1>3, <1>4 DEF IInv

\* A lesson learned preserves the invariant as far as Learn goes.
LEMMA LearnKeeps ==
    ASSUME TypeOK, LearnedLittle, NEW c \in Corrections, Learn(c)
    PROVE  /\ bias' \in [Dims -> -MaxWeightAdjustment..MaxWeightAdjustment]
           /\ lessons' \in 0..MaxLessons
           /\ advised' \in BOOLEAN
           /\ LearnedLittle'
<1>1. bias' \in [Dims -> -MaxWeightAdjustment..MaxWeightAdjustment]
    BY LearnMoves
<1>2. lessons' \in 0..MaxLessons
    BY EngineAssumption DEF Learn, TypeOK
<1>3. advised' \in BOOLEAN
    BY DEF Learn
<1>. QED
    BY <1>1, <1>2, <1>3, LearnsLittle

\* Nothing learned is within what any number of lessons allows.
LEMMA RebuildLittle ==
    ASSUME TypeOK, NEW s \in Seasons, Rebuild(s)
    PROVE  LearnedLittle'
<1>1. lessons \in Nat /\ lessons' = lessons /\ \A d \in Dims : bias'[d] = 0
    BY DEF TypeOK, Rebuild, Fresh
<1>2. Most(lessons) \in Nat
    BY <1>1 DEF Most, Clip, One
<1>. QED
    BY <1>1, <1>2 DEF LearnedLittle

LEMMA Preserved == IInv /\ [Next]_vars => IInv'
<1>. SUFFICES ASSUME IInv, [Next]_vars PROVE IInv'
    OBVIOUS
<1>0. TypeOK /\ TurnsJudged /\ PendingInward /\ LearnedLittle
    BY DEF IInv
<1>1. ASSUME NEW s \in Seasons, Rebuild(s) PROVE IInv'
    <2>1. bias' \in [Dims -> -MaxWeightAdjustment..MaxWeightAdjustment]
        BY <1>1 DEF Rebuild, Fresh
    <2>2. TypeOK'
        BY <1>0, <1>1, <2>1 DEF TypeOK, Rebuild, Fresh
    <2>3. TurnsJudged' /\ PendingInward'
        BY <1>0, <1>1 DEF TurnsJudged, PendingInward, Inward, Rebuild, Fresh
    <2>4. LearnedLittle'
        BY <1>0, <1>1, RebuildLittle
    <2>. QED
        BY <2>2, <2>3, <2>4 DEF IInv
<1>2. ASSUME NEW t \in Turns, NEW r \in Responses, Judge(t, r) PROVE IInv'
    <2>1. Evaluation(r) \in Evaluations /\ Judged(Evaluation(r))
        BY <1>0, Evaluates
    <2>2. turn' = [turn EXCEPT ![t] = Evaluation(r)] /\ season' = season /\ pending' = pending
          /\ bias' = bias /\ lessons' = lessons
          /\ advised' = advised
        BY <1>2 DEF Judge
    <2>3. TypeOK'
        <3>1. turn' \in [Turns -> Evaluations \cup {Nothing}]
            BY <1>0, <2>1, <2>2 DEF TypeOK
        <3>. QED
            BY <1>0, <2>2, <3>1 DEF TypeOK
    <2>4. TurnsJudged'
        <3>. SUFFICES ASSUME NEW u \in Turns, turn'[u] # Nothing PROVE Judged(turn[u])'
            BY DEF TurnsJudged
        <3>1. turn'[u] = (IF u = t THEN Evaluation(r) ELSE turn[u])
            BY <1>0, <2>2 DEF TypeOK
        <3>2. Judged(turn'[u])
            BY <1>0, <2>1, <3>1 DEF TurnsJudged
        <3>. QED
            BY <2>2, <3>2 DEF Judged
    <2>5. PendingInward'
        BY <1>0, <2>2 DEF PendingInward, Inward
    <2>6. LearnedLittle'
        BY <1>0, <2>2 DEF LearnedLittle
    <2>. QED
        BY <2>3, <2>4, <2>5, <2>6 DEF IInv
<1>3. ASSUME NEW t \in Turns, Teach(t) PROVE IInv'
    <2>1. /\ turn[t] # Nothing /\ season' = season
          /\ turn' = [turn EXCEPT ![t] = Nothing]
        BY <1>3 DEF Teach
    <2>2. turn' \in [Turns -> Evaluations \cup {Nothing}] /\ TurnsJudged'
        BY <1>0, <2>1 DEF TypeOK, TurnsJudged, Judged
    <2>3. Lesson(turn[t]) \in Corrections /\ Inward(Lesson(turn[t]))
        BY <1>0, <2>1, OwnLesson
    <2>4. CASE UNCHANGED <<bias, lessons, advised>> /\ pending' \subseteq pending \cup {Lesson(turn[t])}
        <3>1. TypeOK'
            BY <1>0, <2>1, <2>2, <2>3, <2>4 DEF TypeOK
        <3>2. PendingInward'
            BY <1>0, <2>3, <2>4 DEF PendingInward
        <3>3. LearnedLittle'
            BY <1>0, <2>1, <2>4 DEF LearnedLittle
        <3>. QED
            BY <2>2, <3>1, <3>2, <3>3 DEF IInv
    <2>5. CASE Learn(Lesson(turn[t])) /\ pending' = pending
        <3>1. TypeOK'
            BY <1>0, <2>1, <2>2, <2>3, <2>5, LearnKeeps DEF TypeOK
        <3>2. PendingInward'
            BY <1>0, <2>5 DEF PendingInward
        <3>3. LearnedLittle'
            BY <1>0, <2>1, <2>3, <2>5, LearnKeeps
        <3>. QED
            BY <2>2, <3>1, <3>2, <3>3 DEF IInv
    <2>. QED
        BY <1>3, <2>4, <2>5 DEF Teach
<1>4. ASSUME NEW r \in Responses, NEW a \in Advices, Advise(r, a[1], a[2]) PROVE IInv'
    <2>. DEFINE c == [response |-> r, original |-> Reading(r),
                      corrected |-> [Reading(r) EXCEPT ![a[1]] = a[2]], advice |-> TRUE]
    <2>1. c \in Corrections /\ c.advice
        <3>1. Reading(r) \in Vectors
            BY <1>0, ReadingRange DEF TypeOK
        <3>2. a[1] \in Dims /\ a[2] \in 0..One
            BY EngineAssumption
        <3>3. [Reading(r) EXCEPT ![a[1]] = a[2]] \in Vectors
            BY <3>1, <3>2 DEF Vectors
        <3>. QED
            BY <3>1, <3>3 DEF Corrections
    <2>2. pending' = pending \cup {c}
          /\ UNCHANGED <<season, bias, turn, lessons, advised>>
        BY <1>4 DEF Advise
    <2>. HIDE DEF c
    <2>3. TypeOK'
        BY <1>0, <2>1, <2>2 DEF TypeOK
    <2>4. TurnsJudged'
        BY <1>0, <2>2 DEF TurnsJudged, Judged
    <2>5. PendingInward'
        BY <1>0, <2>1, <2>2 DEF PendingInward
    <2>6. LearnedLittle'
        BY <1>0, <2>2 DEF LearnedLittle
    <2>. QED
        BY <2>3, <2>4, <2>5, <2>6 DEF IInv
<1>5. ASSUME NEW c \in pending, Confirm(c) PROVE IInv'
    <2>1. c \in Corrections /\ Learn(c) /\ UNCHANGED <<season, turn, pending>>
        BY <1>0, <1>5 DEF TypeOK, Confirm
    <2>2. TypeOK'
        BY <1>0, <2>1, LearnKeeps DEF TypeOK
    <2>3. TurnsJudged'
        BY <1>0, <2>1 DEF TurnsJudged, Judged
    <2>4. PendingInward'
        BY <1>0, <2>1 DEF PendingInward
    <2>5. LearnedLittle'
        BY <1>0, <2>1, LearnKeeps
    <2>. QED
        BY <2>2, <2>3, <2>4, <2>5 DEF IInv
<1>6. CASE UNCHANGED vars
    BY <1>0, <1>6 DEF IInv, TypeOK, TurnsJudged, Judged, PendingInward, LearnedLittle,
       vars
<1>. QED
    BY <1>1, <1>2, <1>3, <1>4, <1>5, <1>6 DEF Next

\* The invariant the theorems follow from.
THEOREM Invariance == Spec => []IInv
<1>1. Init => IInv
    BY Initial
<1>2. IInv /\ [Next]_vars => IInv'
    BY Preserved
<1>. QED
    BY <1>1, <1>2, PTL DEF Spec

\* The types: above all, readings stay within 0 and 1 and learning within its cap.
THEOREM Typed == Spec => []TypeOK
<1>1. IInv => TypeOK
    BY DEF IInv
<1>. QED
    BY <1>1, Invariance, PTL

\* However lessons come (stale, saved and confirmed again, somebody's advice), what is
\* off by more than their number allows is still read outside: a floor that lowers
\* with every lesson, not a hard one.
THEOREM FloorLowersSlowly == Spec => []LessonsMoveLittle
<1>1. IInv => LessonsMoveLittle
    <2>. SUFFICES ASSUME IInv, NEW r \in Responses, NEW d \in Dims,
                         Off(d, Encode[r][d]) > Most(lessons)
                  PROVE  Off(d, Reading(r)[d]) > 0
        BY DEF LessonsMoveLittle, Most
    <2>. DEFINE e == Encode[r][d]
                b == bias[d]
                bound == Bound[season][d]
                most == Most(lessons)
    <2>1. e \in 0..One
        BY EncodeRange DEF Vectors
    <2>2. lessons \in Nat /\ season \in Seasons /\ b \in -most..most
        BY DEF IInv, TypeOK, LearnedLittle
    <2>3. bound \in 0..One
        BY <2>2, BoundsRange
    <2>4. most \in Nat
        BY <2>2 DEF Most, Clip, One
    <2>5. Reading(r)[d] = Seen(e, b)
        BY DEF Reading, Seen
    <2>6. /\ d \in Virtues => bound - e > most
          /\ d \notin Virtues => e - bound > most
        BY DEF Off
    <2>. HIDE DEF e, b, bound, most
    <2>7. /\ d \in Virtues => bound - Seen(e, b) > 0
          /\ d \notin Virtues => Seen(e, b) - bound > 0
        BY <2>1, <2>2, <2>3, <2>4, <2>6 DEF Seen, Clip
    <2>. QED
        BY <2>5, <2>7 DEF Off, bound
<1>. QED
    BY <1>1, Invariance, PTL

\* A correction stands on the edge: inside, without alignment, in need of humility.
THEOREM OnTheEdge == Spec => []CorrectedIsOnEdge
<1>1. IInv => CorrectedIsOnEdge
    <2>. SUFFICES ASSUME IInv, NEW t \in Turns, turn[t] # Nothing, ~turn[t].aligned
                  PROVE  /\ Contains(season, turn[t].corrected)
                         /\ turn[t].score = 0 /\ turn[t].humility
        BY DEF CorrectedIsOnEdge
    <2>. DEFINE x == turn[t].reading
                y == turn[t].corrected
    <2>1. /\ season \in Seasons /\ x \in Vectors /\ y = Project(season, x)
          /\ ~Contains(season, x)
          /\ turn[t].score = Score(season, y) /\ turn[t].humility = Humility(season, x, y)
        <3>1. turn[t] \in Evaluations /\ Judged(turn[t]) /\ season \in Seasons
            BY DEF IInv, TypeOK, TurnsJudged
        <3>2. x \in Vectors
            BY <3>1 DEF Evaluations
        <3>. QED
            BY <3>1, <3>2 DEF Judged
    <2>. HIDE DEF x, y
    <2>2. y \in Vectors /\ Contains(season, y)
        BY <2>1, ProjectInside
    <2>3. PICK d \in Dims : ~ (x[d] \in Lower(season, d)..Upper(season, d))
        BY <2>1 DEF Contains
    <2>4. Margin(season, y, d) = 0
        <3>1. y[d] \in Lower(season, d)..Upper(season, d)
            BY <2>2 DEF Contains
        <3>2. y[d] # x[d]
            BY <2>3, <3>1
        <3>3. y[d] = Bound[season][d] /\ Bound[season][d] \in 0..One
            BY <2>1, <3>2, ProjectsToBound, BoundsRange
        <3>. QED
            BY <3>3 DEF Margin, Lower, Upper
    <2>5. Score(season, y) = 0
        BY <2>1, <2>2, <2>4, EdgeScore
    <2>6. Humility(season, x, y)
        BY <2>5 DEF Humility
    <2>. QED
        BY <2>1, <2>2, <2>5, <2>6 DEF y
<1>. QED
    BY <1>1, Invariance, PTL

\* What a turn learns, at once or when the user confirms it, never turns an aligned
\* response into a violation, whatever was judged and taught in between.
THEOREM AlignedStays == Spec => AlignedStaysAligned
<1>1. IInv /\ [Next]_vars =>
        [lessons' > lessons /\ ~advised' =>
           \A r \in Responses : Contains(season, Reading(r)) => Contains(season, Reading(r)')]_vars
    <2>. SUFFICES ASSUME IInv, [Next]_vars, lessons' > lessons, ~advised',
                         NEW r \in Responses, Contains(season, Reading(r))
                  PROVE  Contains(season, Reading(r)')
        OBVIOUS
    <2>1. TypeOK /\ TurnsJudged /\ PendingInward
        BY DEF IInv
    <2>2. lessons \in Int
        BY <2>1 DEF TypeOK
    <2>3. PICK c \in Corrections : Inward(c) /\ Learn(c) /\ season' = season
        <3>1. ASSUME NEW t \in Turns, Teach(t)
              PROVE  \E c \in Corrections : Inward(c) /\ Learn(c) /\ season' = season
            <4>1. Learn(Lesson(turn[t])) /\ season' = season /\ turn[t] # Nothing
                BY <2>2, <3>1 DEF Teach
            <4>. QED
                BY <2>1, <4>1, OwnLesson
        <3>2. ASSUME NEW c \in pending, Confirm(c)
              PROVE  \E d \in Corrections : Inward(d) /\ Learn(d) /\ season' = season
            <4>1. c \in Corrections /\ Learn(c) /\ season' = season
                BY <2>1, <3>2 DEF TypeOK, Confirm
            <4>2. ~c.advice
                BY <4>1 DEF Learn
            <4>. QED
                BY <2>1, <4>1, <4>2 DEF PendingInward
        <3>3. ASSUME lessons' = lessons PROVE FALSE
            BY <2>2, <3>3
        <3>. QED
            BY <3>1, <3>2, <3>3 DEF Next, Rebuild, Judge, Advise, vars
    <2>. QED
        BY <2>1, <2>3, LearnKeepsInside
<1>. QED
    BY <1>1, Invariance, PTL DEF Spec, AlignedStaysAligned
================================================================================
