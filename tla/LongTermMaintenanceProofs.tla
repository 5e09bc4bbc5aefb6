----------------------- MODULE LongTermMaintenanceProofs -----------------------
(***************************************************************************)
(* Theorems about the long-term table, for any memories and scores, any    *)
(* number of passes at work at once, and any curve of the slope.           *)
(*                                                                         *)
(* A pass decides on rows as it selected them.  What carries the proofs is *)
(* how such a copy stands to the row it was taken of: for the crown, that  *)
(* protection is never given or taken; for the rest, as long as no two     *)
(* passes overlap, that nothing but a recall has touched the row since.    *)
(***************************************************************************)
EXTENDS LongTermMaintenance, FiniteSetTheorems, TLAPS

Entries == [item : Items, row : Rows]
Working == [pc : {"idle", "value", "slope"}, todo : SUBSET Entries, held : SUBSET Entries]
Busy(p) == pass[p].pc # "idle"
Chosen(p) == pass[p].todo \cup pass[p].held

\* A protected row is in the legacy, above its floor; usage is dated once there is
\* any, and the beginning of every memory is.
Sound(r) ==
    /\ r.protected => r.status = "legacy" /\ r.score >= IdentityFloor
    /\ r.refs > 0 <=> r.sinceRef # Never
    /\ r.status # "none" => r.sinceBorn # Never

\* The standing of the rows a pass selects, by what it is doing.
SelectedAs(p) == IF pass[p].pc = "slope" THEN "subconscious"
                 ELSE IF p \in Monthly THEN "active" ELSE "legacy"

Copied(p, e) ==
    /\ Sound(e.row) /\ e.row.status = SelectedAs(p)
    /\ row[e.item].status # "none"
    /\ e.row.protected = row[e.item].protected

IInv ==
    /\ row \in [Items -> Rows] /\ \A i \in Items : Sound(row[i])
    /\ log \subseteq Items \X Standing \X Standing
    /\ pass \in [Passes -> Working]
    /\ \A p \in Passes : pass[p].held = {} \/ \E e \in Entries : pass[p].held = {e}
    /\ \A p \in Passes : ~Busy(p) => Chosen(p) = {}
    /\ \A p \in Passes : \A e \in Chosen(p) : Copied(p, e)
    /\ done \subseteq Passes
    /\ overlapped \in BOOLEAN
    /\ anchored \in [Items -> Nat]
    /\ faults \in 0..MaxFaults

------------------------------------------------------------------------------
LEMMA Ages ==
    /\ Never \in 0..Never /\ 0 \in 0..Never
    /\ \A a \in 0..Never : Aged(a) \in 0..Never /\ (Aged(a) = Never <=> a = Never)
    /\ \A a, b \in 0..Never : a <= b => Aged(a) <= Aged(b)
BY MaintenanceAssumption DEF Never, Aged

LEMMA AbsentRow == Absent \in Rows /\ Sound(Absent)
BY Ages, MaintenanceAssumption DEF Absent, Rows, Sound, Never

\* What a pass decides about a row it has selected: the columns of usage, the crown
\* and the origin are left alone, and the crown keeps its place.
LEMMA Deciding ==
    ASSUME NEW p \in Passes, NEW r \in Rows, Sound(r),
           r.status = IF p \in Monthly THEN "active" ELSE "legacy"
    PROVE  LET d == Decision(p, r) IN
           /\ d.score \in Nat /\ d.status \in Standing /\ d.sinceSlip \in 0..Never
           /\ r.protected => d.status = "legacy" /\ d.score >= IdentityFloor
           /\ d.status # r.status => <<r.status, d.status>> \in OneWay
           /\ d.status = "subconscious" => d.sinceSlip = 0
           /\ r.sinceRef # Never => d.score >= r.score
           /\ d.status = "active" => d.score >= SubconsciousLine
           /\ d.status = "legacy" => r.protected \/ d.score >= LegacyFloor
           /\ d.status = "subconscious" =>
                d.score < IF p \in Monthly THEN SubconsciousLine ELSE LegacyFloor
<1>. DEFINE s == Adjust(r.score, Delta(r), Floor(r))
<1>1. r.score \in Nat /\ r.protected \in BOOLEAN /\ r.refs \in Nat /\ r.sinceRef \in 0..Never
    BY MaintenanceAssumption DEF Rows
<1>2. Floor(r) \in {0, 15} /\ (r.protected => Floor(r) = 15)
    BY DEF Floor, IdentityFloor
<1>3. Delta(r) \in -4..5 /\ (r.sinceRef # Never => Delta(r) >= 0)
    <2>1. Earned(r.refs) \in {0, 2, 3, 4}
        BY DEF Earned
    <2>. QED
        BY <2>1 DEF Delta
<1>4. s \in Nat /\ s >= Floor(r) /\ (r.sinceRef # Never => s >= r.score)
    BY <1>1, <1>2, <1>3 DEF Adjust, Larger
<1>. HIDE DEF s
<1>5. CASE p \in Monthly
    <2>1. Decision(p, r) = Valued(r, s, IF s >= LegacyEnter THEN "legacy"
                                        ELSE IF s < SubconsciousLine THEN "subconscious" ELSE "active")
        BY <1>5 DEF Decision, Reevaluated, s
    <2>2. ~r.protected /\ r.status = "active"
        BY <1>5 DEF Sound
    <2>. DEFINE d == Decision(p, r)
    <2>3. /\ d.score = s
          /\ d.status = IF s >= 19 THEN "legacy" ELSE IF s < 8 THEN "subconscious" ELSE "active"
          /\ d.sinceSlip = IF d.status = "subconscious" THEN 0 ELSE Never
        BY <2>1 DEF Valued, Rows, LegacyEnter, SubconsciousLine
    <2>. HIDE DEF d
    <2>4. d.status \in Standing /\ d.sinceSlip \in 0..Never
          /\ (d.status # r.status => <<r.status, d.status>> \in OneWay)
        BY <2>2, <2>3, Ages DEF Standing, OneWay
    <2>. QED
        BY <1>4, <1>5, <2>2, <2>3, <2>4 DEF d, LegacyFloor, SubconsciousLine
<1>6. CASE p \notin Monthly
    <2>1. Decision(p, r) = Valued(r, s, IF ~r.protected /\ s < LegacyFloor THEN "subconscious"
                                        ELSE "legacy")
        BY <1>6 DEF Decision, Reviewed, s
    <2>. DEFINE d == Decision(p, r)
    <2>2. /\ d.score = s /\ d.sinceSlip = IF d.status = "subconscious" THEN 0 ELSE Never
          /\ d.status = IF ~r.protected /\ s < 16 THEN "subconscious" ELSE "legacy"
        BY <2>1 DEF Valued, Rows, LegacyFloor
    <2>. HIDE DEF d
    <2>3. d.status \in Standing /\ d.sinceSlip \in 0..Never
          /\ (d.status # r.status => <<r.status, d.status>> \in OneWay)
        BY <1>6, <2>2, Ages DEF Standing, OneWay
    <2>4. r.protected => d.status = "legacy" /\ d.score >= 15
        BY <1>1, <1>2, <1>4, <2>2
    <2>. QED
        BY <1>1, <1>4, <1>6, <2>2, <2>3, <2>4 DEF d, LegacyFloor, IdentityFloor
<1>. QED
    BY <1>5, <1>6

LEMMA Fading ==
    ASSUME NEW r \in Rows, Sound(r), r.status # "none"
    PROVE  Larger(Faded(r), Floor(r)) \in Nat
<1>1. r.score \in Nat /\ Floor(r) \in Nat
    BY DEF Rows, Floor, IdentityFloor
<1>2. Anchor(r) \in 0..MaxAge
    BY MaintenanceAssumption DEF Rows, Anchor, Smaller, Sound, Never
<1>3. Remaining[Anchor(r)] \in Nat
    <2>1. Remaining \in [0..MaxAge -> 0..1000]
        BY MaintenanceAssumption, Zenon
    <2>. DEFINE S == 0..MaxAge
                T == 0..1000
    <2>2. T \subseteq Nat
        OBVIOUS
    <2>3. Remaining \in [S -> T] /\ Anchor(r) \in S
        BY <1>2, <2>1, Zenon
    <2>. HIDE DEF S, T
    <2>. QED
        BY <2>2, <2>3
<1>4. r.score * Remaining[Anchor(r)] \in Nat
    BY <1>1, <1>3
<1>. DEFINE product == r.score * Remaining[Anchor(r)]
<1>5. product \div 1000 \in Nat
    <2>1. product \in Nat
        BY <1>4
    <2>. HIDE DEF product
    <2>. QED
        BY <2>1
<1>6. Faded(r) \in Nat
    BY <1>5 DEF Faded
<1>. QED
    BY <1>1, <1>6 DEF Larger

------------------------------------------------------------------------------
(* The invariant *)

\* What a step may do to the table without making a pass's copies worthless.
Kept == /\ row' \in [Items -> Rows] /\ \A i \in Items : Sound(row'[i])
        /\ \A i \in Items : row[i].status # "none" =>
              row'[i].status # "none" /\ row'[i].protected = row[i].protected

PassesTyped ==
    /\ pass \in [Passes -> Working]
    /\ \A p \in Passes : pass[p].held = {} \/ \E e \in Entries : pass[p].held = {e}
    /\ \A p \in Passes : ~Busy(p) => Chosen(p) = {}
    /\ \A p \in Passes : \A e \in Chosen(p) : Copied(p, e)

LEMMA Initial == Init => IInv
<1>. SUFFICES ASSUME Init PROVE IInv
    OBVIOUS
<1>1. row \in [Items -> Rows] /\ \A i \in Items : Sound(row[i])
    BY AbsentRow DEF Init
<1>2. pass \in [Passes -> Working]
      /\ \A p \in Passes : pass[p].held = {} /\ Chosen(p) = {}
    BY DEF Init, Idle, Working, Chosen
<1>3. anchored \in [Items -> Nat] /\ faults \in 0..MaxFaults
    BY MaintenanceAssumption DEF Init
<1>. QED
    BY <1>1, <1>2, <1>3 DEF Init, IInv

LEMMA Selecting ==
    ASSUME IInv, NEW S \in Standing
    PROVE  /\ Selected(S) \in SUBSET Entries
           /\ \A e \in Selected(S) : e.row = row[e.item] /\ e.row.status = S
BY DEF IInv, Selected, Entries

\* The passes go on while the table keeps what they copied.
LEMMA Waiting == ASSUME IInv, Kept, pass' = pass PROVE PassesTyped'
<1>1. ASSUME NEW p \in Passes, NEW e \in Chosen(p) PROVE Copied(p, e)'
    <2>1. Copied(p, e) /\ e \in Entries
        BY DEF IInv, Chosen, Working
    <2>. QED
        BY <2>1 DEF Copied, Kept, SelectedAs, Entries
<1>. QED
    BY <1>1 DEF IInv, PassesTyped, Chosen, Busy

\* One pass goes on to v, with fewer copies or with new ones.
LEMMA Stepping ==
    ASSUME IInv, Kept, NEW p \in Passes, NEW v \in Working, pass' = [pass EXCEPT ![p] = v],
           v.held = {} \/ \E e \in Entries : v.held = {e},
           v.pc = "idle" => v.todo \cup v.held = {},
           \/ v.pc = pass[p].pc /\ v.todo \cup v.held \subseteq Chosen(p)
           \/ \A e \in v.todo \cup v.held :
                 /\ e.row = row[e.item] /\ row[e.item].status # "none"
                 /\ e.row.status = IF v.pc = "slope" THEN "subconscious"
                                   ELSE IF p \in Monthly THEN "active" ELSE "legacy"
    PROVE  PassesTyped'
<1>1. pass' \in [Passes -> Working] /\ pass'[p] = v /\ \A q \in Passes : q # p => pass'[q] = pass[q]
    BY DEF IInv
<1>2. ASSUME NEW q \in Passes, NEW e \in Chosen(q)' PROVE Copied(q, e)'
    <2>1. CASE q # p \/ (v.pc = pass[p].pc /\ v.todo \cup v.held \subseteq Chosen(p))
        <3>1. e \in Chosen(q) /\ pass'[q].pc = pass[q].pc
            BY <1>1, <1>2, <2>1 DEF Chosen
        <3>2. Copied(q, e) /\ e \in Entries
            BY <3>1 DEF IInv, Chosen, Working
        <3>. QED
            BY <3>1, <3>2 DEF Copied, Kept, SelectedAs, Entries
    <2>2. CASE q = p /\ ~(v.pc = pass[p].pc /\ v.todo \cup v.held \subseteq Chosen(p))
        <3>1. e \in v.todo \cup v.held /\ e \in Entries
            BY <1>1, <1>2, <2>2 DEF Chosen, Working
        <3>2. /\ e.row = row[e.item] /\ row[e.item].status # "none" /\ e.item \in Items
              /\ e.row.status = SelectedAs(q)'
            BY <1>1, <2>2, <3>1 DEF SelectedAs, Entries
        <3>3. Sound(e.row)
            BY <3>2 DEF IInv
        <3>. QED
            BY <3>2, <3>3 DEF Copied, Kept
    <2>. QED
        BY <2>1, <2>2
<1>3. \A q \in Passes : pass'[q].held = {} \/ \E e \in Entries : pass'[q].held = {e}
    BY <1>1 DEF IInv
<1>4. \A q \in Passes : ~Busy(q)' => Chosen(q)' = {}
    BY <1>1 DEF IInv, Busy, Chosen
<1>. QED
    BY <1>1, <1>2, <1>3, <1>4 DEF PassesTyped

\* Time, recalls and new memories.
LEMMA RowSteps ==
    ASSUME IInv,
           \/ Tick \/ \E i \in Items : Recall(i)
           \/ \E i \in Items, s \in Scores : Form(i, s) \/ \E age \in 0..MaxAge : Migrate(i, s, age)
    PROVE  /\ Kept \/ ((\A p \in Passes : ~Busy(p)) /\ row' \in [Items -> Rows]
                       /\ \A i \in Items : Sound(row'[i]))
           /\ anchored' \in [Items -> Nat] /\ done' \subseteq Passes
           /\ UNCHANGED <<log, pass, overlapped, faults>>
<1>0. /\ row \in [Items -> Rows] /\ anchored \in [Items -> Nat] /\ done \subseteq Passes
      /\ \A i \in Items : Sound(row[i])
    BY DEF IInv
\* A row that becomes w.
<1>1. ASSUME NEW i \in Items, NEW w \in Rows, Sound(w), row' = [row EXCEPT ![i] = w],
             row[i].status # "none" => w.status # "none" /\ w.protected = row[i].protected
      PROVE  Kept
    BY <1>0, <1>1 DEF Kept
<1>2. CASE Tick
    <2>1. ASSUME NEW i \in Items PROVE row'[i] \in Rows /\ Sound(row'[i])
        <3>1. row'[i] = [row[i] EXCEPT !.sinceRef = Aged(@), !.sinceBorn = Aged(@), !.sinceSlip = Aged(@)]
            BY <1>2 DEF Tick
        <3>2. row[i] \in Rows /\ Sound(row[i])
            BY <1>0
        <3>3. /\ row[i].sinceRef \in 0..Never /\ row[i].sinceBorn \in 0..Never
              /\ row[i].sinceSlip \in 0..Never
            BY <3>2 DEF Rows
        <3>. DEFINE ref == Aged(row[i].sinceRef)
                    origin == Aged(row[i].sinceBorn)
                    slip == Aged(row[i].sinceSlip)
        <3>4. /\ ref \in 0..Never /\ origin \in 0..Never /\ slip \in 0..Never
              /\ (ref = Never <=> row[i].sinceRef = Never)
              /\ (origin = Never <=> row[i].sinceBorn = Never)
            BY <3>3, Ages
        <3>5. row'[i] = [row[i] EXCEPT !.sinceRef = ref, !.sinceBorn = origin, !.sinceSlip = slip]
            BY <3>1
        <3>. HIDE DEF ref, origin, slip
        <3>6. row'[i] \in Rows
            BY <3>2, <3>4, <3>5 DEF Rows
        <3>7. Sound(row'[i])
            BY <3>2, <3>4, <3>5 DEF Rows, Sound
        <3>. QED
            BY <3>6, <3>7
    <2>. QED
        BY <1>0, <1>2, <2>1 DEF Tick, Busy
<1>3. ASSUME NEW i \in Items, Recall(i) PROVE Kept /\ anchored' \in [Items -> Nat]
    <2>. DEFINE w == [row[i] EXCEPT !.refs = @ + 1, !.sinceRef = 0]
    <2>1. row[i] \in Rows /\ Sound(row[i])
        BY <1>0
    <2>2. row[i].refs + 1 \in 0..MaxRefs /\ row[i].refs + 1 > 0 /\ 0 # Never
        <3>1. row[i].refs \in 0..MaxRefs /\ row[i].refs < MaxRefs
            BY <1>3, <2>1 DEF Recall, Rows
        <3>2. MaxRefs \in Nat /\ MaxAge \in Nat
            BY MaintenanceAssumption
        <3>. QED
            BY <3>1, <3>2 DEF Never
    <2>3. w \in Rows /\ Sound(w) /\ w.status = row[i].status /\ w.protected = row[i].protected
        BY <2>1, <2>2, Ages DEF Rows, Sound
    <2>4. row' = [row EXCEPT ![i] = w] /\ anchored' = [anchored EXCEPT ![i] = row[i].score]
        BY <1>0, <1>3 DEF Recall
    <2>. HIDE DEF w
    <2>5. anchored' \in [Items -> Nat]
        BY <1>0, <2>1, <2>4 DEF Rows
    <2>. QED
        BY <1>1, <2>3, <2>4, <2>5
<1>4. ASSUME NEW i \in Items, NEW score \in Scores, NEW age \in 0..MaxAge,
             NEW crown \in BOOLEAN, NEW status \in {"active", "legacy"},
             crown => status = "legacy" /\ score >= IdentityFloor, row[i] = Absent,
             row' = [row EXCEPT ![i] = [Absent EXCEPT !.status = status, !.born = score,
                       !.score = score, !.protected = crown, !.sinceBorn = age]]
      PROVE  Kept
    <2>. DEFINE w == [Absent EXCEPT !.status = status, !.born = score, !.score = score,
                                    !.protected = crown, !.sinceBorn = age]
    <2>1. score \in Nat /\ age \in 0..Never /\ age # Never
        BY MaintenanceAssumption DEF Never
    <2>2. w \in Rows
        BY <2>1, AbsentRow DEF Rows, Standing, Absent
    <2>3. Sound(w)
        BY <1>4, <2>1 DEF Sound, Absent
    <2>4. row[i].status = "none"
        BY <1>4 DEF Absent
    <2>5. row' = [row EXCEPT ![i] = w]
        BY <1>4
    <2>. HIDE DEF w
    <2>. QED
        BY <1>1, <2>2, <2>3, <2>4, <2>5
<1>5. ASSUME NEW i \in Items, NEW score \in Scores, Form(i, score) PROVE Kept
    <2>. DEFINE crown == score >= FormationBypass
    <2>1. crown \in BOOLEAN /\ (crown => score >= IdentityFloor) /\ 0 \in 0..MaxAge
        BY MaintenanceAssumption DEF FormationBypass, IdentityFloor
    <2>2. row[i] = Absent /\ row' = [row EXCEPT ![i] = [Absent EXCEPT
             !.status = IF crown THEN "legacy" ELSE "active", !.born = score,
             !.score = score, !.protected = crown, !.sinceBorn = 0]]
        BY <1>5 DEF Form
    <2>. HIDE DEF crown
    <2>. QED
        BY <1>4, <2>1, <2>2
<1>6. ASSUME NEW i \in Items, NEW score \in Scores, NEW age \in 0..MaxAge, Migrate(i, score, age)
      PROVE  Kept
    <2>. DEFINE w == [Absent EXCEPT !.status = "active", !.born = score, !.score = score,
                                    !.sinceBorn = age]
    <2>1. score \in Nat /\ age \in 0..Never /\ age # Never
        BY MaintenanceAssumption DEF Never
    <2>2. w \in Rows
        BY <2>1, AbsentRow DEF Rows, Standing, Absent
    <2>3. Sound(w)
        BY <2>1 DEF Sound, Absent
    <2>4. row[i] = Absent /\ row' = [row EXCEPT ![i] = w]
        BY <1>6 DEF Migrate
    <2>5. row[i].status = "none"
        BY <2>4 DEF Absent
    <2>. HIDE DEF w
    <2>. QED
        BY <1>1, <2>2, <2>3, <2>4, <2>5
<1>7. anchored' \in [Items -> Nat] /\ done' \subseteq Passes
      /\ UNCHANGED <<log, pass, overlapped, faults>>
    BY <1>0, <1>3 DEF Tick, Recall, Form, Migrate
<1>. QED
    BY <1>2, <1>3, <1>5, <1>6, <1>7

\* The UPDATE of what a pass decided about its copy of a row.
LEMMA Updating ==
    ASSUME IInv, NEW p \in Passes, pass[p].pc = "value", NEW e \in Chosen(p),
           Update(e, Decision(p, e.row))
    PROVE  Kept /\ anchored' \in [Items -> Nat]
<1>1. /\ row \in [Items -> Rows] /\ anchored \in [Items -> Nat] /\ e \in Entries /\ Copied(p, e)
      /\ \A j \in Items : Sound(row[j])
    BY DEF IInv, Chosen, Working
<1>. DEFINE i == e.item
            d == Decision(p, e.row)
            w == [row[i] EXCEPT !.score = d.score, !.status = d.status, !.sinceSlip = d.sinceSlip]
<1>2. /\ i \in Items /\ e.row \in Rows /\ Sound(e.row)
      /\ e.row.status = IF p \in Monthly THEN "active" ELSE "legacy"
      /\ e.row.protected = row[i].protected
    BY <1>1 DEF Entries, Copied, SelectedAs
<1>3. /\ d.score \in Nat /\ d.status \in Standing /\ d.sinceSlip \in 0..Never
      /\ e.row.protected => d.status = "legacy" /\ d.score >= IdentityFloor
    BY <1>2, Deciding
<1>4. row' = IF ~Present(i) THEN row ELSE [row EXCEPT ![i] = w]
    BY <1>1, <1>2 DEF Update
<1>5. anchored' = IF Present(i) /\ d.status = "subconscious"
                  THEN [anchored EXCEPT ![i] = d.score] ELSE anchored
    BY DEF Update
<1>6. row[i] \in Rows /\ Sound(row[i])
    BY <1>1, <1>2
<1>. HIDE DEF i, d
<1>7. w.status # "none" /\ w.protected = row[i].protected
    BY <1>3, <1>6 DEF Rows, Standing
<1>8. w \in Rows
    BY <1>3, <1>6 DEF Rows
<1>9. ASSUME Present(i) PROVE Sound(w)
    BY <1>2, <1>3, <1>6, <1>9 DEF Rows, Sound, Present, Standing
<1>. HIDE DEF w
<1>10. Kept
    BY <1>1, <1>2, <1>4, <1>7, <1>8, <1>9 DEF Kept
<1>11. anchored' \in [Items -> Nat]
    BY <1>1, <1>2, <1>3, <1>5
<1>. QED
    BY <1>10, <1>11

\* The slope changes the score of what nobody protects, or forgets it.
LEMMA Sloping ==
    ASSUME IInv, NEW p \in Passes, pass[p].pc = "slope", NEW e \in Chosen(p),
           row' = row
           \/ (Present(e.item) /\ row' = [row EXCEPT ![e.item].status = "gone"])
           \/ (Present(e.item) /\ row' = [row EXCEPT ![e.item].score = Larger(Faded(e.row), Floor(e.row))])
    PROVE  Kept
<1>1. /\ row \in [Items -> Rows] /\ e \in Entries /\ Copied(p, e)
      /\ \A j \in Items : Sound(row[j])
    BY DEF IInv, Chosen, Working
<1>2. /\ e.item \in Items /\ e.row \in Rows /\ Sound(e.row) /\ e.row.status = "subconscious"
      /\ e.row.protected = row[e.item].protected
    BY <1>1 DEF Entries, Copied, SelectedAs
<1>3. ~row[e.item].protected /\ row[e.item] \in Rows /\ Sound(row[e.item])
    BY <1>1, <1>2 DEF Sound
<1>4. CASE row' = row
    BY <1>1, <1>4 DEF Kept
<1>5. CASE Present(e.item) /\ row' = [row EXCEPT ![e.item].status = "gone"]
    <2>. DEFINE w == [row[e.item] EXCEPT !.status = "gone"]
    <2>1. w \in Rows /\ Sound(w) /\ w.status # "none" /\ w.protected = row[e.item].protected
        BY <1>3, <1>5 DEF Rows, Sound, Present, Standing
    <2>2. row' = [row EXCEPT ![e.item] = w]
        BY <1>5
    <2>. HIDE DEF w
    <2>. QED
        BY <1>1, <1>2, <2>1, <2>2 DEF Kept
<1>6. CASE Present(e.item) /\ row' = [row EXCEPT ![e.item].score = Larger(Faded(e.row), Floor(e.row))]
    <2>. DEFINE score == Larger(Faded(e.row), Floor(e.row))
                w == [row[e.item] EXCEPT !.score = score]
    <2>1. score \in Nat
        BY <1>2, Fading
    <2>2. row' = [row EXCEPT ![e.item] = w]
        BY <1>6
    <2>. HIDE DEF score
    <2>3. w \in Rows /\ Sound(w) /\ w.status = row[e.item].status
          /\ w.protected = row[e.item].protected
        BY <1>3, <2>1 DEF Rows, Sound
    <2>. HIDE DEF w
    <2>. QED
        BY <1>1, <1>2, <2>2, <2>3 DEF Kept
<1>. QED
    BY <1>4, <1>5, <1>6

LEMMA PassSteps ==
    ASSUME IInv, NEW p \in Passes, Begin(p) \/ PassStep(p) \/ Break(p)
    PROVE  IInv'
<1>0. /\ row \in [Items -> Rows] /\ log \subseteq Items \X Standing \X Standing
      /\ \A i \in Items : Sound(row[i])
      /\ pass \in [Passes -> Working] /\ done \subseteq Passes
      /\ overlapped \in BOOLEAN /\ anchored \in [Items -> Nat] /\ faults \in 0..MaxFaults
      /\ pass[p].todo \in SUBSET Entries /\ pass[p].held \in SUBSET Entries
      /\ (pass[p].held = {} \/ \E e \in Entries : pass[p].held = {e})
    BY DEF IInv, Working
<1>1. ASSUME row' = row PROVE Kept
    BY <1>0, <1>1 DEF Kept
<1>2. ASSUME Kept, PassesTyped', UNCHANGED <<log, done, overlapped, faults>>,
             anchored' \in [Items -> Nat]
      PROVE  IInv'
    BY <1>0, <1>2 DEF IInv, Kept, PassesTyped
<1>. DEFINE To(v) == /\ v \in Working /\ pass' = [pass EXCEPT ![p] = v]
                     /\ v.held = {} \/ \E e \in Entries : v.held = {e}
                     /\ v.pc = "idle" => v.todo \cup v.held = {}
                     /\ v.pc = pass[p].pc /\ v.todo \cup v.held \subseteq Chosen(p)
\* A pass that goes on with fewer copies.
<1>3. ASSUME Kept, NEW v, To(v) PROVE PassesTyped'
    BY <1>3, Stepping
<1>4. ASSUME Kept, pass' = [pass EXCEPT ![p] = Idle] PROVE PassesTyped'
    <2>1. Idle \in Working /\ Idle.todo \cup Idle.held = {} /\ Idle.held = {}
        BY DEF Idle, Working
    <2>. QED
        BY <1>4, <2>1, Stepping
<1>5. CASE Begin(p)
    <2>. DEFINE S == IF p \in Monthly THEN "active" ELSE "legacy"
                v == [Idle EXCEPT !.pc = "value", !.todo = Selected(S)]
    <2>1. S \in Standing /\ S # "none" /\ "value" # "idle"
        BY DEF Standing
    <2>2. Selected(S) \in SUBSET Entries
          /\ \A e \in Selected(S) : e.row = row[e.item] /\ e.row.status = S
        BY <2>1, Selecting
    <2>3. v \in Working /\ v.held = {} /\ v.pc = "value" /\ v.todo \cup v.held = Selected(S)
        BY <2>2 DEF Idle, Working
    <2>4. pass' = [pass EXCEPT ![p] = v]
        BY <1>5 DEF Begin
    <2>. HIDE DEF v
    <2>5. PassesTyped'
        <3>1. Kept
            BY <1>1, <1>5 DEF Begin
        <3>2. \A e \in v.todo \cup v.held :
                 /\ e.row = row[e.item] /\ row[e.item].status # "none"
                 /\ e.row.status = IF v.pc = "slope" THEN "subconscious"
                                   ELSE IF p \in Monthly THEN "active" ELSE "legacy"
            BY <2>1, <2>2, <2>3
        <3>. QED
            BY <2>3, <2>4, <3>1, <3>2, Stepping
    <2>6. overlapped' \in BOOLEAN
        <3>1. overlapped' = (overlapped \/ \E q \in Passes : pass[q].pc # "idle")
            BY <1>5 DEF Begin
        <3>. QED
            BY <1>0, <3>1, Zenon
    <2>7. done' \subseteq Passes /\ UNCHANGED <<row, log, anchored, faults>>
        BY <1>0, <1>5 DEF Begin
    <2>. QED
        BY <1>0, <2>5, <2>6, <2>7 DEF IInv, PassesTyped
<1>6. CASE Log(p)
    <2>1. PICK e \in pass[p].todo :
             /\ Moves(p, e) /\ LogMove(p, e)
             /\ pass' = [pass EXCEPT ![p].todo = @ \ {e}, ![p].held = {e}]
        BY <1>6 DEF Log
    <2>2. /\ e \in Entries /\ Copied(p, e) /\ pass[p].pc = "value"
          /\ UNCHANGED <<row, done, overlapped, anchored, faults>>
        BY <1>0, <1>6 DEF Log, IInv, Chosen
    <2>. DEFINE v == [pass[p] EXCEPT !.todo = @ \ {e}, !.held = {e}]
    <2>3. v \in Working /\ v.pc = "value" /\ v.held = {e} /\ v.todo \cup v.held \subseteq Chosen(p)
        BY <1>0, <2>2 DEF Working, Chosen
    <2>4. pass' = [pass EXCEPT ![p] = v]
        BY <1>0, <2>1
    <2>. HIDE DEF v
    <2>5. PassesTyped'
        BY <1>1, <1>3, <2>2, <2>3, <2>4
    <2>6. log' \subseteq Items \X Standing \X Standing
        <3>1. e.row \in Rows /\ e.item \in Items /\ Sound(e.row) /\ e.row.status \in Standing
              /\ e.row.status = IF p \in Monthly THEN "active" ELSE "legacy"
            BY <2>2 DEF Entries, Copied, SelectedAs, Standing
        <3>2. Decision(p, e.row).status \in Standing
            BY <3>1, Deciding
        <3>. QED
            BY <1>0, <2>1, <3>1, <3>2 DEF LogMove
    <2>. QED
        BY <1>0, <2>2, <2>5, <2>6 DEF IInv, PassesTyped
<1>7. CASE Write(p)
    <2>1. PICK e \in pass[p].held \cup pass[p].todo :
             /\ Update(e, Decision(p, e.row))
             /\ pass' = [pass EXCEPT ![p].todo = @ \ {e}, ![p].held = {}]
        BY <1>7 DEF Write
    <2>. DEFINE v == [pass[p] EXCEPT !.todo = @ \ {e}, !.held = {}]
    <2>2. v \in Working /\ v.pc = pass[p].pc /\ v.held = {} /\ v.todo \cup v.held \subseteq Chosen(p)
          /\ pass[p].pc = "value" /\ e \in Chosen(p)
        BY <1>0, <1>7 DEF Working, Chosen, Write
    <2>3. pass' = [pass EXCEPT ![p] = v]
        BY <1>0, <2>1
    <2>. HIDE DEF v
    <2>4. Kept /\ anchored' \in [Items -> Nat]
        BY <2>1, <2>2, Updating
    <2>5. PassesTyped'
        BY <1>3, <2>2, <2>3, <2>4
    <2>. QED
        BY <1>2, <1>7, <2>4, <2>5 DEF Write
<1>8. CASE Slope(p)
    <2>. DEFINE v == [pass[p] EXCEPT !.pc = "slope", !.todo = Selected("subconscious")]
    <2>1. Selected("subconscious") \in SUBSET Entries
          /\ \A e \in Selected("subconscious") : e.row = row[e.item] /\ e.row.status = "subconscious"
        BY Selecting DEF Standing
    <2>2. v \in Working /\ v.held = {} /\ v.pc = "slope" /\ v.todo \cup v.held = Selected("subconscious")
        BY <1>0, <1>8, <2>1 DEF Slope, Working
    <2>3. pass' = [pass EXCEPT ![p] = v]
        BY <1>0, <1>8 DEF Slope
    <2>. HIDE DEF v
    <2>4. Kept
        BY <1>1, <1>8 DEF Slope
    <2>5. PassesTyped'
        BY <2>1, <2>2, <2>3, <2>4, Stepping
    <2>. QED
        BY <1>0, <1>2, <1>8, <2>4, <2>5 DEF Slope
<1>9. ASSUME pass[p].pc = "slope", NEW e \in pass[p].todo, Kept, UNCHANGED <<log, done, overlapped, anchored, faults>>,
             pass' = [pass EXCEPT ![p].todo = @ \ {e}]
      PROVE  IInv'
    <2>. DEFINE v == [pass[p] EXCEPT !.todo = @ \ {e}]
    <2>1. v \in Working /\ v.pc = pass[p].pc /\ v.held = pass[p].held
          /\ v.todo \cup v.held \subseteq Chosen(p)
        BY <1>0 DEF Working, Chosen
    <2>2. pass' = [pass EXCEPT ![p] = v]
        BY <1>0, <1>9
    <2>. HIDE DEF v
    <2>3. PassesTyped'
        BY <1>0, <1>3, <1>9, <2>1, <2>2
    <2>. QED
        BY <1>0, <1>2, <1>9, <2>3
<1>10. CASE Forget(p)
    <2>1. PICK e \in pass[p].todo :
             /\ row' = IF Present(e.item) THEN [row EXCEPT ![e.item].status = "gone"] ELSE row
             /\ pass' = [pass EXCEPT ![p].todo = @ \ {e}]
        BY <1>10 DEF Forget
    <2>2. Kept
        BY <1>10, <2>1, Sloping DEF Forget, Chosen
    <2>. QED
        BY <1>9, <1>10, <2>1, <2>2 DEF Forget
<1>11. CASE Fade(p)
    <2>1. PICK e \in pass[p].todo :
             /\ row' = IF Present(e.item)
                   THEN [row EXCEPT ![e.item].score = Larger(Faded(e.row), Floor(e.row))] ELSE row
             /\ pass' = [pass EXCEPT ![p].todo = @ \ {e}]
        BY <1>11 DEF Fade
    <2>2. Kept
        BY <1>11, <2>1, Sloping DEF Fade, Chosen
    <2>. QED
        BY <1>9, <1>11, <2>1, <2>2 DEF Fade
<1>12. CASE End(p)
    BY <1>0, <1>1, <1>2, <1>4, <1>12 DEF End
<1>13. CASE Break(p)
    <2>1. PassesTyped' /\ UNCHANGED <<row, log, done, overlapped, anchored>>
        BY <1>1, <1>4, <1>13 DEF Break
    <2>2. faults' \in 0..MaxFaults
        <3>1. MaxFaults \in Nat
            BY MaintenanceAssumption
        <3>. QED
            BY <1>0, <1>13, <3>1 DEF Break
    <2>. QED
        BY <1>0, <2>1, <2>2 DEF IInv, PassesTyped
<1>. QED
    BY <1>5, <1>6, <1>7, <1>8, <1>10, <1>11, <1>12, <1>13 DEF PassStep

LEMMA Preserved == IInv /\ [Next]_vars => IInv'
<1>. SUFFICES ASSUME IInv, [Next]_vars PROVE IInv'
    OBVIOUS
<1>1. ASSUME \/ Tick \/ \E i \in Items : Recall(i)
             \/ \E i \in Items, s \in Scores : Form(i, s) \/ \E age \in 0..MaxAge : Migrate(i, s, age)
      PROVE  IInv'
    <2>1. /\ anchored' \in [Items -> Nat] /\ done' \subseteq Passes
          /\ UNCHANGED <<log, pass, overlapped, faults>>
          /\ row' \in [Items -> Rows] /\ \A i \in Items : Sound(row'[i])
        BY <1>1, RowSteps DEF Kept
    <2>2. PassesTyped'
        <3>1. CASE Kept
            BY <2>1, <3>1, Waiting
        <3>2. CASE \A p \in Passes : ~Busy(p)
            BY <2>1, <3>2 DEF IInv, PassesTyped, Chosen, Busy
        <3>. QED
            BY <1>1, <3>1, <3>2, RowSteps
    <2>. QED
        BY <2>1, <2>2 DEF IInv, PassesTyped
<1>2. CASE UNCHANGED vars
    BY <1>2 DEF vars, IInv, Copied, Chosen, Busy, SelectedAs
<1>. QED
    BY <1>1, <1>2, PassSteps DEF Next

\* The invariant the theorems follow from.
THEOREM Invariance == Spec => []IInv
<1>1. Init => IInv
    BY Initial
<1>2. IInv /\ [Next]_vars => IInv'
    BY Preserved
<1>. QED
    BY <1>1, <1>2, PTL DEF Spec

\* The types: among them, that what a pass works through are rows of the table, and
\* that it holds at most one whose move is logged and not yet written.
THEOREM Typed == Spec => []TypeOK
<1>1. ASSUME IInv PROVE TypeOK
    <2>1. ASSUME NEW p \in Passes
          PROVE  /\ pass[p].pc \in {"idle", "value", "slope"}
                 /\ Chosen(p) \subseteq Entries
                 /\ Cardinality(pass[p].held) <= 1
        <3>1. pass[p] \in Working /\ (pass[p].held = {} \/ \E e \in Entries : pass[p].held = {e})
            BY <1>1 DEF IInv
        <3>2. Cardinality(pass[p].held) <= 1
            BY <3>1, FS_EmptySet, FS_Singleton
        <3>. QED
            BY <3>1, <3>2 DEF Working, Chosen
    <2>. QED
        BY <1>1, <2>1 DEF IInv, TypeOK, Chosen, Entries
<1>. QED
    BY <1>1, Invariance, PTL

\* The crown stands, however passes overlap and break off.
THEOREM CrownHolds == Spec => []CrownStands
<1>1. IInv => CrownStands
    BY DEF IInv, CrownStands, Sound
<1>. QED
    BY <1>1, Invariance, PTL

------------------------------------------------------------------------------
(* One pass at a time *)

\* What keeps a memory above the line it would slip under: nothing that came with
\* enough goes below it without being moved.
Above(r) ==
    /\ r.status = "active" /\ r.born >= SubconsciousLine => r.score >= SubconsciousLine
    /\ r.status = "legacy" /\ ~r.protected => r.score >= LegacyFloor

\* OnceRecalledStays, of one row.
Slipped(r) ==
    r.status = "subconscious" /\ r.born >= SubconsciousLine /\ r.refs > 0
        => r.sinceRef <= r.sinceSlip

\* A copy is as good as the row, but for recalls since.
Current(e) ==
    /\ Above(e.row)
    /\ Present(e.item) =>
         /\ row[e.item].status = e.row.status
         /\ row[e.item].born = e.row.born
         /\ row[e.item].sinceRef \in {e.row.sinceRef, 0}

SoloRow(i) == Above(row[i]) /\ Slipped(row[i])

SoloPass(p) ==
    /\ \A e \in Chosen(p) : Current(e)
    /\ \A e, f \in Chosen(p) : e.item = f.item => e = f
    /\ \A e \in pass[p].held :
          pass[p].pc = "value" /\ <<e.item, e.row.status, Decision(p, e.row).status>> \in log

SoloInv ==
    ~overlapped =>
        /\ \A p, q \in Passes : Busy(p) /\ Busy(q) => p = q
        /\ \A p \in Passes : SoloPass(p)
        /\ \A i \in Items : SoloRow(i)

LEMMA SoloInitial == Init => SoloInv
<1>. SUFFICES ASSUME Init PROVE SoloInv
    OBVIOUS
<1>1. \A p \in Passes : ~Busy(p) /\ Chosen(p) = {} /\ pass[p].held = {}
    BY DEF Init, Idle, Busy, Chosen
<1>2. \A i \in Items : row[i].status = "none"
    BY DEF Init, Absent
<1>. QED
    BY <1>1, <1>2 DEF SoloInv, SoloPass, SoloRow, Above, Slipped

\* The only pass at work goes on to v.
LEMMA SoloStep ==
    ASSUME IInv, NEW p \in Passes, \A q \in Passes : q # p => ~Busy(q),
           NEW v \in Working, pass' = [pass EXCEPT ![p] = v],
           \A i \in Items : SoloRow(i)', SoloPass(p)'
    PROVE  SoloInv'
<1>1. \A q \in Passes : q # p => pass'[q] = pass[q]
    BY DEF IInv
<1>2. ASSUME NEW q \in Passes, q # p PROVE SoloPass(q)' /\ ~Busy(q)'
    <2>1. Chosen(q) = {} /\ ~Busy(q)
        BY <1>2 DEF IInv
    <2>2. Chosen(q)' = {} /\ pass'[q].held = {} /\ ~Busy(q)'
        BY <1>1, <1>2, <2>1 DEF Chosen, Busy
    <2>. QED
        BY <2>2 DEF SoloPass
<1>. QED
    BY <1>2 DEF SoloInv

\* What a decision about a copy makes of the row.
LEMMA SoloWrite ==
    ASSUME IInv, NEW p \in Passes, pass[p].pc = "value", NEW e \in Chosen(p), Current(e),
           Present(e.item),
           NEW w, w = [row[e.item] EXCEPT !.score = Decision(p, e.row).score,
                                          !.status = Decision(p, e.row).status,
                                          !.sinceSlip = Decision(p, e.row).sinceSlip]
    PROVE  Above(w) /\ Slipped(w)
<1>. DEFINE d == Decision(p, e.row)
            r == row[e.item]
<1>1. e.row \in Rows /\ r \in Rows /\ Sound(e.row) /\ Sound(r)
      /\ e.row.status = (IF p \in Monthly THEN "active" ELSE "legacy")
      /\ e.row.protected = r.protected
    BY DEF IInv, Copied, SelectedAs, Entries, Working, Chosen
<1>2. /\ d.score \in Nat /\ d.sinceSlip \in 0..Never
      /\ e.row.protected => d.status = "legacy" /\ d.score >= IdentityFloor
      /\ d.status = "subconscious" => d.sinceSlip = 0
      /\ e.row.sinceRef # Never => d.score >= e.row.score
      /\ d.status = "active" => d.score >= SubconsciousLine
      /\ d.status = "legacy" => e.row.protected \/ d.score >= LegacyFloor
      /\ d.status = "subconscious" =>
            d.score < IF p \in Monthly THEN SubconsciousLine ELSE LegacyFloor
    BY <1>1, Deciding
<1>3. /\ r.born = e.row.born /\ r.sinceRef \in {e.row.sinceRef, 0} /\ Above(e.row)
    BY DEF Current
<1>. HIDE DEF d, r
<1>4. /\ w.status = d.status /\ w.score = d.score /\ w.sinceSlip = d.sinceSlip /\ w.born = r.born
      /\ w.protected = r.protected /\ w.refs = r.refs /\ w.sinceRef = r.sinceRef
    BY <1>1 DEF d, r, Rows
<1>5. Above(w)
    BY <1>1, <1>2, <1>4 DEF Above
<1>6. ASSUME w.status = "subconscious", w.born >= SubconsciousLine, w.refs > 0
      PROVE  w.sinceRef <= w.sinceSlip
    <2>1. e.row.score \in Nat /\ e.row.protected \in BOOLEAN
        BY <1>1 DEF Rows
    <2>2. e.row.sinceRef = Never
        <3>. SUFFICES ASSUME e.row.sinceRef # Never PROVE FALSE
            OBVIOUS
        <3>1. d.score >= e.row.score /\ ~e.row.protected
            BY <1>2, <1>4, <1>6
        <3>2. CASE p \in Monthly
            BY <1>1, <1>2, <1>3, <1>4, <1>6, <2>1, <3>1, <3>2 DEF Above, SubconsciousLine
        <3>3. CASE p \notin Monthly
            BY <1>1, <1>2, <1>3, <1>4, <1>6, <2>1, <3>1, <3>3 DEF Above, LegacyFloor
        <3>. QED
            BY <3>2, <3>3
    <2>3. r.sinceRef # Never
        BY <1>1, <1>4, <1>6 DEF Sound
    <2>. QED
        BY <1>2, <1>3, <1>4, <1>6, <2>2, <2>3
<1>. QED
    BY <1>5, <1>6 DEF Slipped

\* Time, recalls and new memories leave the copies current.
LEMMA SoloRows ==
    ASSUME IInv, SoloInv,
           \/ Tick \/ \E i \in Items : Recall(i)
           \/ \E i \in Items, s \in Scores : Form(i, s) \/ \E age \in 0..MaxAge : Migrate(i, s, age)
    PROVE  SoloInv'
<1>. SUFFICES ASSUME ~overlapped'
              PROVE  /\ \A p, q \in Passes : Busy(p)' /\ Busy(q)' => p = q
                     /\ \A p \in Passes : SoloPass(p)'
                     /\ \A i \in Items : SoloRow(i)'
    BY DEF SoloInv
<1>0. UNCHANGED <<log, pass, overlapped>>
    BY RowSteps
<1>1. /\ \A p, q \in Passes : Busy(p) /\ Busy(q) => p = q
      /\ \A p \in Passes : SoloPass(p)
      /\ \A i \in Items : SoloRow(i)
      /\ row \in [Items -> Rows] /\ \A i \in Items : Sound(row[i])
    BY <1>0 DEF SoloInv, IInv
<1>2. \A p, q \in Passes : Busy(p)' /\ Busy(q)' => p = q
    BY <1>0, <1>1 DEF Busy
<1>3. ASSUME \A p \in Passes : \A e \in Chosen(p) : Current(e)'
      PROVE  \A p \in Passes : SoloPass(p)'
    BY <1>0, <1>1, <1>3 DEF SoloPass, Chosen
\* One row becomes w.
<1>4. ASSUME NEW i \in Items, NEW w \in Rows, row' = [row EXCEPT ![i] = w], Above(w), Slipped(w),
             row[i].status # "none" => /\ w.status = row[i].status /\ w.born = row[i].born
                                       /\ w.sinceRef \in {row[i].sinceRef, 0}
      PROVE  (\A j \in Items : SoloRow(j)') /\ \A p \in Passes : \A e \in Chosen(p) : Current(e)'
    <2>1. \A j \in Items : row'[j] = IF j = i THEN w ELSE row[j]
        BY <1>1, <1>4
    <2>2. \A j \in Items : SoloRow(j)'
        BY <1>1, <1>4, <2>1 DEF SoloRow
    <2>3. ASSUME NEW p \in Passes, NEW e \in Chosen(p) PROVE Current(e)'
        <3>1. Current(e) /\ e.item \in Items /\ row[e.item].status # "none"
            BY <1>1 DEF SoloPass, IInv, Copied, Chosen, Working, Entries
        <3>2. CASE e.item = i
            BY <1>4, <2>1, <3>1, <3>2 DEF Current, Present
        <3>3. CASE e.item # i
            BY <2>1, <3>1, <3>3 DEF Current, Present
        <3>. QED
            BY <3>2, <3>3
    <2>. QED
        BY <2>2, <2>3
<1>5. CASE Tick
    <2>1. \A p \in Passes : Chosen(p) = {}
        BY <1>5 DEF Tick, IInv, Busy
    <2>2. ASSUME NEW i \in Items PROVE SoloRow(i)'
        <3>. DEFINE ref == Aged(row[i].sinceRef)
                    slip == Aged(row[i].sinceSlip)
        <3>1. row'[i] = [row[i] EXCEPT !.sinceRef = ref, !.sinceBorn = Aged(@), !.sinceSlip = slip]
            BY <1>5 DEF Tick
        <3>2. row[i] \in Rows /\ SoloRow(i)
            BY <1>1
        <3>3. row[i].sinceRef <= row[i].sinceSlip => ref <= slip
            BY <3>2, Ages DEF Rows
        <3>. HIDE DEF ref, slip
        <3>4. /\ row'[i].status = row[i].status /\ row'[i].born = row[i].born
              /\ row'[i].score = row[i].score /\ row'[i].protected = row[i].protected
              /\ row'[i].refs = row[i].refs /\ row'[i].sinceRef = ref /\ row'[i].sinceSlip = slip
            BY <3>1, <3>2 DEF Rows
        <3>. QED
            BY <3>2, <3>3, <3>4 DEF SoloRow, Above, Slipped
    <2>. QED
        BY <1>2, <1>3, <2>1, <2>2
<1>6. ASSUME NEW i \in Items, Recall(i)
      PROVE  (\A j \in Items : SoloRow(j)') /\ \A p \in Passes : SoloPass(p)'
    <2>. DEFINE w == [row[i] EXCEPT !.refs = @ + 1, !.sinceRef = 0]
    <2>1. row[i] \in Rows /\ SoloRow(i)
        BY <1>1
    <2>2. row[i].refs + 1 \in 0..MaxRefs /\ 0 \in 0..Never
        <3>1. row[i].refs \in 0..MaxRefs /\ row[i].refs < MaxRefs
            BY <1>6, <2>1 DEF Recall, Rows
        <3>2. MaxRefs \in Nat
            BY MaintenanceAssumption
        <3>. QED
            BY <3>1, <3>2, Ages
    <2>3. w \in Rows /\ w.status = row[i].status /\ w.born = row[i].born /\ w.sinceRef = 0
        BY <2>1, <2>2 DEF Rows
    <2>4. Above(w)
        BY <2>1 DEF SoloRow, Above, Rows
    <2>5. Slipped(w)
        <3>1. w.sinceSlip \in 0..Never
            BY <2>3 DEF Rows
        <3>. QED
            BY <2>3, <3>1 DEF Slipped
    <2>6. row' = [row EXCEPT ![i] = w]
        BY <1>1, <1>6 DEF Recall
    <2>. HIDE DEF w
    <2>. QED
        BY <1>3, <1>4, <2>3, <2>4, <2>5, <2>6
<1>7. ASSUME NEW i \in Items, NEW w \in Rows, row[i] = Absent, row' = [row EXCEPT ![i] = w],
             Above(w), w.status # "subconscious"
      PROVE  (\A j \in Items : SoloRow(j)') /\ \A p \in Passes : SoloPass(p)'
    <2>1. row[i].status = "none" /\ Slipped(w)
        BY <1>7 DEF Absent, Slipped
    <2>. QED
        BY <1>3, <1>4, <1>7, <2>1
<1>8. ASSUME NEW i \in Items, NEW score \in Scores, Form(i, score)
      PROVE  (\A j \in Items : SoloRow(j)') /\ \A p \in Passes : SoloPass(p)'
    <2>. DEFINE crown == score >= FormationBypass
                w == [Absent EXCEPT !.status = IF crown THEN "legacy" ELSE "active",
                        !.born = score, !.score = score, !.protected = crown, !.sinceBorn = 0]
    <2>1. score \in Nat /\ score >= 10 /\ row[i] = Absent /\ row' = [row EXCEPT ![i] = w]
        <3>1. row' = [row EXCEPT ![i] = w] /\ row[i] = Absent /\ score >= 10
            BY <1>8 DEF Form, GateToLongTerm
        <3>2. score \in Nat
            BY MaintenanceAssumption
        <3>. QED
            BY <3>1, <3>2
    <2>2. crown \in BOOLEAN
        BY <2>1 DEF FormationBypass
    <2>. HIDE DEF crown
    <2>3. /\ w.status = IF crown THEN "legacy" ELSE "active"
          /\ w.born = score /\ w.score = score /\ w.protected = crown
        BY DEF Absent
    <2>4. Above(w) /\ w.status # "subconscious"
        BY <2>1, <2>2, <2>3 DEF Above, SubconsciousLine
    <2>5. w \in Rows
        BY <2>1, <2>2, AbsentRow, Ages DEF Rows, Standing, Absent
    <2>. HIDE DEF w
    <2>. QED
        BY <1>7, <2>1, <2>4, <2>5
<1>9. ASSUME NEW i \in Items, NEW score \in Scores, NEW age \in 0..MaxAge, Migrate(i, score, age)
      PROVE  (\A j \in Items : SoloRow(j)') /\ \A p \in Passes : SoloPass(p)'
    <2>. DEFINE w == [Absent EXCEPT !.status = "active", !.born = score, !.score = score,
                                    !.sinceBorn = age]
    <2>1. row[i] = Absent /\ row' = [row EXCEPT ![i] = w]
        BY <1>9 DEF Migrate
    <2>2. score \in Nat /\ age \in 0..Never
        BY MaintenanceAssumption DEF Never
    <2>3. w.status = "active" /\ w.born = score /\ w.score = score
        BY DEF Absent
    <2>4. Above(w)
        BY <2>2, <2>3 DEF Above
    <2>5. w \in Rows
        BY <2>2, AbsentRow, Ages DEF Rows, Standing, Absent
    <2>. HIDE DEF w
    <2>. QED
        BY <1>7, <2>1, <2>3, <2>4, <2>5
<1>. QED
    BY <1>2, <1>5, <1>6, <1>8, <1>9

\* The steps of a pass.
LEMMA SoloPasses ==
    ASSUME IInv, SoloInv, NEW p \in Passes, Begin(p) \/ PassStep(p) \/ Break(p)
    PROVE  SoloInv'
<1>. SUFFICES ASSUME ~overlapped' PROVE SoloInv'
    BY DEF SoloInv
<1>0. /\ ~overlapped /\ \A q \in Passes : q # p => ~Busy(q)
    <2>1. CASE Begin(p)
        <3>1. overlapped' = (overlapped \/ \E q \in Passes : pass[q].pc # "idle")
            BY <2>1 DEF Begin
        <3>. QED
            BY <3>1, Zenon DEF Busy
    <2>2. CASE PassStep(p) \/ Break(p)
        <3>1. overlapped' = overlapped /\ Busy(p)
            BY <2>2 DEF PassStep, Log, Write, Slope, Forget, Fade, End, Break, Busy
        <3>. QED
            BY <3>1 DEF SoloInv
    <2>. QED
        BY <2>1, <2>2
<1>1. /\ SoloPass(p) /\ \A i \in Items : SoloRow(i)
      /\ row \in [Items -> Rows] /\ pass \in [Passes -> Working]
      /\ pass[p].todo \in SUBSET Entries /\ pass[p].held \in SUBSET Entries
      /\ \A e \in Chosen(p) : e \in Entries /\ e.item \in Items /\ Current(e) /\ Copied(p, e)
    BY <1>0 DEF SoloInv, IInv, SoloPass, Chosen, Working, Entries
<1>2. ASSUME row' = row, pass' = [pass EXCEPT ![p] = Idle] PROVE SoloInv'
    <2>1. Idle \in Working /\ Idle.todo = {} /\ Idle.held = {}
        BY DEF Idle, Working
    <2>2. pass'[p] = Idle /\ \A i \in Items : SoloRow(i)'
        BY <1>1, <1>2 DEF SoloRow
    <2>3. SoloPass(p)'
        BY <2>1, <2>2 DEF SoloPass, Chosen
    <2>. QED
        BY <1>0, <1>2, <2>1, <2>2, <2>3, SoloStep
\* A pass that selects.
<1>3. ASSUME row' = row, NEW S \in Standing, NEW v \in Working, pass' = [pass EXCEPT ![p] = v],
             v.todo = Selected(S), v.held = {}
      PROVE  SoloInv'
    <2>1. /\ pass'[p] = v /\ Chosen(p)' = Selected(S) /\ pass'[p].held = {}
          /\ \A i \in Items : SoloRow(i)'
        BY <1>1, <1>3 DEF SoloRow, Chosen
    <2>2. \A e \in Selected(S) : e.item \in Items /\ e.row = row[e.item] /\ e = [item |-> e.item, row |-> e.row]
        BY DEF Selected
    <2>3. \A e \in Selected(S) : Current(e)'
        BY <1>1, <1>3, <2>2 DEF Current, SoloRow, Present
    <2>4. \A e, f \in Selected(S) : e.item = f.item => e = f
        BY <2>2
    <2>5. SoloPass(p)'
        BY <2>1, <2>3, <2>4 DEF SoloPass
    <2>. QED
        BY <1>0, <1>3, <2>1, <2>5, SoloStep
\* A pass that is done with the copy e, of a row that becomes w.
<1>4. ASSUME NEW e \in Chosen(p), NEW v \in Working, pass' = [pass EXCEPT ![p] = v],
             v.todo = pass[p].todo \ {e}, v.held = {} \/ (v.held = pass[p].held /\ e \notin v.held),
             v.pc = pass[p].pc, log \subseteq log',
             NEW w, Above(w), Slipped(w), row' = row \/ row' = [row EXCEPT ![e.item] = w]
      PROVE  SoloInv'
    <2>1. pass'[p] = v /\ Chosen(p)' \subseteq Chosen(p) \ {e}
        BY <1>1, <1>4 DEF Chosen
    <2>2. \A i \in Items : SoloRow(i)' /\ (i # e.item => row'[i] = row[i])
        BY <1>1, <1>4 DEF SoloRow
    <2>3. ASSUME NEW f \in Chosen(p)' PROVE Current(f)'
        <3>1. f \in Chosen(p) /\ f.item # e.item
            BY <1>1, <2>1 DEF SoloPass
        <3>2. row'[f.item] = row[f.item] /\ Current(f)
            BY <1>1, <2>2, <3>1
        <3>. QED
            BY <3>2 DEF Current, Present
    <2>4. SoloPass(p)'
        BY <1>1, <1>4, <2>1, <2>3 DEF SoloPass
    <2>. QED
        BY <1>0, <1>4, <2>2, <2>4, SoloStep
<1>5. CASE Begin(p)
    <2>. DEFINE S == IF p \in Monthly THEN "active" ELSE "legacy"
                v == [Idle EXCEPT !.pc = "value", !.todo = Selected(S)]
    <2>1. S \in Standing
        BY DEF Standing
    <2>2. v \in Working /\ v.held = {} /\ v.todo = Selected(S)
        BY <2>1, Selecting DEF Idle, Working
    <2>3. pass' = [pass EXCEPT ![p] = v] /\ row' = row
        BY <1>5 DEF Begin
    <2>. HIDE DEF v, S
    <2>. QED
        BY <1>3, <2>1, <2>2, <2>3
<1>6. CASE Log(p)
    <2>1. PICK e \in pass[p].todo :
             /\ Moves(p, e) /\ LogMove(p, e)
             /\ pass' = [pass EXCEPT ![p].todo = @ \ {e}, ![p].held = {e}]
        BY <1>6 DEF Log
    <2>. DEFINE v == [pass[p] EXCEPT !.todo = @ \ {e}, !.held = {e}]
    <2>2. v \in Working /\ v.pc = "value" /\ v.held = {e} /\ v.todo = pass[p].todo \ {e}
          /\ pass[p].held = {} /\ row' = row
        BY <1>1, <1>6 DEF Working, Log
    <2>3. pass' = [pass EXCEPT ![p] = v]
        BY <1>1, <2>1
    <2>. HIDE DEF v
    <2>4. pass'[p] = v /\ Chosen(p)' = Chosen(p)
        <3>1. pass'[p] = v
            BY <1>1, <2>3
        <3>2. Chosen(p)' = (pass[p].todo \ {e}) \cup {e} /\ Chosen(p) = pass[p].todo
            BY <2>2, <3>1 DEF Chosen
        <3>. QED
            BY <3>1, <3>2
    <2>5. \A f \in Chosen(p) : Current(f)'
        BY <1>1, <2>2 DEF Current, Present
    <2>6. <<e.item, e.row.status, Decision(p, e.row).status>> \in log'
        BY <2>1 DEF LogMove
    <2>7. SoloPass(p)'
        BY <1>1, <2>2, <2>4, <2>5, <2>6 DEF SoloPass
    <2>8. \A i \in Items : SoloRow(i)'
        BY <1>1, <2>2 DEF SoloRow
    <2>. QED
        BY <1>0, <2>2, <2>3, <2>7, <2>8, SoloStep
<1>7. CASE Write(p)
    <2>1. PICK e \in pass[p].held \cup pass[p].todo :
             /\ Update(e, Decision(p, e.row))
             /\ pass' = [pass EXCEPT ![p].todo = @ \ {e}, ![p].held = {}]
        BY <1>7 DEF Write
    <2>. DEFINE v == [pass[p] EXCEPT !.todo = @ \ {e}, !.held = {}]
                w == [row[e.item] EXCEPT !.score = Decision(p, e.row).score,
                        !.status = Decision(p, e.row).status,
                        !.sinceSlip = Decision(p, e.row).sinceSlip]
    <2>2. v \in Working /\ v.pc = pass[p].pc /\ v.held = {} /\ v.todo = pass[p].todo \ {e}
          /\ pass[p].pc = "value" /\ log' = log /\ e \in Chosen(p)
        BY <1>1, <1>7 DEF Working, Write, Chosen
    <2>3. pass' = [pass EXCEPT ![p] = v]
        BY <1>1, <2>1
    <2>4. row' = IF ~Present(e.item) THEN row ELSE [row EXCEPT ![e.item] = w]
        BY <1>1, <2>1, <2>2 DEF Update
    <2>5. CASE Present(e.item)
        <3>1. Above(w) /\ Slipped(w)
            BY <1>1, <2>2, <2>5, SoloWrite
        <3>. HIDE DEF v, w
        <3>. QED
            BY <1>4, <2>2, <2>3, <2>4, <2>5, <3>1
    <2>6. CASE ~Present(e.item)
        <3>1. Above(Absent) /\ Slipped(Absent)
            BY DEF Above, Slipped, Absent
        <3>. HIDE DEF v, w
        <3>. QED
            BY <1>4, <2>2, <2>3, <2>4, <2>6, <3>1
    <2>. QED
        BY <2>5, <2>6
<1>8. CASE Slope(p)
    <2>. DEFINE v == [pass[p] EXCEPT !.pc = "slope", !.todo = Selected("subconscious")]
    <2>1. "subconscious" \in Standing
        BY DEF Standing
    <2>2. v \in Working /\ v.held = {} /\ v.todo = Selected("subconscious")
        <3>1. Selected("subconscious") \in SUBSET Entries /\ pass[p].held = {}
            BY <1>8, <2>1, Selecting DEF Slope
        <3>. QED
            BY <1>1, <3>1 DEF Working
    <2>3. pass' = [pass EXCEPT ![p] = v] /\ row' = row
        BY <1>1, <1>8 DEF Slope
    <2>. HIDE DEF v
    <2>. QED
        BY <1>3, <2>1, <2>2, <2>3
<1>9. CASE Forget(p) \/ Fade(p)
    <2>1. PICK e \in pass[p].todo :
             /\ pass' = [pass EXCEPT ![p].todo = @ \ {e}]
             /\ \/ row' = row
                \/ /\ Present(e.item)
                   /\ \/ row' = [row EXCEPT ![e.item].status = "gone"]
                      \/ row' = [row EXCEPT ![e.item].score = Larger(Faded(e.row), Floor(e.row))]
        BY <1>9 DEF Forget, Fade
    <2>2. pass[p].pc = "slope" /\ log' = log /\ pass[p].held = {} /\ e \in Chosen(p)
        BY <1>1, <1>9 DEF Forget, Fade, SoloPass, Chosen
    <2>. DEFINE v == [pass[p] EXCEPT !.todo = @ \ {e}]
    <2>3. v \in Working /\ v.pc = pass[p].pc /\ v.held = {} /\ v.todo = pass[p].todo \ {e}
        BY <1>1, <2>2 DEF Working
    <2>4. pass' = [pass EXCEPT ![p] = v]
        BY <1>1, <2>1
    <2>. HIDE DEF v
    <2>5. e.row.status = "subconscious" /\ row[e.item] \in Rows /\ SoloRow(e.item)
          /\ (Present(e.item) => row[e.item].status = "subconscious")
        BY <1>1, <2>2 DEF Copied, SelectedAs, Current
    <2>6. PICK w : /\ Above(w) /\ Slipped(w)
                   /\ row' = row \/ row' = [row EXCEPT ![e.item] = w]
        <3>1. CASE row' = row
            BY <2>5, <3>1 DEF SoloRow
        <3>2. CASE row' = [row EXCEPT ![e.item].status = "gone"]
            <4>. DEFINE u == [row[e.item] EXCEPT !.status = "gone"]
            <4>1. Above(u) /\ Slipped(u)
                BY <2>5 DEF Above, Slipped, Rows
            <4>. QED
                BY <3>2, <4>1
        <3>3. CASE Present(e.item)
                   /\ row' = [row EXCEPT ![e.item].score = Larger(Faded(e.row), Floor(e.row))]
            <4>. DEFINE u == [row[e.item] EXCEPT !.score = Larger(Faded(e.row), Floor(e.row))]
            <4>1. Above(u) /\ Slipped(u)
                BY <2>5, <3>3 DEF Above, Slipped, Rows, SoloRow
            <4>. QED
                BY <3>3, <4>1
        <3>. QED
            BY <2>1, <3>1, <3>2, <3>3
    <2>. QED
        BY <1>4, <2>2, <2>3, <2>4, <2>6
<1>10. CASE End(p) \/ Break(p)
    BY <1>2, <1>10 DEF End, Break
<1>. QED
    BY <1>5, <1>6, <1>7, <1>8, <1>9, <1>10 DEF PassStep

LEMMA SoloPreserved == IInv /\ SoloInv /\ [Next]_vars => SoloInv'
<1>. SUFFICES ASSUME IInv, SoloInv, [Next]_vars PROVE SoloInv'
    OBVIOUS
<1>1. CASE UNCHANGED vars
    BY <1>1 DEF vars, SoloInv, SoloPass, SoloRow, Current, Chosen, Busy, Present
<1>. QED
    BY <1>1, SoloRows, SoloPasses DEF Next

\* As long as no two passes overlap, a memory that came with enough and was recalled
\* once is never moved below the line by age alone.
THEOREM OneRecallIsForGood == Spec => []OnceRecalledStays
<1>1. Init => SoloInv
    BY SoloInitial
<1>2. IInv /\ SoloInv /\ [Next]_vars => SoloInv'
    BY SoloPreserved
<1>3. SoloInv => OnceRecalledStays
    BY DEF SoloInv, SoloRow, Slipped, OnceRecalledStays
<1>. QED
    BY <1>1, <1>2, <1>3, Invariance, PTL DEF Spec

\* As long as no two passes overlap, a memory moves one way only, and the promotion
\* log says so before the row does.
THEOREM PromotionsAreLogged == Spec => MovesAreLogged
<1>. DEFINE M(i) == Present(i) /\ row'[i].status \in Standing /\ row'[i].status # row[i].status
              => overlapped \/ (/\ <<row[i].status, row'[i].status>> \in OneWay
                                /\ <<i, row[i].status, row'[i].status>> \in log)
<1>1. ASSUME IInv, SoloInv, Next, NEW i \in Items PROVE M(i)
    <2>. SUFFICES ASSUME Present(i), row'[i].status \in Standing, row'[i].status # row[i].status,
                         ~overlapped
                  PROVE  /\ <<row[i].status, row'[i].status>> \in OneWay
                         /\ <<i, row[i].status, row'[i].status>> \in log
        OBVIOUS
    <2>0. row \in [Items -> Rows] /\ row[i] # Absent /\ row[i] \in Rows
        BY <1>1 DEF IInv, Present, Absent, Standing
    <2>1. PICK p \in Passes : Write(p)
        <3>1. CASE Tick
            BY <2>0, <3>1 DEF Tick, Rows
        <3>2. ASSUME NEW j \in Items, Recall(j) PROVE FALSE
            BY <2>0, <3>2 DEF Recall, Rows
        <3>3. ASSUME NEW j \in Items, NEW score \in Scores,
                     Form(j, score) \/ \E age \in 0..MaxAge : Migrate(j, score, age)
              PROVE  FALSE
            BY <2>0, <3>3 DEF Form, Migrate
        <3>4. ASSUME NEW p \in Passes, Begin(p) \/ Log(p) \/ Slope(p) \/ End(p) \/ Break(p)
              PROVE  FALSE
            BY <3>4 DEF Begin, Log, Slope, End, Break
        <3>5. ASSUME NEW p \in Passes, Forget(p) \/ Fade(p) PROVE FALSE
            <4>1. PICK e \in pass[p].todo :
                     \/ row' = row
                     \/ row' = [row EXCEPT ![e.item].status = "gone"]
                     \/ row' = [row EXCEPT ![e.item].score = Larger(Faded(e.row), Floor(e.row))]
                BY <3>5 DEF Forget, Fade
            <4>2. row'[i].status \in {row[i].status, "gone"}
                BY <2>0, <4>1 DEF Rows
            <4>. QED
                BY <4>2 DEF Standing
        <3>. QED
            BY <1>1, <3>1, <3>2, <3>3, <3>4, <3>5 DEF Next, PassStep
    <2>2. PICK e \in pass[p].held \cup pass[p].todo :
             /\ e \in pass[p].held \/ ~Moves(p, e)
             /\ Update(e, Decision(p, e.row))
        BY <2>1 DEF Write
    <2>3. /\ e \in Entries /\ e.row \in Rows /\ Current(e) /\ Copied(p, e)
          /\ pass[p].pc = "value" /\ SoloPass(p)
        BY <1>1, <2>1 DEF Write, IInv, SoloInv, SoloPass, Chosen, Working, Entries
    <2>. DEFINE d == Decision(p, e.row)
    <2>. HIDE DEF d
    <2>4. e.item = i /\ row'[i].status = d.status
        BY <2>0, <2>2 DEF Update, Rows, d
    <2>5. row[i].status = e.row.status
        BY <2>3, <2>4 DEF Current
    <2>6. Sound(e.row) /\ e.row.status = IF p \in Monthly THEN "active" ELSE "legacy"
        BY <2>3 DEF Copied, SelectedAs
    <2>7. <<e.row.status, d.status>> \in OneWay
        BY <2>3, <2>4, <2>5, <2>6, Deciding DEF d
    <2>8. e \in pass[p].held
        BY <2>2, <2>4, <2>5 DEF Moves, d
    <2>9. <<e.item, e.row.status, d.status>> \in log
        BY <2>3, <2>8 DEF SoloPass, d
    <2>. QED
        BY <2>4, <2>5, <2>7, <2>9
<1>2. IInv /\ SoloInv /\ [Next]_vars => [\A i \in Items : M(i)]_vars
    BY <1>1
<1>3. Init => SoloInv
    BY SoloInitial
<1>4. IInv /\ SoloInv /\ [Next]_vars => SoloInv'
    BY SoloPreserved
<1>. QED
    BY <1>2, <1>3, <1>4, Invariance, PTL DEF Spec, MovesAreLogged
================================================================================
