--------------------------- MODULE MemoryTiersProofs ---------------------------
(***************************************************************************)
(* For any number of sweeps that overlap and break off anywhere: a formed  *)
(* memory is in the store until a sweep purges it, and no sweep ever takes *)
(* one into long-term or out of fallout.                                   *)
(*                                                                         *)
(* The invariant behind both says what a sweep has in hand: findings that  *)
(* cannot pass the topmost gate (Modest, Failing), and a deletion only     *)
(* of an item that is also kept further on (Covered).  Of one sweep alone  *)
(* more is true: it finds and mends what an earlier one left double        *)
(* (SoloInv).                                                              *)
(***************************************************************************)
EXTENDS MemoryTiers, MemoryValuation, FiniteSetTheorems, TLAPS

USE TiersAssumption

Sources == Tiers \cup {"fallout"}
Sweeping == [pc : Steps, todo : SUBSET Finding, item : Items,
             from : Sources, to : Stages]

StoreOK == store \in [Stages -> SUBSET Items] /\ failed \in [Items -> Nat]
SweepOK == sweep \in [Sweepers -> Sweeping]

\* What formation left to the tiers scores below the gate to long-term.
Modest ==
    /\ \A t \in Tiers : \A i \in store[t] : Score[i] < GateToLongTerm
    /\ \A i \in store["long_term"] : Score[i] >= GateToLongTerm

\* What is in fallout scores below the gate it failed.
Failing == \A i \in store["fallout"] : Score[i] < failed[i]

\* The same of what a sweep has found and not judged yet.
FindingOK(e) ==
    /\ e.from \in Tiers => e.gate = Gate[e.from] /\ Score[e.item] < GateToLongTerm
    /\ e.from = "fallout" => Score[e.item] < e.gate
FindingsOK == \A s \in Sweepers : \A e \in sweep[s].todo : FindingOK(e)

\* The stages beyond a source, in the direction the sweep moves things.
Beyond == [t1 |-> Stages \ {"t1"},
           t2 |-> {"t3", "fallout", "long_term", "gone"},
           t3 |-> {"fallout", "long_term", "gone"},
           fallout |-> {"long_term", "gone"}]

\* What a sweep is about to delete is kept further on, unless it is purged.
Covered(w) ==
    w.pc = "delete" /\ w.to # "gone" => \E t \in Beyond[w.from] : w.item \in store[t]

\* No verdict leads into long-term, and fallout leads nowhere but out.
VerdictOK(w) ==
    /\ w.to # "long_term"
    /\ w.from = "fallout" => w.to = "gone"

HandsOK == \A s \in Sweepers : Covered(sweep[s]) /\ VerdictOK(sweep[s])

IInv == StoreOK /\ SweepOK /\ Modest /\ Failing /\ FindingsOK /\ HandsOK

------------------------------------------------------------------------------
LEMMA IdleFacts ==
    /\ Idle \in Sweeping /\ Idle.todo = {} /\ Idle.pc = "idle"
    /\ Idle.from = "t1" /\ Idle.to = "t1"
<1>1. (CHOOSE i \in Items : TRUE) \in Items
    OBVIOUS
<1>2. QED
    BY <1>1 DEF Idle, Sweeping, Steps, Sources, Tiers, Stages

LEMMA InitEstablishes == Init => IInv
<1> SUFFICES ASSUME Init PROVE IInv
    OBVIOUS
<1>1. StoreOK /\ SweepOK
    BY IdleFacts DEF Init, StoreOK, SweepOK, Nothing
<1>2. Modest /\ Failing
    BY DEF Init, Nothing, Modest, Failing, Tiers, Stages
<1>3. FindingsOK /\ HandsOK
    BY IdleFacts DEF Init, FindingsOK, HandsOK, Covered, VerdictOK
<1>4. QED
    BY <1>1, <1>2, <1>3 DEF IInv

\* A verdict on a finding in order: up but not too far, or into fallout, or out.
LEMMA VerdictFacts ==
    ASSUME NEW e \in Finding, FindingOK(e), NEW to \in Verdicts(e)
    PROVE  /\ to \in Stages /\ to # "long_term"
           /\ e.from = "fallout" => to = "gone"
           /\ e.from \in Tiers => to \in Beyond[e.from]
           /\ to = "fallout" => Score[e.item] < e.gate
           /\ to \in Tiers => Score[e.item] < GateToLongTerm
<1>1. e.from \in {"t1", "t2", "t3", "fallout"} /\ e.gate \in Nat /\ e.item \in Items
      /\ Score[e.item] \in Nat
    BY DEF Finding, Tiers
<1>2. CASE e.from = "fallout"
    BY <1>1, <1>2 DEF Verdicts, FindingOK, Stages, Tiers
<1>3. CASE e.from = "t3"
    <2>1. Score[e.item] < e.gate
        BY <1>3 DEF FindingOK, Gate, Tiers
    <2>2. to = "fallout"
        BY <1>1, <1>3, <2>1 DEF Verdicts
    <2>3. QED
        BY <1>1, <1>3, <2>1, <2>2 DEF Stages, Tiers, Beyond
<1>4. CASE e.from \in {"t1", "t2"}
    BY <1>1, <1>4 DEF Verdicts, FindingOK, Stages, Tiers, Beyond, Above
<1>5. QED
    BY <1>1, <1>2, <1>3, <1>4

------------------------------------------------------------------------------
\* A sweep's step that leaves the store alone.
LEMMA HandStepKeeps ==
    ASSUME IInv, NEW s \in Sweepers, NEW w \in Sweeping,
           sweep' = [sweep EXCEPT ![s] = w],
           \A e \in w.todo : FindingOK(e), Covered(w), VerdictOK(w),
           UNCHANGED <<store, failed>>
    PROVE  IInv'
<1>1. /\ sweep' \in [Sweepers -> Sweeping] /\ sweep'[s] = w
      /\ \A r \in Sweepers \ {s} : sweep'[r] = sweep[r]
    BY DEF IInv, SweepOK
<1>2. StoreOK' /\ SweepOK' /\ Modest' /\ Failing'
    BY <1>1 DEF IInv, StoreOK, SweepOK, Modest, Failing
<1>3. FindingsOK'
    BY <1>1 DEF IInv, FindingsOK, FindingOK
<1>4. HandsOK'
    BY <1>1 DEF IInv, HandsOK, Covered, VerdictOK
<1>5. QED
    BY <1>2, <1>3, <1>4 DEF IInv

\* What a scan finds is in order.
LEMMA SeenFacts ==
    ASSUME IInv, NEW t \in Sources
    PROVE  Seen(t) \in SUBSET Finding /\ \A e \in Seen(t) : FindingOK(e)
<1> SUFFICES ASSUME NEW i \in store[t],
                    NEW e, e = [from |-> t, item |-> i,
                           gate |-> IF t = "fallout" THEN failed[i] ELSE Gate[t]]
             PROVE  e \in Finding /\ FindingOK(e)
    BY DEF Seen
<1>1. i \in Items /\ failed[i] \in Nat
    BY DEF IInv, StoreOK, Sources, Stages, Tiers
<1>2. CASE t = "fallout"
    BY <1>1, <1>2 DEF Finding, FindingOK, IInv, Failing, Tiers
<1>3. CASE t \in Tiers
    <2>1. Gate[t] \in Nat /\ t # "fallout"
        BY <1>3 DEF Gate, Tiers, GateToLongTerm
    <2>2. QED
        BY <1>1, <1>3, <2>1 DEF Finding, FindingOK, IInv, Modest, Tiers
<1>4. QED
    BY <1>2, <1>3 DEF Sources

LEMMA ScanningKeeps ==
    ASSUME IInv, NEW s \in Sweepers, SweepBegin(s) \/ Scan(s)
    PROVE  IInv'
<1>1. sweep[s] \in Sweeping /\ sweep \in [Sweepers -> Sweeping]
    BY DEF IInv, SweepOK
<1>2. /\ \A e \in sweep[s].todo : FindingOK(e)
      /\ VerdictOK(sweep[s])
    BY DEF IInv, FindingsOK, HandsOK
<1>3. CASE SweepBegin(s)
    <2> DEFINE w == [Idle EXCEPT !.pc = "t2", !.todo = Seen("t1")]
    <2>1. /\ w \in Sweeping /\ w.pc = "t2" /\ w.todo = Seen("t1")
          /\ w.from = "t1" /\ w.to = "t1"
        BY IdleFacts, SeenFacts DEF Sweeping, Steps, Sources, Tiers
    <2>2. sweep' = [sweep EXCEPT ![s] = w] /\ UNCHANGED <<store, failed>>
        BY <1>3 DEF SweepBegin
    <2>3. \A e \in w.todo : FindingOK(e)
        BY <2>1, SeenFacts DEF Sources, Tiers
    <2> HIDE DEF w
    <2>4. Covered(w) /\ VerdictOK(w)
        BY <2>1 DEF Covered, VerdictOK
    <2>5. QED
        BY <2>1, <2>2, <2>3, <2>4, HandStepKeeps
<1>4. CASE Scan(s)
    <2> DEFINE t == sweep[s].pc
               n == [t2 |-> "t3", t3 |-> "fallout", fallout |-> "judge"][t]
               w == [sweep[s] EXCEPT !.todo = sweep[s].todo \cup Seen(t), !.pc = n]
    <2>1. t \in Sources /\ t \in {"t2", "t3", "fallout"}
        BY <1>4 DEF Scan, Sources, Tiers
    <2>2. n \in {"t3", "fallout", "judge"}
        BY <2>1
    <2>3. sweep' = [sweep EXCEPT ![s] = w] /\ UNCHANGED <<store, failed>>
        BY <1>1, <1>4 DEF Scan
    <2>4. Seen(t) \in SUBSET Finding /\ \A e \in Seen(t) : FindingOK(e)
        BY <2>1, SeenFacts
    <2> HIDE DEF t, n
    <2>5. /\ w \in Sweeping /\ w.pc = n /\ w.todo = sweep[s].todo \cup Seen(t)
          /\ w.from = sweep[s].from /\ w.to = sweep[s].to
        BY <1>1, <2>2, <2>4 DEF Sweeping, Steps
    <2> HIDE DEF w
    <2>6. \A e \in w.todo : FindingOK(e)
        BY <1>2, <2>4, <2>5
    <2>7. Covered(w) /\ VerdictOK(w)
        BY <1>2, <2>2, <2>5 DEF Covered, VerdictOK
    <2>8. QED
        BY <2>3, <2>5, <2>6, <2>7, HandStepKeeps
<1>5. QED
    BY <1>3, <1>4

\* What a step that only adds to the store leaves covered.
LEMMA GrowthCovers ==
    ASSUME IInv, \A t \in Stages : store[t] \subseteq store'[t],
           NEW w \in Sweeping, Covered(w)
    PROVE  Covered(w)'
    BY DEF Covered, Sweeping, Sources, Tiers, Beyond, Stages

LEMMA FormKeeps ==
    ASSUME IInv, NEW i \in Items, Form(i)
    PROVE  IInv'
<1>1. Route(i) \in {"long_term", "t1"}
      /\ (Route(i) = "long_term" <=> Score[i] >= GateToLongTerm)
    BY DEF Route
<1>2. /\ store \in [Stages -> SUBSET Items]
      /\ store' = [store EXCEPT ![Route(i)] = store[Route(i)] \cup {i}]
      /\ UNCHANGED <<failed, sweep>>
    BY DEF IInv, StoreOK, Form, Put
<1>3. /\ StoreOK' /\ store'[Route(i)] = store[Route(i)] \cup {i}
      /\ \A t \in Stages \ {Route(i)} : store'[t] = store[t]
    BY <1>1, <1>2 DEF IInv, StoreOK, Stages, Tiers
<1>4. Modest'
    BY <1>1, <1>3 DEF IInv, Modest, Tiers, Stages, GateToLongTerm
<1>5. Failing'
    BY <1>1, <1>2, <1>3 DEF IInv, Failing, Tiers, Stages
<1>6. FindingsOK' /\ SweepOK'
    BY <1>2 DEF IInv, FindingsOK, FindingOK, SweepOK
<1>7. \A s \in Sweepers : Covered(sweep[s])'
    <2>1. \A t \in Stages : store[t] \subseteq store'[t]
        BY <1>3
    <2>2. \A s \in Sweepers : sweep[s] \in Sweeping /\ Covered(sweep[s])
                              /\ sweep'[s] = sweep[s]
        BY <1>2 DEF IInv, SweepOK, HandsOK
    <2>3. QED
        BY <2>1, <2>2, GrowthCovers DEF Covered
<1>8. HandsOK'
    BY <1>2, <1>7 DEF IInv, HandsOK, VerdictOK
<1>9. QED
    BY <1>3, <1>4, <1>5, <1>6, <1>8 DEF IInv

LEMMA JudgeKeeps ==
    ASSUME IInv, NEW s \in Sweepers, Judge(s)
    PROVE  IInv'
<1>1. sweep[s] \in Sweeping /\ sweep \in [Sweepers -> Sweeping]
      /\ store \in [Stages -> SUBSET Items] /\ failed \in [Items -> Nat]
    BY DEF IInv, SweepOK, StoreOK
<1>2. PICK e \in sweep[s].todo : \E to \in Verdicts(e) :
        /\ store' = IF to = "gone" THEN store ELSE Put(e.item, to)
        /\ failed' = IF to = "fallout" THEN [failed EXCEPT ![e.item] = e.gate]
                     ELSE failed
        /\ sweep' = [sweep EXCEPT ![s] =
                       [pc |-> IF to = "long_term" THEN "log" ELSE "delete",
                        todo |-> sweep[s].todo \ {e}, from |-> e.from, to |-> to,
                        item |-> e.item]]
    BY <1>1 DEF Judge
<1>2a. PICK to \in Verdicts(e) :
        /\ store' = IF to = "gone" THEN store ELSE Put(e.item, to)
        /\ failed' = IF to = "fallout" THEN [failed EXCEPT ![e.item] = e.gate]
                     ELSE failed
        /\ sweep' = [sweep EXCEPT ![s] =
                       [pc |-> IF to = "long_term" THEN "log" ELSE "delete",
                        todo |-> sweep[s].todo \ {e}, from |-> e.from, to |-> to,
                        item |-> e.item]]
    BY <1>2
<1> DEFINE w == [pc |-> "delete", todo |-> sweep[s].todo \ {e}, from |-> e.from,
                 to |-> to, item |-> e.item]
<1>3. /\ e \in Finding /\ FindingOK(e) /\ e.item \in Items /\ e.gate \in Nat
      /\ e.from \in Sources
    BY <1>1 DEF IInv, FindingsOK, Sweeping, Finding, Sources
<1>4. /\ to \in Stages /\ to # "long_term"
      /\ e.from = "fallout" => to = "gone"
      /\ e.from \in Tiers => to \in Beyond[e.from]
      /\ to = "fallout" => Score[e.item] < e.gate
      /\ to \in Tiers => Score[e.item] < GateToLongTerm
    BY <1>3, VerdictFacts
<1>5. sweep' = [sweep EXCEPT ![s] = w]
    BY <1>2a, <1>4
<1>6. w \in Sweeping
    BY <1>1, <1>3, <1>4 DEF Sweeping, Steps
<1>7. /\ w.pc = "delete" /\ w.todo \subseteq sweep[s].todo /\ w.from = e.from
      /\ w.to = to /\ w.item = e.item
    OBVIOUS
<1> HIDE DEF w
<1>8. /\ \A t \in Stages : store[t] \subseteq store'[t]
      /\ \A t \in Stages : \A i \in store'[t] :
            i \in store[t] \/ (t = to /\ i = e.item)
      /\ to # "gone" => e.item \in store'[to]
      /\ store' \in [Stages -> SUBSET Items]
    BY <1>1, <1>2a, <1>3, <1>4 DEF Put
<1>9. /\ failed' \in [Items -> Nat]
      /\ \A i \in Items : failed'[i] = failed[i]
                          \/ (i = e.item /\ to = "fallout" /\ failed'[i] = e.gate)
    BY <1>1, <1>2a, <1>3
<1>10. Modest'
    <2>1. \A t \in Tiers : t \in Stages /\ t # "long_term"
        BY DEF Tiers, Stages
    <2>2. \A t \in Tiers : \A i \in store'[t] : Score[i] < GateToLongTerm
        BY <1>4, <1>8, <2>1 DEF IInv, Modest
    <2>3. \A i \in store'["long_term"] : Score[i] >= GateToLongTerm
        BY <1>4, <1>8 DEF IInv, Modest, Stages
    <2>4. QED
        BY <2>2, <2>3 DEF Modest
<1>11. Failing'
    <2> SUFFICES ASSUME NEW i \in store'["fallout"] PROVE Score[i] < failed'[i]
        BY DEF Failing
    <2>1. i \in Items
        BY <1>8 DEF Stages
    <2>2. CASE i = e.item /\ to = "fallout"
        BY <1>1, <1>2a, <1>3, <1>4, <2>2
    <2>3. CASE ~(i = e.item /\ to = "fallout")
        BY <1>8, <1>9, <2>1, <2>3 DEF IInv, Failing, Stages
    <2>4. QED
        BY <2>2, <2>3
<1>12. /\ sweep' \in [Sweepers -> Sweeping] /\ sweep'[s] = w
       /\ \A r \in Sweepers \ {s} : sweep'[r] = sweep[r]
    BY <1>1, <1>5, <1>6
<1>13. FindingsOK'
    BY <1>7, <1>12 DEF IInv, FindingsOK, FindingOK
<1>14. w.to # "gone" => \E t \in Beyond[w.from] : w.item \in store'[t]
    BY <1>3, <1>4, <1>7, <1>8 DEF Sources
<1>15. \A r \in Sweepers : Covered(sweep[r])' /\ VerdictOK(sweep[r])'
    <2>1. VerdictOK(w)
        BY <1>4, <1>7 DEF VerdictOK
    <2>2. \A r \in Sweepers \ {s} : Covered(sweep[r])'
        BY <1>8, <1>12, <1>1, GrowthCovers DEF IInv, HandsOK, Covered
    <2>3. Covered(sweep[s])' /\ VerdictOK(sweep[s])'
        BY <1>12, <1>14, <2>1 DEF Covered, VerdictOK
    <2>4. \A r \in Sweepers \ {s} : VerdictOK(sweep[r])'
        BY <1>12 DEF IInv, HandsOK, VerdictOK
    <2>5. QED
        BY <2>2, <2>3, <2>4
<1>16. QED
    BY <1>8, <1>9, <1>10, <1>11, <1>12, <1>13, <1>15
       DEF IInv, StoreOK, SweepOK, HandsOK

\* What a deletion takes from the store, and what it leaves.
LEMMA DeleteFacts ==
    ASSUME IInv, NEW s \in Sweepers, Delete(s)
    PROVE  LET w == sweep[s] IN
           /\ w.pc = "delete" /\ w \in Sweeping
           /\ store' \in [Stages -> SUBSET Items]
           /\ \A t \in Stages : store'[t] \subseteq store[t] \/ t = "gone"
           /\ \A t \in Stages : \A i \in store[t] :
                 i \in store'[t] \/ (t = w.from /\ i = w.item)
           /\ w.to = "gone" => w.item \in store'["gone"]
<1> DEFINE w == sweep[s]
<1>1. /\ w \in Sweeping /\ store \in [Stages -> SUBSET Items]
      /\ w.from \in Sources /\ w.item \in Items /\ w.to \in Stages
    BY DEF IInv, SweepOK, StoreOK, Sweeping
<1>2. /\ w.pc = "delete"
      /\ store' = [t \in Stages |->
                    IF t = w.from THEN store[t] \ {w.item}
                    ELSE IF t = w.to /\ t = "gone" THEN store[t] \cup {w.item}
                    ELSE store[t]]
    BY DEF Delete
<1> HIDE DEF w
<1>3. "gone" \notin Sources /\ "gone" \in Stages
    BY DEF Sources, Tiers, Stages
<1>4. QED
    BY <1>1, <1>2, <1>3 DEF w

LEMMA DeleteKeeps ==
    ASSUME IInv, NEW s \in Sweepers, Delete(s)
    PROVE  IInv'
<1> DEFINE w == sweep[s]
           v == IF Promotes(w) /\ w.to # "long_term"
                THEN [w EXCEPT !.pc = "log"] ELSE NextFinding(w)
<1>1. /\ w.pc = "delete" /\ w \in Sweeping
      /\ store' \in [Stages -> SUBSET Items]
      /\ \A t \in Stages : store'[t] \subseteq store[t] \/ t = "gone"
      /\ \A t \in Stages : \A i \in store[t] :
            i \in store'[t] \/ (t = w.from /\ i = w.item)
      /\ w.to = "gone" => w.item \in store'["gone"]
    BY DeleteFacts
<1>2. /\ sweep' = [sweep EXCEPT ![s] = v]
      /\ failed' = IF w.from = "fallout" THEN [failed EXCEPT ![w.item] = 0]
                   ELSE failed
      /\ sweep \in [Sweepers -> Sweeping] /\ failed \in [Items -> Nat]
      /\ w.item \in Items
    BY DEF Delete, IInv, SweepOK, StoreOK, Sweeping
<1>3. Covered(w) /\ VerdictOK(w) /\ \A e \in w.todo : FindingOK(e)
    BY DEF IInv, HandsOK, FindingsOK
<1>4. w.item \notin store'[w.from]
    BY <1>1 DEF Delete, IInv, StoreOK, Sweeping, Sources, Tiers, Stages
<1> HIDE DEF w
<1>5. v \in Sweeping /\ v.todo = w.todo /\ v.pc # "delete" /\ VerdictOK(v)
    <2>1. CASE v = [w EXCEPT !.pc = "log"]
        <3>1. /\ v \in Sweeping /\ v.todo = w.todo /\ v.pc = "log"
              /\ v.from = w.from /\ v.to = w.to
            BY <1>1, <2>1 DEF Sweeping, Steps
        <3>2. QED
            BY <1>3, <3>1 DEF VerdictOK
    <2>2. CASE v = NextFinding(w)
        <3>1. /\ v \in Sweeping /\ v.todo = w.todo /\ v.pc = "judge"
              /\ v.from = "t1" /\ v.to = "t1"
            BY <1>1, <2>2, IdleFacts DEF NextFinding, Sweeping, Steps
        <3>2. QED
            BY <3>1 DEF VerdictOK
    <2>3. QED
        BY <2>1, <2>2
<1> HIDE DEF v
<1>6. /\ sweep' \in [Sweepers -> Sweeping] /\ sweep'[s] = v
      /\ \A r \in Sweepers \ {s} : sweep'[r] = sweep[r]
    BY <1>2, <1>5
<1>7. StoreOK' /\ SweepOK'
    BY <1>1, <1>2, <1>6 DEF StoreOK, SweepOK
<1>8. Modest'
    <2>1. \A t \in Tiers \cup {"long_term"} : t \in Stages /\ t # "gone"
        BY DEF Tiers, Stages
    <2>2. QED
        BY <1>1, <2>1 DEF IInv, Modest
<1>9. Failing'
    <2> SUFFICES ASSUME NEW i \in store'["fallout"] PROVE Score[i] < failed'[i]
        BY DEF Failing
    <2>1. i \in store["fallout"] /\ i \in Items /\ Score[i] < failed[i]
        BY <1>1 DEF IInv, Failing, Stages, StoreOK
    <2>2. w.from = "fallout" => i # w.item
        BY <1>4
    <2>3. QED
        BY <1>2, <2>1, <2>2
<1>10. FindingsOK'
    BY <1>3, <1>5, <1>6 DEF IInv, FindingsOK, FindingOK
<1>11. ASSUME NEW r \in Sweepers \ {s}, sweep[r].pc = "delete", sweep[r].to # "gone"
       PROVE  \E t \in Beyond[sweep[r].from] : sweep[r].item \in store'[t]
    <2> DEFINE x == sweep[r]
    <2>1. x \in Sweeping /\ x.from \in Sources
        BY <1>2 DEF Sweeping
    <2>2. PICK t \in Beyond[x.from] : x.item \in store[t]
        BY <1>11 DEF IInv, HandsOK, Covered
    <2> HIDE DEF x
    <2>3. t \in Stages
        BY <2>1 DEF Sources, Tiers, Stages, Beyond
    <2>4. CASE ~(t = w.from /\ x.item = w.item)
        BY <1>1, <2>2, <2>3, <2>4 DEF x
    <2>5. CASE t = w.from /\ x.item = w.item /\ w.to = "gone"
        <3>1. "gone" \in Beyond[x.from]
            BY <2>1 DEF Sources, Tiers, Stages, Beyond
        <3>2. QED
            BY <1>1, <2>5, <3>1 DEF x
    <2>6. CASE t = w.from /\ x.item = w.item /\ w.to # "gone"
        <3>1. PICK u \in Beyond[w.from] : w.item \in store[u]
            BY <1>1, <1>3, <2>6 DEF Covered
        <3>2. w.from \in Sources
            BY <1>1 DEF Sweeping
        <3>3. u \in Stages /\ u # w.from /\ u \in Beyond[x.from]
            BY <2>1, <2>2, <2>6, <3>1, <3>2 DEF Sources, Tiers, Stages, Beyond
        <3>4. QED
            BY <1>1, <2>6, <3>1, <3>3 DEF x
    <2>7. QED
        BY <2>4, <2>5, <2>6
<1>12. HandsOK'
    <2>1. \A r \in Sweepers \ {s} : Covered(sweep[r])'
        BY <1>6, <1>11 DEF Covered
    <2>2. QED
        BY <1>5, <1>6, <2>1 DEF IInv, HandsOK, Covered, VerdictOK
<1>13. QED
    BY <1>7, <1>8, <1>9, <1>10, <1>12 DEF IInv

\* The steps that end what a sweep has in hand, or the sweep itself.
LEMMA LettingGoKeeps ==
    ASSUME IInv, NEW s \in Sweepers, Log(s) \/ SweepEnd(s) \/ SweepFault(s)
    PROVE  IInv'
<1>1. /\ sweep[s] \in Sweeping /\ sweep \in [Sweepers -> Sweeping]
      /\ VerdictOK(sweep[s]) /\ \A e \in sweep[s].todo : FindingOK(e)
    BY DEF IInv, SweepOK, HandsOK, FindingsOK
<1>2. \/ sweep' = [sweep EXCEPT ![s] = NextFinding(sweep[s])]
      \/ sweep' = [sweep EXCEPT ![s] = Idle]
    BY <1>1 DEF Log, SweepEnd, SweepFault, VerdictOK
<1>3. UNCHANGED <<store, failed>>
    BY DEF Log, SweepEnd, SweepFault
<1>4. CASE sweep' = [sweep EXCEPT ![s] = Idle]
    BY <1>3, <1>4, IdleFacts, HandStepKeeps DEF Covered, VerdictOK
<1>5. CASE sweep' = [sweep EXCEPT ![s] = NextFinding(sweep[s])]
    <2> DEFINE w == NextFinding(sweep[s])
    <2>1. /\ w \in Sweeping /\ w.todo = sweep[s].todo /\ w.pc = "judge"
          /\ w.from = "t1" /\ w.to = "t1"
        BY <1>1, IdleFacts DEF NextFinding, Sweeping, Steps
    <2>2. sweep' = [sweep EXCEPT ![s] = w]
        BY <1>5
    <2> HIDE DEF w
    <2>3. Covered(w) /\ VerdictOK(w) /\ \A e \in w.todo : FindingOK(e)
        BY <1>1, <2>1 DEF Covered, VerdictOK
    <2>4. QED
        BY <1>3, <2>1, <2>2, <2>3, HandStepKeeps
<1>6. QED
    BY <1>2, <1>4, <1>5

\* Steps that touch neither the store nor a sweep.
LEMMA AsideKeeps ==
    ASSUME IInv, UNCHANGED <<store, failed, sweep>>
    PROVE  IInv'
BY DEF IInv, StoreOK, SweepOK, Modest, Failing, FindingsOK, FindingOK, HandsOK,
       Covered, VerdictOK

LEMMA StepKeeps == IInv /\ [Next]_vars => IInv'
<1> SUFFICES ASSUME IInv, [Next]_vars PROVE IInv'
    OBVIOUS
<1>1. CASE UNCHANGED vars
    BY <1>1, AsideKeeps DEF vars
<1>2. ASSUME NEW i \in Items, Form(i) \/ FormLog(i) \/ FormFault(i) PROVE IInv'
    <2>1. CASE Form(i)
        BY <2>1, FormKeeps
    <2>2. CASE FormLog(i) \/ FormFault(i)
        BY <2>2, AsideKeeps DEF FormLog, FormFault
    <2>3. QED
        BY <1>2, <2>1, <2>2
<1>3. ASSUME NEW s \in Sweepers, Sweep(s) \/ SweepFault(s) PROVE IInv'
    <2>1. CASE SweepBegin(s) \/ Scan(s)
        BY <2>1, ScanningKeeps
    <2>2. CASE Judge(s)
        BY <2>2, JudgeKeeps
    <2>3. CASE Delete(s)
        BY <2>3, DeleteKeeps
    <2>4. CASE Log(s) \/ SweepEnd(s) \/ SweepFault(s)
        BY <2>4, LettingGoKeeps
    <2>5. QED
        BY <1>3, <2>1, <2>2, <2>3, <2>4 DEF Sweep, SweepStep
<1>4. QED
    BY <1>1, <1>2, <1>3 DEF Next

\* The invariant the theorems follow from.
THEOREM Invariance == Spec => []IInv
BY InitEstablishes, StepKeeps, PTL DEF Spec

------------------------------------------------------------------------------
LEMMA InvariantIsInborn == IInv => PermanenceIsInborn
<1> SUFFICES ASSUME IInv PROVE PermanenceIsInborn
    OBVIOUS
<1>1. \A s \in Sweepers : /\ sweep[s].to # "long_term"
                          /\ sweep[s].from = "fallout" => sweep[s].to # "t1"
    BY DEF IInv, HandsOK, VerdictOK
<1>2. \A t \in Tiers : store[t] \subseteq Items
    BY DEF IInv, StoreOK, Stages
<1>3. \A t \in Tiers : store[t] \cap store["long_term"] = {}
    BY <1>2 DEF IInv, Modest, GateToLongTerm
<1>4. QED
    BY <1>1, <1>3 DEF PermanenceIsInborn

\* No sweep takes a memory into long-term or out of fallout (the branches of
\* run_sweep that would, never run): permanence is decided at formation.
THEOREM PermanenceInborn == Spec => []PermanenceIsInborn
BY Invariance, InvariantIsInborn, PTL

LEMMA StepLosesNothing == IInv /\ [Next]_vars => Formed \subseteq Formed'
<1> SUFFICES ASSUME IInv, [Next]_vars,
                    NEW i \in Items, NEW t \in Stages, i \in store[t]
             PROVE  \E u \in Stages : i \in store'[u]
    BY DEF Formed
<1>1. CASE UNCHANGED store
    BY <1>1
<1>2. ASSUME NEW j \in Items, NEW u \in Stages, store' = Put(j, u)
      PROVE  i \in store'[t]
    BY <1>2 DEF Put, IInv, StoreOK
<1>3. ASSUME NEW s \in Sweepers, Judge(s), ~UNCHANGED store
      PROVE  \E j \in Items, u \in Stages : store' = Put(j, u)
    <2>1. \A e \in sweep[s].todo : e \in Finding /\ FindingOK(e) /\ e.item \in Items
        BY DEF IInv, SweepOK, FindingsOK, Sweeping, Finding
    <2>2. PICK e \in sweep[s].todo : \E to \in Verdicts(e) : store' = Put(e.item, to)
        BY <1>3 DEF Judge
    <2>3. QED
        BY <2>1, <2>2, VerdictFacts
<1>4. ASSUME NEW s \in Sweepers, Delete(s)
      PROVE  \E u \in Stages : i \in store'[u]
    <2> DEFINE w == sweep[s]
    <2>1. /\ w.pc = "delete" /\ w \in Sweeping
          /\ i \in store'[t] \/ (t = w.from /\ i = w.item)
          /\ w.to = "gone" => w.item \in store'["gone"]
          /\ \A u \in Stages : \A j \in store[u] :
                j \in store'[u] \/ (u = w.from /\ j = w.item)
        BY <1>4, DeleteFacts
    <2>2. Covered(w) /\ w.from \in Sources
        BY <2>1 DEF IInv, HandsOK, Sweeping
    <2> HIDE DEF w
    <2>3. CASE w.to = "gone" /\ i = w.item
        BY <2>1, <2>3 DEF Stages
    <2>4. CASE w.to # "gone" /\ i = w.item
        <3>1. PICK u \in Beyond[w.from] : w.item \in store[u]
            BY <2>1, <2>2, <2>4 DEF Covered
        <3>2. u \in Stages /\ u # w.from
            BY <2>2, <3>1 DEF Sources, Tiers, Stages, Beyond
        <3>3. QED
            BY <2>1, <2>4, <3>1, <3>2
    <2>5. QED
        BY <2>1, <2>3, <2>4
<1>5. \/ UNCHANGED store
      \/ \E j \in Items, u \in Stages : store' = Put(j, u)
      \/ \E s \in Sweepers : Delete(s)
    <2>1. ASSUME NEW j \in Items, Form(j)
          PROVE  \E u \in Stages : store' = Put(j, u)
        <3>1. Route(j) \in Stages
            BY DEF Route, Stages, Tiers
        <3>2. store' = Put(j, Route(j))
            BY <2>1 DEF Form
        <3>3. QED
            BY <3>1, <3>2
    <2>2. QED
        BY <1>3, <2>1 DEF Next, Sweep, SweepStep, vars, FormLog, FormFault, SweepBegin, Scan,
                         Log, SweepEnd, SweepFault
<1>6. QED
    BY <1>1, <1>2, <1>4, <1>5

\* Whichever sweeps overlap and wherever one breaks off, a formed memory stays
\* in the store until a sweep purges it.
THEOREM NothingIsLost == Spec => NothingLost
<1>1. IInv /\ [Next]_vars => [Formed \subseteq Formed']_vars
    BY StepLosesNothing
<1>2. QED
    BY <1>1, Invariance, PTL DEF Spec, NothingLost
------------------------------------------------------------------------------
\* Types of what the sweep only writes: the log, the snapshots, the bookkeeping.
Asides ==
    /\ forming \subseteq Items
    /\ log \subseteq Items \X {"formation", "t1", "t2", "t3", "fallout"} \X Stages
    /\ snapshot \in [Sweepers -> [Stages -> SUBSET Items]]
    /\ settled \in BOOLEAN
    /\ faults \in Nat

LEMMA AsidesStep == IInv /\ Asides /\ [Next]_vars => Asides'
<1> SUFFICES ASSUME IInv, Asides, [Next]_vars PROVE Asides'
    OBVIOUS
<1> USE DEF Asides
<1>0. store \in [Stages -> SUBSET Items] /\ sweep \in [Sweepers -> Sweeping]
    BY DEF IInv, StoreOK, SweepOK
<1>1. CASE UNCHANGED vars
    BY <1>1 DEF vars
<1>2. ASSUME NEW i \in Items, Form(i) \/ FormLog(i) \/ FormFault(i) PROVE Asides'
    <2>1. CASE Form(i)
        BY <2>1 DEF Form
    <2>2. CASE FormLog(i)
        <3> DEFINE entry == <<i, "formation", "long_term">>
        <3>1. entry \in Items \X {"formation", "t1", "t2", "t3", "fallout"} \X Stages
            <4>1. "long_term" \in Stages
                BY DEF Stages
            <4>2. QED
                BY <4>1
        <3>2. log' = log \cup {entry} /\ forming' = forming \ {i}
            BY <2>2 DEF FormLog
        <3>3. UNCHANGED <<snapshot, settled, faults>>
            BY <2>2 DEF FormLog
        <3> HIDE DEF entry
        <3>4. QED
            BY <3>1, <3>2, <3>3
    <2>3. CASE FormFault(i)
        BY <2>3 DEF FormFault
    <2>4. QED
        BY <1>2, <2>1, <2>2, <2>3
<1>3. ASSUME NEW s \in Sweepers, Sweep(s) \/ SweepFault(s) PROVE Asides'
    <2>1. CASE SweepBegin(s)
        BY <1>0, <2>1 DEF SweepBegin
    <2>2. CASE Scan(s) \/ Judge(s) \/ Delete(s)
        BY <2>2 DEF Scan, Judge, Delete
    <2>3. CASE Log(s)
        <3> DEFINE w == sweep[s]
        <3>1. w.item \in Items /\ w.from \in {"t1", "t2", "t3", "fallout"} /\ w.to \in Stages
            BY <1>0 DEF Sweeping, Sources, Tiers
        <3>2. log' = log \cup {<<w.item, w.from, w.to>>}
              /\ UNCHANGED <<forming, snapshot, settled, faults>>
            BY <2>3 DEF Log
        <3> HIDE DEF w
        <3>3. QED
            BY <3>1, <3>2
    <2>4. CASE SweepEnd(s) \/ SweepFault(s)
        <3>1. Nothing \in [Stages -> SUBSET Items]
            BY DEF Nothing
        <3>2. snapshot' \in [Sweepers -> [Stages -> SUBSET Items]]
            BY <2>4, <3>1 DEF SweepEnd, SweepFault
        <3>3. settled' \in BOOLEAN
            BY <2>4 DEF SweepEnd, SweepFault
        <3>4. QED
            BY <2>4, <3>2, <3>3 DEF SweepEnd, SweepFault
    <2>5. QED
        BY <1>3, <2>1, <2>2, <2>3, <2>4 DEF Sweep, SweepStep
<1>4. QED
    BY <1>1, <1>2, <1>3 DEF Next

\* Every state of the tiers is well formed: a sweep writes under keys that exist.
THEOREM Typed == Spec => []TypeOK
<1>1. Init => Asides
    BY DEF Init, Asides, Nothing
<1>2. IInv /\ Asides => TypeOK
    BY DEF IInv, StoreOK, SweepOK, Asides, TypeOK, Sweeping, Sources
<1>3. QED
    BY <1>1, <1>2, AsidesStep, Invariance, PTL DEF Spec

------------------------------------------------------------------------------
(***************************************************************************)
(* The log: what it says of an item's climb stays true, since an item that *)
(* has passed a stage is never again without a copy further on.            *)
(***************************************************************************)
Past == [t1 |-> {"t2", "t3", "fallout", "gone"}, t2 |-> {"t3", "fallout", "gone"},
         t3 |-> {"fallout", "gone"}, fallout |-> {"gone"}]

Passed(i, t, stages) == \E u \in Past[t] : i \in stages[u]

\* What a sweep deletes, and what it logs after it, is kept further on.
Climbs(w, stages) ==
    w.pc \in {"delete", "log"} /\ w.to # "gone" => Passed(w.item, w.from, stages)

Marked == \A i \in Items :
    /\ <<i, "t1", "t2">> \in log => Passed(i, "t1", store)
    /\ <<i, "t2", "t3">> \in log => Passed(i, "t2", store)

LogInv == Marked /\ \A s \in Sweepers : Climbs(sweep[s], store)

\* No step takes the last copy beyond a stage.
LEMMA PassedStays ==
    ASSUME IInv, LogInv, [Next]_vars, NEW i \in Items, NEW t \in Sources,
           Passed(i, t, store)
    PROVE  Passed(i, t, store')
<1>0. store \in [Stages -> SUBSET Items] /\ t \in {"t1", "t2", "t3", "fallout"}
    BY DEF IInv, StoreOK, Sources, Tiers
<1>1. PICK u \in Past[t] : i \in store[u]
    BY DEF Passed
<1>2. u \in Stages /\ "gone" \in Past[t]
    BY <1>0, <1>1 DEF Past, Stages, Tiers
<1>3. CASE \A v \in Stages : store[v] \subseteq store'[v]
    BY <1>1, <1>2, <1>3 DEF Passed
<1>4. ASSUME NEW s \in Sweepers, Delete(s) PROVE Passed(i, t, store')
    <2> DEFINE w == sweep[s]
    <2>1. /\ w.pc = "delete" /\ w.from \in Sources
          /\ w.to = "gone" => w.item \in store'["gone"]
          /\ \A v \in Stages : \A j \in store[v] :
                j \in store'[v] \/ (v = w.from /\ j = w.item)
        BY <1>4, DeleteFacts DEF Sweeping
    <2>2. Climbs(w, store)
        BY DEF LogInv
    <2> HIDE DEF w
    <2>3. CASE i \in store'[u]
        BY <1>1, <2>3 DEF Passed
    <2>4. CASE u = w.from /\ i = w.item /\ w.to = "gone"
        BY <1>2, <2>1, <2>4 DEF Passed
    <2>5. CASE u = w.from /\ i = w.item /\ w.to # "gone"
        <3>1. PICK v \in Past[u] : i \in store[v]
            BY <2>1, <2>2, <2>5 DEF Climbs, Passed
        <3>2. v \in Past[t] /\ v \in Stages /\ v # u
            BY <1>0, <1>1, <2>1, <2>5, <3>1 DEF Past, Sources, Tiers, Stages
        <3>3. QED
            BY <2>1, <2>5, <3>1, <3>2 DEF Passed
    <2>6. QED
        BY <1>1, <1>2, <2>1, <2>3, <2>4, <2>5
<1>5. (\A v \in Stages : store[v] \subseteq store'[v]) \/ \E s \in Sweepers : Delete(s)
    <2>1. ASSUME NEW j, NEW v, store' = Put(j, v)
          PROVE  \A x \in Stages : store[x] \subseteq store'[x]
        BY <1>0, <2>1 DEF Put
    <2>2. ASSUME NEW s \in Sweepers, Judge(s)
          PROVE  \A x \in Stages : store[x] \subseteq store'[x]
        <3>1. store' = store \/ \E j, v : store' = Put(j, v)
            BY <2>2 DEF Judge
        <3>2. QED
            BY <2>1, <3>1
    <2>3. CASE UNCHANGED store
        BY <2>3
    <2>4. ASSUME NEW j \in Items, Form(j)
          PROVE  \A x \in Stages : store[x] \subseteq store'[x]
        BY <2>1, <2>4 DEF Form
    <2>5. QED
        BY <2>2, <2>3, <2>4 DEF Next, Sweep, SweepStep, vars, FormLog, FormFault, SweepBegin, Scan,
                                Log, SweepEnd, SweepFault
<1>6. QED
    BY <1>3, <1>4, <1>5

LEMMA ClimbsStep ==
    ASSUME IInv, LogInv, [Next]_vars, NEW s \in Sweepers
    PROVE  Climbs(sweep'[s], store')
<1>0. /\ sweep \in [Sweepers -> Sweeping] /\ sweep[s] \in Sweeping
      /\ store \in [Stages -> SUBSET Items] /\ Climbs(sweep[s], store)
    BY DEF IInv, SweepOK, StoreOK, LogInv
<1>1. CASE sweep'[s] = sweep[s]
    <2>1. sweep[s].item \in Items /\ sweep[s].from \in Sources
        BY <1>0 DEF Sweeping
    <2>2. QED
        BY <1>0, <1>1, <2>1, PassedStays DEF Climbs
<1>2. CASE sweep'[s].pc \notin {"delete", "log"}
    BY <1>2 DEF Climbs
<1>3. CASE Judge(s)
    <2> DEFINE Judged(e, to) ==
            /\ store' = IF to = "gone" THEN store ELSE Put(e.item, to)
            /\ sweep' = [sweep EXCEPT ![s] =
                           [pc |-> IF to = "long_term" THEN "log" ELSE "delete",
                            todo |-> sweep[s].todo \ {e}, from |-> e.from, to |-> to,
                            item |-> e.item]]
    <2>0. PICK e \in sweep[s].todo : \E to \in Verdicts(e) : Judged(e, to)
        BY <1>0, <1>3 DEF Judge
    <2>1. PICK to \in Verdicts(e) : Judged(e, to)
        BY <2>0
    <2>2. e \in Finding /\ FindingOK(e) /\ e.from \in Sources
        BY <1>0 DEF IInv, FindingsOK, Sweeping, Finding, Sources
    <2>3. /\ to \in Stages /\ to # "long_term"
          /\ e.from = "fallout" => to = "gone"
          /\ e.from \in Tiers => to \in Beyond[e.from]
        BY <2>2, VerdictFacts
    <2>4. /\ sweep'[s].to = to /\ sweep'[s].from = e.from /\ sweep'[s].item = e.item
        BY <1>0, <2>1
    <2>5. to # "gone" => e.item \in store'[to]
        BY <1>0, <2>1, <2>3 DEF Put
    <2>6. to # "gone" => to \in Past[e.from]
        <3>1. e.from \in Tiers /\ to \in Stages \ {"long_term", "gone"} /\ to \in Beyond[e.from]
                => to \in Past[e.from]
            BY DEF Tiers, Stages, Beyond, Past
        <3>2. QED
            BY <2>2, <2>3, <3>1 DEF Sources
    <2>7. QED
        BY <2>4, <2>5, <2>6 DEF Climbs, Passed
<1>4. CASE Delete(s)
    <2> DEFINE w == sweep[s]
    <2>1. /\ w.pc = "delete" /\ w.item \in Items /\ w.from \in Sources
          /\ w.to # "gone" => Passed(w.item, w.from, store)
        BY <1>0, <1>4, DeleteFacts DEF Sweeping, Climbs
    <2>2. w.to # "gone" => Passed(w.item, w.from, store')
        BY <2>1, PassedStays
    <2>3. sweep'[s] = [w EXCEPT !.pc = "log"] \/ sweep'[s] = NextFinding(w)
        BY <1>0, <1>4 DEF Delete
    <2> HIDE DEF w
    <2>4. CASE sweep'[s] = NextFinding(w)
        <3>1. NextFinding(w).pc = "judge"
            BY IdleFacts DEF NextFinding, Sweeping
        <3>2. QED
            BY <2>4, <3>1 DEF Climbs
    <2>5. CASE sweep'[s] = [w EXCEPT !.pc = "log"]
        <3>1. w \in Sweeping
            BY <1>0 DEF w
        <3>2. /\ sweep'[s].to = w.to /\ sweep'[s].from = w.from
              /\ sweep'[s].item = w.item
            BY <2>5, <3>1 DEF Sweeping
        <3>3. QED
            BY <2>2, <3>2 DEF Climbs
    <2>6. QED
        BY <2>3, <2>4, <2>5
<1>5. CASE Log(s) \/ SweepEnd(s) \/ SweepFault(s)
    <2>1. VerdictOK(sweep[s])
        BY DEF IInv, HandsOK
    <2>2. sweep'[s] = NextFinding(sweep[s]) \/ sweep'[s] = Idle
        BY <1>0, <1>5, <2>1 DEF Log, SweepEnd, SweepFault, VerdictOK
    <2>3. NextFinding(sweep[s]).pc = "judge" /\ Idle.pc = "idle"
        BY IdleFacts DEF NextFinding, Sweeping
    <2>4. QED
        BY <1>2, <2>2, <2>3
<1>6. CASE SweepBegin(s) \/ Scan(s)
    <2>1. sweep'[s].pc \in {"t2", "t3", "fallout", "judge"}
        <3>1. CASE SweepBegin(s)
            BY <1>0, <3>1, IdleFacts DEF SweepBegin, Sweeping
        <3>2. CASE Scan(s)
            <4> DEFINE n == [t2 |-> "t3", t3 |-> "fallout", fallout |-> "judge"][sweep[s].pc]
            <4>1. n \in {"t3", "fallout", "judge"}
                BY <3>2 DEF Scan
            <4>2. sweep'[s].pc = n
                BY <1>0, <3>2 DEF Scan, Sweeping
            <4>3. QED
                BY <4>1, <4>2
        <3>3. QED
            BY <1>6, <3>1, <3>2
    <2>2. QED
        BY <1>2, <2>1
<1>7. \/ sweep'[s] = sweep[s]
      \/ Judge(s) \/ Delete(s) \/ Log(s) \/ SweepEnd(s) \/ SweepFault(s)
      \/ SweepBegin(s) \/ Scan(s)
    <2>1. ASSUME NEW r \in Sweepers, Sweep(r) \/ SweepFault(r), r # s
          PROVE  sweep'[s] = sweep[s]
        BY <1>0, <2>1 DEF Sweep, SweepStep, SweepBegin, Scan, Judge, Delete, Log, SweepEnd, SweepFault
    <2>2. CASE UNCHANGED sweep
        BY <2>2
    <2>3. QED
        BY <2>1, <2>2 DEF Next, Sweep, SweepStep, vars, Form, FormLog, FormFault
<1>8. QED
    BY <1>1, <1>3, <1>4, <1>5, <1>6, <1>7

LEMMA MarkedStep ==
    ASSUME IInv, LogInv, [Next]_vars
    PROVE  Marked'
<1>0. sweep \in [Sweepers -> Sweeping]
    BY DEF IInv, SweepOK
<1>1. ASSUME NEW i \in Items, NEW t \in {"t1", "t2"}, NEW u \in {"t2", "t3"},
             <<i, t, u>> \in log', <<i, t, u>> \notin log
      PROVE  Passed(i, t, store)
    <2>0. \E s \in Sweepers : Log(s)
        <3>1. \A j \in Items : FormLog(j) => log' = log \cup {<<j, "formation", "long_term">>}
            BY DEF FormLog
        <3>2. ~\E j \in Items : FormLog(j)
            BY <1>1, <3>1
        <3>3. QED
            BY <1>1, <3>2 DEF Next, Sweep, SweepStep, vars, Form, FormFault, SweepBegin, Scan, Judge,
                              Delete, SweepEnd, SweepFault
    <2>1. PICK s \in Sweepers : Log(s) /\ i = sweep[s].item /\ t = sweep[s].from
                               /\ u = sweep[s].to
        <3>1. PICK s \in Sweepers : Log(s)
            BY <2>0
        <3>2. log' = log \cup {<<sweep[s].item, sweep[s].from, sweep[s].to>>}
            BY <3>1 DEF Log
        <3>3. QED
            BY <1>1, <3>1, <3>2
    <2>2. Climbs(sweep[s], store) /\ sweep[s].pc = "log"
        BY <2>1 DEF LogInv, Log
    <2>3. QED
        BY <2>1, <2>2 DEF Climbs
<1>2. ASSUME NEW i \in Items, NEW t \in {"t1", "t2"}, Passed(i, t, store)
      PROVE  Passed(i, t, store')
    BY <1>2, PassedStays DEF Sources, Tiers
<1>3. QED
    BY <1>1, <1>2 DEF LogInv, Marked

\* The log never speaks of a promotion that did not happen, whichever sweeps
\* overlap and wherever one breaks off.
THEOREM TheLogIsTrue == Spec => []LogIsTrue
<1>1. Init => LogInv
    BY IdleFacts DEF Init, LogInv, Marked, Climbs
<1>2. IInv /\ LogInv /\ [Next]_vars => LogInv'
    BY ClimbsStep, MarkedStep DEF LogInv
<1>3. LogInv => LogIsTrue
    BY DEF LogInv, Marked, Passed, Past, LogIsTrue
<1>4. QED
    BY <1>1, <1>2, <1>3, Invariance, PTL DEF Spec

------------------------------------------------------------------------------
(***************************************************************************)
(* One sweep at a time, its faults and restarts included.  A sweep         *)
(* that breaks off leaves an item in a tier and where the verdict on it    *)
(* leads, never further apart (Neighbours); the next one finds it in both  *)
(* places and works through the lower one first (Whole).                   *)
(***************************************************************************)
OneSweeper == \A s, r \in Sweepers : s = r

Goes(i, t) == IF Score[i] >= Gate[t] THEN Above[t] ELSE "fallout"

Neighbours == \A i \in Items : \A t, u \in Stages :
    i \in store[t] /\ i \in store[u] /\ t # u =>
        (t \in Tiers /\ u = Goes(i, t)) \/ (u \in Tiers /\ t = Goes(i, u))

\* The stages a sweep has scanned, wherever it stands.
Scanned == [idle |-> {}, t2 |-> {"t1"}, t3 |-> {"t1", "t2"}, fallout |-> Tiers,
            judge |-> Sources, delete |-> Sources, log |-> Sources]

Finds(w, i, t) == \E e \in w.todo : e.item = i /\ e.from = t
Holds(w, i, t) == w.pc = "delete" /\ w.item = i /\ w.from = t

\* A finding is of a stage scanned, one of each item there, and still true.
Findings(w, stages) ==
    /\ \A e \in w.todo : e.from \in Scanned[w.pc] /\ e.item \in stages[e.from]
    /\ \A e, f \in w.todo : e.item = f.item /\ e.from = f.from => e = f

\* What is about to be deleted is there, and nowhere else if it is to be purged.
InHand(w, stages) == w.pc = "delete" =>
    /\ w.item \in stages[w.from] /\ ~Finds(w, w.item, w.from)
    /\ w.to = "gone" => \A t \in Stages \ {w.from} : w.item \notin stages[t]

\* An item in two places is found in both, but for the one move under way.
Whole(w, stages) == \A i \in Items : \A t \in Stages, u \in Scanned[w.pc] :
    i \in stages[t] /\ i \in stages[u] /\ t # u =>
        Finds(w, i, u) \/ Holds(w, i, u) \/ Holds(w, i, t)

OnePlace == \A i \in Items : \A t, u \in Stages :
    i \in store[t] /\ i \in store[u] => t = u

SoloInv ==
    /\ OneSweeper
    /\ Neighbours
    /\ \A s \in Sweepers : /\ Findings(sweep[s], store) /\ InHand(sweep[s], store)
                           /\ Whole(sweep[s], store)
    /\ settled /\ (\A s \in Sweepers : sweep[s].pc = "idle") => OnePlace

LEMMA SoloInit == OneSweeper /\ Init => SoloInv
BY IdleFacts DEF Init, SoloInv, Neighbours, Findings, InHand, Whole, OnePlace, Nothing, Scanned

\* What is left to show of a step of the one sweep.
LEMMA SoloStep ==
    ASSUME OneSweeper, sweep \in [Sweepers -> Sweeping], NEW s \in Sweepers, NEW w,
           sweep' = [sweep EXCEPT ![s] = w], Neighbours',
           Findings(w, store'), InHand(w, store'), Whole(w, store'),
           w.pc # "idle" \/ ~settled' \/ OnePlace'
    PROVE  SoloInv'
<1>1. \A r \in Sweepers : r = s
    BY DEF OneSweeper
<1>2. sweep'[s] = w
    OBVIOUS
<1>3. \A r \in Sweepers : /\ Findings(sweep'[r], store') /\ InHand(sweep'[r], store')
                          /\ Whole(sweep'[r], store')
    BY <1>1, <1>2
<1>4. (\A r \in Sweepers : sweep'[r].pc = "idle") => w.pc = "idle"
    BY <1>2
<1>5. QED
    BY <1>3, <1>4 DEF SoloInv, OneSweeper, Findings, InHand, Whole, Finds, Holds

\* A sweep with nothing in hand, that found what it has to or is only beginning.
LEMMA SoloHand ==
    ASSUME IInv, SoloInv, NEW s \in Sweepers, NEW w \in Sweeping,
           sweep' = [sweep EXCEPT ![s] = w], UNCHANGED store,
           w.pc # "delete", Findings(w, store), Whole(w, store),
           w.pc # "idle" \/ ~settled' \/ OnePlace
    PROVE  SoloInv'
<1>1. OneSweeper /\ sweep \in [Sweepers -> Sweeping] /\ store' = store
    BY DEF SoloInv, IInv, SweepOK
<1>2. Neighbours' /\ (OnePlace => OnePlace')
    BY DEF SoloInv, Neighbours, Goes, OnePlace
<1>3. Findings(w, store') /\ InHand(w, store') /\ Whole(w, store')
    BY <1>1 DEF InHand
<1>4. QED
    BY <1>1, <1>2, <1>3, SoloStep

\* Formation puts an item where there was none.
LEMMA SoloForm ==
    ASSUME IInv, SoloInv, NEW i \in Items, Form(i)
    PROVE  SoloInv'
<1>1. Route(i) \in Stages
    BY DEF Route, Stages, Tiers
<1>2. /\ store \in [Stages -> SUBSET Items] /\ sweep \in [Sweepers -> Sweeping]
      /\ UNCHANGED <<sweep, settled>>
    BY DEF IInv, StoreOK, SweepOK, Form
<1>3. /\ \A t \in Stages : i \notin store[t]
      /\ \A t \in Stages : store[t] \subseteq store'[t]
      /\ \A t \in Stages : \A j \in store'[t] : j \in store[t] \/ (j = i /\ t = Route(i))
    BY <1>1, <1>2 DEF Form, Put
<1>4. \A j \in Items : \A t, u \in Stages :
        j \in store'[t] /\ j \in store'[u] /\ t # u => j \in store[t] /\ j \in store[u]
    BY <1>3
<1>5. Neighbours'
    BY <1>4 DEF SoloInv, Neighbours, Goes
<1>6. ASSUME NEW s \in Sweepers
      PROVE  Findings(sweep[s], store') /\ InHand(sweep[s], store') /\ Whole(sweep[s], store')
    <2> DEFINE w == sweep[s]
    <2>1. /\ w \in Sweeping /\ Findings(w, store) /\ InHand(w, store) /\ Whole(w, store)
          /\ \A e \in w.todo : e.from \in Stages
          /\ w.from \in Stages
        BY <1>2 DEF SoloInv, Sweeping, Finding, Sources, Stages
    <2>2. w.pc \in Steps
        BY <2>1 DEF Sweeping
    <2> HIDE DEF w
    <2>3. Scanned[w.pc] \subseteq Stages
        BY <2>2 DEF Steps, Scanned, Sources, Stages, Tiers
    <2>4. Findings(w, store')
        BY <1>3, <2>1 DEF Findings
    <2>5. InHand(w, store')
        BY <1>3, <2>1 DEF InHand
    <2>6. Whole(w, store')
        BY <1>4, <2>1, <2>3 DEF Whole
    <2>7. QED
        BY <2>4, <2>5, <2>6 DEF w
<1>7. OnePlace => OnePlace'
    BY <1>4 DEF OnePlace
<1>8. SoloInv' <=>
        /\ OneSweeper
        /\ Neighbours'
        /\ \A s \in Sweepers : /\ Findings(sweep[s], store') /\ InHand(sweep[s], store')
                               /\ Whole(sweep[s], store')
        /\ settled /\ (\A s \in Sweepers : sweep[s].pc = "idle") => OnePlace'
    BY <1>2 DEF SoloInv, OneSweeper, Findings, InHand, Whole, Finds, Holds
<1>9. QED
    BY <1>5, <1>6, <1>7, <1>8 DEF SoloInv

\* A scan finds every item of the stage once.
LEMMA SoloScanning ==
    ASSUME IInv, SoloInv, NEW s \in Sweepers, SweepBegin(s) \/ Scan(s)
    PROVE  SoloInv'
<1>1. /\ sweep[s] \in Sweeping /\ sweep \in [Sweepers -> Sweeping]
      /\ Findings(sweep[s], store) /\ Whole(sweep[s], store)
    BY DEF IInv, SweepOK, SoloInv
<1>2. ASSUME NEW t \in Sources
      PROVE  /\ Seen(t) \subseteq Finding
             /\ \A e \in Seen(t) : e.from = t /\ e.item \in store[t]
             /\ \A e, f \in Seen(t) : e.item = f.item => e = f
             /\ \A i \in store[t] : \E e \in Seen(t) : e.item = i /\ e.from = t
    <2> DEFINE found(i) == [from |-> t, item |-> i,
                            gate |-> IF t = "fallout" THEN failed[i] ELSE Gate[t]]
    <2>1. Seen(t) \subseteq Finding
        BY SeenFacts
    <2>2. Seen(t) = {found(i) : i \in store[t]}
        BY DEF Seen
    <2>3. \A i \in store[t] : found(i).item = i /\ found(i).from = t
        OBVIOUS
    <2> HIDE DEF found
    <2>4. QED
        BY <2>1, <2>2, <2>3
<1>3. CASE SweepBegin(s)
    <2> DEFINE w == [Idle EXCEPT !.pc = "t2", !.todo = Seen("t1")]
    <2>0. "t1" \in Sources /\ Scanned["t2"] = {"t1"}
        BY DEF Sources, Tiers, Scanned
    <2>1. w \in Sweeping /\ w.pc = "t2" /\ w.todo = Seen("t1")
        BY <1>2, <2>0, IdleFacts DEF Sweeping, Steps
    <2>2. sweep' = [sweep EXCEPT ![s] = w] /\ UNCHANGED store
        BY <1>3 DEF SweepBegin
    <2> HIDE DEF w
    <2>3. Findings(w, store)
        BY <1>2, <2>0, <2>1 DEF Findings
    <2>4. Whole(w, store)
        BY <1>2, <2>0, <2>1 DEF Whole, Finds
    <2>5. QED
        BY <2>1, <2>2, <2>3, <2>4, SoloHand
<1>4. CASE Scan(s)
    <2> DEFINE t == sweep[s].pc
               n == [t2 |-> "t3", t3 |-> "fallout", fallout |-> "judge"][t]
               w == [sweep[s] EXCEPT !.todo = sweep[s].todo \cup Seen(t), !.pc = n]
    <2>1. t \in Sources /\ t \in {"t2", "t3", "fallout"}
        BY <1>4 DEF Scan, Sources, Tiers
    <2>2. n \in {"t3", "fallout", "judge"}
        BY <2>1
    <2>3. sweep' = [sweep EXCEPT ![s] = w] /\ UNCHANGED store
        BY <1>1, <1>4 DEF Scan
    <2>4. Scanned[n] = Scanned[t] \cup {t} /\ t \notin Scanned[t]
        BY <2>1 DEF Scanned, Sources, Tiers
    <2>4a. /\ \A e \in sweep[s].todo : e.from \in Scanned[t] /\ e.item \in store[e.from]
           /\ \A e, f \in sweep[s].todo : e.item = f.item /\ e.from = f.from => e = f
        BY <1>1 DEF Findings
    <2>4b. \A i \in Items : \A v \in Stages, u \in Scanned[t] :
             i \in store[v] /\ i \in store[u] /\ v # u =>
                 \E e \in sweep[s].todo : e.item = i /\ e.from = u
        BY <1>1, <2>1 DEF Whole, Finds, Holds
    <2> HIDE DEF t, n
    <2>5. /\ w \in Sweeping /\ w.pc = n /\ w.todo = sweep[s].todo \cup Seen(t)
        BY <1>1, <1>2, <2>1, <2>2 DEF Sweeping, Steps
    <2> HIDE DEF w
    <2>6. Findings(w, store)
        BY <1>2, <2>1, <2>4, <2>4a, <2>5 DEF Findings
    <2>7. Whole(w, store)
        BY <1>2, <2>1, <2>4, <2>4b, <2>5 DEF Whole, Finds
    <2>8. QED
        BY <2>2, <2>3, <2>5, <2>6, <2>7, SoloHand
<1>5. QED
    BY <1>3, <1>4

\* Where an item in a tier goes next: to a stage the sweep works through later.
LEMMA GoesFacts ==
    ASSUME IInv, NEW t \in Tiers, NEW i \in store[t]
    PROVE  Goes(i, t) \in Sources /\ Rank[t] < Rank[Goes(i, t)]
<1>1. t \in Stages /\ i \in Items /\ Score[i] \in Nat /\ Score[i] < 50
    BY DEF IInv, StoreOK, Modest, Stages, GateToLongTerm
<1>2. t = "t3" => ~(Score[i] >= Gate[t])
    BY <1>1 DEF Gate, GateToLongTerm
<1>3. \/ Goes(i, t) = "fallout"
      \/ t = "t1" /\ Goes(i, t) = "t2"
      \/ t = "t2" /\ Goes(i, t) = "t3"
    BY <1>2 DEF Goes, Above, Tiers
<1>4. QED
    BY <1>3 DEF Tiers, Sources, Rank

\* A log, the end of a sweep and its breaking off leave the store alone.  At
\* the end there is nothing left to find, so no item is in two places.
LEMMA SoloLettingGo ==
    ASSUME IInv, SoloInv, NEW s \in Sweepers, Log(s) \/ SweepEnd(s) \/ SweepFault(s)
    PROVE  SoloInv'
<1>1. /\ sweep[s] \in Sweeping /\ sweep \in [Sweepers -> Sweeping]
      /\ Findings(sweep[s], store) /\ Whole(sweep[s], store) /\ Neighbours
      /\ VerdictOK(sweep[s])
    BY DEF IInv, SweepOK, SoloInv, HandsOK
<1>2. UNCHANGED store
    BY DEF Log, SweepEnd, SweepFault
<1>3. CASE Log(s)
    <2> DEFINE w == NextFinding(sweep[s])
    <2>1. sweep' = [sweep EXCEPT ![s] = w] /\ sweep[s].pc = "log"
        BY <1>1, <1>3 DEF Log, VerdictOK
    <2>2. w \in Sweeping /\ w.todo = sweep[s].todo /\ w.pc = "judge"
        BY <1>1, IdleFacts DEF NextFinding, Sweeping, Steps
    <2> HIDE DEF w
    <2>3. Scanned["log"] = Scanned["judge"]
        BY DEF Scanned
    <2>4. Findings(w, store)
        BY <1>1, <2>1, <2>2, <2>3 DEF Findings
    <2>5. Whole(w, store)
        BY <1>1, <2>1, <2>2, <2>3 DEF Whole, Finds, Holds
    <2>6. QED
        BY <1>2, <2>1, <2>2, <2>4, <2>5, SoloHand
<1>4. Findings(Idle, store) /\ Whole(Idle, store)
    BY IdleFacts DEF Findings, Whole, Scanned
<1>5. CASE SweepEnd(s)
    <2>1. sweep[s].pc = "judge" /\ sweep[s].todo = {}
        BY <1>5 DEF SweepEnd
    <2>2. \A i \in Items : \A t \in Stages, u \in Sources :
            ~(i \in store[t] /\ i \in store[u] /\ t # u)
        BY <1>1, <2>1 DEF Whole, Finds, Holds, Scanned
    <2>3. OnePlace
        BY <1>1, <2>2 DEF OnePlace, Neighbours, Sources
    <2>4. sweep' = [sweep EXCEPT ![s] = Idle]
        BY <1>5 DEF SweepEnd
    <2>5. QED
        BY <1>2, <1>4, <2>3, <2>4, IdleFacts, SoloHand
<1>6. CASE SweepFault(s)
    <2>1. sweep' = [sweep EXCEPT ![s] = Idle] /\ ~settled'
        BY <1>1, <1>6 DEF SweepFault, VerdictOK
    <2>2. QED
        BY <1>2, <1>4, <2>1, IdleFacts, SoloHand
<1>7. QED
    BY <1>3, <1>5, <1>6

\* A deletion ends the one doubling under way, or the item's life.
LEMMA SoloDelete ==
    ASSUME IInv, SoloInv, NEW s \in Sweepers, Delete(s)
    PROVE  SoloInv'
<1> DEFINE w == sweep[s]
           v == IF Promotes(w) /\ w.to # "long_term"
                THEN [w EXCEPT !.pc = "log"] ELSE NextFinding(w)
<1>1. /\ w \in Sweeping /\ w.pc = "delete" /\ sweep \in [Sweepers -> Sweeping]
      /\ w.from \in Sources /\ w.item \in Items
      /\ store \in [Stages -> SUBSET Items]
      /\ Findings(w, store) /\ InHand(w, store) /\ Whole(w, store) /\ Neighbours
      /\ OneSweeper
    BY DEF IInv, StoreOK, SweepOK, SoloInv, Sweeping, Delete
<1>2. /\ sweep' = [sweep EXCEPT ![s] = v]
      /\ store' = [t \in Stages |->
                    IF t = w.from THEN store[t] \ {w.item}
                    ELSE IF t = w.to /\ t = "gone" THEN store[t] \cup {w.item}
                    ELSE store[t]]
    BY DEF Delete
<1> HIDE DEF w
<1>3. v.todo = w.todo /\ v.pc \in {"log", "judge"}
    <2>1. CASE v = [w EXCEPT !.pc = "log"]
        BY <1>1, <2>1 DEF Sweeping
    <2>2. CASE v = NextFinding(w)
        BY <1>1, <2>2, IdleFacts DEF NextFinding, Sweeping
    <2>3. QED
        BY <2>1, <2>2
<1> HIDE DEF v
<1>4. /\ \A t \in Stages : \A i \in store'[t] :
            i \in store[t] \/ (t = "gone" /\ i = w.item /\ w.to = "gone")
      /\ \A t \in Stages : \A i \in store[t] :
            i \in store'[t] \/ (t = w.from /\ i = w.item)
      /\ w.item \notin store'[w.from]
      /\ w.from \in Stages /\ Sources \subseteq Stages
    BY <1>1, <1>2 DEF Sources, Stages, Tiers
<1>5. w.to = "gone" => \A t \in Stages \ {"gone"} : w.item \notin store'[t]
    BY <1>1, <1>4 DEF InHand
<1>6. \A i \in Items : \A t, u \in Stages :
        i \in store'[t] /\ i \in store'[u] /\ t # u =>
            /\ i \in store[t] /\ i \in store[u]
            /\ ~(i = w.item /\ (t = w.from \/ u = w.from))
    BY <1>4, <1>5
<1>7. Neighbours'
    BY <1>1, <1>6 DEF Neighbours, Goes
<1>8. Scanned[v.pc] = Sources /\ Scanned[w.pc] = Sources
    BY <1>1, <1>3 DEF Scanned
<1>9. Findings(v, store')
    BY <1>1, <1>3, <1>4, <1>8 DEF Findings, InHand, Finds
<1>10. Whole(v, store')
    <2> SUFFICES ASSUME NEW i \in Items, NEW t \in Stages, NEW u \in Sources,
                        i \in store'[t], i \in store'[u], t # u
                 PROVE  Finds(v, i, u)
        BY <1>8 DEF Whole
    <2>1. /\ i \in store[t] /\ i \in store[u]
          /\ ~(i = w.item /\ (t = w.from \/ u = w.from))
        BY <1>4, <1>6
    <2>2. Finds(w, i, u)
        BY <1>1, <1>8, <2>1 DEF Whole, Holds
    <2>3. QED
        BY <1>3, <2>2 DEF Finds
<1>11. InHand(v, store') /\ v.pc # "idle"
    BY <1>3 DEF InHand
<1>12. QED
    BY <1>1, <1>2, <1>7, <1>9, <1>10, <1>11, SoloStep

\* A judgement doubles an item from where it is to where it goes.  It is
\* nowhere else: a copy lower down would have been found and judged before.
LEMMA SoloJudge ==
    ASSUME IInv, SoloInv, NEW s \in Sweepers, Judge(s)
    PROVE  SoloInv'
<1>1. /\ sweep[s] \in Sweeping /\ sweep \in [Sweepers -> Sweeping]
      /\ sweep[s].pc = "judge" /\ store \in [Stages -> SUBSET Items]
      /\ Findings(sweep[s], store) /\ Whole(sweep[s], store) /\ Neighbours
      /\ OneSweeper
    BY DEF IInv, StoreOK, SweepOK, SoloInv, Judge
<1> DEFINE Judged(e, to) ==
        /\ \A f \in sweep[s].todo : Rank[e.from] <= Rank[f.from]
        /\ store' = IF to = "gone" THEN store ELSE Put(e.item, to)
        /\ sweep' = [sweep EXCEPT ![s] =
                       [pc |-> IF to = "long_term" THEN "log" ELSE "delete",
                        todo |-> sweep[s].todo \ {e}, from |-> e.from, to |-> to,
                        item |-> e.item]]
<1>2. PICK e \in sweep[s].todo : \E to \in Verdicts(e) : Judged(e, to)
    BY <1>1 DEF Judge
<1>3. PICK to \in Verdicts(e) : Judged(e, to)
    BY <1>2
<1> DEFINE i == e.item
           v == e.from
           w == [pc |-> "delete", todo |-> sweep[s].todo \ {e}, from |-> v,
                 to |-> to, item |-> i]
<1>4. /\ e \in Finding /\ FindingOK(e) /\ v \in Sources /\ v \in Stages
      /\ i \in Items /\ i \in store[v]
    BY <1>1 DEF IInv, FindingsOK, Sweeping, Finding, Sources, Stages, Findings
<1>5. /\ to \in Stages /\ to # "long_term" /\ (v = "fallout" => to = "gone")
      /\ (v \in Tiers => to \in Beyond[v])
    BY <1>4, VerdictFacts
<1>6. v \in Tiers => to = Goes(i, v) /\ to # "gone"
    <2> SUFFICES ASSUME v \in Tiers PROVE to = Goes(i, v) /\ to # "gone"
        OBVIOUS
    <2>1. e.gate = Gate[v] /\ Score[i] < 50 /\ Score[i] \in Nat
        BY <1>4 DEF FindingOK, GateToLongTerm
    <2>2. v = "t3" => ~(Score[i] >= e.gate)
        BY <2>1 DEF Gate, GateToLongTerm
    <2>3. to = Goes(i, v)
        BY <1>5, <2>1, <2>2 DEF Verdicts, Goes, Tiers
    <2>4. Goes(i, v) \in Sources
        BY <1>4, GoesFacts
    <2>5. QED
        BY <2>3, <2>4 DEF Sources, Tiers
<1>7. sweep' = [sweep EXCEPT ![s] = w]
    BY <1>3, <1>5
<1>8. /\ w.pc = "delete" /\ w.todo = sweep[s].todo \ {e} /\ w.from = v /\ w.to = to
      /\ w.item = i
    OBVIOUS
<1>9. ASSUME NEW x \in Stages, i \in store[x], x # v
      PROVE  v \in Tiers /\ x = to
    <2>1. CASE v \in Tiers /\ x = Goes(i, v)
        BY <1>6, <2>1
    <2>2. CASE x \in Tiers /\ v = Goes(i, x)
        <3>1. Rank[x] < Rank[v]
            BY <1>9, <2>2, GoesFacts
        <3>2. \E f \in sweep[s].todo : f.item = i /\ f.from = x
            BY <1>1, <1>4, <1>9, <2>2 DEF Whole, Finds, Holds, Scanned, Sources
        <3>3. Rank[v] <= Rank[x]
            BY <1>3, <3>2
        <3>4. Rank[x] \in Nat /\ Rank[v] \in Nat
            BY <1>4, <2>2 DEF Rank, Sources, Tiers
        <3>5. QED
            BY <3>1, <3>3, <3>4
    <2>3. QED
        BY <1>1, <1>4, <1>9, <2>1, <2>2 DEF Neighbours
<1> HIDE DEF w, i, v
<1>10. /\ \A t \in Stages : store[t] \subseteq store'[t]
       /\ \A t \in Stages : \A j \in store'[t] : j \in store[t] \/ (j = i /\ t = to)
       /\ to = "gone" => store' = store
    BY <1>1, <1>3, <1>5 DEF Put, i
<1>11. \A t \in Stages : i \in store'[t] => t = v \/ (v \in Tiers /\ t = to)
    <2>1. to = "gone" \/ v \in Tiers
        BY <1>4, <1>5 DEF Sources
    <2>2. QED
        BY <1>9, <1>10, <2>1
<1>12. Neighbours'
    <2> SUFFICES ASSUME NEW j \in Items, NEW t \in Stages, NEW u \in Stages,
                        j \in store'[t], j \in store'[u], t # u
                 PROVE  (t \in Tiers /\ u = Goes(j, t)) \/ (u \in Tiers /\ t = Goes(j, u))
        BY DEF Neighbours, Goes
    <2>1. CASE j = i
        BY <1>6, <1>11, <2>1
    <2>2. CASE j # i
        BY <1>1, <1>10, <2>2 DEF Neighbours
    <2>3. QED
        BY <2>1, <2>2
<1>13. Scanned["judge"] = Sources /\ Scanned["delete"] = Sources /\ Sources \subseteq Stages
    BY DEF Scanned, Sources, Stages
<1>14. Findings(w, store')
    <2>1. \A f \in sweep[s].todo : f.from \in Sources /\ f.item \in store[f.from]
        BY <1>1, <1>13 DEF Findings
    <2>2. QED
        BY <1>1, <1>8, <1>10, <1>13, <2>1 DEF Findings
<1>15. InHand(w, store')
    <2>1. i \in store'[v]
        BY <1>4, <1>10
    <2>2. ~Finds(w, i, v)
        BY <1>1, <1>8 DEF Findings, Finds, i, v
    <2>3. to = "gone" => \A t \in Stages \ {v} : i \notin store'[t]
        BY <1>6, <1>11
    <2>4. QED
        BY <1>8, <2>1, <2>2, <2>3 DEF InHand
<1>16. Whole(w, store')
    <2> SUFFICES ASSUME NEW j \in Items, NEW t \in Stages, NEW u \in Sources,
                        j \in store'[t], j \in store'[u], t # u
                 PROVE  Finds(w, j, u) \/ Holds(w, j, u) \/ Holds(w, j, t)
        BY <1>8, <1>13 DEF Whole
    <2>1. CASE j = i
        BY <1>8, <1>11, <1>13, <2>1 DEF Holds
    <2>2. CASE j # i
        <3>1. Finds(sweep[s], j, u)
            BY <1>1, <1>10, <1>13, <2>2 DEF Whole, Holds
        <3>2. QED
            BY <1>8, <2>2, <3>1 DEF Finds, i
    <2>3. QED
        BY <2>1, <2>2
<1>17. QED
    BY <1>1, <1>7, <1>8, <1>12, <1>14, <1>15, <1>16, SoloStep

LEMMA SoloKeeps == IInv /\ SoloInv /\ [Next]_vars => SoloInv'
<1> SUFFICES ASSUME IInv, SoloInv, [Next]_vars PROVE SoloInv'
    OBVIOUS
<1>1. CASE UNCHANGED <<store, sweep, settled>>
    BY <1>1 DEF SoloInv, OneSweeper, Neighbours, Goes, Findings, InHand, Whole, Finds,
               Holds, OnePlace
<1>2. ASSUME NEW i \in Items, Form(i) \/ FormLog(i) \/ FormFault(i) PROVE SoloInv'
    BY <1>1, <1>2, SoloForm DEF FormLog, FormFault
<1>3. ASSUME NEW s \in Sweepers, Sweep(s) \/ SweepFault(s) PROVE SoloInv'
    BY <1>3, SoloScanning, SoloJudge, SoloDelete, SoloLettingGo DEF Sweep, SweepStep
<1>4. QED
    BY <1>1, <1>2, <1>3 DEF Next, vars

\* What is purged is in no tier, nor in fallout, nor comes back there.
THEOREM PurgedStaysPurged == OneSweeper /\ Spec => []GoneIsGone
<1>1. IInv /\ SoloInv => GoneIsGone
    <2> SUFFICES ASSUME IInv, SoloInv, NEW t \in Stages \ {"gone"},
                        NEW i \in store[t], i \in store["gone"]
                 PROVE  FALSE
        BY DEF GoneIsGone
    <2>1. i \in Items /\ "gone" \in Stages /\ "gone" \notin Sources
        BY DEF IInv, StoreOK, Stages, Sources, Tiers
    <2>2. t \in Tiers /\ Goes(i, t) = "gone"
        BY <2>1 DEF SoloInv, Neighbours, Sources
    <2>3. QED
        BY <2>1, <2>2, GoesFacts
<1>2. QED
    BY <1>1, SoloInit, SoloKeeps, Invariance, PTL DEF Spec

\* A sweep that runs through mends what one broke off between its two writes
\* left double: afterwards no item is in two places.
THEOREM OnePlaceOnly == OneSweeper /\ Spec => []OnePlaceAfterSweep
<1>1. SoloInv => OnePlaceAfterSweep
    <2> SUFFICES ASSUME OnePlace, NEW i \in Items
                 PROVE  Cardinality({t \in Stages : i \in store[t]}) <= 1
        BY DEF SoloInv, OnePlaceAfterSweep
    <2> DEFINE places == {t \in Stages : i \in store[t]}
    <2>1. \A t, u \in places : t = u
        BY DEF OnePlace
    <2> HIDE DEF places
    <2>2. places = {} \/ \E t : places = {t}
        BY <2>1
    <2>3. Cardinality(places) \in {0, 1}
        BY <2>2, FS_EmptySet, FS_Singleton
    <2>4. QED
        BY <2>3 DEF places
<1>2. QED
    BY <1>1, SoloInit, SoloKeeps, Invariance, PTL DEF Spec

------------------------------------------------------------------------------
(***************************************************************************)
(* What she is asked to keep: its score meets the gate to long-term, and   *)
(* what meets that gate is never where a sweep could find it.              *)
(***************************************************************************)
Moment == [identity : Nat, emotional : Nat, relational : Nat, intensity : Nat,
           aligned : BOOLEAN, alignment : 0..1000]

\* No moment scores beyond ten points, and none scores less than five that she
\* was asked to keep (TRIGGER_RETENTION_FLOOR in lina/mps.py), whatever its
\* factors and wherever it lies in the polytope.
THEOREM TriggerMeetsTheGate ==
    ASSUME NEW m \in Moment
    PROVE  /\ Importance(m, TRUE) \in Nat /\ Importance(m, FALSE) \in Nat
           /\ GateToLongTerm <= Importance(m, TRUE) /\ Importance(m, TRUE) <= 100
           /\ Importance(m, FALSE) <= 100
<1>1. /\ m.identity \in Nat /\ m.emotional \in Nat /\ m.relational \in Nat
      /\ m.intensity \in Nat /\ m.aligned \in BOOLEAN /\ m.alignment \in 0..1000
    BY DEF Moment
<1>2. GeometricSignificance(m.aligned, m.alignment) \in Nat
    <2>1. 1000 - m.alignment \in Nat
        BY <1>1, SMT
    <2> DEFINE far == 1000 - m.alignment
               broken == IF m.aligned THEN 0 ELSE 2000 + 1000
    <2>2. broken \in Nat
        OBVIOUS
    <2> HIDE DEF broken
    <2>3. 10 * far + broken \in Nat
        BY <2>1, <2>2, SMT
    <2>4. QED
        BY <2>3, SMT DEF GeometricSignificance, Least, broken
<1> DEFINE points == 30000 * m.identity + 25000 * m.emotional + 20000 * m.relational
                       + 25 * GeometricSignificance(m.aligned, m.alignment)
<1>3. points \in Nat /\ Intensified(m.intensity) \in Nat
    BY <1>1, <1>2, SMT DEF Intensified
<1> HIDE DEF points
<1>4. Intensified(m.intensity) * points \in Nat
    BY <1>3, SMT
<1> DEFINE all == Intensified(m.intensity) * points
<1> HIDE DEF all
<1>5. ScoreMemory(m) \in Nat /\ ScoreMemory(m) <= 100 * Tenth
    <2>1. ScoreMemory(m) = Least(100 * Tenth, all)
        BY SMT DEF ScoreMemory, all, points
    <2>2. all \in Nat
        BY <1>4, SMT DEF all
    <2>3. QED
        BY <2>1, <2>2, SMT DEF Tenth, Least
<1>6. ASSUME NEW x \in Nat, x <= 100 * Tenth
      PROVE  /\ RoundedTo(1000, x) \div Tenth \in Nat
             /\ RoundedTo(1000, x) \div Tenth <= 100
             /\ x >= 50 * Tenth => RoundedTo(1000, x) \div Tenth >= 50
    <2> DEFINE r == RoundedTo(1000, x)
    <2>1. r \in Nat /\ r <= 100 * Tenth /\ (x >= 50 * Tenth => r >= 50 * Tenth)
        BY <1>6, SMT DEF Tenth, RoundedTo
    <2> HIDE DEF r
    <2>2. r \div Tenth \in Nat /\ r \div Tenth <= 100
          /\ (x >= 50 * Tenth => r \div Tenth >= 50)
        BY <2>1, SMT DEF Tenth
    <2>3. QED
        BY <2>2, SMT DEF r
<1> DEFINE kept == Greatest(ScoreMemory(m), TriggerRetentionFloor)
<1>7. kept \in Nat /\ kept <= 100 * Tenth /\ kept >= 50 * Tenth
    BY <1>5, SMT DEF Tenth, Greatest, TriggerRetentionFloor
<1> HIDE DEF kept
<1> DEFINE a == RoundedTo(1000, kept) \div Tenth
           b == RoundedTo(1000, ScoreMemory(m)) \div Tenth
<1>8. Importance(m, TRUE) = a /\ Importance(m, FALSE) = b
    BY SMT DEF Importance, kept
<1>9. a \in Nat /\ a <= 100 /\ a >= 50
    BY <1>6, <1>7, SMT
<1>10. b \in Nat /\ b <= 100
    BY <1>5, <1>6, SMT
<1> HIDE DEF a, b
<1>11. GateToLongTerm <= a
    BY <1>9, SMT DEF GateToLongTerm
<1>12. QED
    BY <1>8, <1>9, <1>10, <1>11, Zenon

\* What meets the gate to long-term is there and nowhere else.
KeptApart == \A i \in Items : Score[i] >= GateToLongTerm =>
    /\ \A t \in Stages \ {"long_term"} : i \notin store[t]
    /\ \A s \in Sweepers : /\ \A e \in sweep[s].todo : e.item # i
                           /\ sweep[s].pc = "delete" => sweep[s].item # i

LEMMA KeptApartStep == IInv /\ KeptApart /\ [Next]_vars => KeptApart'
<1> SUFFICES ASSUME IInv, KeptApart, [Next]_vars,
                    NEW i \in Items, Score[i] >= GateToLongTerm
             PROVE  /\ \A t \in Stages \ {"long_term"} : i \notin store'[t]
                    /\ \A s \in Sweepers : /\ \A e \in sweep'[s].todo : e.item # i
                                           /\ sweep'[s].pc = "delete" => sweep'[s].item # i
    BY DEF KeptApart
<1>1. /\ \A t \in Stages \ {"long_term"} : i \notin store[t]
      /\ \A s \in Sweepers : /\ \A e \in sweep[s].todo : e.item # i
                             /\ sweep[s].pc = "delete" => sweep[s].item # i
    BY DEF KeptApart
<1>2. /\ sweep \in [Sweepers -> Sweeping] /\ store \in [Stages -> SUBSET Items]
      /\ Sources \subseteq Stages \ {"long_term"}
    BY DEF IInv, SweepOK, StoreOK, Sources, Stages, Tiers
<1> DEFINE Clear(w) == /\ \A e \in w.todo : e.item # i
                       /\ w.pc = "delete" => w.item # i
<1>3. ASSUME NEW s \in Sweepers, NEW w, sweep' = [sweep EXCEPT ![s] = w], Clear(w)
      PROVE  \A r \in Sweepers : Clear(sweep'[r])
    BY <1>1, <1>2, <1>3
<1>4. \A t \in Sources : \A e \in Seen(t) : e.item # i
    <2>1. ASSUME NEW t \in Sources PROVE \A e \in Seen(t) : e.item \in store[t]
        BY DEF Seen
    <2>2. QED
        BY <1>1, <1>2, <2>1
<1>5. CASE UNCHANGED <<store, sweep>>
    BY <1>1, <1>5
<1>6. ASSUME NEW j \in Items, Form(j) \/ FormLog(j) \/ FormFault(j)
      PROVE  /\ \A t \in Stages \ {"long_term"} : i \notin store'[t]
             /\ \A s \in Sweepers : Clear(sweep'[s])
    <2>1. CASE Form(j)
        <3>1. j = i => Route(j) = "long_term"
            BY DEF Route
        <3>2. QED
            BY <1>1, <1>2, <2>1, <3>1 DEF Form, Put
    <2>2. CASE FormLog(j) \/ FormFault(j)
        BY <1>5, <2>2 DEF FormLog, FormFault
    <2>3. QED
        BY <1>6, <2>1, <2>2
<1>7. ASSUME NEW s \in Sweepers, Sweep(s) \/ SweepFault(s)
      PROVE  /\ \A t \in Stages \ {"long_term"} : i \notin store'[t]
             /\ \A r \in Sweepers : Clear(sweep'[r])
    <2>0. sweep[s] \in Sweeping /\ Clear(sweep[s]) /\ VerdictOK(sweep[s])
        BY <1>1, <1>2 DEF IInv, HandsOK
    <2>1. Clear(Idle) /\ Clear(NextFinding(sweep[s]))
        BY <2>0, IdleFacts DEF NextFinding, Sweeping
    <2>2. CASE SweepBegin(s)
        <3> DEFINE w == [Idle EXCEPT !.pc = "t2", !.todo = Seen("t1")]
        <3>1. w.pc = "t2" /\ w.todo = Seen("t1")
            BY IdleFacts DEF Sweeping
        <3>2. sweep' = [sweep EXCEPT ![s] = w] /\ UNCHANGED store
            BY <2>2 DEF SweepBegin
        <3> HIDE DEF w
        <3>3. Clear(w)
            BY <1>4, <3>1 DEF Sources, Tiers
        <3>4. QED
            BY <1>1, <1>3, <3>2, <3>3
    <2>3. CASE Scan(s)
        <3> DEFINE t == sweep[s].pc
                   n == [t2 |-> "t3", t3 |-> "fallout", fallout |-> "judge"][t]
                   w == [sweep[s] EXCEPT !.todo = sweep[s].todo \cup Seen(t), !.pc = n]
        <3>1. t \in Sources /\ n \in {"t3", "fallout", "judge"}
            BY <2>3 DEF Scan, Sources, Tiers
        <3>2. sweep' = [sweep EXCEPT ![s] = w] /\ UNCHANGED store
            BY <1>2, <2>3 DEF Scan
        <3> HIDE DEF t, n
        <3>3. w.pc = n /\ w.todo = sweep[s].todo \cup Seen(t)
            BY <2>0 DEF Sweeping
        <3> HIDE DEF w
        <3>4. Clear(w)
            BY <1>4, <2>0, <3>1, <3>3
        <3>5. QED
            BY <1>1, <1>3, <3>2, <3>4
    <2>4. CASE Judge(s)
        <3> DEFINE hand(e, to) == [pc |-> IF to = "long_term" THEN "log" ELSE "delete",
                                   todo |-> sweep[s].todo \ {e}, from |-> e.from,
                                   to |-> to, item |-> e.item]
        <3>1. PICK e \in sweep[s].todo, to \in Stages :
                /\ store' = IF to = "gone" THEN store ELSE Put(e.item, to)
                /\ sweep' = [sweep EXCEPT ![s] = hand(e, to)]
            <4>1. \A e \in sweep[s].todo : e \in Finding /\ FindingOK(e)
                BY <2>0 DEF IInv, FindingsOK, Sweeping
            <4>2. \A e \in sweep[s].todo : Verdicts(e) \subseteq Stages
                BY <4>1, VerdictFacts
            <4>3. QED
                BY <1>2, <2>4, <4>2 DEF Judge
        <3>2. e.item # i
            BY <2>0
        <3>3. \A t \in Stages \ {"long_term"} : i \notin store'[t]
            BY <1>1, <1>2, <3>1, <3>2 DEF Put
        <3> DEFINE w == hand(e, to)
        <3>4. w.todo \subseteq sweep[s].todo /\ w.item = e.item
            OBVIOUS
        <3>5. sweep' = [sweep EXCEPT ![s] = w]
            BY <3>1
        <3> HIDE DEF w
        <3>6. Clear(w)
            BY <2>0, <3>2, <3>4
        <3>7. QED
            BY <1>3, <3>3, <3>5, <3>6
    <2>5. CASE Delete(s)
        <3>1. sweep[s].item # i
            BY <2>0, <2>5 DEF Delete
        <3>2. \A t \in Stages \ {"long_term"} : i \notin store'[t]
            BY <1>1, <2>5, <3>1 DEF Delete
        <3> DEFINE w == [sweep[s] EXCEPT !.pc = "log"]
        <3>3. Clear(w)
            BY <2>0 DEF Sweeping
        <3>4. \/ sweep' = [sweep EXCEPT ![s] = w]
              \/ sweep' = [sweep EXCEPT ![s] = NextFinding(sweep[s])]
            BY <2>5 DEF Delete
        <3> HIDE DEF w
        <3>5. \A r \in Sweepers : Clear(sweep'[r])
            BY <1>3, <2>1, <3>3, <3>4
        <3>6. QED
            BY <3>2, <3>5
    <2>6. CASE Log(s) \/ SweepEnd(s) \/ SweepFault(s)
        <3>1. \/ sweep' = [sweep EXCEPT ![s] = NextFinding(sweep[s])]
              \/ sweep' = [sweep EXCEPT ![s] = Idle]
            BY <2>0, <2>6 DEF Log, SweepEnd, SweepFault, VerdictOK
        <3>2. \A r \in Sweepers : Clear(sweep'[r])
            BY <1>3, <2>1, <3>1
        <3>3. UNCHANGED store
            BY <2>6 DEF Log, SweepEnd, SweepFault
        <3>4. QED
            BY <1>1, <3>2, <3>3
    <2>7. QED
        BY <1>7, <2>2, <2>3, <2>4, <2>5, <2>6 DEF Sweep, SweepStep
<1>8. QED
    BY <1>5, <1>6, <1>7 DEF Next, vars

\* "A trigger guarantees permanence" (value_engine.py, TRIGGER_RETENTION_FLOOR):
\* what meets the gate is formed into long-term and is never in a tier, in
\* fallout or purged, however many sweeps overlap and wherever one breaks off.
THEOREM PermanenceIsGuaranteed ==
    Spec => [](\A i \in Items : Score[i] >= GateToLongTerm =>
                   \A t \in Stages \ {"long_term"} : i \notin store[t])
<1>1. Init => KeptApart
    BY IdleFacts DEF Init, KeptApart, Nothing
<1>2. KeptApart => \A i \in Items : Score[i] >= GateToLongTerm =>
                       \A t \in Stages \ {"long_term"} : i \notin store[t]
    BY DEF KeptApart
<1>3. QED
    BY <1>1, <1>2, KeptApartStep, Invariance, PTL DEF Spec

==============================================================================
