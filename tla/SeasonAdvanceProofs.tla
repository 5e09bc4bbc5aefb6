-------------------------- MODULE SeasonAdvanceProofs --------------------------
(***************************************************************************)
(* Theorems about her seasons, for any number of requests, readers and     *)
(* corrections, any record and any number of faults and restarts.          *)
(*                                                                         *)
(* Two invariants follow a promise through the requests that carry it: a   *)
(* request past its check writes an earned season (Carried), and a         *)
(* confirmation at hand was flagged (Asked).                               *)
(***************************************************************************)
EXTENDS SeasonAdvance, TLAPS

AdvPcs == {"idle", "birth", "evaluate", "lock", "retire", "insert", "identity", "audit",
           "invalidate", "done"}
Requesting == [pc : AdvPcs, season : Seasons \cup {Unborn}]
Reading(n) == [pc : {"idle", "load", "store", "use", "save", "done"},
               job : {"turn", "flag", "confirm"}, engine : 0..n,
               loaded : Seasons, about : Corrections]
Lessons == [about : Corrections, by : Parties]
Engines == [season : Seasons, learned : Seq(Lessons)]

\* A request that evaluates or writes comes from a season with one after it.
Bound(a) == a.pc \in {"evaluate", "lock", "retire", "insert", "identity", "audit", "invalidate"}
            => a.season \in Seasons /\ a.season # Winter

IInv ==
    /\ TypeOK
    /\ \A r \in Requests : Bound(adv[r])
    /\ \A t \in Readers : reader[t].pc \in {"use", "save"} => reader[t].engine # 0

------------------------------------------------------------------------------
LEMMA Numbers == Seasons \subseteq Int /\ Spring \in Seasons /\ Winter \in Seasons
                 /\ Unborn \notin Seasons /\ \A s \in Seasons : s # Winter => s + 1 \in Seasons
BY DEF Seasons, Spring, Winter, Unborn

LEMMA Loads == TypeOK => LoadConstraints \in Seasons
<1>. SUFFICES ASSUME TypeOK, current # <<>> PROVE current[Len(current)] \in Seasons
    BY Numbers DEF LoadConstraints
<1>1. current \in Seq(Seasons)
    BY DEF TypeOK
<1>2. Len(current) \in 1..Len(current)
    BY <1>1
<1>. QED
    BY <1>1, <1>2

\* Requests that go on as Goto has them.
LEMMA Going ==
    ASSUME TypeOK, \A r \in Requests : Bound(adv[r]), NEW r \in Requests, NEW pc \in AdvPcs,
           Goto(r, pc),
           pc \notin {"idle", "birth", "done"} => adv[r].season \in Seasons /\ adv[r].season # Winter
    PROVE  adv' \in [Requests -> Requesting] /\ \A q \in Requests : Bound(adv'[q])
<1>1. adv \in [Requests -> Requesting]
    BY DEF TypeOK, Requesting, AdvPcs
<1>2. [adv[r] EXCEPT !.pc = pc] \in Requesting /\ Bound([adv[r] EXCEPT !.pc = pc])
    BY <1>1 DEF Requesting, Bound
<1>3. adv' = [adv EXCEPT ![r] = [adv[r] EXCEPT !.pc = pc]]
    BY DEF Goto
<1>. QED
    BY <1>1, <1>2, <1>3

LEMMA Initial == Init => IInv
<1>. SUFFICES ASSUME Init PROVE IInv
    OBVIOUS
<1>1. (CHOOSE c \in Corrections : TRUE) \in Corrections
    BY SeasonAssumption
<1>2. /\ adv \in [Requests -> Requesting] /\ \A r \in Requests : Bound(adv[r])
      /\ engines = <<>> /\ Len(engines) = 0 /\ cached \in 0..Len(engines)
    BY DEF Init, Requesting, Bound, AdvPcs
<1>3. /\ reader \in [Readers -> Reading(0)]
      /\ \A t \in Readers : reader[t].pc = "idle"
    BY <1>1, Numbers DEF Init, Reading
<1>4. /\ current \in Seq(Seasons) /\ audit \in Seq(Seasons) /\ engines \in Seq(Engines)
    BY DEF Init
<1>5. flagged \in [Corrections -> Seasons \cup {Unborn}] /\ listed \subseteq Corrections
    BY DEF Init
<1>6. identity \in Seasons \cup {Unborn} /\ faults \in Nat /\ earned \subseteq Seasons
      /\ db \in Databases
    BY Numbers DEF Init
<1>7. TypeOK
    BY <1>2, <1>3, <1>4, <1>5, <1>6 DEF TypeOK, Requesting, Reading, AdvPcs, Engines, Lessons
<1>. QED
    BY <1>2, <1>3, <1>7 DEF IInv

------------------------------------------------------------------------------
\* What the requests may change, and what the readers may.
RequestsTyped == /\ identity \in Seasons \cup {Unborn}
                 /\ current \in Seq(Seasons) /\ audit \in Seq(Seasons)
                 /\ adv \in [Requests -> Requesting] /\ \A r \in Requests : Bound(adv[r])
                 /\ db \in Databases /\ earned \subseteq Seasons
ReadersTyped == /\ engines \in Seq(Engines) /\ cached \in 0..Len(engines)
                /\ reader \in [Readers -> Reading(Len(engines))]
                /\ \A t \in Readers : reader[t].pc \in {"use", "save"} => reader[t].engine # 0
                /\ flagged \in [Corrections -> Seasons \cup {Unborn}]
                /\ listed \subseteq Corrections

LEMMA Halves == IInv <=> RequestsTyped /\ ReadersTyped /\ faults \in Nat
BY DEF IInv, TypeOK, RequestsTyped, ReadersTyped, Requesting, Reading, AdvPcs, Engines, Lessons

LEMMA RequestSteps ==
    ASSUME IInv, NEW r \in Requests, LookForBirth(r) \/ Birth(r) \/ Advance(r)
    PROVE  RequestsTyped'
<1>. USE Numbers DEF AdvPcs
<1>0. RequestsTyped /\ TypeOK /\ \A q \in Requests : Bound(adv[q])
    BY Halves DEF IInv
<1>1. CASE LookForBirth(r)
    BY <1>0, <1>1, Going DEF LookForBirth, RequestsTyped, season_vars, history
<1>2. CASE Birth(r)
    <2>1. current' \in Seq(Seasons) /\ identity' \in Seasons \cup {Unborn}
        <3>1. current \in Seq(Seasons) /\ identity \in Seasons \cup {Unborn}
            BY <1>0 DEF RequestsTyped
        <3>2. Append(current, Spring) \in Seq(Seasons)
            BY <3>1
        <3>3. \/ identity' = Spring /\ current' = Append(current, Spring)
              \/ identity' = identity /\ current' = current
            BY <1>2 DEF Birth
        <3>. QED
            BY <3>1, <3>2, <3>3
    <2>. QED
        BY <1>0, <1>2, <2>1, Going DEF Birth, RequestsTyped, history
<1>3. CASE ReadIdentity(r)
    <2>. DEFINE a == [pc |-> IF identity \in {Unborn, Winter} THEN "done" ELSE "evaluate",
                      season |-> identity]
    <2>1. a \in Requesting /\ Bound(a)
        BY <1>0 DEF RequestsTyped, Requesting, Bound
    <2>2. adv' = [adv EXCEPT ![r] = a]
        BY <1>3 DEF ReadIdentity
    <2>. HIDE DEF a
    <2>3. adv' \in [Requests -> Requesting] /\ \A q \in Requests : Bound(adv'[q])
        BY <1>0, <2>1, <2>2 DEF RequestsTyped
    <2>. QED
        BY <1>0, <1>3, <2>3 DEF ReadIdentity, RequestsTyped, season_vars, history
<1>4. ASSUME NEW m \in Metrics, Evaluate(r, m) PROVE RequestsTyped'
    <2>1. adv[r].season \in Seasons /\ adv[r].season # Winter
        BY <1>0, <1>4 DEF Evaluate, At, Bound
    <2>2. earned' \subseteq Seasons
        <3>1. adv[r].season + 1 \in Seasons
            BY <2>1
        <3>2. earned' \subseteq earned \cup {adv[r].season + 1}
            BY <1>4 DEF Evaluate
        <3>. QED
            BY <1>0, <3>1, <3>2 DEF RequestsTyped
    <2>3. Goto(r, "lock") \/ Goto(r, "done")
        BY <1>4 DEF Evaluate
    <2>4. adv' \in [Requests -> Requesting] /\ \A q \in Requests : Bound(adv'[q])
        BY <1>0, <2>1, <2>3, Going
    <2>. QED
        BY <1>0, <1>4, <2>2, <2>4 DEF Evaluate, RequestsTyped, season_vars
<1>5. ASSUME ~At(r, "idle"), ~At(r, "birth"), ~At(r, "done")
      PROVE  adv[r].season \in Seasons /\ adv[r].season # Winter /\ adv[r].season + 1 \in Seasons
    BY <1>0, <1>5 DEF At, Bound, RequestsTyped, Requesting
<1>6. CASE Lock(r) \/ LockRaises(r)
    <2>1. Goto(r, "retire") \/ Goto(r, "done")
        BY <1>6 DEF Lock, LockRaises
    <2>2. adv' \in [Requests -> Requesting] /\ \A q \in Requests : Bound(adv'[q])
        BY <1>0, <1>5, <1>6, <2>1, Going DEF Lock, LockRaises, At
    <2>. QED
        BY <1>0, <1>6, <2>2 DEF Lock, LockRaises, RequestsTyped, season_vars, history
<1>7. CASE Retire(r) \/ Insert(r)
    <2>1. current' \in Seq(Seasons)
        <3>1. CASE Retire(r)
            BY <3>1 DEF Retire
        <3>2. CASE Insert(r)
            BY <1>0, <1>5, <3>2 DEF Insert, At, RequestsTyped
        <3>. QED
            BY <1>7, <3>1, <3>2
    <2>2. Goto(r, "insert") \/ Goto(r, "identity")
        BY <1>7 DEF Retire, Insert
    <2>3. adv' \in [Requests -> Requesting] /\ \A q \in Requests : Bound(adv'[q])
        BY <1>0, <1>5, <1>7, <2>2, Going DEF Retire, Insert, At
    <2>. QED
        BY <1>0, <1>7, <2>1, <2>3 DEF Retire, Insert, RequestsTyped, history
<1>8. CASE SetIdentity(r)
    <2>1. adv' \in [Requests -> Requesting] /\ \A q \in Requests : Bound(adv'[q])
        BY <1>0, <1>5, <1>8, Going DEF SetIdentity, At
    <2>. QED
        BY <1>0, <1>5, <1>8, <2>1 DEF SetIdentity, At, RequestsTyped, history
<1>9. CASE Audit(r)
    <2>1. adv' \in [Requests -> Requesting] /\ \A q \in Requests : Bound(adv'[q])
        BY <1>0, <1>5, <1>9, Going DEF Audit, At
    <2>2. audit' \in Seq(Seasons)
        BY <1>0, <1>5, <1>9 DEF Audit, At, RequestsTyped
    <2>. QED
        BY <1>0, <1>9, <2>1, <2>2 DEF Audit, RequestsTyped, history
<1>10. CASE Invalidate(r)
    BY <1>0, <1>10, Going DEF Invalidate, RequestsTyped, season_vars, history
<1>. QED
    BY <1>1, <1>2, <1>3, <1>4, <1>6, <1>7, <1>8, <1>9, <1>10 DEF Advance

\* A reader's step to v, as long as v holds an engine that exists.
LEMMA Turning ==
    ASSUME ReadersTyped, NEW t \in Readers, NEW v \in Reading(Len(engines)),
           v.pc \in {"use", "save"} => v.engine # 0, reader' = [reader EXCEPT ![t] = v]
    PROVE  /\ reader' \in [Readers -> Reading(Len(engines))]
           /\ \A u \in Readers : reader'[u].pc \in {"use", "save"} => reader'[u].engine # 0
BY DEF ReadersTyped

\* What a lesson does to the engines.
LEMMA Learning ==
    ASSUME IInv, NEW t \in Readers, reader[t].pc = "use", NEW by \in Parties, Learn(t, by)
    PROVE  /\ reader[t].engine \in 1..Len(engines) /\ engines \in Seq(Engines)
           /\ reader[t].about \in Corrections
           /\ engines' \in Seq(Engines) /\ Len(engines') = Len(engines)
           /\ \A o \in 1..Len(engines) :
                /\ engines'[o].season = engines[o].season
                /\ engines'[o].learned = IF o = reader[t].engine
                      THEN Append(engines[o].learned, [about |-> reader[t].about, by |-> by])
                      ELSE engines[o].learned
<1>1. ReadersTyped
    BY Halves
<1>2. reader[t] \in Reading(Len(engines)) /\ reader[t].engine # 0
    BY <1>1 DEF ReadersTyped
<1>. DEFINE e == reader[t].engine
            lesson == [about |-> reader[t].about, by |-> by]
<1>3. e \in 1..Len(engines) /\ lesson \in Lessons /\ engines \in Seq(Engines)
      /\ reader[t].about \in Corrections
    BY <1>1, <1>2 DEF Reading, Lessons, ReadersTyped
<1>4. engines' = [engines EXCEPT ![e] = [engines[e] EXCEPT !.learned = Append(engines[e].learned, lesson)]]
    BY DEF Learn
<1>5. engines[e] \in Engines
    BY <1>3
<1>. HIDE DEF e, lesson
<1>6. [engines[e] EXCEPT !.learned = Append(engines[e].learned, lesson)] \in Engines
    <2>1. engines[e].learned \in Seq(Lessons) /\ engines[e].season \in Seasons
        BY <1>5 DEF Engines
    <2>2. Append(engines[e].learned, lesson) \in Seq(Lessons)
        BY <1>3, <2>1
    <2>. HIDE DEF Lessons
    <2>. QED
        BY <1>5, <2>1, <2>2 DEF Engines
<1>7. engines' \in Seq(Engines) /\ Len(engines') = Len(engines)
    BY <1>3, <1>4, <1>6
<1>8. \A o \in 1..Len(engines) :
         engines'[o] = IF o = e
            THEN [engines[e] EXCEPT !.learned = Append(engines[e].learned, lesson)]
            ELSE engines[o]
    BY <1>3, <1>4
<1>9. \A o \in 1..Len(engines) : engines[o] \in Engines
    BY <1>3
<1>10. \A o \in 1..Len(engines) :
          /\ engines'[o].season = engines[o].season
          /\ engines'[o].learned = IF o = e THEN Append(engines[o].learned, lesson)
                                   ELSE engines[o].learned
    BY <1>8, <1>9 DEF Engines
<1>. QED
    BY <1>3, <1>7, <1>10 DEF e, lesson

LEMMA ReaderSteps ==
    ASSUME IInv, NEW t \in Readers, Use(t)
    PROVE  ReadersTyped'
<1>0. ReadersTyped /\ TypeOK /\ reader[t] \in Reading(Len(engines)) /\ Len(engines) \in Nat
    BY Halves DEF IInv, ReadersTyped
<1>1. ASSUME NEW job \in {"turn", "flag", "confirm"}, NEW c \in Corrections, Ask(t, job, c)
      PROVE  ReadersTyped'
    <2>. DEFINE v == [reader[t] EXCEPT !.pc = IF cached = 0 THEN "load" ELSE "use",
                                       !.engine = cached, !.job = job, !.about = c]
    <2>1. v \in Reading(Len(engines)) /\ (v.pc \in {"use", "save"} => v.engine # 0)
        BY <1>0 DEF Reading, ReadersTyped
    <2>2. reader' = [reader EXCEPT ![t] = v]
        BY <1>1 DEF Ask
    <2>. HIDE DEF v
    <2>. QED
        BY <1>0, <1>1, <2>1, <2>2, Turning DEF Ask, ReadersTyped, engine_vars, feedback_vars
<1>2. CASE Load(t)
    <2>. DEFINE v == [reader[t] EXCEPT !.pc = "store", !.loaded = LoadConstraints]
    <2>1. v \in Reading(Len(engines)) /\ v.pc \notin {"use", "save"}
        BY <1>0, Loads DEF Reading
    <2>2. reader' = [reader EXCEPT ![t] = v]
        BY <1>2 DEF Load
    <2>. HIDE DEF v
    <2>. QED
        BY <1>0, <1>2, <2>1, <2>2, Turning DEF Load, ReadersTyped, engine_vars, feedback_vars
<1>3. CASE Store(t)
    <2>1. [season |-> reader[t].loaded, learned |-> <<>>] \in Engines
        <3>1. <<>> \in Seq(Lessons)
            OBVIOUS
        <3>. QED
            BY <1>0, <3>1 DEF Engines, Reading
    <2>2. engines' \in Seq(Engines) /\ Len(engines') = Len(engines) + 1
        BY <1>0, <1>3, <2>1 DEF Store, ReadersTyped
    <2>3. cached' \in 0..Len(engines')
        BY <1>0, <1>3, <2>2 DEF Store
    <2>. DEFINE v == [reader[t] EXCEPT !.pc = "use", !.engine = Len(engines) + 1]
    <2>4. v \in Reading(Len(engines')) /\ v.engine # 0
        <3>1. Len(engines) + 1 \in 0..Len(engines') /\ Len(engines) + 1 # 0
            BY <1>0, <2>2
        <3>2. v.engine = Len(engines) + 1
            BY <1>0 DEF Reading
        <3>. QED
            BY <1>0, <3>1, <3>2 DEF Reading
    <2>5. reader' = [reader EXCEPT ![t] = v]
        BY <1>3 DEF Store
    <2>6. \A u \in Readers : reader[u] \in Reading(Len(engines'))
        BY <1>0, <2>2 DEF ReadersTyped, Reading
    <2>. HIDE DEF v
    <2>7. /\ reader' \in [Readers -> Reading(Len(engines'))]
          /\ \A u \in Readers : reader'[u].pc \in {"use", "save"} => reader'[u].engine # 0
        BY <1>0, <2>4, <2>5, <2>6 DEF ReadersTyped
    <2>. QED
        BY <1>0, <1>3, <2>2, <2>3, <2>7 DEF Store, ReadersTyped, feedback_vars
<1>4. ASSUME Finish(t)
      PROVE  /\ reader' \in [Readers -> Reading(Len(engines))]
             /\ \A u \in Readers : reader'[u].pc \in {"use", "save"} => reader'[u].engine # 0
    <2>1. [reader[t] EXCEPT !.pc = "done"] \in Reading(Len(engines))
        BY <1>0 DEF Reading
    <2>2. reader' = [reader EXCEPT ![t] = [reader[t] EXCEPT !.pc = "done"]]
        BY <1>4 DEF Finish
    <2>3. [reader[t] EXCEPT !.pc = "done"].pc \notin {"use", "save"}
        BY <1>0 DEF Reading
    <2>. QED
        BY <1>0, <2>1, <2>2, <2>3, Turning
<1>5. ASSUME NEW by \in Parties, reader[t].pc = "use", Learn(t, by), Finish(t),
             UNCHANGED <<cached, listed>>,
             flagged' \in [Corrections -> Seasons \cup {Unborn}]
      PROVE  ReadersTyped'
    BY <1>0, <1>4, <1>5, Learning DEF ReadersTyped
<1>6. ASSUME reader[t].pc = "use"
      PROVE  Engine(t).season \in Seasons /\ reader[t].about \in Corrections
    <2>1. reader[t].engine \in 1..Len(engines) /\ reader[t].about \in Corrections
        BY <1>0, <1>6 DEF ReadersTyped, Reading
    <2>2. engines[reader[t].engine] \in Engines
        BY <1>0, <2>1 DEF ReadersTyped
    <2>. QED
        BY <2>1, <2>2 DEF Engine, Engines
<1>7. CASE Flag(t)
    BY <1>0, <1>4, <1>6, <1>7 DEF Flag, ReadersTyped, engine_vars
<1>8. CASE TurnTeaches(t)
    <2>1. flagged' \in [Corrections -> Seasons \cup {Unborn}] /\ cached' = cached /\ listed' = listed
        BY <1>0, <1>6, <1>8 DEF TurnTeaches, ReadersTyped
    <2>2. CASE Engine(t).season = Spring
        <3>. DEFINE v == [reader[t] EXCEPT !.pc = "save"]
        <3>1. v \in Reading(Len(engines)) /\ v.engine # 0
            BY <1>0, <1>8 DEF Reading, ReadersTyped, TurnTeaches
        <3>2. reader' = [reader EXCEPT ![t] = v] /\ engines' = engines
            BY <1>8, <2>2 DEF TurnTeaches
        <3>. HIDE DEF v
        <3>. QED
            BY <1>0, <2>1, <3>1, <3>2, Turning DEF ReadersTyped
    <2>3. CASE Engine(t).season # Spring
        BY <1>5, <1>8, <2>1, <2>3 DEF TurnTeaches, Parties
    <2>. QED
        BY <2>2, <2>3
<1>9. CASE SavePending(t)
    <2>1. reader[t].about \in Corrections
        BY <1>0 DEF Reading
    <2>. QED
        BY <1>0, <1>4, <1>9, <2>1 DEF SavePending, ReadersTyped, engine_vars
<1>10. ASSUME NEW by \in Parties, Confirm(t, by) PROVE ReadersTyped'
    <2>1. reader[t].pc = "use" /\ Finish(t) /\ cached' = cached /\ UNCHANGED <<flagged, listed>>
        BY <1>10 DEF Confirm, feedback_vars
    <2>2. CASE Learn(t, by)
        <3>1. flagged' \in [Corrections -> Seasons \cup {Unborn}]
            BY <1>0, <2>1 DEF ReadersTyped
        <3>. QED
            BY <1>5, <2>1, <2>2, <3>1
    <2>3. CASE engines' = engines
        BY <1>0, <1>4, <2>1, <2>3 DEF ReadersTyped
    <2>. QED
        BY <1>10, <2>2, <2>3 DEF Confirm
<1>. QED
    BY <1>1, <1>2, <1>3, <1>7, <1>8, <1>9, <1>10 DEF Use

LEMMA Preserved == IInv /\ [Next]_vars => IInv'
<1>. SUFFICES ASSUME IInv, [Next]_vars PROVE IInv'
    OBVIOUS
<1>0. RequestsTyped /\ ReadersTyped /\ faults \in Nat
    BY Halves
<1>. SUFFICES RequestsTyped' /\ ReadersTyped' /\ (faults \in Nat)'
    BY Halves DEF IInv, TypeOK, RequestsTyped, ReadersTyped, Requesting, Reading, AdvPcs,
       Engines, Lessons
<1>1. ASSUME NEW r \in Requests, LookForBirth(r) \/ Birth(r) \/ Advance(r)
      PROVE  UNCHANGED <<engines, reader, feedback_vars, faults>> /\ cached' \in {cached, 0}
    BY <1>1 DEF LookForBirth, Birth, Advance, ReadIdentity, Evaluate, Lock, LockRaises, Retire, Insert,
       SetIdentity, Audit, Invalidate, engine_vars
<1>2. ASSUME NEW r \in Requests, LookForBirth(r) \/ Birth(r) \/ Advance(r)
      PROVE  RequestsTyped' /\ ReadersTyped' /\ (faults \in Nat)'
    <2>1. RequestsTyped'
        BY <1>2, RequestSteps
    <2>2. ReadersTyped'
        BY <1>0, <1>1, <1>2 DEF ReadersTyped, feedback_vars
    <2>. QED
        BY <1>0, <1>1, <1>2, <2>1, <2>2
<1>3. ASSUME NEW t \in Readers, Use(t)
      PROVE  UNCHANGED <<season_vars, adv, db, earned, faults>>
    BY <1>3 DEF Use, Ask, Load, Store, Flag, TurnTeaches, SavePending, Confirm, history
<1>4. ASSUME NEW t \in Readers, Use(t)
      PROVE  RequestsTyped' /\ ReadersTyped' /\ (faults \in Nat)'
    <2>1. RequestsTyped'
        BY <1>0, <1>3, <1>4 DEF RequestsTyped, season_vars
    <2>. QED
        BY <1>0, <1>3, <1>4, <2>1, ReaderSteps
<1>5. CASE Fault
    <2>1. faults' \in Nat /\ UNCHANGED <<season_vars, engine_vars, feedback_vars, history>>
        BY <1>0, <1>5 DEF Fault
    <2>2. ASSUME NEW r \in Requests, Goto(r, "done"), reader' = reader
          PROVE  RequestsTyped' /\ ReadersTyped'
        <3>1. adv' \in [Requests -> Requesting] /\ \A q \in Requests : Bound(adv'[q])
            BY <2>2, Going DEF IInv, AdvPcs
        <3>. QED
            BY <1>0, <2>1, <2>2, <3>1 DEF RequestsTyped, ReadersTyped, season_vars, history,
               engine_vars, feedback_vars
    <2>3. ASSUME NEW t \in Readers, Finish(t), adv' = adv
          PROVE  RequestsTyped' /\ ReadersTyped'
        <3>. DEFINE v == [reader[t] EXCEPT !.pc = "done"]
        <3>1. v \in Reading(Len(engines)) /\ v.pc \notin {"use", "save"}
            BY <1>0 DEF ReadersTyped, Reading
        <3>2. reader' = [reader EXCEPT ![t] = v]
            BY <2>3 DEF Finish
        <3>. HIDE DEF v
        <3>3. /\ reader' \in [Readers -> Reading(Len(engines))]
              /\ \A u \in Readers : reader'[u].pc \in {"use", "save"} => reader'[u].engine # 0
            BY <1>0, <3>1, <3>2, Turning
        <3>. QED
            BY <1>0, <2>1, <2>3, <3>3 DEF RequestsTyped, ReadersTyped, season_vars, history,
               engine_vars, feedback_vars
    <2>. QED
        BY <1>5, <2>1, <2>2, <2>3 DEF Fault
<1>6. CASE Restart
    <2>1. adv' \in [Requests -> Requesting] /\ \A q \in Requests : Bound(adv'[q])
        BY <1>0, <1>6 DEF Restart, RequestsTyped, Requesting, Bound, AdvPcs
    <2>2. /\ reader' \in [Readers -> Reading(Len(engines))]
          /\ \A u \in Readers : reader'[u].pc \in {"use", "save"} => reader'[u].engine # 0
        BY <1>0, <1>6 DEF Restart, ReadersTyped, Reading
    <2>. QED
        BY <1>0, <1>6, <2>1, <2>2 DEF Restart, RequestsTyped, ReadersTyped, season_vars, history,
           feedback_vars
<1>7. CASE UNCHANGED vars
    BY <1>0, <1>7 DEF vars, RequestsTyped, ReadersTyped, season_vars, history, engine_vars,
       feedback_vars
<1>. QED
    BY <1>2, <1>4, <1>5, <1>6, <1>7 DEF Next

\* The invariant the theorems follow from.
THEOREM Invariance == Spec => []IInv
<1>1. Init => IInv
    BY Initial
<1>2. IInv /\ [Next]_vars => IInv'
    BY Preserved
<1>. QED
    BY <1>1, <1>2, PTL DEF Spec

\* The types: among them, that no request leads past Winter and no reader holds an
\* engine that was never built.
THEOREM Typed == Spec => []TypeOK
<1>1. IInv => TypeOK
    BY DEF IInv
<1>. QED
    BY <1>1, Invariance, PTL

------------------------------------------------------------------------------
(* Trust is demonstrated. *)

\* Spring needs no earning; what a request is about to write, and what a reader has
\* loaded, was found earned.
Carried ==
    /\ Spring \in earned
    /\ \A r \in Requests : adv[r].pc = "lock" \/ Open(r) => adv[r].season + 1 \in earned
    /\ \A t \in Readers : reader[t].loaded \in earned

EarnedInv == NothingUnearned /\ Carried

LEMMA EarnedInitial == Init => EarnedInv
BY DEF Init, EarnedInv, NothingUnearned, Carried, Open, Writing

LEMMA EarnedLoads == ASSUME IInv, EarnedInv PROVE LoadConstraints \in earned
<1>1. CASE current = <<>>
    BY <1>1 DEF LoadConstraints, EarnedInv, Carried
<1>2. CASE current # <<>>
    <2>1. Len(current) \in 1..Len(current)
        BY <1>2 DEF IInv, TypeOK
    <2>. QED
        BY <1>2, <2>1 DEF LoadConstraints, EarnedInv, NothingUnearned
<1>. QED
    BY <1>1, <1>2

LEMMA EarnedPreserved == IInv /\ EarnedInv /\ [Next]_vars => EarnedInv'
<1>. SUFFICES ASSUME IInv, EarnedInv, [Next]_vars PROVE EarnedInv'
    OBVIOUS
<1>0. /\ RequestsTyped /\ ReadersTyped
      /\ identity \in earned \cup {Unborn} /\ Spring \in earned
      /\ \A i \in 1..Len(current) : current[i] \in earned
      /\ \A i \in 1..Len(audit) : audit[i] \in earned
      /\ \A i \in 1..Len(engines) : engines[i].season \in earned
      /\ \A r \in Requests : adv[r].pc = "lock" \/ Open(r) => adv[r].season + 1 \in earned
      /\ \A t \in Readers : reader[t].loaded \in earned
    BY Halves DEF EarnedInv, NothingUnearned, Carried
\* What is appended to a sequence of earned seasons is earned.
<1>1. ASSUME NEW q \in Seq(Seasons), NEW s \in Seasons \cap earned,
             \A i \in 1..Len(q) : q[i] \in earned
      PROVE  \A i \in 1..Len(Append(q, s)) : Append(q, s)[i] \in earned
    BY <1>1
\* A request that goes on, with or without its season, carries no more than before.
<1>2. ASSUME NEW r \in Requests, NEW pc \in AdvPcs, Goto(r, pc), earned \subseteq earned',
             pc \in {"lock", "retire", "insert", "identity", "audit", "invalidate"} =>
                adv[r].season + 1 \in earned'
      PROVE  \A q \in Requests : (adv[q].pc = "lock" \/ Open(q) => adv[q].season + 1 \in earned)'
    <2>1. adv' = [adv EXCEPT ![r].pc = pc] /\ adv \in [Requests -> Requesting]
        BY <1>0, <1>2 DEF Goto, RequestsTyped
    <2>. SUFFICES ASSUME NEW q \in Requests, adv'[q].pc = "lock" \/ Open(q)'
                  PROVE  adv'[q].season + 1 \in earned'
        OBVIOUS
    <2>2. adv'[q].season = adv[q].season /\ adv'[q].pc = IF q = r THEN pc ELSE adv[q].pc
        BY <2>1 DEF Requesting
    <2>3. CASE q = r
        BY <1>2, <2>2, <2>3 DEF Open, Writing
    <2>4. CASE q # r
        BY <1>0, <1>2, <2>2, <2>4 DEF Open, Writing
    <2>. QED
        BY <2>3, <2>4
<1>3. ASSUME NEW r \in Requests, adv[r].pc = "lock" \/ Open(r)
      PROVE  adv[r].season + 1 \in Seasons \cap earned
    <2>1. Bound(adv[r])
        BY DEF IInv
    <2>. QED
        BY <1>0, <1>3, <2>1, Numbers DEF Bound, Open, Writing
<1>4. ASSUME NEW r \in Requests, LookForBirth(r) \/ Birth(r) \/ Advance(r) PROVE EarnedInv'
    <2>1. UNCHANGED <<engines, reader>>
        BY <1>4 DEF LookForBirth, Birth, Advance, ReadIdentity, Evaluate, Lock, LockRaises, Retire, Insert,
           SetIdentity, Audit, Invalidate, engine_vars
    <2>2. /\ \A i \in 1..Len(engines') : engines'[i].season \in earned
          /\ \A t \in Readers : reader'[t].loaded \in earned
        BY <1>0, <2>1
    <2>3. CASE LookForBirth(r)
        <3>1. \A q \in Requests : (adv[q].pc = "lock" \/ Open(q) => adv[q].season + 1 \in earned)'
            BY <1>2, <2>3 DEF LookForBirth, history, AdvPcs
        <3>. QED
            BY <1>0, <2>2, <2>3, <3>1 DEF LookForBirth, EarnedInv, NothingUnearned, Carried,
               season_vars, history
    <2>4. CASE Birth(r)
        <3>1. \A q \in Requests : (adv[q].pc = "lock" \/ Open(q) => adv[q].season + 1 \in earned)'
            BY <1>2, <2>4 DEF Birth, history, AdvPcs
        <3>2. \A i \in 1..Len(current') : current'[i] \in earned
            BY <1>0, <1>1, <2>4, Numbers DEF Birth, RequestsTyped
        <3>3. identity' \in earned \cup {Unborn} /\ earned' = earned /\ audit' = audit
            BY <1>0, <2>4 DEF Birth, history
        <3>. QED
            BY <1>0, <2>2, <3>1, <3>2, <3>3 DEF EarnedInv, NothingUnearned, Carried
    <2>5. CASE ReadIdentity(r)
        <3>1. adv \in [Requests -> Requesting]
            BY <1>0 DEF RequestsTyped
        <3>2. \A q \in Requests : IF q = r THEN adv'[q].pc \in {"done", "evaluate"}
                                  ELSE adv'[q] = adv[q]
            BY <2>5, <3>1 DEF ReadIdentity
        <3>3. earned' = earned /\ UNCHANGED season_vars
            BY <2>5 DEF ReadIdentity, history
        <3>4. \A q \in Requests : (adv[q].pc = "lock" \/ Open(q) => adv[q].season + 1 \in earned)'
            BY <1>0, <3>2, <3>3 DEF Open, Writing
        <3>. QED
            BY <1>0, <2>2, <3>3, <3>4 DEF EarnedInv, NothingUnearned, Carried, season_vars
    <2>6. ASSUME NEW m \in Metrics, Evaluate(r, m) PROVE EarnedInv'
        <3>1. UNCHANGED season_vars /\ earned \subseteq earned'
              /\ \/ Goto(r, "lock") /\ adv[r].season + 1 \in earned'
                 \/ Goto(r, "done")
            BY <2>6 DEF Evaluate
        <3>2. \A q \in Requests : (adv[q].pc = "lock" \/ Open(q) => adv[q].season + 1 \in earned)'
            BY <1>2, <3>1 DEF AdvPcs
        <3>. QED
            BY <1>0, <2>2, <3>1, <3>2 DEF EarnedInv, NothingUnearned, Carried, season_vars
    <2>7. CASE Lock(r) \/ LockRaises(r)
        <3>1. UNCHANGED season_vars /\ earned' = earned /\ At(r, "lock")
              /\ (Goto(r, "retire") \/ Goto(r, "done"))
            BY <2>7 DEF Lock, LockRaises, history
        <3>2. \A q \in Requests : (adv[q].pc = "lock" \/ Open(q) => adv[q].season + 1 \in earned)'
            BY <1>2, <1>3, <3>1 DEF At, AdvPcs
        <3>. QED
            BY <1>0, <2>2, <3>1, <3>2 DEF EarnedInv, NothingUnearned, Carried, season_vars
    <2>8. CASE Retire(r)
        <3>1. \A q \in Requests : (adv[q].pc = "lock" \/ Open(q) => adv[q].season + 1 \in earned)'
            BY <1>2, <1>3, <2>8 DEF Retire, At, AdvPcs, Open, Writing, history
        <3>2. \A i \in 1..Len(current') : current'[i] \in earned
            BY <2>8 DEF Retire
        <3>. QED
            BY <1>0, <2>2, <2>8, <3>1, <3>2 DEF Retire, EarnedInv, NothingUnearned, Carried,
               history
    <2>9. CASE Insert(r)
        <3>1. \A q \in Requests : (adv[q].pc = "lock" \/ Open(q) => adv[q].season + 1 \in earned)'
            BY <1>2, <1>3, <2>9 DEF Insert, At, AdvPcs, Open, Writing, history
        <3>2. current' = Append(current, adv[r].season + 1) /\ adv[r].season + 1 \in Seasons \cap earned
            BY <1>3, <2>9 DEF Insert, At, Open, Writing
        <3>3. \A i \in 1..Len(current') : current'[i] \in earned
            BY <1>0, <1>1, <3>2 DEF RequestsTyped
        <3>. QED
            BY <1>0, <2>2, <2>9, <3>1, <3>3 DEF Insert, EarnedInv, NothingUnearned, Carried,
               history
    <2>10. CASE SetIdentity(r)
        <3>1. \A q \in Requests : (adv[q].pc = "lock" \/ Open(q) => adv[q].season + 1 \in earned)'
            BY <1>2, <1>3, <2>10 DEF SetIdentity, At, AdvPcs, Open, Writing, history
        <3>2. identity' \in earned
            BY <1>3, <2>10 DEF SetIdentity, At, Open, Writing
        <3>. QED
            BY <1>0, <2>2, <2>10, <3>1, <3>2 DEF SetIdentity, EarnedInv, NothingUnearned, Carried,
               history
    <2>11. CASE Audit(r)
        <3>1. \A q \in Requests : (adv[q].pc = "lock" \/ Open(q) => adv[q].season + 1 \in earned)'
            BY <1>2, <1>3, <2>11 DEF Audit, At, AdvPcs, Open, Writing, history
        <3>2. audit' = Append(audit, adv[r].season + 1) /\ adv[r].season + 1 \in Seasons \cap earned
            BY <1>3, <2>11 DEF Audit, At, Open, Writing
        <3>3. \A i \in 1..Len(audit') : audit'[i] \in earned
            BY <1>0, <1>1, <3>2 DEF RequestsTyped
        <3>. QED
            BY <1>0, <2>2, <2>11, <3>1, <3>3 DEF Audit, EarnedInv, NothingUnearned, Carried, history
    <2>12. CASE Invalidate(r)
        <3>1. \A q \in Requests : (adv[q].pc = "lock" \/ Open(q) => adv[q].season + 1 \in earned)'
            BY <1>2, <2>12 DEF Invalidate, history, AdvPcs
        <3>. QED
            BY <1>0, <2>2, <2>12, <3>1 DEF Invalidate, EarnedInv, NothingUnearned, Carried,
               season_vars, history
    <2>. QED
        BY <1>4, <2>3, <2>4, <2>5, <2>6, <2>7, <2>8, <2>9, <2>10, <2>11, <2>12 DEF Advance
<1>5. ASSUME NEW t \in Readers, Use(t) PROVE EarnedInv'
    <2>1. UNCHANGED <<season_vars, adv, earned>>
        BY <1>5 DEF Use, Ask, Load, Store, Flag, TurnTeaches, SavePending, Confirm, history
    <2>2. reader \in [Readers -> Reading(Len(engines))] /\ engines \in Seq(Engines)
        BY <1>0 DEF ReadersTyped
    <2>3. \A u \in Readers : reader'[u].loaded \in {reader[u].loaded, LoadConstraints}
        <3>1. ASSUME NEW job \in {"turn", "flag", "confirm"}, NEW c \in Corrections, Ask(t, job, c)
              PROVE  \A u \in Readers : reader'[u].loaded = reader[u].loaded
            BY <2>2, <3>1 DEF Ask, Reading
        <3>2. CASE Load(t)
            BY <2>2, <3>2 DEF Load, Reading
        <3>3. CASE Store(t)
            BY <2>2, <3>3 DEF Store, Reading
        <3>4. CASE Finish(t)
            BY <2>2, <3>4 DEF Finish, Reading
        <3>5. CASE TurnTeaches(t)
            <4>1. CASE Engine(t).season = Spring
                <5>1. reader' = [reader EXCEPT ![t].pc = "save"]
                    BY <3>5, <4>1 DEF TurnTeaches
                <5>. QED
                    BY <2>2, <5>1 DEF Reading
            <4>2. CASE Engine(t).season # Spring
                BY <3>4, <3>5, <4>2 DEF TurnTeaches
            <4>. QED
                BY <4>1, <4>2
        <3>. QED
            BY <1>5, <3>1, <3>2, <3>3, <3>4, <3>5 DEF Use, Flag, SavePending, Confirm
    <2>4. \A u \in Readers : reader'[u].loaded \in earned
        BY <1>0, <2>3, EarnedLoads
    <2>5. \A i \in 1..Len(engines') : engines'[i].season \in earned
        <3>1. CASE Store(t)
            <4>1. engines' = Append(engines, [season |-> reader[t].loaded, learned |-> <<>>])
                BY <3>1 DEF Store
            <4>2. \A i \in 1..Len(engines') : engines'[i].season =
                     IF i = Len(engines) + 1 THEN reader[t].loaded ELSE engines[i].season
                BY <2>2, <4>1
            <4>3. Len(engines') = Len(engines) + 1
                BY <2>2, <4>1
            <4>. QED
                BY <1>0, <2>2, <4>2, <4>3
        <3>2. ASSUME NEW by \in Parties, reader[t].pc = "use", Learn(t, by)
              PROVE  \A i \in 1..Len(engines') : engines'[i].season \in earned
            BY <1>0, <3>2, Learning
        <3>3. CASE engines' = engines
            BY <1>0, <3>3
        <3>. QED
            BY <1>5, <3>1, <3>2, <3>3 DEF Use, Ask, Load, Flag, TurnTeaches, SavePending, Confirm,
               engine_vars, Parties
    <2>. QED
        BY <1>0, <2>1, <2>4, <2>5 DEF EarnedInv, NothingUnearned, Carried, Open, Writing,
           season_vars
<1>6. CASE Fault
    <2>1. UNCHANGED <<season_vars, engine_vars, feedback_vars, history>>
        BY <1>6 DEF Fault
    <2>2. \A q \in Requests : (adv[q].pc = "lock" \/ Open(q) => adv[q].season + 1 \in earned)'
        <3>1. CASE adv' = adv
            BY <1>0, <2>1, <3>1 DEF history, Open, Writing
        <3>2. ASSUME NEW r \in Requests, Goto(r, "done")
              PROVE  \A q \in Requests : (adv[q].pc = "lock" \/ Open(q) => adv[q].season + 1 \in earned)'
            BY <1>2, <2>1, <3>2 DEF history, AdvPcs
        <3>. QED
            BY <1>6, <3>1, <3>2 DEF Fault
    <2>3. \A u \in Readers : reader'[u].loaded = reader[u].loaded
        <3>1. reader \in [Readers -> Reading(Len(engines))]
            BY <1>0 DEF ReadersTyped
        <3>. QED
            BY <1>6, <3>1 DEF Fault, Finish, Reading
    <2>. QED
        BY <1>0, <2>1, <2>2, <2>3 DEF EarnedInv, NothingUnearned, Carried, season_vars, history,
           engine_vars
<1>7. CASE Restart
    <2>1. \A q \in Requests : adv'[q].pc = "done" \/ (adv'[q] = adv[q] /\ adv[q].pc = "idle")
        BY <1>0, <1>7 DEF Restart, RequestsTyped, Requesting, At
    <2>2. \A u \in Readers : reader'[u].loaded = reader[u].loaded
        BY <1>0, <1>7 DEF Restart, ReadersTyped, Reading
    <2>3. \A q \in Requests : (adv[q].pc = "lock" \/ Open(q) => adv[q].season + 1 \in earned)'
        BY <2>1 DEF Open, Writing
    <2>. QED
        BY <1>0, <1>7, <2>2, <2>3 DEF Restart, EarnedInv, NothingUnearned, Carried, season_vars,
           history
<1>8. CASE UNCHANGED vars
    BY <1>0, <1>8 DEF vars, EarnedInv, NothingUnearned, Carried, Open, Writing, season_vars,
       history, engine_vars
<1>. QED
    BY <1>4, <1>5, <1>6, <1>7, <1>8 DEF Next

\* No season and no bounds are stored, recorded or used that some evaluation did not
\* find earned, however the statements of concurrent advances fall and break off.
THEOREM TrustIsDemonstrated == Spec => []NothingUnearned
<1>1. Init => EarnedInv
    BY EarnedInitial
<1>2. IInv /\ EarnedInv /\ [Next]_vars => EarnedInv'
    BY EarnedPreserved
<1>3. EarnedInv => NothingUnearned
    BY DEF EarnedInv
<1>. QED
    BY <1>1, <1>2, <1>3, Invariance, PTL DEF Spec

------------------------------------------------------------------------------
(* What was flagged in Spring takes the user's word. *)

\* A confirmation at hand is of something that was flagged.
Asked == \A t \in Readers : reader[t].job = "confirm" => flagged[reader[t].about] # Unborn

LEMMA WordInitial == Init => SpringTakesTwo /\ Asked
BY DEF Init, SpringTakesTwo, Asked

\* Flags are not taken back, and readers keep to what they were asked.
LEMMA WordFrame ==
    ASSUME IInv, Asked, NEW t \in Readers, Use(t)
    PROVE  /\ \A c \in Corrections : flagged[c] # Unborn => flagged'[c] = flagged[c]
           /\ Asked'
<1>0. /\ reader \in [Readers -> Reading(Len(engines))]
      /\ flagged \in [Corrections -> Seasons \cup {Unborn}] /\ ReadersTyped
    BY Halves DEF ReadersTyped
<1>1. \A c \in Corrections : flagged[c] # Unborn => flagged'[c] = flagged[c]
    BY <1>0 DEF Use, Ask, Load, Store, Flag, TurnTeaches, SavePending, Confirm, feedback_vars
<1>2. ASSUME NEW u \in Readers, reader'[u].job = reader[u].job, reader'[u].about = reader[u].about,
             reader'[u].job = "confirm"
      PROVE  flagged'[reader'[u].about] # Unborn
    <2>1. reader[u].about \in Corrections
        BY <1>0 DEF Reading
    <2>2. flagged[reader[u].about] # Unborn
        BY <1>2 DEF Asked
    <2>. QED
        BY <1>1, <1>2, <2>1, <2>2
<1>3. CASE \A u \in Readers : reader'[u].job = reader[u].job /\ reader'[u].about = reader[u].about
    BY <1>1, <1>2, <1>3 DEF Asked
<1>4. ASSUME NEW job \in {"turn", "flag", "confirm"}, NEW c \in Corrections, Ask(t, job, c)
      PROVE  Asked'
    <2>. SUFFICES ASSUME NEW u \in Readers, reader'[u].job = "confirm"
                  PROVE  flagged'[reader'[u].about] # Unborn
        BY DEF Asked
    <2>1. CASE u = t
        <3>1. reader'[u].job = job /\ reader'[u].about = c /\ flagged' = flagged
            BY <1>0, <1>4, <2>1 DEF Ask, Reading, feedback_vars
        <3>. QED
            BY <1>4, <3>1 DEF Ask
    <2>2. CASE u # t
        <3>1. reader'[u] = reader[u]
            BY <1>0, <1>4, <2>2 DEF Ask
        <3>. QED
            BY <1>2, <3>1
    <2>. QED
        BY <2>1, <2>2
<1>5. CASE Load(t)
    BY <1>0, <1>3, <1>5 DEF Load, Reading
<1>6. CASE Store(t)
    BY <1>0, <1>3, <1>6 DEF Store, Reading
<1>7. CASE TurnTeaches(t)
    BY <1>0, <1>3, <1>7 DEF TurnTeaches, Finish, Reading
<1>8. CASE Finish(t)
    BY <1>0, <1>3, <1>8 DEF Finish, Reading
<1>. QED
    BY <1>1, <1>4, <1>5, <1>6, <1>7, <1>8 DEF Use, Flag, SavePending, Confirm

LEMMA WordLearn ==
    ASSUME IInv, SpringTakesTwo, NEW t \in Readers, reader[t].pc = "use",
           NEW by \in Parties, Learn(t, by),
           \A c \in Corrections : flagged[c] # Unborn => flagged'[c] = flagged[c],
           by = "lina" => flagged'[reader[t].about] > Spring
    PROVE  SpringTakesTwo'
<1>. SUFFICES ASSUME NEW o \in 1..Len(engines'), NEW i \in 1..Len(engines'[o].learned),
                     engines'[o].learned[i].by = "lina"
              PROVE  flagged'[engines'[o].learned[i].about] > Spring
    BY DEF SpringTakesTwo
<1>1. /\ o \in 1..Len(engines) /\ engines \in Seq(Engines) /\ reader[t].about \in Corrections
      /\ engines'[o].learned = IF o = reader[t].engine
            THEN Append(engines[o].learned, [about |-> reader[t].about, by |-> by])
            ELSE engines[o].learned
    BY Learning
<1>2. engines[o].learned \in Seq(Lessons)
    <2>1. engines[o] \in Engines
        BY <1>1
    <2>. QED
        BY <2>1 DEF Engines
<1>. DEFINE q == engines[o].learned
<1>3. ASSUME i \in 1..Len(q), engines'[o].learned[i] = q[i]
      PROVE  flagged'[engines'[o].learned[i].about] > Spring
    <2>1. q[i] \in Lessons /\ q[i].by = "lina"
        BY <1>2, <1>3
    <2>2. flagged[q[i].about] > Spring /\ q[i].about \in Corrections
        BY <1>1, <1>3, <2>1 DEF SpringTakesTwo, Lessons
    <2>3. flagged[q[i].about] # Unborn
        BY <2>2 DEF Unborn, Spring
    <2>. QED
        BY <1>3, <2>2, <2>3
<1>4. ASSUME i \notin 1..Len(q) \/ engines'[o].learned[i] # q[i]
      PROVE  engines'[o].learned[i] = [about |-> reader[t].about, by |-> by]
    <2>. HIDE DEF q
    <2>. QED
        BY <1>1, <1>2, <1>4 DEF q
<1>5. ASSUME engines'[o].learned[i] = [about |-> reader[t].about, by |-> by]
      PROVE  flagged'[engines'[o].learned[i].about] > Spring
    BY <1>5
<1>. QED
    BY <1>3, <1>4, <1>5

LEMMA WordPreserved ==
    IInv /\ SpringTakesTwo /\ Asked /\ [Next]_vars => SpringTakesTwo' /\ Asked'
<1>. SUFFICES ASSUME IInv, SpringTakesTwo, Asked, [Next]_vars PROVE SpringTakesTwo' /\ Asked'
    OBVIOUS
<1>0. ReadersTyped
    BY Halves
<1>1. CASE UNCHANGED <<engines, flagged>> /\ \A u \in Readers :
              reader'[u].job = reader[u].job /\ reader'[u].about = reader[u].about
    BY <1>1 DEF SpringTakesTwo, Asked
<1>2. ASSUME NEW t \in Readers, Use(t) PROVE SpringTakesTwo' /\ Asked'
    <2>1. Asked' /\ \A c \in Corrections : flagged[c] # Unborn => flagged'[c] = flagged[c]
        BY <1>2, WordFrame
    <2>2. ASSUME engines' = engines PROVE SpringTakesTwo'
        <3>. SUFFICES ASSUME NEW o \in 1..Len(engines), NEW i \in 1..Len(engines[o].learned),
                             engines[o].learned[i].by = "lina"
                      PROVE  flagged'[engines[o].learned[i].about] > Spring
            BY <2>2 DEF SpringTakesTwo
        <3>1. flagged[engines[o].learned[i].about] > Spring
            BY DEF SpringTakesTwo
        <3>2. engines[o] \in Engines
            BY <1>0 DEF ReadersTyped
        <3>3. engines[o].learned[i] \in Lessons
            BY <3>2 DEF Engines
        <3>4. engines[o].learned[i].about \in Corrections
            BY <3>3 DEF Lessons
        <3>5. flagged[engines[o].learned[i].about] # Unborn
            BY <3>1 DEF Unborn, Spring
        <3>. QED
            BY <2>1, <3>1, <3>4, <3>5
    <2>3. CASE Store(t)
        <3>. DEFINE e == [season |-> reader[t].loaded, learned |-> <<>>]
        <3>1. engines' = Append(engines, e) /\ flagged' = flagged
            BY <2>3 DEF Store, feedback_vars
        <3>2. engines \in Seq(Engines) /\ e.learned = <<>>
            BY <1>0 DEF ReadersTyped
        <3>. HIDE DEF e
        <3>3. \A o \in 1..Len(engines') :
                 engines'[o] = IF o = Len(engines) + 1 THEN e ELSE engines[o]
            BY <3>1, <3>2
        <3>4. Len(engines') = Len(engines) + 1
            BY <3>1, <3>2
        <3>. SUFFICES ASSUME NEW o \in 1..Len(engines'), NEW i \in 1..Len(engines'[o].learned),
                             engines'[o].learned[i].by = "lina"
                      PROVE  flagged'[engines'[o].learned[i].about] > Spring
            BY <2>1 DEF SpringTakesTwo
        <3>5. o # Len(engines) + 1
            BY <3>2, <3>3
        <3>. QED
            BY <3>1, <3>2, <3>3, <3>4, <3>5 DEF SpringTakesTwo
    <2>4. CASE TurnTeaches(t)
        <3>1. CASE Engine(t).season = Spring
            BY <2>1, <2>2, <2>4, <3>1 DEF TurnTeaches
        <3>2. CASE Engine(t).season # Spring
            <4>1. Learn(t, "lina") /\ reader[t].pc = "use" /\ "lina" \in Parties
                BY <2>4, <3>2 DEF TurnTeaches, Parties
            <4>2. reader[t].engine \in 1..Len(engines) /\ reader[t].about \in Corrections
                BY <4>1, Learning
            <4>3. Engine(t).season \in Seasons
                <5>1. engines[reader[t].engine] \in Engines
                    BY <1>0, <4>2 DEF ReadersTyped
                <5>. QED
                    BY <5>1 DEF Engine, Engines
            <4>4. flagged'[reader[t].about] = Engine(t).season
                BY <1>0, <2>4, <4>2 DEF TurnTeaches, ReadersTyped
            <4>5. flagged'[reader[t].about] > Spring
                BY <3>2, <4>3, <4>4 DEF Seasons, Spring
            <4>. QED
                BY <2>1, <4>1, <4>5, WordLearn
        <3>. QED
            BY <3>1, <3>2
    <2>5. ASSUME NEW by \in Parties, Confirm(t, by) PROVE SpringTakesTwo'
        <3>1. reader[t].pc = "use" /\ reader[t].job = "confirm" /\ flagged' = flagged
            BY <2>5 DEF Confirm, feedback_vars
        <3>2. CASE Learn(t, by) /\ ~ (flagged[reader[t].about] = Spring /\ by # "user")
            <4>1. reader[t].about \in Corrections
                BY <1>0 DEF ReadersTyped, Reading
            <4>2. flagged[reader[t].about] \in Seasons
                BY <1>0, <3>1, <4>1 DEF Asked, ReadersTyped
            <4>3. by = "lina" => flagged'[reader[t].about] > Spring
                BY <3>1, <3>2, <4>2 DEF Seasons, Spring
            <4>. QED
                BY <2>1, <3>1, <3>2, <4>3, WordLearn
        <3>. QED
            BY <2>2, <2>5, <3>2 DEF Confirm
    <2>. QED
        BY <1>2, <2>1, <2>2, <2>3, <2>4, <2>5 DEF Use, Ask, Load, Flag, SavePending, engine_vars
<1>3. ASSUME NEW r \in Requests, LookForBirth(r) \/ Birth(r) \/ Advance(r)
      PROVE  SpringTakesTwo' /\ Asked'
    <2>1. UNCHANGED <<engines, reader, flagged>>
        BY <1>3 DEF LookForBirth, Birth, Advance, ReadIdentity, Evaluate, Lock, LockRaises, Retire, Insert,
           SetIdentity, Audit, Invalidate, engine_vars, feedback_vars
    <2>. QED
        BY <1>1, <2>1
<1>4. CASE Fault \/ Restart
    <2>1. UNCHANGED <<engines, flagged>>
        BY <1>4 DEF Fault, Restart, engine_vars, feedback_vars
    <2>2. \A u \in Readers : reader'[u].job = reader[u].job /\ reader'[u].about = reader[u].about
        <3>1. reader \in [Readers -> Reading(Len(engines))]
            BY <1>0 DEF ReadersTyped
        <3>2. CASE Fault
            BY <3>1, <3>2 DEF Fault, Finish, Reading
        <3>3. CASE Restart
            BY <3>1, <3>3 DEF Restart, Reading
        <3>. QED
            BY <1>4, <3>2, <3>3
    <2>. QED
        BY <1>1, <2>1, <2>2
<1>5. CASE UNCHANGED vars
    BY <1>1, <1>5 DEF vars, engine_vars, feedback_vars
<1>. QED
    BY <1>2, <1>3, <1>4, <1>5 DEF Next

\* She learns nothing flagged in Spring by her own word, also when the season turns
\* between the flag and its confirmation, or the engine is replaced.
THEOREM SpringAsks == Spec => []SpringTakesTwo
<1>1. Init => SpringTakesTwo /\ Asked
    BY WordInitial
<1>2. IInv /\ SpringTakesTwo /\ Asked /\ [Next]_vars => SpringTakesTwo' /\ Asked'
    BY WordPreserved
<1>. QED
    BY <1>1, <1>2, Invariance, PTL DEF Spec

==============================================================================
