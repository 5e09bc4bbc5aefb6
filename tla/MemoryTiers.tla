------------------------------ MODULE MemoryTiers ------------------------------
(***************************************************************************)
(* The first tiers of a memory's life (lina/mps.py): formation puts it in  *)
(* T1 or straight into long-term, and the sweep moves what is in the tiers *)
(* up, into fallout, or out of existence.  The tiers are keys of a cache,  *)
(* the long-term table and the promotion log are in the database, and no   *)
(* transaction spans two writes: each is a step, and a sweep, which a      *)
(* request begins, may meet another one or die at any of them.             *)
(*                                                                         *)
(* "gone" collects, as history, the items a sweep has purged; snapshot and *)
(* settled are history as well.                                            *)
(***************************************************************************)
EXTENDS Naturals, FiniteSets

CONSTANTS
    Items,
    Score,       \* importance_score of each item, in tenths
    Sweepers,    \* coroutines that run a sweep
    MaxFaults    \* bound: failed writes and restarts in one behaviour

ASSUME TiersAssumption ==
    /\ Items # {}
    /\ \A i \in Items : Score[i] \in Nat
    /\ MaxFaults \in Nat

VARIABLES
    store,      \* the items each stage holds
    failed,     \* the gate an item in fallout has failed, 0 elsewhere
    forming,    \* long-term items whose formation is not logged yet
    log,        \* lina_promotion_log: <<item, from, to>>
    sweep,      \* where each sweeper stands
    snapshot,   \* the stages as they were when each sweep began
    settled,    \* no sweep broke off since the last one that ran through
    faults

vars == <<store, failed, forming, log, sweep, snapshot, settled, faults>>

------------------------------------------------------------------------------
Tiers  == {"t1", "t2", "t3"}
Stages == Tiers \cup {"fallout", "long_term", "gone"}

GateToLongTerm == 50
Gate == [t1 |-> 30, t2 |-> 35, t3 |-> GateToLongTerm]

\* Mutant: a tier's key is misnamed.
AboveMisnamed == [t1 |-> "tier2", t2 |-> "t3", t3 |-> "long_term", fallout |-> "t1"]

\* Where an item goes that passes its gate.
Above == [t1 |-> "t2", t2 |-> "t3", t3 |-> "long_term", fallout |-> "t1"]

\* Mutant: the sweep works from fallout down.
RankReversed == [t1 |-> 4, t2 |-> 3, t3 |-> 2, fallout |-> 1]

\* The order in which a sweep works through what it found.
Rank == [t1 |-> 1, t2 |-> 2, t3 |-> 3, fallout |-> 4]

Nothing == [t \in Stages |-> {}]

Idle == [pc |-> "idle", todo |-> {}, from |-> "t1", to |-> "t1",
         item |-> CHOOSE i \in Items : TRUE]

\* Mutant: fallout is judged by the lowest gate, not by the one failed.
SeenFromBottom(t) == {[from |-> t, item |-> i,
             gate |-> IF t = "fallout" THEN Gate.t1 ELSE Gate[t]] : i \in store[t]}

\* What a scan of stage t finds, with the gate each item must pass.
Seen(t) == {[from |-> t, item |-> i,
             gate |-> IF t = "fallout" THEN failed[i] ELSE Gate[t]] : i \in store[t]}

\* The verdict on a finding.  An item that may enter long-term is purged as an
\* orphan if the insertion fails.
Verdicts(e) ==
    IF Score[e.item] >= e.gate
    THEN {Above[e.from]} \cup (IF e.from = "t3" THEN {"gone"} ELSE {})
    ELSE {IF e.from = "fallout" THEN "gone" ELSE "fallout"}

\* Only what goes up is logged, into long-term before the old key is deleted,
\* between tiers after it.
Promotes(w) == w.to \notin {"fallout", "gone"}

\* Mutant: fallout is scanned anew before each judgement.
NextFindingRescans(w) ==
    [Idle EXCEPT !.pc = "judge", !.todo = w.todo \cup Seen("fallout")]

NextFinding(w) == [Idle EXCEPT !.pc = "judge", !.todo = w.todo]

Put(i, stage) == [store EXCEPT ![stage] = @ \cup {i}]

------------------------------------------------------------------------------
Init ==
    /\ store = Nothing
    /\ failed = [i \in Items |-> 0]
    /\ forming = {} /\ log = {}
    /\ sweep = [s \in Sweepers |-> Idle]
    /\ snapshot = [s \in Sweepers |-> Nothing]
    /\ settled = TRUE
    /\ faults = 0

\* Mutant: the score must exceed the gate.
RouteStrict(i) == IF Score[i] > GateToLongTerm THEN "long_term" ELSE "t1"

\* route_item, store_t1 and the insertion of store_long_term.
Route(i) == IF Score[i] >= GateToLongTerm THEN "long_term" ELSE "t1"

Form(i) ==
    /\ \A t \in Stages : i \notin store[t]
    /\ store' = Put(i, Route(i))
    /\ forming' = IF Route(i) = "long_term" THEN forming \cup {i} ELSE forming
    /\ UNCHANGED <<failed, log, sweep, snapshot, settled, faults>>

FormLog(i) ==
    /\ i \in forming
    /\ log' = log \cup {<<i, "formation", "long_term">>}
    /\ forming' = forming \ {i}
    /\ UNCHANGED <<store, failed, sweep, snapshot, settled, faults>>

FormFault(i) ==
    /\ i \in forming
    /\ faults < MaxFaults
    /\ faults' = faults + 1
    /\ forming' = forming \ {i}
    /\ UNCHANGED <<store, failed, log, sweep, snapshot, settled>>

\* run_sweep scans the tiers one after the other, then the fallout.
SweepBegin(s) ==
    /\ sweep[s].pc = "idle"
    /\ sweep' = [sweep EXCEPT ![s] = [Idle EXCEPT !.pc = "t2", !.todo = Seen("t1")]]
    /\ snapshot' = [snapshot EXCEPT ![s] = store]
    /\ UNCHANGED <<store, failed, forming, log, settled, faults>>

\* Mutant: fallout is never scanned.
ScanTiersOnly(s) ==
    /\ sweep[s].pc \in {"t2", "t3"}
    /\ sweep' = [sweep EXCEPT
                   ![s].todo = @ \cup Seen(sweep[s].pc),
                   ![s].pc = [t2 |-> "t3", t3 |-> "judge"][@]]
    /\ UNCHANGED <<store, failed, forming, log, snapshot, settled, faults>>

Scan(s) ==
    /\ sweep[s].pc \in {"t2", "t3", "fallout"}
    /\ sweep' = [sweep EXCEPT
                   ![s].todo = @ \cup Seen(sweep[s].pc),
                   ![s].pc = [t2 |-> "t3", t3 |-> "fallout", fallout |-> "judge"][@]]
    /\ UNCHANGED <<store, failed, forming, log, snapshot, settled, faults>>

\* Mutant: the item is not written where it goes.
JudgeForgetsPut(s) ==
    /\ sweep[s].pc = "judge"
    /\ \E e \in sweep[s].todo : \E to \in Verdicts(e) :
         /\ \A f \in sweep[s].todo : Rank[e.from] <= Rank[f.from]
         /\ failed' = IF to = "fallout" THEN [failed EXCEPT ![e.item] = e.gate]
                      ELSE failed
         /\ sweep' = [sweep EXCEPT ![s] =
                        [pc |-> IF to = "long_term" THEN "log" ELSE "delete",
                         todo |-> @.todo \ {e}, from |-> e.from, to |-> to,
                         item |-> e.item]]
    /\ UNCHANGED <<store, forming, log, snapshot, settled, faults>>

\* The next finding is judged, and its item written where it goes; a purge
\* writes nothing.
Judge(s) ==
    /\ sweep[s].pc = "judge"
    /\ \E e \in sweep[s].todo : \E to \in Verdicts(e) :
         /\ \A f \in sweep[s].todo : Rank[e.from] <= Rank[f.from]
         /\ store' = IF to = "gone" THEN store ELSE Put(e.item, to)
         /\ failed' = IF to = "fallout" THEN [failed EXCEPT ![e.item] = e.gate]
                      ELSE failed
         /\ sweep' = [sweep EXCEPT ![s] =
                        [pc |-> IF to = "long_term" THEN "log" ELSE "delete",
                         todo |-> @.todo \ {e}, from |-> e.from, to |-> to,
                         item |-> e.item]]
    /\ UNCHANGED <<forming, log, snapshot, settled, faults>>

\* Mutant: what is purged stays in fallout.
DeleteForgetsFallout(s) ==
    LET w == sweep[s] IN
    /\ w.pc = "delete"
    /\ store' = [t \in Stages |->
                    IF t = w.from /\ t # "fallout" THEN store[t] \ {w.item}
                    ELSE IF t = w.to /\ t = "gone" THEN store[t] \cup {w.item}
                    ELSE store[t]]
    /\ sweep' = [sweep EXCEPT ![s] =
                   IF Promotes(w) /\ w.to # "long_term"
                   THEN [w EXCEPT !.pc = "log"] ELSE NextFinding(w)]
    /\ UNCHANGED <<failed, forming, log, snapshot, settled, faults>>

Delete(s) ==
    LET w == sweep[s] IN
    /\ w.pc = "delete"
    /\ store' = [t \in Stages |->
                    IF t = w.from THEN store[t] \ {w.item}
                    ELSE IF t = w.to /\ t = "gone" THEN store[t] \cup {w.item}
                    ELSE store[t]]
    /\ failed' = IF w.from = "fallout" THEN [failed EXCEPT ![w.item] = 0]
                 ELSE failed
    /\ sweep' = [sweep EXCEPT ![s] =
                   IF Promotes(w) /\ w.to # "long_term"
                   THEN [w EXCEPT !.pc = "log"] ELSE NextFinding(w)]
    /\ UNCHANGED <<forming, log, snapshot, settled, faults>>

Log(s) ==
    LET w == sweep[s] IN
    /\ w.pc = "log"
    /\ log' = log \cup {<<w.item, w.from, w.to>>}
    /\ sweep' = [sweep EXCEPT ![s] =
                   IF w.to = "long_term"
                   THEN [w EXCEPT !.pc = "delete"] ELSE NextFinding(w)]
    /\ UNCHANGED <<store, failed, forming, snapshot, settled, faults>>

SweepEnd(s) ==
    /\ sweep[s].pc = "judge"
    /\ sweep[s].todo = {}
    /\ sweep' = [sweep EXCEPT ![s] = Idle]
    /\ snapshot' = [snapshot EXCEPT ![s] = Nothing]
    /\ settled' = TRUE
    /\ UNCHANGED <<store, failed, forming, log, faults>>

\* A write fails or the service stops: the sweep is over where it stands, but
\* for a failed log on the way into long-term, where the old key is deleted.
SweepFault(s) ==
    /\ sweep[s].pc # "idle"
    /\ faults < MaxFaults
    /\ faults' = faults + 1
    /\ IF sweep[s].pc = "log" /\ sweep[s].to = "long_term"
       THEN /\ sweep' = [sweep EXCEPT ![s].pc = "delete"]
            /\ UNCHANGED <<snapshot, settled>>
       ELSE /\ sweep' = [sweep EXCEPT ![s] = Idle]
            /\ snapshot' = [snapshot EXCEPT ![s] = Nothing]
            /\ settled' = FALSE
    /\ UNCHANGED <<store, failed, forming, log>>

SweepStep(s) == Scan(s) \/ Judge(s) \/ Delete(s) \/ Log(s) \/ SweepEnd(s)

Sweep(s) == SweepBegin(s) \/ SweepStep(s)

Next ==
    \/ \E i \in Items : Form(i) \/ FormLog(i) \/ FormFault(i)
    \/ \E s \in Sweepers : Sweep(s) \/ SweepFault(s)

Spec == Init /\ [][Next]_vars

\* The event loop carries on a sweep that was begun; nobody owes the first step.
FairSpec == Spec /\ \A s \in Sweepers : WF_vars(SweepStep(s))

------------------------------------------------------------------------------
Finding == [from : Tiers \cup {"fallout"}, item : Items, gate : Nat]

Steps == {"idle", "t2", "t3", "fallout", "judge", "delete", "log"}

\* Types: among them, that a sweep writes an item only under keys _tier_key
\* knows, and logs only stages that exist.
TypeOK ==
    /\ store \in [Stages -> SUBSET Items]
    /\ failed \in [Items -> Nat]
    /\ forming \subseteq Items
    /\ log \subseteq Items \X {"formation", "t1", "t2", "t3", "fallout"} \X Stages
    /\ sweep \in [Sweepers -> [pc : Steps, todo : SUBSET Finding, item : Items,
                              from : Tiers \cup {"fallout"}, to : Stages]]
    /\ snapshot \in [Sweepers -> [Stages -> SUBSET Items]]
    /\ settled \in BOOLEAN
    /\ faults \in Nat

\* A memory once formed is somewhere until a sweep decides to purge it,
\* whichever sweeps overlap and wherever one breaks off.
Formed == {i \in Items : \E t \in Stages : i \in store[t]}
NothingLost == [][Formed \subseteq Formed']_vars

\* The log never speaks of a promotion that did not happen: an item it shows in
\* a tier is there, or has gone on from there.
LogIsTrue == \A i \in Items :
    /\ <<i, "t1", "t2">> \in log =>
         \E t \in {"t2", "t3", "fallout", "gone"} : i \in store[t]
    /\ <<i, "t2", "t3">> \in log =>
         \E t \in {"t3", "fallout", "gone"} : i \in store[t]

\* Permanence is inborn: no sweep takes an item into long-term, nor out of
\* fallout, because what formation leaves to the tiers cannot pass the gate.
PermanenceIsInborn ==
    /\ \A s \in Sweepers : sweep[s].to # "long_term"
    /\ \A s \in Sweepers : sweep[s].from = "fallout" => sweep[s].to # "t1"
    /\ \A t \in Tiers : store[t] \cap store["long_term"] = {}

\* After a sweep that ran through, no trace is left of one that broke off
\* between its two writes: no item is in two places.
OnePlaceAfterSweep ==
    settled /\ (\A s \in Sweepers : sweep[s].pc = "idle") =>
        \A i \in Items : Cardinality({t \in Stages : i \in store[t]}) <= 1

\* What is purged stays purged.
GoneIsGone == \A t \in Stages \ {"gone"} : store[t] \cap store["gone"] = {}

\* The sweep judges the stages as they were when it began, so an item climbs
\* one tier at most and waits out its reprieve.
JudgesTheStart == \A s \in Sweepers :
    \A e \in sweep[s].todo : e.item \in snapshot[s][e.from]

\* A freshly failed item waits out its reprieve: no sweep judges in fallout
\* what was not there when it began.
WaitsOutReprieve == \A s \in Sweepers : \A e \in sweep[s].todo :
    e.from = "fallout" => e.item \in snapshot[s]["fallout"]

\* Every promotion leaves its mark in the log.
PromotionsRecorded == \A i \in store["t2"] :
    \/ <<i, "t1", "t2">> \in log
    \/ \E s \in Sweepers : sweep[s].item = i /\ sweep[s].pc \in {"delete", "log"}

\* "One pass every 48 hours ... processes all three tiers at once": what formation
\* leaves to the tiers climbs or falls out of them and is forgotten in the end.  By
\* itself it is not, since the service's own start makes no timer: nobody owes
\* a sweep.
Fades == \A i \in Items : i \in store["t1"] ~> i \in store["gone"]

\* It is forgotten as long as a sweep is asked for again and again, whichever of
\* the sweeps break off.
AskedAgain == []<>(\E s \in Sweepers : sweep[s].pc # "idle")
TieredFades == AskedAgain => Fades
==============================================================================
