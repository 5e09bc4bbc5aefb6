---------------------------- MODULE SeasonAdvance ----------------------------
(***************************************************************************)
(* One user's season, the bounds that go with it, and the value engines    *)
(* built from them (lina/lina_service.py, lina/value_engine.py).           *)
(*                                                                         *)
(* A request is a coroutine that may be suspended at every statement.  An *)
(* advance writes inside `async with self.db.transaction()`.  The service  *)
(* is given asyncpg's pool for self.db, which has no such method: the      *)
(* advance raises there.  Over a database whose transaction() opens, as    *)
(* that of the tests does, its statements are still sent through self.db,  *)
(* not through the block's connection, so each is committed by itself and  *)
(* FOR UPDATE locks nothing past its own.  The specification has both.     *)
(*                                                                         *)
(* earned is history: the seasons some evaluation found her ready for.     *)
(***************************************************************************)
EXTENDS Integers, Sequences

CONSTANTS
    Databases,   \* what self.db may be, of "pool" and "opening"
    Requests,    \* calls of init, advance and session end in one behaviour
    Readers,     \* calls that ask for the user's engine
    Corrections, \* the corrections that may be flagged
    Metrics,     \* what an evaluation may find in her record
    MaxFaults    \* bound: failed statements and restarts in one behaviour

Spring == 0
Winter == 3
Seasons == Spring..Winter
Unborn == -1     \* no identity row; also: nothing cached, nothing flagged

Parties == {"user", "lina"}

VARIABLES
    identity,    \* lina_identity_core.current_season
    current,     \* seasons of the constraint rows that are current, oldest first
    audit,       \* seasons entered, as lina_seasonal_development tells it
    adv,         \* the requests
    engines,     \* the ValueEngine objects built since the service started
    cached,      \* the one get_engine gives out, 0 for none
    reader,      \* the calls that use an engine
    flagged,     \* the season each correction was flagged in
    listed,      \* corrections saved for the user's confirmation
    db,          \* what self.db is
    faults, earned

season_vars   == <<identity, current, audit>>
engine_vars   == <<engines, cached>>
feedback_vars == <<flagged, listed>>
history       == <<db, earned>>
vars == <<season_vars, adv, engine_vars, reader, feedback_vars, faults, history>>

ASSUME SeasonAssumption ==
    /\ Databases \subseteq {"pool", "opening"}
    /\ Corrections # {}
    /\ MaxFaults \in Nat
    /\ Metrics \subseteq [sessions : Nat, evaluations : Nat, aligned : 0..100,
                          violations : Nat, memories : Nat, resolved : Nat,
                          approved : 0..100]

------------------------------------------------------------------------------
(* SeasonAdvancementEvaluator; rates in percent. *)
Requirements ==
    [sessions |-> <<5, 15, 40>>, evaluations |-> <<30, 100, 300>>,
     aligned |-> <<85, 88, 90>>, violations |-> <<3, 5, 8>>,
     memories |-> <<1, 3, 7>>, resolved |-> <<3, 10, 25>>,
     approved |-> <<80, 85, 90>>]

\* Below a sample of human verdicts their rate does not count.
CanAdvance(s, m) ==
    /\ s # Winter
    /\ m.sessions    >= Requirements.sessions[s + 1]
    /\ m.evaluations >= Requirements.evaluations[s + 1]
    /\ m.aligned     >= Requirements.aligned[s + 1]
    /\ m.violations  <= Requirements.violations[s + 1]
    /\ m.memories    >= Requirements.memories[s + 1]
    /\ m.resolved >= Requirements.resolved[s + 1] =>
         m.approved >= Requirements.approved[s + 1]

\* load_constraints: the newest current row, Spring when there is none.
LoadConstraints == IF current = <<>> THEN Spring ELSE current[Len(current)]

At(r, pc) == adv[r].pc = pc
Goto(r, pc) == adv' = [adv EXCEPT ![r].pc = pc]
Writing(r) == adv[r].pc \in {"retire", "insert", "identity"}
Open(r) == Writing(r) \/ adv[r].pc \in {"audit", "invalidate"}

Init ==
    /\ db \in Databases
    /\ identity = Unborn /\ current = <<>> /\ audit = <<>>
    /\ adv = [r \in Requests |-> [pc |-> "idle", season |-> Unborn]]
    /\ engines = <<>> /\ cached = 0
    /\ reader = [t \in Readers |->
                  [pc |-> "idle", job |-> "turn", engine |-> 0, loaded |-> Spring,
                   about |-> CHOOSE c \in Corrections : TRUE]]
    /\ flagged = [c \in Corrections |-> Unborn] /\ listed = {}
    /\ faults = 0
    /\ earned = {Spring}

------------------------------------------------------------------------------
(* POST /lina/init: looks, then calls lina_initialize_user. *)
LookForBirth(r) ==
    /\ At(r, "idle")
    /\ Goto(r, IF identity = Unborn THEN "birth" ELSE "done")
    /\ UNCHANGED <<season_vars, engine_vars, reader, feedback_vars, faults, history>>

\* The identity row is unique by user: a second birth fails as a whole.
Birth(r) ==
    /\ At(r, "birth")
    /\ IF identity = Unborn
       THEN /\ identity' = Spring
            /\ current' = Append(current, Spring)
       ELSE UNCHANGED <<identity, current>>
    /\ Goto(r, "done")
    /\ UNCHANGED <<audit, engine_vars, reader, feedback_vars, faults, history>>

(* advance_season_if_ready *)
ReadIdentity(r) ==
    /\ At(r, "idle")
    /\ adv' = [adv EXCEPT ![r] =
                 [pc |-> IF identity \in {Unborn, Winter} THEN "done" ELSE "evaluate",
                  season |-> identity]]
    /\ UNCHANGED <<season_vars, engine_vars, reader, feedback_vars, faults, history>>

\* Mutant: the thresholds are not consulted.
EvaluateLax(r, m) ==
    /\ At(r, "evaluate")
    /\ Goto(r, "lock")
    /\ UNCHANGED <<season_vars, engine_vars, reader, feedback_vars, faults, history>>

\* The metrics are read in five statements, so m need not be the record of one
\* moment.
Evaluate(r, m) ==
    LET s == adv[r].season IN
    /\ At(r, "evaluate")
    /\ IF CanAdvance(s, m)
       THEN Goto(r, "lock") /\ earned' = earned \cup {s + 1}
       ELSE Goto(r, "done") /\ UNCHANGED earned
    /\ UNCHANGED <<season_vars, engine_vars, reader, feedback_vars, db, faults>>

\* asyncpg's pool has no transaction(): the advance raises before its first write.
LockRaises(r) ==
    /\ At(r, "lock") /\ db = "pool"
    /\ Goto(r, "done")
    /\ UNCHANGED <<season_vars, engine_vars, reader, feedback_vars, faults, history>>

\* SELECT ... FOR UPDATE, and the season compared with the one evaluated.
Lock(r) ==
    /\ At(r, "lock") /\ db = "opening"
    /\ Goto(r, IF identity = adv[r].season THEN "retire" ELSE "done")
    /\ UNCHANGED <<season_vars, engine_vars, reader, feedback_vars, faults, history>>

Retire(r) ==
    /\ At(r, "retire")
    /\ current' = <<>>
    /\ Goto(r, "insert")
    /\ UNCHANGED <<identity, audit, engine_vars, reader, feedback_vars, faults, history>>

Insert(r) ==
    /\ At(r, "insert")
    /\ current' = Append(current, adv[r].season + 1)
    /\ Goto(r, "identity")
    /\ UNCHANGED <<identity, audit, engine_vars, reader, feedback_vars, faults, history>>

SetIdentity(r) ==
    /\ At(r, "identity")
    /\ identity' = adv[r].season + 1
    /\ Goto(r, "audit")
    /\ UNCHANGED <<current, audit, engine_vars, reader, feedback_vars, faults, history>>

Audit(r) ==
    /\ At(r, "audit")
    /\ audit' = Append(audit, adv[r].season + 1)
    /\ Goto(r, "invalidate")
    /\ UNCHANGED <<identity, current, engine_vars, reader, feedback_vars, faults, history>>

\* The block is left, and invalidate_engine drops the cached engine.
Invalidate(r) ==
    /\ At(r, "invalidate")
    /\ cached' = 0
    /\ Goto(r, "done")
    /\ UNCHANGED <<season_vars, engines, reader, feedback_vars, faults, history>>

------------------------------------------------------------------------------
(* get_engine, and what its callers do with the engine. *)
Engine(t) == engines[reader[t].engine]

\* A confirmation carries what an earlier flag returned.
Ask(t, job, c) ==
    /\ reader[t].pc = "idle"
    /\ job = "confirm" => flagged[c] # Unborn
    /\ reader' = [reader EXCEPT ![t] =
                    [@ EXCEPT !.pc = IF cached = 0 THEN "load" ELSE "use",
                              !.engine = cached, !.job = job, !.about = c]]
    /\ UNCHANGED <<season_vars, adv, engine_vars, feedback_vars, faults, history>>

Load(t) ==
    /\ reader[t].pc = "load"
    /\ reader' = [reader EXCEPT ![t].pc = "store", ![t].loaded = LoadConstraints]
    /\ UNCHANGED <<season_vars, adv, engine_vars, feedback_vars, faults, history>>

\* Whatever is cached by now is replaced.
Store(t) ==
    /\ reader[t].pc = "store"
    /\ engines' = Append(engines, [season |-> reader[t].loaded, learned |-> <<>>])
    /\ cached' = Len(engines) + 1
    /\ reader' = [reader EXCEPT ![t].pc = "use", ![t].engine = Len(engines) + 1]
    /\ UNCHANGED <<season_vars, adv, feedback_vars, faults, history>>

Finish(t) == reader' = [reader EXCEPT ![t].pc = "done"]

\* confirm_correction: the engine the caller holds learns it.
Learn(t, by) ==
    engines' = [engines EXCEPT ![reader[t].engine].learned =
                  Append(@, [about |-> reader[t].about, by |-> by])]

\* POST /lina/feedback/flag hands the pending correction to its caller.
Flag(t) ==
    LET c == reader[t].about IN
    /\ reader[t].pc = "use" /\ reader[t].job = "flag"
    /\ flagged[c] = Unborn
    /\ flagged' = [flagged EXCEPT ![c] = Engine(t).season]
    /\ Finish(t)
    /\ UNCHANGED <<season_vars, adv, engine_vars, listed, faults, history>>

\* Mutant: a turn confirms its own corrections in every season.
TurnTeachesAlways(t) ==
    LET c == reader[t].about IN
    /\ reader[t].pc = "use" /\ reader[t].job = "turn"
    /\ flagged[c] = Unborn
    /\ flagged' = [flagged EXCEPT ![c] = Engine(t).season]
    /\ Finish(t) /\ Learn(t, "lina")
    /\ UNCHANGED <<season_vars, adv, cached, listed, faults, history>>

\* A turn whose response was corrected flags it; past Spring she confirms it
\* herself, before that it is saved for the user.
TurnTeaches(t) ==
    LET c == reader[t].about IN
    /\ reader[t].pc = "use" /\ reader[t].job = "turn"
    /\ flagged[c] = Unborn
    /\ flagged' = [flagged EXCEPT ![c] = Engine(t).season]
    /\ IF Engine(t).season = Spring
       THEN /\ reader' = [reader EXCEPT ![t].pc = "save"]
            /\ UNCHANGED engines
       ELSE Finish(t) /\ Learn(t, "lina")
    /\ UNCHANGED <<season_vars, adv, cached, listed, faults, history>>

SavePending(t) ==
    /\ reader[t].pc = "save"
    /\ listed' = listed \cup {reader[t].about}
    /\ Finish(t)
    /\ UNCHANGED <<season_vars, adv, engine_vars, flagged, faults, history>>

\* Mutant: the season of the engine at hand decides, not the correction's.
ConfirmBySeasonNow(t, by) ==
    /\ reader[t].pc = "use" /\ reader[t].job = "confirm"
    /\ IF Engine(t).season = Spring /\ by # "user"
       THEN UNCHANGED engines ELSE Learn(t, by)
    /\ Finish(t)
    /\ UNCHANGED <<season_vars, adv, cached, feedback_vars, faults, history>>

\* POST /lina/feedback/confirm: what was flagged in Spring takes the user's word.
Confirm(t, by) ==
    /\ reader[t].pc = "use" /\ reader[t].job = "confirm"
    /\ IF flagged[reader[t].about] = Spring /\ by # "user"
       THEN UNCHANGED engines ELSE Learn(t, by)
    /\ Finish(t)
    /\ UNCHANGED <<season_vars, adv, cached, feedback_vars, faults, history>>

\* A statement or a cache operation fails; its request answers with an error.
Fault ==
    /\ faults < MaxFaults
    /\ faults' = faults + 1
    /\ \/ \E r \in Requests : ~At(r, "idle") /\ ~At(r, "done") /\ Goto(r, "done")
                              /\ UNCHANGED reader
       \/ \E t \in Readers : reader[t].pc \in {"load", "save"} /\ Finish(t)
                             /\ UNCHANGED adv
    /\ UNCHANGED <<season_vars, engine_vars, feedback_vars, history>>

\* The service stops and starts: nothing in flight and no engine survives.
Restart ==
    /\ faults < MaxFaults
    /\ faults' = faults + 1
    /\ adv' = [r \in Requests |-> IF At(r, "idle") THEN adv[r]
                                  ELSE [adv[r] EXCEPT !.pc = "done"]]
    /\ reader' = [t \in Readers |-> IF reader[t].pc = "idle" THEN reader[t]
                                    ELSE [reader[t] EXCEPT !.pc = "done"]]
    /\ cached' = 0
    /\ UNCHANGED <<season_vars, engines, feedback_vars, history>>

Advance(r) ==
    \/ ReadIdentity(r) \/ \E m \in Metrics : Evaluate(r, m)
    \/ LockRaises(r) \/ Lock(r) \/ Retire(r) \/ Insert(r) \/ SetIdentity(r) \/ Audit(r)
    \/ Invalidate(r)

Use(t) ==
    \/ \E job \in {"turn", "flag", "confirm"}, c \in Corrections : Ask(t, job, c)
    \/ Load(t) \/ Store(t) \/ Flag(t) \/ TurnTeaches(t) \/ SavePending(t)
    \/ \E by \in Parties : Confirm(t, by)

Next ==
    \/ \E r \in Requests : LookForBirth(r) \/ Birth(r) \/ Advance(r)
    \/ \E t \in Readers : Use(t)
    \/ Fault \/ Restart

Spec == Init /\ [][Next]_vars

------------------------------------------------------------------------------
\* Types: among them, that a request never goes beyond Winter, and that a held
\* engine exists.
TypeOK ==
    /\ identity \in Seasons \cup {Unborn}
    /\ current \in Seq(Seasons) /\ audit \in Seq(Seasons)
    /\ adv \in [Requests ->
         [pc : {"idle", "birth", "evaluate", "lock", "retire", "insert",
                "identity", "audit", "invalidate", "done"},
          season : Seasons \cup {Unborn}]]
    /\ engines \in Seq([season : Seasons,
                        learned : Seq([about : Corrections, by : Parties])])
    /\ cached \in 0..Len(engines)
    /\ reader \in [Readers ->
         [pc : {"idle", "load", "store", "use", "save", "done"},
          job : {"turn", "flag", "confirm"}, engine : 0..Len(engines),
          loaded : Seasons, about : Corrections]]
    /\ flagged \in [Corrections -> Seasons \cup {Unborn}]
    /\ listed \subseteq Corrections
    /\ faults \in Nat
    /\ db \in Databases /\ earned \subseteq Seasons

\* Trust is demonstrated: whatever order the statements of concurrent advances
\* come in, and wherever one breaks off, no season and no bounds are in force,
\* stored or used by a turn that some evaluation did not find earned.
NothingUnearned ==
    /\ identity \in earned \cup {Unborn}
    /\ \A i \in 1..Len(current) : current[i] \in earned
    /\ \A i \in 1..Len(audit) : audit[i] \in earned
    /\ \A i \in 1..Len(engines) : engines[i].season \in earned

\* What was flagged in Spring is learned with the user's word only, also when the
\* season turns between the flag and its confirmation.
SpringTakesTwo == \A o \in 1..Len(engines) : \A i \in 1..Len(engines[o].learned) :
    LET lesson == engines[o].learned[i] IN
        lesson.by = "lina" => flagged[lesson.about] > Spring

\* "Evaluate whether LINA has earned season advancement, and advance if so": as long
\* as no statement fails, what she has earned is hers once no request is under way.
\* With the pool the service is given it never is.
EarnedIsEntered ==
    faults = 0 /\ identity # Unborn /\ (\A r \in Requests : At(r, "idle") \/ At(r, "done")) =>
        \A s \in earned : identity >= s

\* "If another request already advanced, there is no double transition."  Were the
\* block to open, the row lock would not keep it: it ends with its own statement.
NoDoubleTransition ==
    \A i, j \in 1..Len(audit) : audit[i] = audit[j] => i = j

\* "The new polytope applies immediately": the cached engine has the bounds in force
\* once an advance is over.  Were the block to open, an engine whose bounds were read
\* before the advance is cached after it.
EngineFollowsSeason ==
    cached # 0 /\ faults = 0 /\ (\A r \in Requests : ~Open(r)) =>
        engines[cached].season = LoadConstraints

\* What the endpoint says: the list holds the "corrections awaiting mutual
\* agreement", so none that is agreed on.
ListedAwaits == \A o \in 1..Len(engines) : \A i \in 1..Len(engines[o].learned) :
    engines[o].learned[i].about \notin listed
==============================================================================
