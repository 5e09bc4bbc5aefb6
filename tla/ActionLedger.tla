----------------------------- MODULE ActionLedger -----------------------------
(***************************************************************************)
(* The human-in-the-loop ledger: the table lina_actions (lina/actions.py)  *)
(* and the requests that work on it: the four endpoints of lina_service.py *)
(* and the tool intents of a chat turn (lina/tools.py), pass after pass.   *)
(* A request is a coroutine that may be suspended at every database        *)
(* statement, so each statement is a step; a chat turn is cancelled when   *)
(* its client leaves the stream, between any two of them.                  *)
(*                                                                         *)
(* ran and claimant are history: what execute_action did for each action,  *)
(* and which request's claim moved its row out of 'pending'.               *)
(***************************************************************************)
EXTENDS Naturals, Sequences

CONSTANTS
    Actions,     \* the action ids that may be drawn
    Requests,    \* the requests of one behaviour
    Users,
    Types,       \* action types, as far as grants tell them apart
    Payloads,
    Nobody,      \* no request
    MaxFaults    \* bound: failed statements and restarts in one behaviour

ASSUME LedgerAssumption ==
    /\ Payloads # {} /\ Users # {} /\ Actions # {} /\ Types # {}
    /\ Nobody \notin Requests
    /\ MaxFaults \in Nat

VARIABLES
    row,        \* the table, by action id; status "none" is no row
    grants,     \* the types each user has granted
    season,     \* each user's season, as far as Winter goes
    req,        \* the requests
    ran,        \* payloads each action was executed with
    claimant,   \* the request that claimed each action
    faults

vars == <<row, grants, season, req, ran, claimant, faults>>

------------------------------------------------------------------------------
Statuses == {"none", "pending", "approved", "executed", "failed", "rejected"}
Settled  == {"executed", "failed"}
Unasked  == {"propose", "chat"}
Kinds    == Unasked \cup {"none", "approve", "reject", "modify"}
Seasons  == {"earlier", "winter"}
Steps    == {"idle", "season", "grants", "pass", "offer", "claim", "lookup",
             "run", "finalize", "done"}
Answers  == {"none", "proposed", "over", "left", "404", "409", "500", "rejected"}
            \cup Settled

\* A request at the start of its handler, told to act on a with payload p; season
\* and auto are the season and the grants it has read, acted what a chat turn's
\* pass has executed.  trusted (history) collects the types that were granted at
\* some moment since a proposal, or the present pass of a turn, began.
Begin(kind, pc, u, a, p) ==
    [kind |-> kind, pc |-> pc, user |-> u, action |-> a, payload |-> p,
     season |-> "earlier", auto |-> {}, acted |-> {}, trusted |-> {},
     answer |-> "none"]

At(r, pc) == req[r].pc = pc
Goto(r, pc) == req' = [req EXCEPT ![r].pc = pc]
\* What the handler had read goes with it.
Reply(r, answer) ==
    req' = [req EXCEPT ![r] =
              [Begin(@.kind, "done", @.user, @.action, @.payload)
                 EXCEPT !.answer = answer]]

\* The row that store.propose inserts, after its validation.
Insert(u, a, t, p) ==
    /\ row[a].status = "none"
    /\ row' = [row EXCEPT ![a] =
                 [status |-> "pending", user |-> u, type |-> t, payload |-> p]]

\* The endpoints pass a keyword execute_action does not have: the call raises
\* before anything runs.  Only the chat turn calls it as it is declared.
Binds(kind) == kind = "chat"

------------------------------------------------------------------------------
Init ==
    /\ \E u \in Users, t \in Types, p \in Payloads :
         /\ row = [a \in Actions |->
                    [status |-> "none", user |-> u, type |-> t, payload |-> p]]
         /\ \E a \in Actions :
              req = [r \in Requests |->
                      [kind |-> "none", pc |-> "idle", user |-> u, action |-> a,
                       payload |-> p, season |-> "earlier", auto |-> {},
                       acted |-> {}, trusted |-> {}, answer |-> "none"]]
    /\ grants \in [Users -> SUBSET Types]
    /\ season \in [Users -> Seasons]
    /\ ran = [a \in Actions |-> <<>>]
    /\ claimant = [a \in Actions |-> Nobody]
    /\ faults = 0

\* The settings endpoint saves u's grants as a whole.
SetGrants(u, types) ==
    /\ types # grants[u]
    /\ grants' = [grants EXCEPT ![u] = types]
    /\ req' = [r \in Requests |->
                 IF req[r].user = u /\ req[r].pc # "done" /\ req[r].kind \in Unasked
                 THEN [req[r] EXCEPT !.trusted = @ \cup types] ELSE req[r]]
    /\ UNCHANGED <<row, season, ran, claimant, faults>>

\* u's season advances to Winter, which pre-authorises every type.
WinterComes(u) ==
    /\ season[u] # "winter"
    /\ season' = [season EXCEPT ![u] = "winter"]
    /\ UNCHANGED <<row, grants, req, ran, claimant, faults>>

(* POST /lina/actions/propose *)
Propose(r, u, a, t, p) ==
    /\ At(r, "idle")
    /\ Insert(u, a, t, p)
    /\ req' = [req EXCEPT ![r] =
                 [Begin("propose", "season", u, a, p) EXCEPT !.trusted = grants[u]]]
    /\ UNCHANGED <<grants, season, ran, claimant, faults>>

\* The season and the grants are read from the same row, one after the other.
ConsultSeason(r) ==
    /\ At(r, "season")
    /\ req' = [req EXCEPT ![r].pc = "grants", ![r].season = season[req[r].user]]
    /\ UNCHANGED <<row, grants, season, ran, claimant, faults>>

ConsultGrants(r) ==
    /\ At(r, "grants")
    /\ IF \/ req[r].season = "winter"
          \/ row[req[r].action].type \in grants[req[r].user]
       THEN Goto(r, "claim")
       ELSE Reply(r, "proposed")
    /\ UNCHANGED <<row, grants, season, ran, claimant, faults>>

(* A chat turn keeps the engine it got at its start, and with it that       *)
(* engine's season: of an engine built before Winter came, an earlier one. *)
ChatBegin(r, u) ==
    /\ At(r, "idle")
    /\ \E held \in {"earlier", season[u]} :
         req' = [req EXCEPT ![r] =
                   [Begin("chat", "pass", u, @.action, @.payload)
                      EXCEPT !.season = held]]
    /\ UNCHANGED <<row, grants, season, ran, claimant, faults>>

\* Mutant: the grants are read in the first pass and serve the later ones.
ReadGrantsOnce(r) ==
    /\ At(r, "pass")
    /\ LET given == grants[req[r].user] IN
         req' = [req EXCEPT ![r].pc = "offer", ![r].acted = {},
                            ![r].auto = IF req[r].acted = {} THEN given ELSE @,
                            ![r].trusted = given]
    /\ UNCHANGED <<row, grants, season, ran, claimant, faults>>

\* A pass with intents reads the grants, then offers the intents one by one.
ReadGrants(r) ==
    /\ At(r, "pass")
    /\ LET given == grants[req[r].user] IN
         req' = [req EXCEPT ![r].pc = "offer", ![r].acted = {},
                            ![r].auto = given, ![r].trusted = given]
    /\ UNCHANGED <<row, grants, season, ran, claimant, faults>>

Offer(r, a, t, p) ==
    /\ At(r, "offer")
    /\ Insert(req[r].user, a, t, p)
    /\ req' = [req EXCEPT ![r].action = a, ![r].payload = p,
                          ![r].pc = IF \/ req[r].season = "winter"
                                       \/ t \in req[r].auto
                                    THEN "claim" ELSE "offer"]
    /\ UNCHANGED <<grants, season, ran, claimant, faults>>

\* Only a pass that executed something is followed by another.
NextPass(r) ==
    /\ At(r, "offer")
    /\ req[r].acted # {}
    /\ Goto(r, "pass")
    /\ UNCHANGED <<row, grants, season, ran, claimant, faults>>

\* The turn is over: no intents, none that the polytope lets pass, nothing
\* executed, or too many passes.
EndTurn(r) ==
    /\ req[r].pc \in {"pass", "offer"}
    /\ Reply(r, "over")
    /\ UNCHANGED <<row, grants, season, ran, claimant, faults>>

(* POST /lina/actions/{id}/approve, /reject and /modify.  Whose request it *)
(* is matters to reject only.                                              *)
Approve(r, a) ==
    /\ At(r, "idle")
    /\ row[a].status # "none"
    /\ req' = [req EXCEPT ![r] =
                 Begin("approve", "claim", row[a].user, a, row[a].payload)]
    /\ UNCHANGED <<row, grants, season, ran, claimant, faults>>

\* Mutant: the update does not ask for a pending row.
RejectAny(r, u, a) ==
    /\ At(r, "idle")
    /\ row[a].status # "none" /\ row[a].user = u
    /\ row' = [row EXCEPT ![a].status = "rejected"]
    /\ req' = [req EXCEPT ![r] =
                 [Begin("reject", "done", u, a, row[a].payload)
                    EXCEPT !.answer = "rejected"]]
    /\ UNCHANGED <<grants, season, ran, claimant, faults>>

Reject(r, u, a) ==
    /\ At(r, "idle")
    /\ row[a].status = "pending" /\ row[a].user = u
    /\ row' = [row EXCEPT ![a].status = "rejected"]
    /\ req' = [req EXCEPT ![r] =
                 [Begin("reject", "done", u, a, row[a].payload)
                    EXCEPT !.answer = "rejected"]]
    /\ UNCHANGED <<grants, season, ran, claimant, faults>>

\* Mutant: the update does not ask for a pending row.
ModifyAny(r, a, p) ==
    /\ At(r, "idle")
    /\ row[a].status # "none"
    /\ row' = [row EXCEPT ![a].payload = p]
    /\ req' = [req EXCEPT ![r] = Begin("modify", "claim", row[a].user, a, p)]
    /\ UNCHANGED <<grants, season, ran, claimant, faults>>

Modify(r, a, p) ==
    /\ At(r, "idle")
    /\ row[a].status = "pending"
    /\ row' = [row EXCEPT ![a].payload = p]
    /\ req' = [req EXCEPT ![r] = Begin("modify", "claim", row[a].user, a, p)]
    /\ UNCHANGED <<grants, season, ran, claimant, faults>>

\* Mutant: a claim takes what another request has claimed already.
ClaimAgain(r) ==
    LET a == req[r].action IN
    /\ At(r, "claim")
    /\ row[a].status \in {"pending", "approved"}
    /\ row' = [row EXCEPT ![a].status = "approved"]
    /\ claimant' = [claimant EXCEPT ![a] = r]
    /\ Goto(r, "run")
    /\ UNCHANGED <<grants, season, ran, faults>>

\* store.claim: one UPDATE ... WHERE status = 'pending' RETURNING *.
ClaimWins(r) ==
    LET a == req[r].action IN
    /\ At(r, "claim")
    /\ row[a].status = "pending"
    /\ row' = [row EXCEPT ![a].status = "approved"]
    /\ claimant' = [claimant EXCEPT ![a] = r]
    /\ Goto(r, "run")
    /\ UNCHANGED <<grants, season, ran, faults>>

ClaimMisses(r) ==
    /\ At(r, "claim")
    /\ row[req[r].action].status # "pending"
    /\ \/ req[r].kind = "propose" /\ Reply(r, "proposed")
       \/ req[r].kind = "chat"    /\ Goto(r, "offer")
       \/ req[r].kind = "approve" /\ Goto(r, "lookup")
       \/ req[r].kind = "modify"  /\ Reply(r, "409")
    /\ UNCHANGED <<row, grants, season, ran, claimant, faults>>

\* An approval that came too late answers with what it finds in the row.
Lookup(r) ==
    /\ At(r, "lookup")
    /\ LET status == row[req[r].action].status IN
         Reply(r, CASE status \in Settled    -> status
                    [] status = "rejected"   -> "409"
                    [] OTHER                 -> "404")
    /\ UNCHANGED <<row, grants, season, ran, claimant, faults>>

\* Mutant: the payload the request came with is executed, not the row's.
RunOwnPayload(r) ==
    /\ At(r, "run")
    /\ Binds(req[r].kind)
    /\ ran' = [ran EXCEPT ![req[r].action] = Append(@, req[r].payload)]
    /\ Goto(r, "finalize")
    /\ UNCHANGED <<row, grants, season, claimant, faults>>

\* execute_action runs the claimed row and never raises.
Run(r) ==
    LET a == req[r].action IN
    /\ At(r, "run")
    /\ Binds(req[r].kind)
    /\ ran' = [ran EXCEPT ![a] = Append(@, row[a].payload)]
    /\ Goto(r, "finalize")
    /\ UNCHANGED <<row, grants, season, claimant, faults>>

\* The call raises: propose swallows it, approve and modify answer 500.
RunRaises(r) ==
    /\ At(r, "run")
    /\ ~Binds(req[r].kind)
    /\ Reply(r, IF req[r].kind = "propose" THEN "proposed" ELSE "500")
    /\ UNCHANGED <<row, grants, season, ran, claimant, faults>>

\* Mutant: the outcome is not recorded.
FinalizeNothing(r) ==
    /\ At(r, "finalize")
    /\ req' = [req EXCEPT ![r].pc = "offer", ![r].acted = @ \cup {req[r].action}]
    /\ UNCHANGED <<row, grants, season, ran, claimant, faults>>

\* store.finalize writes whatever the row says by then.
Finalize(r) ==
    /\ At(r, "finalize")
    /\ \E status \in Settled :
         row' = [row EXCEPT ![req[r].action].status = status]
    /\ req' = [req EXCEPT ![r].pc = "offer", ![r].acted = @ \cup {req[r].action}]
    /\ UNCHANGED <<grants, season, ran, claimant, faults>>

\* A statement fails, or the service stops, before r's next step.
Fault(r) ==
    /\ req[r].pc \notin {"idle", "done"}
    /\ faults < MaxFaults
    /\ faults' = faults + 1
    /\ Reply(r, IF req[r].kind = "propose" THEN "proposed" ELSE "500")
    /\ UNCHANGED <<row, grants, season, ran, claimant>>

\* The client leaves the stream: the turn is cancelled where it stands.
Leave(r) ==
    /\ req[r].kind = "chat" /\ req[r].pc # "done"
    /\ Reply(r, "left")
    /\ UNCHANGED <<row, grants, season, ran, claimant, faults>>

Arrive(r) == \E a \in Actions :
    \/ \E u \in Users, t \in Types, p \in Payloads : Propose(r, u, a, t, p)
    \/ Approve(r, a)
    \/ \E u \in Users : Reject(r, u, a)
    \/ \E p \in Payloads : Modify(r, a, p)

Proceed(r) ==
    \/ ConsultSeason(r) \/ ConsultGrants(r)
    \/ ReadGrants(r) \/ NextPass(r) \/ EndTurn(r)
    \/ \E a \in Actions, t \in Types, p \in Payloads : Offer(r, a, t, p)
    \/ ClaimWins(r) \/ ClaimMisses(r) \/ Lookup(r)
    \/ Run(r) \/ RunRaises(r) \/ Finalize(r)

Next ==
    \/ \E r \in Requests :
         \/ Arrive(r) \/ \E u \in Users : ChatBegin(r, u)
         \/ Proceed(r) \/ Leave(r) \/ Fault(r)
    \/ \E u \in Users :
         \/ WinterComes(u)
         \/ \E types \in SUBSET Types : SetGrants(u, types)

Spec == Init /\ [][Next]_vars

\* The event loop runs every coroutine that can go on; nobody owes a request.
FairSpec == Spec /\ \A r \in Requests : WF_vars(Proceed(r))

------------------------------------------------------------------------------
\* Types: among them, that a row's status and a handler's answer are ones that
\* lina_actions and the endpoints know.
TypeOK ==
    /\ row \in [Actions -> [status : Statuses, user : Users, type : Types,
                          payload : Payloads]]
    /\ grants \in [Users -> SUBSET Types]
    /\ season \in [Users -> Seasons]
    /\ req \in [Requests -> [kind : Kinds, pc : Steps, user : Users,
                  action : Actions, payload : Payloads, season : Seasons,
                  auto : SUBSET Types, acted : SUBSET Actions,
                  trusted : SUBSET Types, answer : Answers]]
    /\ ran \in [Actions -> Seq(Payloads)]
    /\ claimant \in [Actions -> Requests \cup {Nobody}]
    /\ faults \in Nat

\* The ledger tells the truth about the world: what was executed was approved
\* and never rejected, was executed once, and with the payload the row still
\* shows; and a row that says executed or failed was executed.
LedgerIsTrue == \A a \in Actions :
    /\ ran[a] # <<>> => /\ row[a].status \in {"approved"} \cup Settled
                        /\ ran[a] = <<row[a].payload>>
    /\ row[a].status \in Settled => ran[a] # <<>>

\* Whoever is about to execute or to record an action claimed it, so no two
\* requests ever hold the same one.
HolderClaimed == \A r \in Requests :
    req[r].pc \in {"run", "finalize"} =>
        /\ claimant[req[r].action] = r
        /\ row[req[r].action].status = "approved"

\* Without a human's request nothing is claimed before Winter whose type was not
\* granted at some moment since the proposal, or the present pass of the turn,
\* began: a grant revoked before that is not honoured, however long the turn has
\* been under way and whatever season its engine was built in.
AutoNeedsGrant == \A r \in Requests :
    req[r].pc = "run" /\ req[r].kind \in Unasked =>
        \/ season[req[r].user] = "winter"
        \/ row[req[r].action].type \in req[r].trusted

\* A verdict stands: a settled or rejected row never changes again, and an
\* approved one only by being settled.
VerdictsStand ==
    [][\A a \in Actions :
         /\ row[a].status \in Settled \cup {"rejected"} => row'[a] = row[a]
         /\ row[a].status = "approved" =>
              /\ row'[a].status \in {"approved"} \cup Settled
              /\ row'[a].payload = row[a].payload]_vars

\* How far a row's status says that consent to the action has got.
Standing == [none |-> "unasked", pending |-> "asked", approved |-> "given",
             executed |-> "given", failed |-> "given", rejected |-> "withheld"]
Gate == INSTANCE ConsentGate WITH
    consent <- [a \in Actions |-> Standing[row[a].status]],
    wish <- [a \in Actions |-> row[a].payload],
    deeds <- ran

\* The ledger implements the consent gate: execute_action runs nothing that was
\* not claimed, and nothing twice, in whatever order the handlers' statements
\* come.
ImplementsGate == Gate!Spec

\* What a chat turn claims is recorded as executed or failed, unless its client
\* left the stream, the database failed or the service stopped.
ClaimedBy(a, kind) == \E r \in Requests : claimant[a] = r /\ req[r].kind = kind
LeftBehind(a) == \E r \in Requests : claimant[a] = r /\ req[r].answer = "left"
ChatSettles == \A a \in Actions :
    ClaimedBy(a, "chat") ~>
        (row[a].status \in Settled \/ LeftBehind(a) \/ faults > 0)

\* What the documentation says of the endpoints.
\* An approval executes the action ("she executes it").
ApprovalExecutes == \A a \in Actions :
    ClaimedBy(a, "approve") ~> (row[a].status \in Settled \/ faults > 0)

\* What was done is on the record ("the record of what she did"), as long as no
\* statement fails and the service goes on.
DeedsRecorded == \A a \in Actions :
    ran[a] # <<>> ~> (row[a].status \in Settled \/ faults > 0)

\* A proposal whose grant path failed stays pending for manual approval.
FailedGrantStaysPending == \A r \in Requests :
    req[r].kind = "propose" /\ req[r].answer = "proposed" =>
        claimant[req[r].action] # r

\* The modified version is the one the modifier's request goes on to execute.
ModifierRunsOwnVersion == \A r \in Requests :
    req[r].kind = "modify" /\ req[r].pc = "run" =>
        row[req[r].action].payload = req[r].payload
==============================================================================
