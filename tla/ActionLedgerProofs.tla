-------------------------- MODULE ActionLedgerProofs --------------------------
(***************************************************************************)
(* For any number of requests, actions, users and faults: the ledger tells *)
(* the truth about what was executed, no two requests hold one action, and *)
(* the ledger implements the consent gate.                                 *)
(*                                                                         *)
(* LedgerIsTrue is not inductive alone: that Run executes an action for    *)
(* the first time, and that Finalize settles one that was executed, comes  *)
(* from where the holder of the claim stands (HolderClaimed, Deeds).       *)
(***************************************************************************)
EXTENDS ActionLedger, TLAPS

\* A claimed action is executed between run and finalize, and not before.
Deeds == \A r \in Requests :
    /\ req[r].pc = "run" => ran[req[r].action] = <<>>
    /\ req[r].pc = "finalize" => ran[req[r].action] # <<>>

IInv == TypeOK /\ LedgerIsTrue /\ HolderClaimed /\ Deeds

Request == [kind : Kinds, pc : Steps, user : Users, action : Actions,
            payload : Payloads, season : Seasons, auto : SUBSET Types,
            acted : SUBSET Actions, trusted : SUBSET Types, answer : Answers]
Row == [status : Statuses, user : Users, type : Types, payload : Payloads]

USE LedgerAssumption


\* The strings a record of the table or of a request may hold.
USE DEF Row, Request

LEMMA Typing == TypeOK <=>
    /\ row \in [Actions -> Row] /\ grants \in [Users -> SUBSET Types]
    /\ season \in [Users -> Seasons]
    /\ req \in [Requests -> Request] /\ ran \in [Actions -> Seq(Payloads)]
    /\ claimant \in [Actions -> Requests \cup {Nobody}] /\ faults \in Nat
    BY DEF TypeOK

\* Only r has moved: it now stands at pc and works on action a.
Moved(r, pc, a) ==
    /\ req' \in [Requests -> Request]
    /\ req'[r].pc = pc /\ req'[r].action = a
    /\ \A s \in Requests \ {r} : req'[s] = req[s]

LEMMA GotoMoves ==
    ASSUME TypeOK, NEW r \in Requests, NEW pc \in Steps, Goto(r, pc)
    PROVE  Moved(r, pc, req[r].action)
<1>1. req \in [Requests -> Request]
    BY DEF TypeOK
<1>2. req' = [req EXCEPT ![r] = [req[r] EXCEPT !.pc = pc]]
    BY <1>1 DEF Goto
<1>3. [req[r] EXCEPT !.pc = pc] \in Request
    BY <1>1
<1>4. QED
    BY <1>1, <1>2, <1>3 DEF Moved

LEMMA ReplyMoves ==
    ASSUME TypeOK, NEW r \in Requests, NEW answer \in Answers, Reply(r, answer)
    PROVE  Moved(r, "done", req[r].action)
<1> DEFINE q == [Begin(req[r].kind, "done", req[r].user, req[r].action,
                      req[r].payload) EXCEPT !.answer = answer]
<1>1. req \in [Requests -> Request]
    BY DEF TypeOK
<1>2. req' = [req EXCEPT ![r] = q]
    BY <1>1 DEF Reply
<1>3. q \in Request /\ q.pc = "done" /\ q.action = req[r].action
    BY <1>1 DEF Begin, Steps, Seasons
<1> HIDE DEF q
<1>4. QED
    BY <1>1, <1>2, <1>3 DEF Moved

LEMMA BeginMoves ==
    ASSUME TypeOK, NEW r \in Requests, NEW kind \in Kinds, NEW pc \in Steps,
           NEW u \in Users, NEW a \in Actions, NEW p \in Payloads,
           req' = [req EXCEPT ![r] = Begin(kind, pc, u, a, p)]
    PROVE  Moved(r, pc, a)
<1>1. req \in [Requests -> Request]
    BY DEF TypeOK
<1>2. Begin(kind, pc, u, a, p) \in Request
    BY DEF Begin, Answers, Seasons
<1>3. QED
    BY <1>1, <1>2 DEF Moved, Begin

LEMMA InitEstablishes == Init => IInv
<1> SUFFICES ASSUME Init PROVE IInv
    OBVIOUS
<1>0. PICK u \in Users, t \in Types, p \in Payloads :
        /\ row = [b \in Actions |->
                   [status |-> "none", user |-> u, type |-> t, payload |-> p]]
        /\ \E a \in Actions :
             req = [r \in Requests |->
                     [kind |-> "none", pc |-> "idle", user |-> u, action |-> a,
                      payload |-> p, season |-> "earlier", auto |-> {},
                      acted |-> {}, trusted |-> {}, answer |-> "none"]]
    BY DEF Init
<1>1. PICK a \in Actions :
        req = [r \in Requests |->
                [kind |-> "none", pc |-> "idle", user |-> u, action |-> a,
                 payload |-> p, season |-> "earlier", auto |-> {},
                 acted |-> {}, trusted |-> {}, answer |-> "none"]]
    BY <1>0
<1>2. row \in [Actions -> Row] /\ req \in [Requests -> Request]
    BY <1>0, <1>1 DEF Statuses, Kinds, Steps, Seasons, Answers
<1>3. TypeOK
    BY <1>2, Typing DEF Init
<1>4. LedgerIsTrue /\ HolderClaimed /\ Deeds
    BY <1>0, <1>1 DEF Init, LedgerIsTrue, Settled, HolderClaimed, Deeds
<1>5. QED
    BY <1>3, <1>4 DEF IInv

------------------------------------------------------------------------------
\* A request that neither claims nor works on what it claimed disturbs nothing.
LEMMA QuietStepKeeps ==
    ASSUME IInv, NEW r \in Requests, NEW pc \in Steps \ {"run", "finalize"},
           NEW a \in Actions, Moved(r, pc, a),
           UNCHANGED <<row, ran, claimant, grants, season>>, faults' \in Nat
    PROVE  IInv'
<1>1. TypeOK'
    BY Typing DEF IInv, TypeOK, Moved
<1>2. LedgerIsTrue'
    BY DEF IInv, LedgerIsTrue
<1>3. \A s \in Requests : req'[s].pc \in {"run", "finalize"} => req'[s] = req[s]
    BY DEF Moved
<1>4. HolderClaimed' /\ Deeds'
    BY <1>3 DEF IInv, HolderClaimed, Deeds
<1>5. QED
    BY <1>1, <1>2, <1>4 DEF IInv

\* So does writing a row nobody has claimed.
LEMMA UnclaimedRowKeeps ==
    ASSUME IInv, NEW r \in Requests, NEW pc \in Steps \ {"run", "finalize"},
           NEW b \in Actions, Moved(r, pc, b),
           NEW a \in Actions, row[a].status \in {"none", "pending"},
           NEW w \in Row, w.status \in {"pending", "rejected"},
           row' = [row EXCEPT ![a] = w],
           UNCHANGED <<ran, claimant, grants, season, faults>>
    PROVE  IInv'
<1>0. row \in [Actions -> Row]
    BY DEF IInv, TypeOK
<1>1. TypeOK'
    BY <1>0, Typing DEF IInv, TypeOK, Moved
<1>2. row'[a] = w /\ \A c \in Actions \ {a} : row'[c] = row[c]
    BY <1>0
<1>3. ran[a] = <<>>
    BY DEF IInv, LedgerIsTrue, Settled
<1>4. LedgerIsTrue'
    BY <1>2, <1>3 DEF IInv, LedgerIsTrue, Settled
<1>5. \A s \in Requests : req'[s].pc \in {"run", "finalize"} =>
        req'[s] = req[s] /\ req[s].action # a /\ req[s].action \in Actions
    BY DEF Moved, IInv, HolderClaimed, TypeOK
<1>6. HolderClaimed' /\ Deeds'
    BY <1>2, <1>5 DEF IInv, HolderClaimed, Deeds
<1>7. QED
    BY <1>1, <1>4, <1>6 DEF IInv

LEMMA ClaimKeeps ==
    ASSUME IInv, NEW r \in Requests, ClaimWins(r)
    PROVE  IInv'
<1> DEFINE a == req[r].action
<1>1. /\ a \in Actions /\ row \in [Actions -> Row] /\ TypeOK
      /\ claimant \in [Actions -> Requests \cup {Nobody}]
    BY DEF IInv, TypeOK
<1>2. /\ row[a].status = "pending"
      /\ row' = [row EXCEPT ![a] = [row[a] EXCEPT !.status = "approved"]]
      /\ claimant' = [claimant EXCEPT ![a] = r]
      /\ Goto(r, "run")
      /\ UNCHANGED <<grants, season, ran, faults>>
    BY <1>1 DEF ClaimWins
<1>3. Moved(r, "run", a)
    BY <1>1, <1>2, GotoMoves DEF Steps
<1> HIDE DEF a
<1>4. /\ row' \in [Actions -> Row]
      /\ row'[a].status = "approved"
      /\ \A c \in Actions \ {a} : row'[c] = row[c]
      /\ claimant'[a] = r
      /\ \A c \in Actions \ {a} : claimant'[c] = claimant[c]
      /\ claimant' \in [Actions -> Requests \cup {Nobody}]
    BY <1>1, <1>2 DEF Statuses
<1>5. TypeOK'
    BY <1>1, <1>2, <1>3, <1>4, Typing DEF TypeOK, Moved
<1>6. ran[a] = <<>>
    BY <1>1, <1>2 DEF IInv, LedgerIsTrue, Settled
<1>7. LedgerIsTrue'
    BY <1>2, <1>4, <1>6 DEF IInv, LedgerIsTrue, Settled
<1>8. \A s \in Requests \ {r} : req'[s].pc \in {"run", "finalize"} =>
        req'[s] = req[s] /\ req[s].action # a /\ req[s].action \in Actions
    BY <1>2, <1>3 DEF Moved, IInv, HolderClaimed, TypeOK
<1>9. HolderClaimed' /\ Deeds'
    <2>1. ran' = ran /\ req'[r].pc = "run" /\ req'[r].action = a
        BY <1>2, <1>3 DEF Moved
    <2>2. \A s \in Requests \ {r} : req'[s].pc \in {"run", "finalize"} =>
            /\ req'[s] = req[s]
            /\ claimant'[req[s].action] = claimant[req[s].action]
            /\ row'[req[s].action] = row[req[s].action]
        BY <1>4, <1>8
    <2>3. HolderClaimed'
        BY <1>4, <2>1, <2>2 DEF IInv, HolderClaimed
    <2>4. Deeds'
        BY <1>6, <2>1, <2>2 DEF IInv, Deeds
    <2>5. QED
        BY <2>3, <2>4
<1>10. QED
    BY <1>5, <1>7, <1>9 DEF IInv

LEMMA RunKeeps ==
    ASSUME IInv, NEW r \in Requests, Run(r)
    PROVE  IInv'
<1> DEFINE a == req[r].action
<1>1. /\ a \in Actions /\ row \in [Actions -> Row] /\ TypeOK
      /\ ran \in [Actions -> Seq(Payloads)]
    BY DEF IInv, TypeOK
<1>2. /\ ran' = [ran EXCEPT ![a] = Append(ran[a], row[a].payload)]
      /\ Goto(r, "finalize")
      /\ UNCHANGED <<row, grants, season, claimant, faults>>
      /\ req[r].pc = "run"
    BY <1>1 DEF Run, At
<1>3. Moved(r, "finalize", a)
    BY <1>1, <1>2, GotoMoves DEF Steps
<1>4. ran[a] = <<>> /\ row[a].status = "approved" /\ claimant[a] = r
    BY <1>2 DEF IInv, Deeds, HolderClaimed
<1> HIDE DEF a
<1>5. /\ ran' \in [Actions -> Seq(Payloads)]
      /\ ran'[a] = <<row[a].payload>> /\ ran'[a] # <<>>
      /\ \A c \in Actions \ {a} : ran'[c] = ran[c]
    BY <1>1, <1>2, <1>4
<1>6. TypeOK'
    BY <1>1, <1>2, <1>3, <1>5, Typing DEF TypeOK, Moved
<1>7. LedgerIsTrue'
    BY <1>2, <1>4, <1>5 DEF IInv, LedgerIsTrue, Settled
<1>8. \A s \in Requests \ {r} : req'[s].pc \in {"run", "finalize"} =>
        req'[s] = req[s] /\ req[s].action # a /\ req[s].action \in Actions
    BY <1>1, <1>3, <1>4 DEF Moved, IInv, HolderClaimed, TypeOK
<1>9. HolderClaimed'
    BY <1>2, <1>3, <1>4, <1>8 DEF Moved, IInv, HolderClaimed
<1>10. Deeds'
    <2>1. req'[r].pc = "finalize" /\ ran'[req'[r].action] # <<>>
        BY <1>3, <1>5 DEF Moved
    <2>2. \A s \in Requests \ {r} : req'[s].pc \in {"run", "finalize"} =>
            ran'[req'[s].action] = ran[req[s].action] /\ req'[s] = req[s]
        BY <1>5, <1>8
    <2>3. QED
        BY <2>1, <2>2 DEF IInv, Deeds
<1>11. QED
    BY <1>6, <1>7, <1>9, <1>10 DEF IInv

LEMMA FinalizeKeeps ==
    ASSUME IInv, NEW r \in Requests, Finalize(r)
    PROVE  IInv'
<1> DEFINE a == req[r].action
<1>1. a \in Actions /\ row \in [Actions -> Row] /\ TypeOK
    BY DEF IInv, TypeOK
<1>2. PICK status \in Settled :
        row' = [row EXCEPT ![a] = [row[a] EXCEPT !.status = status]]
    BY <1>1 DEF Finalize
<1> DEFINE q == [req[r] EXCEPT !.pc = "offer", !.acted = req[r].acted \cup {a}]
<1>3. /\ req' = [req EXCEPT ![r] = q] /\ req[r].pc = "finalize"
      /\ req \in [Requests -> Request]
      /\ UNCHANGED <<grants, season, ran, claimant, faults>>
    BY <1>1, Typing DEF Finalize, At
<1>4. Moved(r, "offer", a)
    <2>1. req[r].acted \cup {a} \in SUBSET Actions
        BY <1>1, <1>3
    <2>2. q \in Request /\ q.pc = "offer" /\ q.action = a
        BY <1>3, <2>1 DEF Steps
    <2> HIDE DEF q
    <2>3. QED
        BY <1>3, <2>2 DEF Moved
<1>5. ran[a] # <<>> /\ row[a].status = "approved" /\ claimant[a] = r
    BY <1>3 DEF IInv, Deeds, HolderClaimed
<1> HIDE DEF a
<1>6. /\ row' \in [Actions -> Row]
      /\ row'[a].status \in Settled /\ row'[a].payload = row[a].payload
      /\ \A c \in Actions \ {a} : row'[c] = row[c]
    BY <1>1, <1>2 DEF Statuses, Settled
<1>7. TypeOK'
    BY <1>1, <1>3, <1>4, <1>6, Typing DEF TypeOK, Moved
<1>8. LedgerIsTrue'
    BY <1>3, <1>5, <1>6 DEF IInv, LedgerIsTrue
<1>9. \A s \in Requests : req'[s].pc \in {"run", "finalize"} =>
        req'[s] = req[s] /\ req[s].action # a /\ req[s].action \in Actions
    BY <1>1, <1>4, <1>5 DEF Moved, IInv, HolderClaimed, TypeOK
<1>10. HolderClaimed' /\ Deeds'
    BY <1>3, <1>6, <1>9 DEF IInv, HolderClaimed, Deeds
<1>11. QED
    BY <1>7, <1>8, <1>10 DEF IInv

LEMMA SetGrantsKeeps ==
    ASSUME IInv, NEW u \in Users, NEW types \in SUBSET Types, SetGrants(u, types)
    PROVE  IInv'
<1>1. /\ grants' = [grants EXCEPT ![u] = types]
      /\ req \in [Requests -> Request]
      /\ UNCHANGED <<row, season, ran, claimant, faults>>
    BY DEF IInv, TypeOK, SetGrants
<1>3. grants' \in [Users -> SUBSET Types]
    <2>1. grants \in [Users -> SUBSET Types]
        BY DEF IInv, TypeOK
    <2>2. QED
        BY <1>1, <2>1
<1>2. \A r \in Requests : req'[r] \in Request /\ req'[r].pc = req[r].pc
                          /\ req'[r].action = req[r].action
    <2> SUFFICES ASSUME NEW r \in Requests
                 PROVE  req'[r] \in Request /\ req'[r].pc = req[r].pc
                        /\ req'[r].action = req[r].action
        OBVIOUS
    <2> DEFINE t == req[r].trusted \cup types
    <2>1. t \in SUBSET Types
        BY <1>1
    <2>2. \/ req'[r] = req[r]
          \/ req'[r] = [req[r] EXCEPT !.trusted = t]
        BY DEF SetGrants
    <2> HIDE DEF t
    <2>3. req[r] \in Request
        BY <1>1
    <2>4. QED
        BY <2>1, <2>2, <2>3
<1>4. req' \in [Requests -> Request]
    BY <1>2 DEF SetGrants
<1>5. TypeOK'
    BY <1>1, <1>3, <1>4, Typing DEF IInv, TypeOK
<1>6. LedgerIsTrue' /\ HolderClaimed' /\ Deeds'
    BY <1>1, <1>2 DEF IInv, LedgerIsTrue, HolderClaimed, Deeds
<1>7. QED
    BY <1>5, <1>6 DEF IInv

LEMMA WinterKeeps ==
    ASSUME IInv, NEW u \in Users, WinterComes(u)
    PROVE  IInv'
<1>1. season' \in [Users -> Seasons] /\ UNCHANGED <<row, grants, req, ran, claimant, faults>>
    BY Typing DEF IInv, WinterComes, Seasons
<1>2. TypeOK'
    BY <1>1, Typing DEF IInv, TypeOK
<1>3. QED
    BY <1>1, <1>2 DEF IInv, LedgerIsTrue, HolderClaimed, Deeds

\* The requests that arrive: propose, approve, reject, modify.
LEMMA ArriveKeeps ==
    ASSUME IInv, NEW r \in Requests, Arrive(r)
    PROVE  IInv'
<1>0. TypeOK /\ row \in [Actions -> Row] /\ faults \in Nat
    BY DEF IInv, TypeOK
<1> USE DEF Kinds, Unasked, Steps
<1>1. ASSUME NEW u \in Users, NEW a \in Actions, NEW t \in Types,
             NEW p \in Payloads, Propose(r, u, a, t, p)
      PROVE  IInv'
    <2> DEFINE w == [status |-> "pending", user |-> u, type |-> t, payload |-> p]
               q == [Begin("propose", "season", u, a, p) EXCEPT !.trusted = grants[u]]
    <2>1. /\ row[a].status = "none" /\ row' = [row EXCEPT ![a] = w]
          /\ UNCHANGED <<ran, claimant, grants, season, faults>>
          /\ req' = [req EXCEPT ![r] = q]
        BY <1>1 DEF Propose, Insert
    <2>2. w \in Row
        BY DEF Statuses
    <2>5. q \in Request /\ q.pc = "season" /\ q.action = a
        <3>1. grants[u] \in SUBSET Types
            BY <1>0, Typing
        <3>2. QED
            BY <3>1 DEF Begin, Answers, Seasons
    <2> HIDE DEF q
    <2>3. Moved(r, "season", a)
        BY <1>0, <2>1, <2>5, Typing DEF Moved
    <2>4. QED
        BY <2>1, <2>2, <2>3, UnclaimedRowKeeps
<1>2. ASSUME NEW a \in Actions, Approve(r, a)
      PROVE  IInv'
    <2>1. row[a].user \in Users /\ row[a].payload \in Payloads
        BY <1>0
    <2>2. Moved(r, "claim", a)
        BY <1>0, <1>2, <2>1, BeginMoves DEF Approve
    <2>3. QED
        BY <1>0, <1>2, <2>2, QuietStepKeeps DEF Approve
<1>3. ASSUME NEW u \in Users, NEW a \in Actions, Reject(r, u, a)
      PROVE  IInv'
    <2> DEFINE w == [row[a] EXCEPT !.status = "rejected"]
               q == [Begin("reject", "done", u, a, row[a].payload)
                       EXCEPT !.answer = "rejected"]
    <2>1. /\ row[a].status = "pending" /\ row' = [row EXCEPT ![a] = w]
          /\ UNCHANGED <<ran, claimant, grants, season, faults>>
          /\ req' = [req EXCEPT ![r] = q]
        BY <1>0, <1>3 DEF Reject
    <2>2. w \in Row /\ w.status = "rejected"
        BY <1>0 DEF Statuses
    <2>3. q \in Request /\ q.pc = "done" /\ q.action = a
        <3>1. row[a].payload \in Payloads
            BY <1>0
        <3>2. QED
            BY <3>1 DEF Begin, Answers, Seasons
    <2> HIDE DEF w, q
    <2>4. Moved(r, "done", a)
        BY <1>0, <2>1, <2>3 DEF Moved, TypeOK
    <2>5. QED
        BY <2>1, <2>2, <2>4, UnclaimedRowKeeps
<1>4. ASSUME NEW a \in Actions, NEW p \in Payloads, Modify(r, a, p)
      PROVE  IInv'
    <2> DEFINE w == [row[a] EXCEPT !.payload = p]
    <2>1. /\ row[a].status = "pending" /\ row' = [row EXCEPT ![a] = w]
          /\ UNCHANGED <<ran, claimant, grants, season, faults>>
          /\ req' = [req EXCEPT ![r] = Begin("modify", "claim", row[a].user, a, p)]
        BY <1>0, <1>4 DEF Modify
    <2>2. w \in Row /\ w.status = "pending" /\ row[a].user \in Users
        BY <1>0, <2>1
    <2>3. Moved(r, "claim", a)
        BY <1>0, <2>1, <2>2, BeginMoves
    <2> HIDE DEF w
    <2>4. QED
        BY <2>1, <2>2, <2>3, UnclaimedRowKeeps
<1>5. QED
    BY <1>1, <1>2, <1>3, <1>4 DEF Arrive

\* A request reads its season or its grants and goes on.
LEMMA ReadingMoves ==
    ASSUME TypeOK, NEW r \in Requests,
           \/ \E u \in Users : ChatBegin(r, u)
           \/ ConsultSeason(r) \/ ReadGrants(r)
    PROVE  \E pc \in Steps \ {"run", "finalize"}, a \in Actions : Moved(r, pc, a)
<1>0. /\ req \in [Requests -> Request] /\ req[r] \in Request
      /\ season \in [Users -> Seasons] /\ grants \in [Users -> SUBSET Types]
    BY Typing
<1>1. ASSUME NEW u \in Users, ChatBegin(r, u) PROVE Moved(r, "pass", req[r].action)
    <2>1. PICK held \in {"earlier", season[u]} :
            req' = [req EXCEPT ![r] =
                      [Begin("chat", "pass", u, req[r].action, req[r].payload)
                         EXCEPT !.season = held]]
        BY <1>0, <1>1 DEF ChatBegin
    <2> DEFINE q == [Begin("chat", "pass", u, req[r].action, req[r].payload)
                       EXCEPT !.season = held]
    <2>2. held \in Seasons
        BY <1>0 DEF Seasons
    <2>3. q \in Request /\ q.pc = "pass" /\ q.action = req[r].action
        BY <1>0, <2>2 DEF Begin, Kinds, Unasked, Steps, Answers
    <2>4. req' = [req EXCEPT ![r] = q]
        BY <2>1
    <2> HIDE DEF q
    <2>5. QED
        BY <1>0, <2>3, <2>4 DEF Moved
<1>2. ASSUME ConsultSeason(r) PROVE Moved(r, "grants", req[r].action)
    <2> DEFINE q == [req[r] EXCEPT !.pc = "grants", !.season = season[req[r].user]]
    <2>1. req' = [req EXCEPT ![r] = q]
        BY <1>0, <1>2 DEF ConsultSeason
    <2>2. season[req[r].user] \in Seasons
        BY <1>0
    <2>3. q \in Request /\ q.pc = "grants" /\ q.action = req[r].action
        BY <1>0, <2>2 DEF Steps
    <2> HIDE DEF q
    <2>4. QED
        BY <1>0, <2>1, <2>3 DEF Moved
<1>3. ASSUME ReadGrants(r) PROVE Moved(r, "offer", req[r].action)
    <2> DEFINE given == grants[req[r].user]
               q == [req[r] EXCEPT !.pc = "offer", !.acted = {}, !.auto = given,
                                   !.trusted = given]
    <2>1. req' = [req EXCEPT ![r] = q]
        BY <1>0, <1>3 DEF ReadGrants
    <2>2. given \in SUBSET Types
        BY <1>0
    <2> HIDE DEF given
    <2>3. q \in Request /\ q.pc = "offer" /\ q.action = req[r].action
        BY <1>0, <2>2 DEF Steps
    <2> HIDE DEF q
    <2>4. QED
        BY <1>0, <2>1, <2>3 DEF Moved
<1>4. req[r].action \in Actions
    BY <1>0
<1>5. QED
    BY <1>1, <1>2, <1>3, <1>4 DEF Steps

LEMMA ReadingKeeps ==
    ASSUME IInv, NEW r \in Requests,
           \/ \E u \in Users : ChatBegin(r, u)
           \/ ConsultSeason(r) \/ ReadGrants(r)
    PROVE  IInv'
<1>1. UNCHANGED <<row, ran, claimant, grants, season, faults>>
    BY DEF ChatBegin, ConsultSeason, ReadGrants
<1>2. faults' \in Nat /\ TypeOK
    BY <1>1 DEF IInv, TypeOK
<1>3. \E pc \in Steps \ {"run", "finalize"}, a \in Actions : Moved(r, pc, a)
    BY <1>2, ReadingMoves
<1>4. QED
    BY <1>1, <1>2, <1>3, QuietStepKeeps

LEMMA OfferKeeps ==
    ASSUME IInv, NEW r \in Requests, NEW a \in Actions, NEW t \in Types,
           NEW p \in Payloads, Offer(r, a, t, p)
    PROVE  IInv'
<1> DEFINE w == [status |-> "pending", user |-> req[r].user, type |-> t,
                payload |-> p]
           pc == IF req[r].season = "winter" \/ t \in req[r].auto
                 THEN "claim" ELSE "offer"
           q == [req[r] EXCEPT !.action = a, !.payload = p, !.pc = pc]
<1>1. req \in [Requests -> Request] /\ pc \in {"claim", "offer"}
    BY DEF IInv, TypeOK
<1>2. /\ row[a].status = "none" /\ row' = [row EXCEPT ![a] = w]
      /\ UNCHANGED <<ran, claimant, grants, season, faults>>
      /\ req' = [req EXCEPT ![r] = q]
    BY <1>1 DEF Offer, Insert
<1> HIDE DEF pc
<1>3. q \in Request /\ q.pc = pc /\ q.action = a
    BY <1>1 DEF Steps
<1>4. w \in Row /\ w.status = "pending"
    BY <1>1 DEF Statuses
<1> HIDE DEF w, q
<1>5. Moved(r, pc, a)
    BY <1>1, <1>2, <1>3 DEF Moved
<1>6. QED
    BY <1>1, <1>2, <1>4, <1>5, UnclaimedRowKeeps DEF Steps

LEMMA AnswerKeeps ==
    ASSUME IInv, NEW r \in Requests,
           \/ ConsultGrants(r) \/ NextPass(r) \/ EndTurn(r) \/ ClaimMisses(r)
           \/ Lookup(r) \/ RunRaises(r) \/ Leave(r) \/ Fault(r)
    PROVE  IInv'
<1>1. /\ UNCHANGED <<row, grants, season, ran, claimant>> /\ faults' \in Nat
      /\ TypeOK /\ req[r].action \in Actions
    <2>1. TypeOK /\ faults \in Nat /\ req \in [Requests -> Request]
        BY DEF IInv, TypeOK
    <2>2. /\ UNCHANGED <<row, grants, season, ran, claimant>>
          /\ faults' \in {faults, faults + 1}
        BY DEF ConsultGrants, NextPass, EndTurn, ClaimMisses, Lookup, RunRaises,
               Leave, Fault
    <2>3. QED
        BY <2>1, <2>2
<1>2. \/ \E pc \in Steps \ {"run", "finalize"} : Goto(r, pc)
      \/ \E answer \in Answers : Reply(r, answer)
    <2>1. CASE ConsultGrants(r)
        BY <2>1 DEF ConsultGrants, Steps, Answers
    <2>2. CASE NextPass(r) \/ EndTurn(r) \/ Leave(r)
        BY <2>2 DEF NextPass, EndTurn, Leave, Steps, Answers
    <2>3. CASE ClaimMisses(r)
        BY <2>3 DEF ClaimMisses, Steps, Answers
    <2>4. CASE Lookup(r)
        BY <2>4 DEF Lookup, Answers
    <2>5. CASE RunRaises(r) \/ Fault(r)
        BY <2>5 DEF RunRaises, Fault, Answers
    <2>6. QED
        BY <2>1, <2>2, <2>3, <2>4, <2>5
<1>3. \E pc \in Steps \ {"run", "finalize"} : Moved(r, pc, req[r].action)
    BY <1>1, <1>2, GotoMoves, ReplyMoves DEF Steps
<1>4. QED
    BY <1>1, <1>3, QuietStepKeeps

LEMMA StepKeeps == IInv /\ [Next]_vars => IInv'
<1> SUFFICES ASSUME IInv, [Next]_vars PROVE IInv'
    OBVIOUS
<1>1. CASE UNCHANGED vars
    BY <1>1 DEF vars, IInv, TypeOK, LedgerIsTrue, HolderClaimed, Deeds
<1>2. ASSUME NEW r \in Requests, Arrive(r) PROVE IInv'
    BY <1>2, ArriveKeeps
<1>3. ASSUME NEW r \in Requests, Proceed(r) \/ Leave(r) \/ Fault(r) PROVE IInv'
    BY <1>3, AnswerKeeps, ReadingKeeps, OfferKeeps, ClaimKeeps, RunKeeps, FinalizeKeeps
       DEF Proceed
<1>4. ASSUME NEW r \in Requests, NEW u \in Users, ChatBegin(r, u) PROVE IInv'
    BY <1>4, ReadingKeeps
<1>5. ASSUME NEW u \in Users, NEW types \in SUBSET Types, SetGrants(u, types)
      PROVE  IInv'
    BY <1>5, SetGrantsKeeps
<1>6. ASSUME NEW u \in Users, WinterComes(u) PROVE IInv'
    BY <1>6, WinterKeeps
<1>7. QED
    BY <1>1, <1>2, <1>3, <1>4, <1>5, <1>6 DEF Next

LEMMA Invariance == Spec => []IInv
    BY InitEstablishes, StepKeeps, PTL DEF Spec

\* Every state of the ledger is well formed.
THEOREM TypeCorrect == Spec => []TypeOK
<1>1. IInv => TypeOK
    BY DEF IInv
<1>2. QED
    BY <1>1, Invariance, PTL

\* What was executed was approved, once, with the payload the ledger shows;
\* what the ledger calls executed or failed was executed.
THEOREM LedgerTellsTheTruth == Spec => []LedgerIsTrue
<1>1. IInv => LedgerIsTrue
    BY DEF IInv
<1>2. QED
    BY <1>1, Invariance, PTL

\* No two requests ever hold the same action.
THEOREM OneHolder == Spec => []HolderClaimed
<1>1. IInv => HolderClaimed
    BY DEF IInv
<1>2. QED
    BY <1>1, Invariance, PTL

------------------------------------------------------------------------------
(***************************************************************************)
(* Grants: what a request may claim by itself was granted while it was     *)
(* under way, or Winter had come.  The type of a row never changes once    *)
(* the row is there, and Winter stays.                                     *)
(***************************************************************************)
Trusting(q, rows, given, seasons) ==
    /\ q.pc \in {"season", "grants"} =>
         /\ q.kind = "propose" /\ rows[q.action].status # "none"
         /\ given[q.user] \subseteq q.trusted
    /\ q.auto \subseteq q.trusted
    /\ q.season = "winter" => seasons[q.user] = "winter"
    /\ q.pc \in {"pass", "offer", "finalize"} => q.kind = "chat"
    /\ q.pc \in {"claim", "run"} /\ q.kind \in Unasked =>
         /\ rows[q.action].status # "none"
         /\ seasons[q.user] = "winter" \/ rows[q.action].type \in q.trusted

Trust == \A r \in Requests : Trusting(req[r], row, grants, season)

KeepsTypes == \A a \in Actions :
    row[a].status # "none" => row'[a].status # "none" /\ row'[a].type = row[a].type

LEMMA ClaimKeepsTypes ==
    ASSUME TypeOK, NEW a \in Actions, NEW status, status # "none",
           row' = [row EXCEPT ![a].status = status]
    PROVE  KeepsTypes
    BY Typing DEF KeepsTypes

\* A step of r that leaves it trusting.
LEMMA OthersTrust ==
    ASSUME TypeOK, Trust, KeepsTypes, UNCHANGED <<grants, season>>, NEW r \in Requests,
           NEW q \in Request, req' = [req EXCEPT ![r] = q],
           Trusting(q, row', grants, season)
    PROVE  Trust'
<1> SUFFICES ASSUME NEW s \in Requests PROVE Trusting(req'[s], row', grants', season')
    BY DEF Trust
<1>1. CASE s = r
    BY <1>1, Typing
<1>2. CASE s # r
    <2>1. req'[s] = req[s] /\ req[s].action \in Actions
        BY <1>2, Typing
    <2>2. Trusting(req[s], row, grants, season)
        BY DEF Trust
    <2>3. QED
        BY <2>1, <2>2 DEF Trusting, KeepsTypes
<1>3. QED
    BY <1>1, <1>2

\* A step that only ends r, or moves a chat turn on to its next offer.
LEMMA LetsGo ==
    ASSUME TypeOK, Trust, KeepsTypes, UNCHANGED <<grants, season>>, NEW r \in Requests,
           \/ \E answer \in Answers : Reply(r, answer)
           \/ Goto(r, "lookup")
           \/ /\ req[r].kind = "chat"
              /\ Goto(r, "pass") \/ Goto(r, "offer") \/ Goto(r, "finalize")
    PROVE  Trust'
<1>0. req[r] \in Request /\ Trusting(req[r], row, grants, season)
    BY Typing DEF Trust
<1>1. ASSUME NEW answer \in Answers, Reply(r, answer) PROVE Trust'
    <2> DEFINE q == [Begin(req[r].kind, "done", req[r].user, req[r].action,
                          req[r].payload) EXCEPT !.answer = answer]
    <2>1. q \in Request /\ Trusting(q, row', grants, season)
        BY <1>0 DEF Begin, Steps, Seasons, Trusting
    <2>2. req' = [req EXCEPT ![r] = q]
        BY <1>1, Typing DEF Reply
    <2> HIDE DEF q
    <2>3. QED
        BY <2>1, <2>2, OthersTrust
<1>2. ASSUME NEW pc \in {"pass", "offer", "lookup", "finalize"}, Goto(r, pc),
             pc # "lookup" => req[r].kind = "chat"
      PROVE  Trust'
    <2> DEFINE q == [req[r] EXCEPT !.pc = pc]
    <2>1. q \in Request
        BY <1>0 DEF Steps
    <2>3. Trusting(q, row', grants, season)
        BY <1>0, <1>2 DEF Trusting
    <2>2. req' = [req EXCEPT ![r] = q]
        BY <1>2, Typing DEF Goto
    <2> HIDE DEF q
    <2>4. QED
        BY <2>1, <2>2, <2>3, OthersTrust
<1>3. QED
    BY <1>1, <1>2

LEMMA ArriveTrusts ==
    ASSUME TypeOK, Trust, NEW r \in Requests, Arrive(r)
    PROVE  Trust' /\ KeepsTypes
<1>0. /\ row \in [Actions -> Row] /\ UNCHANGED <<grants, season>>
      /\ \A u \in Users : grants[u] \in SUBSET Types
    BY Typing DEF Arrive, Propose, Approve, Reject, Modify
<1> USE DEF Kinds, Unasked, Steps, Seasons, Answers
<1>1. ASSUME NEW u \in Users, NEW a \in Actions, NEW t \in Types,
             NEW p \in Payloads, Propose(r, u, a, t, p)
      PROVE  Trust' /\ KeepsTypes
    <2> DEFINE w == [status |-> "pending", user |-> u, type |-> t, payload |-> p]
               q == [Begin("propose", "season", u, a, p) EXCEPT !.trusted = grants[u]]
    <2>1. /\ row[a].status = "none" /\ row' = [row EXCEPT ![a] = w]
          /\ req' = [req EXCEPT ![r] = q]
        BY <1>1 DEF Propose, Insert
    <2>2. KeepsTypes /\ row'[a].status = "pending"
        BY <1>0, <2>1 DEF KeepsTypes
    <2>3. q \in Request /\ Trusting(q, row', grants, season)
        BY <1>0, <2>2 DEF Begin, Trusting
    <2> HIDE DEF q
    <2>4. QED
        BY <1>0, <2>1, <2>2, <2>3, OthersTrust
<1>2. ASSUME NEW kind \in {"approve", "reject", "modify"}, NEW pc \in {"claim", "done"},
             NEW u \in Users, NEW a \in Actions, NEW p \in Payloads, NEW answer \in Answers,
             KeepsTypes,
             req' = [req EXCEPT ![r] = [Begin(kind, pc, u, a, p) EXCEPT !.answer = answer]]
      PROVE  Trust' /\ KeepsTypes
    <2> DEFINE q == [Begin(kind, pc, u, a, p) EXCEPT !.answer = answer]
    <2>1. q \in Request /\ Trusting(q, row', grants, season)
        BY <1>0 DEF Begin, Trusting
    <2>2. req' = [req EXCEPT ![r] = q]
        BY <1>2
    <2> HIDE DEF q
    <2>3. QED
        BY <1>0, <1>2, <2>1, <2>2, OthersTrust
<1>3. ASSUME NEW kind \in {"approve", "modify"}, NEW u \in Users, NEW a \in Actions,
             NEW p \in Payloads, KeepsTypes,
             req' = [req EXCEPT ![r] = Begin(kind, "claim", u, a, p)]
      PROVE  Trust' /\ KeepsTypes
    <2>1. Begin(kind, "claim", u, a, p)
            = [Begin(kind, "claim", u, a, p) EXCEPT !.answer = "none"]
        BY DEF Begin
    <2>2. QED
        BY <1>2, <1>3, <2>1
<1>4. ASSUME NEW a \in Actions, Approve(r, a)
      PROVE  Trust' /\ KeepsTypes
    <2>1. row[a].user \in Users /\ row[a].payload \in Payloads /\ KeepsTypes
        BY <1>0, <1>4 DEF Approve, KeepsTypes
    <2>2. QED
        BY <1>3, <1>4, <2>1 DEF Approve
<1>5. ASSUME NEW u \in Users, NEW a \in Actions, Reject(r, u, a)
      PROVE  Trust' /\ KeepsTypes
    <2>1. row[a].payload \in Payloads /\ KeepsTypes
        BY <1>0, <1>5, ClaimKeepsTypes DEF Reject
    <2>2. QED
        BY <1>2, <1>5, <2>1 DEF Reject
<1>6. ASSUME NEW a \in Actions, NEW p \in Payloads, Modify(r, a, p)
      PROVE  Trust' /\ KeepsTypes
    <2>1. row[a].user \in Users /\ KeepsTypes
        BY <1>0, <1>6 DEF Modify, KeepsTypes
    <2>2. QED
        BY <1>3, <1>6, <2>1 DEF Modify
<1>7. QED
    BY <1>1, <1>4, <1>5, <1>6 DEF Arrive

LEMMA ReadingTrusts ==
    ASSUME TypeOK, Trust, NEW r \in Requests,
           \/ \E u \in Users : ChatBegin(r, u)
           \/ ConsultSeason(r) \/ ReadGrants(r)
    PROVE  Trust' /\ KeepsTypes
<1>0. /\ req \in [Requests -> Request] /\ req[r] \in Request
      /\ season \in [Users -> Seasons] /\ grants \in [Users -> SUBSET Types]
      /\ Trusting(req[r], row, grants, season)
    BY Typing DEF Trust
<1>t. KeepsTypes /\ UNCHANGED <<row, grants, season>>
    BY DEF ChatBegin, ConsultSeason, ReadGrants, KeepsTypes
<1>1. ASSUME NEW u \in Users, ChatBegin(r, u) PROVE Trust'
    <2>1. PICK held \in {"earlier", season[u]} :
            req' = [req EXCEPT ![r] =
                      [Begin("chat", "pass", u, req[r].action, req[r].payload)
                         EXCEPT !.season = held]]
        BY <1>0, <1>1 DEF ChatBegin
    <2> DEFINE q == [Begin("chat", "pass", u, req[r].action, req[r].payload)
                       EXCEPT !.season = held]
    <2>2. held \in Seasons /\ (held = "winter" => season[u] = "winter")
        BY <1>0 DEF Seasons
    <2>3. q \in Request
        BY <1>0, <2>2 DEF Begin, Kinds, Unasked, Steps, Answers
    <2>4. Trusting(q, row', grants, season)
        BY <1>0, <2>2 DEF Begin, Trusting
    <2>5. req' = [req EXCEPT ![r] = q]
        BY <2>1
    <2> HIDE DEF q
    <2>6. QED
        BY <1>0, <1>t, <2>3, <2>4, <2>5, OthersTrust
<1>2. ASSUME ConsultSeason(r) PROVE Trust'
    <2> DEFINE read == season[req[r].user]
               q == [req[r] EXCEPT !.pc = "grants", !.season = read]
    <2>1. req' = [req EXCEPT ![r] = q] /\ req[r].pc = "season"
        BY <1>0, <1>2 DEF ConsultSeason, At
    <2>2. read \in Seasons /\ (read = "winter" => season[req[r].user] = "winter")
        BY <1>0
    <2> HIDE DEF read
    <2>3. q \in Request /\ Trusting(q, row', grants, season)
        BY <1>0, <1>t, <2>1, <2>2 DEF Steps, Trusting
    <2> HIDE DEF q
    <2>4. QED
        BY <1>0, <1>t, <2>1, <2>3, OthersTrust
<1>3. ASSUME ReadGrants(r) PROVE Trust'
    <2> DEFINE given == grants[req[r].user]
               q == [req[r] EXCEPT !.pc = "offer", !.acted = {}, !.auto = given,
                                   !.trusted = given]
    <2>1. req' = [req EXCEPT ![r] = q] /\ req[r].pc = "pass"
        BY <1>0, <1>3 DEF ReadGrants, At
    <2>2. given \in SUBSET Types
        BY <1>0
    <2> HIDE DEF given
    <2>3. q \in Request /\ Trusting(q, row', grants, season)
        BY <1>0, <1>t, <2>1, <2>2 DEF Steps, Trusting
    <2> HIDE DEF q
    <2>4. QED
        BY <1>0, <1>t, <2>1, <2>3, OthersTrust
<1>4. QED
    BY <1>t, <1>1, <1>2, <1>3

\* The steps that lead to a claim, or carry one on to the execution.
LEMMA ClaimsTrust ==
    ASSUME TypeOK, Trust, NEW r \in Requests,
           ConsultGrants(r) \/ ClaimWins(r)
           \/ \E a \in Actions, t \in Types, p \in Payloads : Offer(r, a, t, p)
    PROVE  Trust' /\ KeepsTypes
<1> DEFINE a0 == req[r].action
<1>0. /\ row \in [Actions -> Row] /\ UNCHANGED <<grants, season>> /\ a0 \in Actions
      /\ req[r] \in Request /\ Trusting(req[r], row, grants, season)
    BY Typing DEF ConsultGrants, ClaimWins, Offer, Trust
<1>1. ASSUME NEW pc \in {"claim", "run"}, Goto(r, pc), KeepsTypes,
             req[r].pc \in {"grants", "claim"},
             \/ req[r].pc = "claim"
             \/ req[r].season = "winter"
             \/ row[a0].type \in grants[req[r].user]
      PROVE  Trust' /\ KeepsTypes
    <2> DEFINE q == [req[r] EXCEPT !.pc = pc]
    <2>1. q \in Request /\ req' = [req EXCEPT ![r] = q]
        BY <1>0, <1>1, Typing DEF Goto, Steps
    <2>2. Trusting(q, row', grants, season)
        BY <1>0, <1>1 DEF Trusting, KeepsTypes
    <2> HIDE DEF q
    <2>3. QED
        BY <1>0, <1>1, <2>1, <2>2, OthersTrust
<1>2. CASE ConsultGrants(r)
    <2>1. KeepsTypes /\ req[r].pc = "grants"
        BY <1>2 DEF ConsultGrants, KeepsTypes, At
    <2>2. \/ /\ Goto(r, "claim")
             /\ \/ req[r].season = "winter"
                \/ row[a0].type \in grants[req[r].user]
          \/ Reply(r, "proposed")
        BY <1>2 DEF ConsultGrants
    <2>3. QED
        BY <1>0, <1>1, <2>1, <2>2, LetsGo DEF Answers
<1>3. CASE ClaimWins(r)
    <2>1. KeepsTypes /\ req[r].pc = "claim" /\ Goto(r, "run")
        BY <1>0, <1>3, ClaimKeepsTypes DEF ClaimWins, At
    <2>2. QED
        BY <1>1, <2>1
<1>4. ASSUME NEW a \in Actions, NEW t \in Types, NEW p \in Payloads, Offer(r, a, t, p)
      PROVE  Trust' /\ KeepsTypes
    <2> DEFINE w == [status |-> "pending", user |-> req[r].user, type |-> t,
                     payload |-> p]
               claims == req[r].season = "winter" \/ t \in req[r].auto
               pc == IF claims THEN "claim" ELSE "offer"
               q == [req[r] EXCEPT !.action = a, !.payload = p, !.pc = pc]
    <2>1. /\ req[r].pc = "offer" /\ row[a].status = "none"
          /\ row' = [row EXCEPT ![a] = w]
        BY <1>4 DEF Offer, At, Insert
    <2>4. req' = [req EXCEPT ![r] = q]
        BY <1>4, Typing DEF Offer
    <2>2. KeepsTypes /\ row'[a].status = "pending" /\ row'[a].type = t
        BY <1>0, <2>1 DEF KeepsTypes
    <2>5. \/ pc = "offer"
          \/ pc = "claim" /\ (season[req[r].user] = "winter" \/ t \in req[r].trusted)
        BY <1>0 DEF Trusting
    <2> HIDE DEF pc
    <2>3. q \in Request /\ q.pc = pc /\ q.action = a /\ q.kind = req[r].kind
          /\ q.user = req[r].user /\ q.auto = req[r].auto /\ q.trusted = req[r].trusted
          /\ q.season = req[r].season
        BY <1>0, <2>5 DEF Steps
    <2> HIDE DEF q
    <2>6. Trusting(q, row', grants, season)
        BY <1>0, <2>1, <2>2, <2>3, <2>5 DEF Trusting
    <2>7. QED
        BY <1>0, <2>2, <2>3, <2>4, <2>6, OthersTrust
<1>5. QED
    BY <1>2, <1>3, <1>4

LEMMA FinalizeTrusts ==
    ASSUME TypeOK, Trust, NEW r \in Requests, Finalize(r)
    PROVE  Trust' /\ KeepsTypes
<1> DEFINE done == req[r].acted \cup {req[r].action}
           q == [req[r] EXCEPT !.pc = "offer", !.acted = done]
<1>0. /\ UNCHANGED <<grants, season>> /\ req[r].pc = "finalize"
      /\ req[r] \in Request /\ Trusting(req[r], row, grants, season)
    BY Typing DEF Finalize, At, Trust
<1>1. KeepsTypes
    <2>1. PICK status \in Settled : row' = [row EXCEPT ![req[r].action].status = status]
        BY DEF Finalize
    <2>2. QED
        BY <1>0, <2>1, ClaimKeepsTypes DEF Settled
<1>2. done \in SUBSET Actions /\ req' = [req EXCEPT ![r] = q]
    BY <1>0, Typing DEF Finalize
<1> HIDE DEF done
<1>3. q \in Request /\ Trusting(q, row', grants, season)
    BY <1>0, <1>2 DEF Steps, Trusting
<1> HIDE DEF q
<1>4. QED
    BY <1>0, <1>1, <1>2, <1>3, OthersTrust

LEMMA ReleaseTrusts ==
    ASSUME TypeOK, Trust, NEW r \in Requests,
           \/ NextPass(r) \/ EndTurn(r) \/ ClaimMisses(r) \/ Lookup(r) \/ Run(r)
           \/ RunRaises(r) \/ Leave(r) \/ Fault(r)
    PROVE  Trust' /\ KeepsTypes
<1>0. /\ UNCHANGED <<row, grants, season>> /\ KeepsTypes
      /\ Trusting(req[r], row, grants, season)
    BY DEF NextPass, EndTurn, ClaimMisses, Lookup, Run, RunRaises, Leave, Fault,
           Trust, KeepsTypes
<1>3. CASE NextPass(r) \/ Run(r)
    <2>1. /\ req[r].kind = "chat"
          /\ Goto(r, "pass") \/ Goto(r, "finalize")
        BY <1>0, <1>3 DEF NextPass, Run, Binds, At, Trusting
    <2>2. QED
        BY <1>0, <2>1, LetsGo
<1>4. CASE ClaimMisses(r)
    <2>1. \/ Reply(r, "proposed") \/ Reply(r, "409") \/ Goto(r, "lookup")
          \/ req[r].kind = "chat" /\ Goto(r, "offer")
        BY <1>4 DEF ClaimMisses
    <2>2. QED
        BY <1>0, <2>1, LetsGo DEF Answers
<1>5. CASE EndTurn(r) \/ Lookup(r) \/ RunRaises(r) \/ Leave(r) \/ Fault(r)
    <2>1. \E answer \in Answers : Reply(r, answer)
        BY <1>5 DEF EndTurn, Lookup, RunRaises, Leave, Fault, Answers, Settled
    <2>2. QED
        BY <1>0, <2>1, LetsGo
<1>6. QED
    BY <1>3, <1>4, <1>5

LEMMA SetGrantsTrusts ==
    ASSUME TypeOK, Trust, NEW u \in Users, NEW types \in SUBSET Types,
           SetGrants(u, types)
    PROVE  Trust' /\ KeepsTypes
<1>1. /\ UNCHANGED <<row, season>> /\ grants' = [grants EXCEPT ![u] = types]
      /\ grants \in [Users -> SUBSET Types] /\ req \in [Requests -> Request]
    BY Typing DEF SetGrants
<1>2. ASSUME NEW r \in Requests PROVE Trusting(req'[r], row', grants', season')
    <2>1. Trusting(req[r], row, grants, season) /\ req[r] \in Request
        BY <1>1 DEF Trust
    <2> DEFINE t == req[r].trusted \cup types
    <2>2. CASE req[r].user = u /\ req[r].pc # "done" /\ req[r].kind \in Unasked
        <3>1. req'[r] = [req[r] EXCEPT !.trusted = t] /\ grants'[u] = types
            BY <1>1, <2>2 DEF SetGrants
        <3>2. types \subseteq t /\ req[r].trusted \subseteq t
            OBVIOUS
        <3> HIDE DEF t
        <3>3. QED
            BY <1>1, <2>1, <2>2, <3>1, <3>2 DEF Trusting
    <2>3. CASE ~(req[r].user = u /\ req[r].pc # "done" /\ req[r].kind \in Unasked)
        <3>1. req'[r] = req[r]
            BY <2>3 DEF SetGrants
        <3>2. req[r].pc \in {"season", "grants"} =>
                grants'[req[r].user] = grants[req[r].user]
            BY <1>1, <2>1, <2>3 DEF Trusting, Unasked
        <3>3. QED
            BY <1>1, <2>1, <3>1, <3>2 DEF Trusting
    <2>4. QED
        BY <2>2, <2>3
<1>3. QED
    BY <1>1, <1>2 DEF Trust, KeepsTypes

LEMMA WinterTrusts ==
    ASSUME TypeOK, Trust, NEW u \in Users, WinterComes(u)
    PROVE  Trust' /\ KeepsTypes
<1>1. /\ UNCHANGED <<row, grants, req>> /\ season \in [Users -> Seasons]
      /\ season' = [season EXCEPT ![u] = "winter"]
    BY Typing DEF WinterComes
<1>2. \A v \in Users : season[v] = "winter" => season'[v] = "winter"
    BY <1>1
<1>3. ASSUME NEW r \in Requests PROVE Trusting(req'[r], row', grants', season')
    <2>1. Trusting(req[r], row, grants, season) /\ req[r].user \in Users
        BY Typing DEF Trust
    <2>2. QED
        BY <1>1, <1>2, <2>1 DEF Trusting
<1>4. QED
    BY <1>1, <1>3 DEF Trust, KeepsTypes

LEMMA TrustKeeps == TypeOK /\ Trust /\ [Next]_vars => Trust'
<1> SUFFICES ASSUME TypeOK, Trust, [Next]_vars PROVE Trust'
    OBVIOUS
<1>1. CASE UNCHANGED vars
    BY <1>1 DEF vars, Trust
<1>2. CASE Next
    BY <1>2, ArriveTrusts, ReadingTrusts, ClaimsTrust, ReleaseTrusts, FinalizeTrusts,
       SetGrantsTrusts, WinterTrusts DEF Next, Proceed
<1>3. QED
    BY <1>1, <1>2

\* Before Winter nothing is claimed without a human's request whose type was not
\* granted since the proposal, or the present pass of the turn, began.
THEOREM NothingUnaskedIsClaimed == Spec => []AutoNeedsGrant
<1>1. Init => Trust
    BY DEF Init, Trust, Trusting
<1>2. TypeOK /\ Trust => AutoNeedsGrant
    BY DEF Trust, Trusting, AutoNeedsGrant
<1>3. QED
    BY <1>1, <1>2, TrustKeeps, TypeCorrect, PTL DEF Spec

\* A verdict stands: no step changes a settled or a rejected row, and an approved
\* one is only settled.
THEOREM AVerdictStands == Spec => VerdictsStand
<1>1. ASSUME IInv, [Next]_vars, NEW a \in Actions
      PROVE  /\ row[a].status \in Settled \cup {"rejected"} => row'[a] = row[a]
             /\ row[a].status = "approved" =>
                  /\ row'[a].status \in {"approved"} \cup Settled
                  /\ row'[a].payload = row[a].payload
    <2>0. row \in [Actions -> Row] /\ req \in [Requests -> Request]
        BY <1>1, Typing DEF IInv
    <2>1. CASE row' = row
        BY <2>1
    <2>3. ASSUME NEW r \in Requests, Finalize(r)
          PROVE  /\ row[a].status \in Settled \cup {"rejected"} => row'[a] = row[a]
                 /\ row[a].status = "approved" =>
                      /\ row'[a].status \in {"approved"} \cup Settled
                      /\ row'[a].payload = row[a].payload
        <3>1. row[req[r].action].status = "approved"
            BY <1>1, <2>3 DEF IInv, HolderClaimed, Finalize, At
        <3>2. PICK status \in Settled :
                row' = [row EXCEPT ![req[r].action].status = status]
            BY <2>3 DEF Finalize
        <3>3. QED
            BY <2>0, <3>1, <3>2 DEF Settled
    <2>4. ASSUME NEW r \in Requests, Arrive(r) \/ ClaimWins(r)
                 \/ \E b \in Actions, t \in Types, p \in Payloads : Offer(r, b, t, p)
          PROVE  row[a].status \in Settled \cup {"rejected", "approved"} => row'[a] = row[a]
        <3>1. \/ row' = row
              \/ \E b \in Actions, w \in Row : /\ row[b].status \in {"none", "pending"}
                                             /\ row' = [row EXCEPT ![b] = w]
            <4>1. CASE ClaimWins(r)
                <5>1. [row[req[r].action] EXCEPT !.status = "approved"] \in Row
                    BY <2>0 DEF Statuses
                <5>2. QED
                    BY <2>0, <4>1, <5>1 DEF ClaimWins
            <4>2. ASSUME NEW b \in Actions, NEW u \in Users, NEW t \in Types,
                         NEW p \in Payloads, Insert(u, b, t, p)
                  PROVE  \E w \in Row : /\ row[b].status \in {"none", "pending"}
                                        /\ row' = [row EXCEPT ![b] = w]
                <5>1. [status |-> "pending", user |-> u, type |-> t, payload |-> p] \in Row
                    BY DEF Statuses
                <5>2. QED
                    BY <4>2, <5>1 DEF Insert
            <4>3. CASE Arrive(r) \/ \E b \in Actions, t \in Types, p \in Payloads :
                                     Offer(r, b, t, p)
                <5>1. req[r].user \in Users
                    BY <2>0
                <5>2. ASSUME NEW b \in Actions, NEW u \in Users, Reject(r, u, b)
                      PROVE  \E w \in Row : /\ row[b].status \in {"none", "pending"}
                                            /\ row' = [row EXCEPT ![b] = w]
                    <6>1. [row[b] EXCEPT !.status = "rejected"] \in Row
                        BY <2>0 DEF Statuses
                    <6>2. QED
                        BY <2>0, <5>2, <6>1 DEF Reject
                <5>3. ASSUME NEW b \in Actions, NEW p \in Payloads, Modify(r, b, p)
                      PROVE  \E w \in Row : /\ row[b].status \in {"none", "pending"}
                                            /\ row' = [row EXCEPT ![b] = w]
                    <6>1. [row[b] EXCEPT !.payload = p] \in Row
                        BY <2>0
                    <6>2. QED
                        BY <2>0, <5>3, <6>1 DEF Modify
                <5>4. QED
                    BY <4>2, <4>3, <5>1, <5>2, <5>3 DEF Arrive, Offer, Propose, Approve
            <4>4. QED
                BY <2>4, <4>1, <4>3
        <3>2. QED
            BY <2>0, <3>1 DEF Settled
    <2>5. ASSUME NEW r \in Requests,
                 \/ ConsultSeason(r) \/ ConsultGrants(r) \/ ReadGrants(r)
                 \/ NextPass(r) \/ EndTurn(r) \/ ClaimMisses(r) \/ Lookup(r) \/ Run(r)
                 \/ RunRaises(r) \/ Leave(r) \/ Fault(r)
                 \/ \E u \in Users : ChatBegin(r, u)
          PROVE  row' = row
        BY <2>5 DEF ConsultSeason, ConsultGrants, ReadGrants, NextPass, EndTurn,
                    ClaimMisses, Lookup, Run, RunRaises, Leave, Fault, ChatBegin
    <2>6. CASE \E u \in Users :
                 WinterComes(u) \/ \E types \in SUBSET Types : SetGrants(u, types)
        BY <2>1, <2>6 DEF SetGrants, WinterComes
    <2>7. QED
        BY <1>1, <2>1, <2>3, <2>4, <2>5, <2>6 DEF Next, Proceed, vars
<1>2. IInv /\ [Next]_vars =>
        [\A a \in Actions :
           /\ row[a].status \in Settled \cup {"rejected"} => row'[a] = row[a]
           /\ row[a].status = "approved" =>
                /\ row'[a].status \in {"approved"} \cup Settled
                /\ row'[a].payload = row[a].payload]_vars
    BY <1>1
<1>3. QED
    BY <1>2, Invariance, PTL DEF Spec, VerdictsStand

------------------------------------------------------------------------------
(***************************************************************************)
(* The refinement: where each step of the ledger leaves the gate.          *)
(***************************************************************************)
Consent == [a \in Actions |-> Standing[row[a].status]]
Wish    == [a \in Actions |-> row[a].payload]

LEMMA GateInit == Init => Gate!Init
<1> SUFFICES ASSUME Init PROVE Gate!Init
    OBVIOUS
<1>1. PICK u \in Users, t \in Types, p \in Payloads :
        row = [b \in Actions |->
                [status |-> "none", user |-> u, type |-> t, payload |-> p]]
    BY DEF Init
<1>2. ran = [a \in Actions |-> <<>>]
    BY DEF Init
<1>3. QED
    BY <1>1, <1>2 DEF Gate!Init, Standing

\* A write to one row shows in the gate as a write to that action alone.
LEMMA RowSeenThroughGate ==
    ASSUME NEW a \in Actions, \A c \in Actions \ {a} : row'[c] = row[c]
    PROVE  /\ Consent' = [Consent EXCEPT ![a] = Standing[row'[a].status]]
           /\ Wish' = [Wish EXCEPT ![a] = row'[a].payload]
           /\ Consent[a] = Standing[row[a].status] /\ Wish[a] = row[a].payload
<1>1. Consent' = [Consent EXCEPT ![a] = Standing[row'[a].status]]
    <2>1. \A b \in Actions : Standing[row'[b].status]
            = IF b = a THEN Standing[row'[a].status] ELSE Standing[row[b].status]
        OBVIOUS
    <2>2. QED
        BY <2>1 DEF Consent
<1>2. Wish' = [Wish EXCEPT ![a] = row'[a].payload]
    <2>1. \A b \in Actions :
            row'[b].payload = IF b = a THEN row'[a].payload ELSE row[b].payload
        OBVIOUS
    <2>2. QED
        BY <2>1 DEF Wish
<1>3. QED
    BY <1>1, <1>2 DEF Consent, Wish

LEMMA GateUntouched ==
    ASSUME NEW a \in Actions
    PROVE  /\ [Consent EXCEPT ![a] = Consent[a]] = Consent
           /\ [Wish EXCEPT ![a] = Wish[a]] = Wish
    BY DEF Consent, Wish

LEMMA GateStep == IInv /\ [Next]_vars => [Gate!Next]_(Gate!gate)
<1> SUFFICES ASSUME IInv, [Next]_vars
             PROVE  Gate!Next \/ UNCHANGED <<Consent, Wish, ran>>
    BY DEF Gate!gate, Consent, Wish
<1>t. TypeOK /\ row \in [Actions -> Row] /\ req \in [Requests -> Request]
      /\ ran \in [Actions -> Seq(Payloads)]
    BY DEF IInv, TypeOK
<1>a. \A a \in Actions, p \in Payloads :
        /\ Consent[a] = "unasked"
        /\ Consent' = [Consent EXCEPT ![a] = "asked"]
        /\ Wish' = [Wish EXCEPT ![a] = p] /\ ran' = ran
        => Gate!Next
    BY DEF Gate!Next, Gate!Ask, Consent, Wish
<1>b. ASSUME NEW a \in Actions, row[a].status = "pending",
             row'[a].status \in {"approved", "rejected"},
             row'[a].payload = row[a].payload,
             \A c \in Actions \ {a} : row'[c] = row[c], ran' = ran
      PROVE  Gate!Next
    <2>1. /\ Consent[a] = "asked" /\ Wish' = [Wish EXCEPT ![a] = Wish[a]]
          /\ Consent' = [Consent EXCEPT ![a] = Standing[row'[a].status]]
          /\ Standing[row'[a].status] \in {"given", "withheld"}
        BY <1>b, RowSeenThroughGate DEF Standing
    <2>2. Wish' = Wish
        BY <2>1, GateUntouched
    <2>3. QED
        BY <1>b, <2>1, <2>2 DEF Gate!Next, Gate!Decide, Consent, Wish
<1>1. CASE UNCHANGED <<row, ran>>
    BY <1>1 DEF Consent, Wish
<1>2. ASSUME NEW u \in Users, NEW a \in Actions, NEW t \in Types,
             NEW p \in Payloads, Insert(u, a, t, p), ran' = ran
      PROVE  Gate!Next
    <2>1. /\ row[a].status = "none" /\ row'[a].status = "pending"
          /\ row'[a].payload = p /\ \A c \in Actions \ {a} : row'[c] = row[c]
        BY <1>t, <1>2 DEF Insert
    <2>2. /\ Consent[a] = "unasked" /\ Consent' = [Consent EXCEPT ![a] = "asked"]
          /\ Wish' = [Wish EXCEPT ![a] = p]
        BY <2>1, RowSeenThroughGate DEF Standing
    <2>3. QED
        BY <1>a, <1>2, <2>2
<1>3. ASSUME NEW r \in Requests, NEW u \in Users, NEW a \in Actions, Reject(r, u, a)
      PROVE  Gate!Next
    <2>1. /\ row[a].status = "pending" /\ row'[a].status = "rejected"
          /\ row'[a].payload = row[a].payload
          /\ \A c \in Actions \ {a} : row'[c] = row[c]
          /\ ran' = ran
        BY <1>t, <1>3 DEF Reject
    <2>2. QED
        BY <1>b, <2>1
<1>4. ASSUME NEW r \in Requests, NEW a \in Actions, NEW p \in Payloads,
             Modify(r, a, p)
      PROVE  Gate!Next
    <2>1. /\ row[a].status = "pending" /\ row'[a].status = "pending"
          /\ row'[a].payload = p
          /\ \A c \in Actions \ {a} : row'[c] = row[c]
          /\ ran' = ran
        BY <1>t, <1>4 DEF Modify
    <2>2. /\ Consent[a] = "asked" /\ Consent' = [Consent EXCEPT ![a] = Consent[a]]
          /\ Wish' = [Wish EXCEPT ![a] = p]
        BY <2>1, RowSeenThroughGate DEF Standing
    <2>3. Consent' = Consent
        BY <2>2, GateUntouched
    <2>4. QED
        BY <2>1, <2>2, <2>3 DEF Gate!Next, Gate!Amend, Consent, Wish
<1>5. ASSUME NEW r \in Requests, ClaimWins(r)
      PROVE  Gate!Next
    <2> DEFINE a == req[r].action
    <2>1. /\ a \in Actions
          /\ row[a].status = "pending" /\ row'[a].status = "approved"
          /\ row'[a].payload = row[a].payload
          /\ \A c \in Actions \ {a} : row'[c] = row[c]
          /\ ran' = ran
        BY <1>t, <1>5 DEF ClaimWins
    <2> HIDE DEF a
    <2>2. QED
        BY <1>b, <2>1
<1>6. ASSUME NEW r \in Requests, Run(r)
      PROVE  Gate!Next
    <2> DEFINE a == req[r].action
    <2>1. /\ a \in Actions /\ row' = row /\ req[r].pc = "run"
          /\ ran' = [ran EXCEPT ![a] = Append(ran[a], row[a].payload)]
        BY <1>t, <1>6 DEF Run, At
    <2>2. ran[a] = <<>> /\ row[a].status = "approved"
        BY <2>1 DEF IInv, Deeds, HolderClaimed
    <2> HIDE DEF a
    <2>3. /\ Consent[a] = "given" /\ Wish[a] = row[a].payload
          /\ Consent' = Consent /\ Wish' = Wish
        BY <2>1, <2>2 DEF Consent, Wish, Standing
    <2>4. Append(ran[a], row[a].payload) = <<Wish[a]>>
        BY <1>t, <2>1, <2>2, <2>3
    <2>5. ran' = [ran EXCEPT ![a] = <<Wish[a]>>]
        BY <2>1, <2>4
    <2>6. QED
        BY <2>1, <2>2, <2>3, <2>5 DEF Gate!Next, Gate!Perform, Consent, Wish
<1>7. ASSUME NEW r \in Requests, Finalize(r)
      PROVE  UNCHANGED <<Consent, Wish, ran>>
    <2> DEFINE a == req[r].action
    <2>1. a \in Actions /\ ran' = ran /\ req[r].pc = "finalize"
        BY <1>t, <1>7 DEF Finalize, At
    <2>2. /\ row'[a].status \in Settled /\ row'[a].payload = row[a].payload
          /\ \A c \in Actions \ {a} : row'[c] = row[c]
        BY <1>t, <1>7 DEF Finalize
    <2>3. row[a].status = "approved"
        BY <2>1 DEF IInv, HolderClaimed
    <2> HIDE DEF a
    <2>4. /\ Consent' = [Consent EXCEPT ![a] = Consent[a]]
          /\ Wish' = [Wish EXCEPT ![a] = Wish[a]]
        BY <2>1, <2>2, <2>3, RowSeenThroughGate DEF Standing, Settled
    <2>5. QED
        BY <2>1, <2>4, GateUntouched
<1>8. ASSUME NEW r \in Requests,
             \/ Arrive(r) \/ \E u \in Users : ChatBegin(r, u)
             \/ Proceed(r) \/ Leave(r) \/ Fault(r)
      PROVE  Gate!Next \/ UNCHANGED <<Consent, Wish, ran>>
    <2>1. CASE Arrive(r)
        BY <2>1, <1>1, <1>2, <1>3, <1>4 DEF Arrive, Propose, Approve
    <2>2. CASE \E a \in Actions, t \in Types, p \in Payloads : Offer(r, a, t, p)
        BY <2>2, <1>t, <1>2 DEF Offer
    <2>3. CASE \/ ConsultSeason(r) \/ ConsultGrants(r) \/ ReadGrants(r)
               \/ NextPass(r) \/ EndTurn(r) \/ ClaimMisses(r) \/ Lookup(r)
               \/ RunRaises(r) \/ Leave(r) \/ Fault(r)
               \/ \E u \in Users : ChatBegin(r, u)
        BY <2>3, <1>1 DEF ConsultSeason, ConsultGrants, ReadGrants, NextPass, EndTurn,
                          ClaimMisses, Lookup, RunRaises, Leave, Fault, ChatBegin
    <2>4. CASE ClaimWins(r) \/ Run(r) \/ Finalize(r)
        BY <2>4, <1>5, <1>6, <1>7
    <2>5. QED
        BY <1>8, <2>1, <2>2, <2>3, <2>4 DEF Proceed
<1>9. CASE \E u \in Users :
             WinterComes(u) \/ \E types \in SUBSET Types : SetGrants(u, types)
    BY <1>1, <1>9 DEF SetGrants, WinterComes
<1>10. CASE UNCHANGED vars
    BY <1>1, <1>10 DEF vars
<1>11. QED
    BY <1>8, <1>9, <1>10 DEF Next

\* Nothing is done without consent, more than once, or other than consented.
THEOREM LedgerImplementsGate == Spec => ImplementsGate
<1>1. QED
    BY GateInit, GateStep, Invariance, PTL DEF Spec, ImplementsGate, Gate!Spec
==============================================================================
