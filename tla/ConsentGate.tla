----------------------------- MODULE ConsentGate -----------------------------
(***************************************************************************)
(* What the action ledger promises about the world outside it: nothing is  *)
(* done that was not consented to, what is done is what was wished for at  *)
(* that moment, and it is done once.                                       *)
(***************************************************************************)
EXTENDS Sequences

CONSTANTS Actions, Payloads

VARIABLES consent,   \* where consent to each action stands
          wish,      \* the payload each action carries
          deeds      \* the payloads each action was performed with

gate == <<consent, wish, deeds>>

Init ==
    /\ consent = [a \in Actions |-> "unasked"]
    /\ wish \in [Actions -> Payloads]
    /\ deeds = [a \in Actions |-> <<>>]

Ask(a, p) ==
    /\ consent[a] = "unasked"
    /\ consent' = [consent EXCEPT ![a] = "asked"]
    /\ wish' = [wish EXCEPT ![a] = p]
    /\ UNCHANGED deeds

Amend(a, p) ==
    /\ consent[a] = "asked"
    /\ wish' = [wish EXCEPT ![a] = p]
    /\ UNCHANGED <<consent, deeds>>

Decide(a, verdict) ==
    /\ consent[a] = "asked"
    /\ consent' = [consent EXCEPT ![a] = verdict]
    /\ UNCHANGED <<wish, deeds>>

Perform(a) ==
    /\ consent[a] = "given"
    /\ deeds[a] = <<>>
    /\ deeds' = [deeds EXCEPT ![a] = <<wish[a]>>]
    /\ UNCHANGED <<consent, wish>>

Next == \E a \in Actions :
    \/ \E p \in Payloads : Ask(a, p) \/ Amend(a, p)
    \/ \E verdict \in {"given", "withheld"} : Decide(a, verdict)
    \/ Perform(a)

Spec == Init /\ [][Next]_gate
==============================================================================
