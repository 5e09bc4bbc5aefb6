----------------------------- MODULE MCValueEngine -----------------------------
(***************************************************************************)
(* The engine with the numbers of the code, on responses just within the   *)
(* bounds of Spring, just outside and well outside, torn between order and *)
(* chaos, and far from integrity; concurrent turns are only compared.      *)
(***************************************************************************)
EXTENDS ValueEngine, SeasonalBounds, TLC

Saying(signals) == [d \in DOMAIN DefaultCenter |->
                       IF d \in DOMAIN signals THEN signals[d] ELSE 0]

MCVirtues == DOMAIN PlumbLine
MCSignals ==
    [bordering  |-> Saying([dominance |-> 88]),
     dominating |-> Saying([dominance |-> 90]),
     crushing   |-> Saying([dominance |-> 100, harmony |-> -60]),
     torn       |-> Saying([order |-> 30, chaos |-> 80]),
     lying      |-> Saying([integrity |-> -100])]
MCResponses == DOMAIN MCSignals
MCAdvices == {<<"dominance", One>>, <<"integrity", One>>}

Symmetry == Permutations(Turns)
================================================================================
