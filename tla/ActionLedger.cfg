SPECIFICATION FairSpec
CONSTANTS
    Actions = {a1, a2}
    Requests = {r1, r2}
    Users = {u1}
    Types = {t1}
    Payloads = {p1, p2}
    Nobody = Nobody
    MaxFaults = 1
INVARIANTS LedgerIsTrue HolderClaimed AutoNeedsGrant
PROPERTIES VerdictsStand ImplementsGate ChatSettles
