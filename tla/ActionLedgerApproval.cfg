SPECIFICATION FairSpec
CONSTANTS
    Actions = {a1}
    Requests = {r1, r2}
    Users = {u1}
    Types = {t1}
    Payloads = {p1, p2}
    Nobody = Nobody
    MaxFaults = 0
PROPERTIES ApprovalExecutes
