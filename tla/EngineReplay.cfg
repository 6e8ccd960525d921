SPECIFICATION Spec
CONSTANTS
    Procs = {p1}
    Workers = {p1}
    Reqs = {r1, r2}
    NoReq = none
    Senders = {alice}
    MaxNonce = 1
    UseRelay = FALSE
    RISK_THRESHOLD = 85
    MaxCrashes = 0
    MaxDrops = 0
    MaxExpiries = 0
INVARIANT NoReplay
