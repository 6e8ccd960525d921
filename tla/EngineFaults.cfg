SPECIFICATION Spec
CONSTANTS
    Procs = {p1, p2}
    Workers = {p1, p2}
    Reqs = {r1, r2}
    NoReq = none
    Senders = {alice}
    MaxNonce = 1
    UseRelay = FALSE
    RISK_THRESHOLD = 75
    MaxCrashes = 1
    MaxDrops = 1
    MaxExpiries = 0
SYMMETRY ReqSymmetry
INVARIANT TypeOK
INVARIANT AcceptedIsAccounted
INVARIANT OnlyClearedIsShown
INVARIANT ReservedInOrder
INVARIANT WorkedOnOnce
