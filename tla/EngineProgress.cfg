SPECIFICATION FairSpec
CONSTANTS
    Procs = {p1}
    Workers = {p1}
    Reqs = {r1, r2}
    NoReq = none
    Senders = {alice}
    MaxNonce = 1
    UseRelay = TRUE
    RISK_THRESHOLD = 75
    MaxCrashes = 1
    MaxDrops = 1
    MaxExpiries = 1
INVARIANT OfferedInOrder
INVARIANT QueueInNonceOrder
PROPERTY NonceNeverRewinds
PROPERTY NoReplayOfAnswered
PROPERTY EveryRequestEnds
PROPERTY EveryEntryEnds
