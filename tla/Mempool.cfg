SPECIFICATION Spec
CONSTANTS
    h1 = h1
    h2 = h2
    h3 = h3
    h4 = h4
    h5 = h5
    p1 = p1
    p2 = p2
    Hashes = {h1, h2, h3, h4, h5}
    Decoded <- MCDecoded
    PoolOf <- MCPoolOf
    Pools = {p1, p2}
    PendingCap = 2
    KeptAtCap = 1
    WINDOW_BLOCKS = 1
    Handlers = {b1, b2}
    MaxBlock = 3
INVARIANT MempoolTypeOK
INVARIANT ActivityInWindow
INVARIANT LargestKept
CHECK_DEADLOCK FALSE
