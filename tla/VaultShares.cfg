SPECIFICATION Spec
CONSTANTS
    alice = alice
    bob = bob
    first = first
    second = second
    NoStrategy = none
    Holders = {alice, bob}
    Strategies = {first, second}
    Approvals <- MCApprovals
    Donors = {alice}
    Coins = 20
    Amounts = {1, 20}
    PerfFees = {2000, 2001}
    ExitFees = {500, 501}
    Caps = {25}
    Impact = {1}
    Yield = 5
    MaxMarket = 2
    MaxCalls = 5
SYMMETRY Symmetric
INVARIANT LiquidityInReach
INVARIANT FeesWithinGains
PROPERTY ImplementsPool
CHECK_DEADLOCK FALSE
