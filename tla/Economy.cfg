SPECIFICATION Spec
CONSTANTS
    alice = alice
    bob = bob
    WETH = weth
    ETH = eth
    Zero = zero
    Tokens = {weth}
    Users = {alice, bob}
    marketplace = marketplace
    distributor = distributor
    subscriptions = subscriptions
    staking = staking
    revenue = revenue
    agentSubscriptions = agentSubscriptions
    Contracts = {marketplace, distributor, subscriptions, staking, revenue, agentSubscriptions}
    Accounts = {alice, bob, marketplace, distributor, subscriptions, staking, revenue, agentSubscriptions, treasury, dao}
    Strategies = {grid}
    Prices = {100}
    Durations = {1}
    RoyaltyRates = {2400, 2500, 2501}
    Splits <- MCSplits
    InitialRoyalty = 2500
    InitialSplit <- MCSplit
    InitialTreasury = treasury
    ProtocolTreasuries = {treasury, dao}
    MaxVersion = 3
    Agents = {bot}
    agentOwner = dao
    stakingToken = weth
    Payments = {100}
    Periods = {1}
    AgentSplits <- MCAgentSplits
    LockPeriods = {0, 1}
    InitialLock = 1
    MinimumStakes = {100}
    agentTreasury = treasury
    Funds = 200
    MaxTime = 1
    MaxCalls = 3
INVARIANT ClaimsFunded
INVARIANT VersionsAgree
INVARIANT TimeIsPaidFor
INVARIANT SlashIsFinal
PROPERTY SoldByItsLister
PROPERTY LockedStaysIn
SYMMETRY Symmetric
CHECK_DEADLOCK FALSE
