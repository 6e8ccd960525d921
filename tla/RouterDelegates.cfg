SPECIFICATION Spec
CONSTANTS
    WETH = weth
    ETH = eth
    Tokens = {weth, usdc}
    Users = {alice, bob}
    Zero = zero
    router = router
    pool = pool
    registry = registry
    feeManager = feeManager
    Treasuries = {treasury}
    Accounts = {alice, bob, router, pool, registry, feeManager, treasury}
    Executors = {router}
    FeeConfigs <- MCNoFees
    Funding <- MCFunding
    Coins = 100
    Amounts = {100}
    Values = {0, 100}
    Limits = {50}
    MaxTrades = 1
    MaxTime = 1
    MaxSignatures = 1
    MaxSigned = 2
VIEW WithoutLast
INVARIANT AuthorizedBySignature
PROPERTY OnlyAuthorizedSpends
PROPERTY NoSignatureReplay
