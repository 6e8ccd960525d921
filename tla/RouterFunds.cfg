SPECIFICATION Spec
CONSTANTS
    WETH = weth
    ETH = eth
    Tokens = {weth, usdc}
    Users = {alice, bob}
    Zero = zero
    router = router
    pool = pool
    registry = registry
    feeManager = feeManager
    Treasuries = {treasury}
    Accounts = {alice, bob, router, pool, registry, feeManager, treasury}
    Executors = {router}
    FeeConfigs <- MCFeeConfigs
    Funding <- MCFunding
    Coins = 100
    Amounts = {30, 100}
    Values = {0, 100}
    Limits = {30}
    MaxTrades = 2
    MaxTime = 0
    MaxSignatures = 0
    MaxSigned = 0
VIEW WithoutLast
INVARIANT RouterTypeOK
INVARIANT RegistrySolvent
INVARIANT FeesCapped
PROPERTY RouterNeverPays
PROPERTY TermsKept
