SPECIFICATION PageSpec
CONSTANTS
    Prices = {1}
    Fees = 1
    MaxOthers = 1
    PlainPresses = {"vaultDeposit", "listStrategyNft", "registerReferrer", "revokeDelegate", "claimRoyalties", "daoRiskGuardPause", "daoRiskGuardUnpause"}
    MaxPresses = 2
    InitialFacts <- Accounts
INVARIANTS ModalTellsTruth 
CHECK_DEADLOCK FALSE
