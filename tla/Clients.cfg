SPECIFICATION Spec
CONSTANTS
    Prices = {1, 2}
    Fees = 1
    MaxOthers = 1
    PlainPresses = {"vaultDeposit"}
    MaxPresses = 2
    Calls = {c1}
    SdkMethods = {"deposit", "buyStrategy", "swapExactInputSingle", "approveToken"}
    HasSigner = TRUE
INVARIANT OneSwapPerNonce
INVARIANT DelegateResultTold
INVARIANT BuyerConsent
INVARIANT ReturnMeansDone
CHECK_DEADLOCK FALSE
