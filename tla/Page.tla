-------------------------------- MODULE Page --------------------------------
(***************************************************************************)
(* The App component as its user meets it: the buttons that its tabs render*)
(* from cached reads, the modal that tells of the newest request, and the  *)
(* user who leaves the page and returns while the wallet still has requests*)
(* of it.  What the contracts require and change beyond Account is a set of*)
(* facts; the page knows a fact only after it has read it.  An allowance, a*)
(* balance, shares or room under the cap is a fact of having enough for the*)
(* amount in the field: one call uses it up.                               *)
(***************************************************************************)
EXTENDS Dapp

CONSTANT InitialFacts   \* what may hold on the chain when the page opens

OwnerFacts == {"registryOwner", "riskGuardOwner", "adapterOwner", "feeOwner"}
OwnFacts == {"referrer", "delegate", "nftApproved", "registered", "vaultAllowed", "vaultShares",
             "subscriptionAllowed", "holdsToken", "listed"}
ForeignFacts == {"vaultPaused", "strategyActive", "riskGuardPaused", "royalties", "forOwner",
                 "vaultRoom", "usdc", "sellerReady", "ruleDue"}
Facts == OwnerFacts \union OwnFacts \union ForeignFacts \union {"wethMismatch"}

ASSUME PageAssumption == InitialFacts \subseteq SUBSET Facts /\ InitialFacts # {}

VARIABLES
    facts,   \* what holds on the chain
    seen,    \* the facts that the cached reads tell
    modal,   \* txModalAction: what the modal names, or "none" when it is closed
    before,  \* treasurySnapshotBefore, or NoSnapshot
    left     \* requests in the wallet that the page left behind

shownVars == <<facts, seen, modal, before, left>>
pageVars == <<accountVars, dappVars, shownVars>>

NoSnapshot == -1
TreasurySeen == Fees - view["fees"]   \* the treasury's cached balance

PageInit ==
    /\ AccountInit /\ DappInit
    /\ facts \in InitialFacts /\ seen = {}   \* until a read is answered its default stands
    /\ modal = "none" /\ before = NoSnapshot /\ left = {}

(* Every variable of the page, its handlers and the account keeps its type. *)
PageTypeOK ==
    /\ AccountTypeOK /\ DappTypeOK
    /\ facts \subseteq Facts /\ seen \subseteq Facts
    /\ modal \in Kinds \union {"none"}
    /\ before \in Nat \union {NoSnapshot}
    /\ \A q \in left : q.id \in 1..write.request /\ q.kind \in Kinds

-----------------------------------------------------------------------------
(* What each tab renders enabled.  Inputs that do not parse leave a press   *)
(* without effect, so only presses with good inputs are steps.              *)
Where(condition, kinds) == IF condition THEN kinds ELSE {}
When(fact, kinds) == Where(fact \in seen, kinds)
Unless(fact, kinds) == Where(fact \notin seen, kinds)

SwapTab == Unless("wethMismatch", {"swap"})

(* Of allowance, deposit limit, balance and shares, which are read and      *)
(* shown, no condition speaks.                                              *)
VaultTab ==
    {"approveVaultAsset"}
    \union Unless("vaultPaused", {"vaultDeposit", "vaultWithdraw", "vaultRedeem"}
                                 \union When("strategyActive", {"vaultHarvest"}))

StrategyTab ==
    When("registryOwner", {"registerStrategy"})
    \union SubscriptionWrites
    \union Unless("nftApproved", {"approveNftForMarketplace"})
    \union {"listStrategyNft", "cancelStrategyListing"}
    \union Where(view["price"] > 0, {"approveBuy"})
    \union Where(view["buyAllowance"] >= view["price"], {"buy"})
    \union When("royalties", {"claimRoyalties"})


(* One button pauses and unpauses: the cached read decides which.           *)
DaoTab ==
    When("riskGuardOwner",
         {"daoSetMaxDailySpend", "daoSetMaxSlippageBps"}
         \union When("riskGuardPaused", {"daoRiskGuardUnpause"})
         \union Unless("riskGuardPaused", {"daoRiskGuardPause"}))
    \union {"daoTriggerRule"}
    \union When("adapterOwner", {"daoSetAdapterExecutor"})

ReferralTab ==
    Unless("referrer", {"registerReferrer"})
    \union Unless("wethMismatch", {"swap"}) \union Where(view["earned"] > 0, {"claim"})

DelegateTab ==
    {"authorize"} \union When("delegate", {"revokeDelegate"})
    \union Unless("wethMismatch", When("forOwner", {"delegateSwap"}))

ProtocolTab == Where(view["fees"] > 0, {"withdraw"})

(* The user opens any tab at any time, and the agent tab has no button.     *)
Enabled == SwapTab \union VaultTab \union StrategyTab \union DaoTab
           \union ReferralTab \union DelegateTab \union ProtocolTab

(* Dapp's handler of each button.                                           *)
Handler(kind) ==
    \/ kind \in PlainPresses /\ PressPlain(kind)
    \/ kind = "swap" /\ ExecuteSwap
    \/ kind = "delegateSwap" /\ ExecuteAsDelegate
    \/ kind = "withdraw" /\ WithdrawFeesToTreasury
    \/ kind = "claim" /\ ClaimReferralRewards
    \/ kind = "approveBuy" /\ ApprovePaymentForBuy
    \/ kind = "buy" /\ BuyStrategyNft
    \/ kind = "authorize" /\ AuthorizeDelegate

(* Mutant: authorizeDelegate opens the modal before it awaits the signature.*)
NamedAtPress(kind) == kind

(* The modal opens in the same step as the request; authorizeDelegate comes *)
(* to that only after the signature.                                        *)
NamedBy(kind) == IF kind = "authorize" THEN modal ELSE kind

PressButton(kind) ==
    /\ Handler(kind) /\ kind \in Enabled
    /\ modal' = NamedBy(kind)
    /\ before' = IF kind = "withdraw" THEN TreasurySeen ELSE before
    /\ UNCHANGED <<facts, seen, left>>

Sign ==
    \/ Signed /\ modal' = "authorize" /\ UNCHANGED <<facts, seen, before, left>>
    \/ SignatureRefused /\ UNCHANGED shownVars

WalletAnswers ==
    /\ \E q \in requests : Answered(q) \/ Rejected(q)
    /\ UNCHANGED shownVars

CloseModal ==
    /\ modal # "none" /\ modal' = "none"
    /\ UNCHANGED <<accountVars, dappVars, facts, seen, before, left>>

(* The reads are fetched again (the browser's focus, a reconnection).        *)
ReadAgain ==
    /\ <<view, seen>> # <<chain, facts>> /\ view' = chain /\ seen' = facts
    /\ UNCHANGED <<accountVars, write, requests, signing, refs, last, delegateResult, takenOver>>
    /\ UNCHANGED <<facts, modal, before, left>>

-----------------------------------------------------------------------------
(* The user follows a link out of the application and comes back: App is    *)
(* unmounted and its state is new, the cache of reads and the wallet's open *)
(* requests remain.  A signature that is given afterwards still leads to    *)
(* its request.                                                             *)
LeftBehind ==
    requests \union IF signing = NotSigning THEN {}
                    ELSE {[id |-> write.request + 1, kind |-> "authorize", arg |-> signing, shown |-> 0]}

Leave ==
    /\ signing # NotSigning => write.request < MaxPresses
    /\ left' = left \union LeftBehind
    /\ write' = [request |-> IF signing = NotSigning THEN write.request ELSE write.request + 1,
                 state |-> "idle", hash |-> 0]
    /\ requests' = {} /\ signing' = NotSigning /\ refs' = {}
    /\ last' = [r \in DOMAIN last |-> "none"] /\ delegateResult' = "none" /\ takenOver' = FALSE
    /\ modal' = "none" /\ before' = NoSnapshot
    /\ UNCHANGED <<accountVars, view, facts, seen>>

(* The wallet answers a request of a page that is gone.                     *)
AnswerLeft ==
    /\ \E q \in left :
         /\ left' = left \ {q}
         /\ \/ txs' = Append(txs, Tx(q.kind, q.arg, q.shown))
            \/ UNCHANGED txs
    /\ UNCHANGED <<chain, others, dappVars, facts, seen, modal, before>>

-----------------------------------------------------------------------------
(* What the contracts require of a call beyond its arguments, facts that    *)
(* must and that must not hold, and what a call changes of the facts.       *)
Needs(kind) ==
    CASE kind = "vaultDeposit"         -> {"vaultAllowed", "vaultRoom", "usdc"}
      [] kind \in {"vaultWithdraw", "vaultRedeem"} -> {"vaultShares"}
      [] kind = "subscribeStrategy"    -> {"subscriptionAllowed", "usdc"}
      [] kind = "listStrategyNft"      -> {"holdsToken"}
      [] kind = "cancelStrategyListing" -> {"listed"}
      [] kind = "buy"                  -> {"usdc", "sellerReady"}
      [] kind = "registerStrategy"     -> {"registryOwner"}
      [] kind = "claimRoyalties"       -> {"royalties"}
      [] kind \in {"daoSetMaxDailySpend", "daoSetMaxSlippageBps", "daoRiskGuardPause"} -> {"riskGuardOwner"}
      [] kind = "daoRiskGuardUnpause"  -> {"riskGuardOwner", "riskGuardPaused"}
      [] kind = "daoSetAdapterExecutor" -> {"adapterOwner"}
      [] kind = "daoTriggerRule"       -> {"ruleDue"}
      [] kind = "withdraw"             -> {"feeOwner"}
      [] kind = "delegateSwap"         -> {"forOwner"}
      [] OTHER                         -> {}

Bars(kind) ==
    CASE kind \in VaultWrites \ {"approveVaultAsset"} -> {"vaultPaused"}
      [] kind = "registerReferrer"     -> {"referrer"}
      [] kind = "registerStrategy"     -> {"registered"}
      [] kind = "daoRiskGuardPause"    -> {"riskGuardPaused"}
      [] kind \in {"swap", "delegateSwap"} -> {"wethMismatch"}
      [] OTHER                         -> {}

Requires(kind) ==
    /\ Needs(kind) \subseteq facts /\ Bars(kind) \intersect facts = {}
    /\ kind = "claim" => chain["earned"] > 0

Brings(kind) ==
    CASE kind = "registerReferrer"         -> {"referrer"}
      [] kind = "authorize"                -> {"delegate"}
      [] kind = "approveNftForMarketplace" -> {"nftApproved"}
      [] kind = "registerStrategy"         -> {"registered"}
      [] kind = "daoRiskGuardPause"        -> {"riskGuardPaused"}
      [] kind = "approveVaultAsset"        -> {"vaultAllowed"}
      [] kind = "vaultDeposit"             -> {"vaultShares"}
      [] kind = "approveUsdcForSubscription" -> {"subscriptionAllowed"}
      [] kind = "listStrategyNft"          -> {"listed"}
      [] kind = "buy"                      -> {"holdsToken"}
      [] kind \in {"vaultWithdraw", "vaultRedeem", "claimRoyalties"} -> {"usdc"}
      [] OTHER                             -> {}

Ends(kind) ==
    CASE kind = "revokeDelegate"        -> {"delegate"}
      [] kind = "claimRoyalties"        -> {"royalties"}
      [] kind = "daoRiskGuardUnpause"   -> {"riskGuardPaused"}
      [] kind = "vaultDeposit"          -> {"vaultAllowed", "usdc"}
      [] kind \in {"vaultWithdraw", "vaultRedeem"} -> {"vaultShares"}
      [] kind = "subscribeStrategy"     -> {"subscriptionAllowed", "usdc"}
      [] kind = "cancelStrategyListing" -> {"listed"}
      [] kind = "buy"                   -> {"usdc"}
      [] kind = "daoTriggerRule"        -> {"ruleDue"}
      [] OTHER                          -> {}

Mined ==
    \E i \in DOMAIN txs :
        /\ \/ Mine(i) /\ Requires(txs[i].kind)
              /\ facts' = (facts \ Ends(txs[i].kind)) \union Brings(txs[i].kind)
           \/ Revert(i) /\ UNCHANGED facts
        /\ UNCHANGED <<dappVars, seen, modal, before, left>>

(* Other accounts change the state that Account names, or a fact that is    *)
(* not this account's to change, or buy the token that it lists.            *)
ChangedElsewhere ==
    \/ Elsewhere /\ UNCHANGED <<dappVars, shownVars>>
    \/ /\ others < MaxOthers /\ others' = others + 1
       /\ \/ \E f \in ForeignFacts :
               /\ f = "riskGuardPaused" => "riskGuardOwner" \notin facts
               /\ facts' = IF f \in facts THEN facts \ {f} ELSE facts \union {f}
          \/ /\ {"listed", "holdsToken", "nftApproved"} \subseteq facts
             /\ facts' = (facts \ {"listed", "holdsToken"}) \union {"usdc"}
       /\ UNCHANGED <<chain, txs, dappVars, seen, modal, before, left>>

PageNext ==
    \/ \E kind \in Kinds : PressButton(kind)
    \/ Sign \/ WalletAnswers \/ CloseModal \/ ReadAgain
    \/ Leave \/ AnswerLeft
    \/ Mined \/ ChangedElsewhere

PageSpec == PageInit /\ [][PageNext]_pageVars

-----------------------------------------------------------------------------
(* The modal tells of the action it names: "Pending" while that action's    *)
(* request is open in the wallet, "Success" once its transaction was sent,  *)
(* the transaction of the hash that it links to.                            *)
ModalTellsTruth ==
    modal # "none" =>
        /\ write.state = "wallet" =>
             \E q \in requests : q.id = write.request /\ q.kind = modal
        /\ write.state = "hash" => write.hash \in DOMAIN txs /\ txs[write.hash].kind = modal

(* Buttons that the page enables without asking for all that the contracts  *)
(* require: of allowances, balances, shares, limits, ownership of tokens    *)
(* and listings, of a rule that is due, of a strategy registered before, of *)
(* the FeeManager's owner.                                                  *)
Unguarded == {"vaultDeposit", "vaultWithdraw", "vaultRedeem", "subscribeStrategy", "listStrategyNft",
              "cancelStrategyListing", "buy", "daoTriggerRule", "registerStrategy", "withdraw"}

(* Calls that are accepted and change nothing.                              *)
Pointless(kind) ==
    \/ kind = "approveNftForMarketplace" /\ "nftApproved" \in facts
    \/ kind = "revokeDelegate" /\ "delegate" \notin facts
    \/ kind = "vaultHarvest" /\ "strategyActive" \notin facts
    \/ kind = "approveBuy" /\ chain["price"] = 0
    \/ kind = "withdraw" /\ chain["fees"] = 0

UpToDate == seen = facts /\ view = chain /\ Waiting = {} /\ requests = {} /\ left = {}

=============================================================================
