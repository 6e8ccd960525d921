-------------------------------- MODULE Dapp --------------------------------
(***************************************************************************)
(* The front end's App component.  Every button shares one useWriteContract*)
(* mutation: a press opens a request in the wallet and the mutation follows*)
(* the newest request only; when the wallet answers it, effects keyed on   *)
(* the hash or the error attribute the answer by refs the handlers set.    *)
(* Reads are cached and read again when the query library or an effect     *)
(* chooses, so every handler works on a view of the chain that may be old. *)
(***************************************************************************)
EXTENDS Account

CONSTANTS
    PlainPresses,  \* the writes without state of their own that are pressed
    MaxPresses     \* bound: wallet requests

VaultWrites == {"approveVaultAsset", "vaultDeposit", "vaultWithdraw", "vaultRedeem", "vaultHarvest"}
SubscriptionWrites == {"approveUsdcForSubscription", "subscribeStrategy"}
ListingWrites == {"approveNftForMarketplace", "listStrategyNft", "cancelStrategyListing"}
StrategyWrites == {"claimRoyalties", "registerStrategy"}
DaoWrites == {"daoSetMaxDailySpend", "daoSetMaxSlippageBps", "daoRiskGuardPause",
              "daoRiskGuardUnpause", "daoTriggerRule", "daoSetAdapterExecutor"}
ReferralWrites == {"registerReferrer"}
DelegateWrites == {"revokeDelegate"}
PlainWrites == VaultWrites \union SubscriptionWrites \union ListingWrites \union StrategyWrites
               \union DaoWrites \union ReferralWrites \union DelegateWrites

ASSUME DappAssumption == PlainPresses \subseteq PlainWrites /\ MaxPresses \in Nat

VARIABLES
    view,      \* the cached reads
    write,     \* the mutation: its newest request, its state, the transaction of its hash
    requests,  \* requests open in the wallet
    signing,   \* nonce of the delegate authorization being signed, or NotSigning
    refs,      \* the pending refs that are set
    last,      \* kind of the transaction recorded as the last withdrawal, delegate trade
    delegateResult,
    takenOver  \* history: a signature was answered while a request was open

dappVars == <<view, write, requests, signing, refs, last, delegateResult, takenOver>>

NotSigning == -1
Refs == {"withdraw", "delegateSwap", "claim"}
Kinds == PlainWrites \union Refs \union {"swap", "authorize", "approveBuy", "buy"}
Idle == write.state # "wallet"   \* buttons are disabled while isSwapPending

DappInit ==
    /\ view = chain
    /\ write = [request |-> 0, state |-> "idle", hash |-> 0]
    /\ requests = {} /\ signing = NotSigning /\ refs = {}
    /\ last = [r \in {"withdraw", "delegateSwap"} |-> "none"]
    /\ delegateResult = "none" /\ takenOver = FALSE

DappTypeOK ==
    /\ view \in [Reads -> Nat]
    /\ write \in [request : 0..MaxPresses, state : {"idle", "wallet", "hash", "error"}, hash : Nat]
    /\ \A q \in requests : q.id \in 1..write.request /\ q.kind \in Kinds
    /\ signing \in Nat \union {NotSigning}
    /\ refs \subseteq Refs
    /\ last \in [{"withdraw", "delegateSwap"} -> Kinds \union {"none"}]
    /\ delegateResult \in {"none", "Pending", "Submitted", "Failed"}
    /\ takenOver \in BOOLEAN

-----------------------------------------------------------------------------
(* resetWrite() and writeContract(): the mutation follows the new request.  *)
Request(kind, arg) ==
    /\ write.request < MaxPresses
    /\ write' = [request |-> write.request + 1, state |-> "wallet", hash |-> 0]
    /\ requests' = requests \union
         {[id |-> write.request + 1, kind |-> kind, arg |-> arg,
           shown |-> IF kind = "approveBuy" THEN view["price"] ELSE 0]}

Press(kind, arg) ==
    /\ Idle /\ Request(kind, arg)
    /\ UNCHANGED <<accountVars, view, signing, last, takenOver>>

PressPlain(kind) == Press(kind, 0) /\ UNCHANGED <<refs, delegateResult>>

ExecuteSwap == Press("swap", view["nonce"]) /\ UNCHANGED <<refs, delegateResult>>

ExecuteAsDelegate ==
    /\ Press("delegateSwap", view["ownerNonce"])
    /\ refs' = refs \union {"delegateSwap"} /\ delegateResult' = "Pending"

WithdrawFeesToTreasury ==
    /\ view["fees"] > 0 /\ Press("withdraw", view["fees"])
    /\ refs' = refs \union {"withdraw"} /\ UNCHANGED delegateResult

ClaimReferralRewards ==
    /\ view["earned"] > 0 /\ Press("claim", 0)
    /\ refs' = refs \union {"claim"} /\ UNCHANGED delegateResult

(* Mutant: an approval without a limit.                                     *)
ApproveUnlimited ==
    /\ view["price"] > 0 /\ Press("approveBuy", 100)
    /\ UNCHANGED <<refs, delegateResult>>

ApprovePaymentForBuy ==
    /\ view["price"] > 0 /\ Press("approveBuy", view["price"])
    /\ UNCHANGED <<refs, delegateResult>>

BuyStrategyNft ==
    /\ view["buyAllowance"] >= view["price"] /\ Press("buy", 0)
    /\ UNCHANGED <<refs, delegateResult>>

(* authorizeDelegate up to its await: the nonce is the cached one, and the  *)
(* buttons stay enabled while the wallet shows the signature request.  One  *)
(* signature is open at a time (bound).                                     *)
AuthorizeDelegate ==
    /\ Idle /\ signing = NotSigning
    /\ signing' = view["authNonce"]
    /\ UNCHANGED <<accountVars, view, write, requests, refs, last, delegateResult, takenOver>>

Signed ==
    /\ signing # NotSigning /\ Request("authorize", signing)
    /\ signing' = NotSigning
    /\ takenOver' = (takenOver \/ ~Idle)
    /\ UNCHANGED <<accountVars, view, refs, last, delegateResult>>

SignatureRefused ==
    /\ signing # NotSigning /\ signing' = NotSigning
    /\ UNCHANGED <<accountVars, view, write, requests, refs, last, delegateResult, takenOver>>

-----------------------------------------------------------------------------
(* The effects on txHash: a set ref attributes the hash to its action.      *)
Recorded(kind) == [r \in DOMAIN last |-> IF r \in refs THEN kind ELSE last[r]]

(* Mutant: the effect on writeError is missing.                             *)
RefsAfterErrorKept == refs

(* The effect on writeError: only the delegate trade's ref is reset.        *)
RefsAfterError == refs \ {"delegateSwap"}

(* The wallet sends a request's transaction.  The mutation, and with it the *)
(* effects, hears of it when it follows that request.                       *)
Answered(q) ==
    /\ txs' = Append(txs, Tx(q.kind, q.arg, q.shown))
    /\ requests' = requests \ {q}
    /\ IF q.id = write.request
       THEN /\ write' = [write EXCEPT !.state = "hash", !.hash = Len(txs) + 1]
            /\ last' = Recorded(q.kind)
            /\ delegateResult' = IF "delegateSwap" \in refs THEN "Submitted" ELSE delegateResult
            /\ view' = IF "claim" \in refs THEN [view EXCEPT !["earned"] = chain["earned"]] ELSE view
            /\ refs' = {}
       ELSE UNCHANGED <<write, last, delegateResult, view, refs>>
    /\ UNCHANGED <<chain, others, signing, takenOver>>

Rejected(q) ==
    /\ requests' = requests \ {q}
    /\ IF q.id = write.request
       THEN /\ write' = [write EXCEPT !.state = "error"]
            /\ refs' = RefsAfterError
            /\ delegateResult' = IF "delegateSwap" \in refs THEN "Failed" ELSE delegateResult
       ELSE UNCHANGED <<write, refs, delegateResult>>
    /\ UNCHANGED <<accountVars, view, signing, last, takenOver>>

(* The reads are fetched again: the query library's focus and reconnect     *)
(* events, the "Refresh rewards" button.  Their answers are taken together. *)
Refetch ==
    /\ view # chain /\ view' = chain
    /\ UNCHANGED <<accountVars, write, requests, signing, refs, last, delegateResult, takenOver>>

DappNext ==
    \/ \E kind \in PlainPresses : PressPlain(kind)
    \/ ExecuteSwap \/ ExecuteAsDelegate
    \/ WithdrawFeesToTreasury \/ ClaimReferralRewards
    \/ ApprovePaymentForBuy \/ BuyStrategyNft
    \/ AuthorizeDelegate \/ Signed \/ SignatureRefused
    \/ \E q \in requests : Answered(q) \/ Rejected(q)
    \/ Refetch
-----------------------------------------------------------------------------
(* However often a swap is sent again from an old view, at most one swap    *)
(* per execution nonce takes effect.                                        *)
OneSwapPerNonce ==
    \A i, j \in DOMAIN txs :
        i # j /\ Did(i, {"swap"}) /\ Did(j, {"swap"}) => txs[i].arg # txs[j].arg

(* What the page says of a delegate trade: "Pending..." only while the      *)
(* mutation waits for the wallet, also after rejections, and a link that    *)
(* leads to a delegate trade, unless an authorization signed meanwhile took *)
(* the mutation over.                                                       *)
DelegateResultTold ==
    /\ "delegateSwap" \in refs => ~Idle /\ delegateResult = "Pending"
    /\ delegateResult = "Pending" => "delegateSwap" \in refs
    /\ takenOver \/ last["delegateSwap"] \in {"none", "delegateSwap"}

(* A buyer pays no more than the price the app showed when it asked for the *)
(* approval that the payment uses, although listings change in between.     *)
BuyerConsent ==
    \A i \in DOMAIN txs : Did(i, {"buy"}) =>
        \E a \in 1..i : Did(a, {"approveBuy"}) /\ txs[i].paid <= txs[a].shown
=============================================================================
