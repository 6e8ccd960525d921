--------------------------- MODULE ExecutionRouter ---------------------------
(***************************************************************************)
(* contracts/ExecutionRouter.sol with the contracts it calls: swaps on     *)
(* behalf of an owner (the caller, or the beneficiary of an authorised     *)
(* delegate), a protocol fee taken from the output and split between       *)
(* treasury and referrer, refunds, and the strategy binding.               *)
(*                                                                         *)
(* A transaction is atomic: an action is a call that did not revert, every *)
(* check of the code a conjunct.  Every user has approved the router for   *)
(* all of its tokens, the worst case for the properties.  Uniswap          *)
(* (external) is an account that takes the input and gives any output its  *)
(* own checks allow.                                                       *)
(***************************************************************************)
EXTENDS WalletAuthorization, FeeManager, ReferralRegistry

CONSTANTS
    router, pool,  \* accounts of the router and of Uniswap
    Amounts,       \* amountIn, amountInMaximum, amountOut and pool prices tried
    Values,        \* msg.value tried
    Limits,        \* minimum outputs and maximum inputs callers ask for
    MaxTrades,     \* bound: trades per owner (its last executionNonces value)
    Funding        \* initial balances

ASSUME RouterAssumption ==
    /\ router \in Accounts \ Users /\ pool \in Accounts \ Users
    /\ router # pool /\ registry \notin Users \cup {router, pool}
    /\ feeManager \notin Users \cup {router, registry}
    /\ Amounts \subseteq Nat /\ Values \subseteq Nat /\ Limits \subseteq Nat
    /\ MaxTrades \in Nat
    /\ Funding \in [Assets -> [Accounts -> Nat]]

VARIABLES
    executionNonces,  \* per owner
    paused,
    last,             \* history: who called, for whom, and what was agreed
    volume            \* history: swap output fees were computed on, per token

routerVars == <<executionNonces, paused>>
vars == <<bal, now, authVars, feeVars, registryVars, routerVars, last, volume>>

Kinds == {"none", "exactIn", "wrap", "exactOut", "other"}
Call(kind, sender, owner, token, value, promised) ==
    [kind |-> kind, sender |-> sender, owner |-> owner, token |-> token,
     value |-> value, promised |-> promised]
OtherCall(sender) == Call("other", sender, Zero, ETH, 0, 0)

(* Every variable of the router and of the contracts it calls keeps its     *)
(* type: no balance goes below zero, nobody's nonce leaves its bound and    *)
(* the fee configuration stays within FeeManager's limits.                  *)
RouterTypeOK ==
    /\ ChainTypeOK /\ AuthTypeOK /\ FeeTypeOK /\ RegistryTypeOK
    /\ executionNonces \in [Users -> 0..MaxTrades]
    /\ paused \in BOOLEAN
    /\ last \in [kind : Kinds, sender : Accounts \cup {Zero}, owner : Users \cup {Zero},
                 token : Assets, value : Nat, promised : Nat]
    /\ volume \in [Tokens -> Nat]

Init ==
    /\ bal = Funding
    /\ now = 0
    /\ AuthInit /\ FeeInit /\ RegistryInit
    /\ executionNonces = [u \in Users |-> 0]
    /\ paused = FALSE
    /\ last = Call("none", Zero, Zero, ETH, 0, 0)
    /\ volume = [t \in Tokens |-> 0]

-----------------------------------------------------------------------------
(* Shared steps of the four swap functions.                                *)

(* Mutant: any caller may name a beneficiary.                               *)
ResolveOwnerUnchecked(sender, beneficiary, owner) ==
    owner = IF beneficiary = Zero THEN sender ELSE beneficiary

ResolveOwner(sender, beneficiary, owner) ==
    IF beneficiary = Zero THEN owner = sender
    ELSE owner = beneficiary /\ authorized[beneficiary][sender]

ConsumeNonce(owner) ==
    /\ executionNonces[owner] < MaxTrades
    /\ executionNonces' = [executionNonces EXCEPT ![owner] = @ + 1]

(* Deadline, pause, owner and nonce: what each entry point checks first.    *)
Enter(sender, beneficiary, owner, deadline) ==
    /\ now <= deadline
    /\ ~paused
    /\ ResolveOwner(sender, beneficiary, owner)
    /\ ConsumeNonce(owner)

ReferralPaid(owner, out) ==
    IF referrerOf[owner] # Zero THEN ComputeReferralShare(ComputeProtocolFee(out)) ELSE 0

(* _distributeFee: the ledger after the router has sent the two shares.     *)
AfterFees(b, t, out, owner) ==
    LET fee == ComputeProtocolFee(out)
        toTreasury == fee - ComputeReferralShare(fee)
    IN Transfer(Transfer(b, t, router, registry, ReferralPaid(owner, out)),
                t, router, treasury, toTreasury)

(* Mutant: the user gets the output before fees.                            *)
ToUserGross(out) == out

ToUser(out) == out - ComputeProtocolFee(out)

DistributeFee(t, out, owner) ==
    /\ IF ReferralPaid(owner, out) > 0
       THEN CreditReward(router, referrerOf[owner], t, ReferralPaid(owner, out))
       ELSE UNCHANGED earnings
    /\ RecordFeeCollected(router, t, ComputeProtocolFee(out))
    /\ volume' = [volume EXCEPT ![t] = @ + out]
    /\ UNCHANGED <<protocolFeeBps, referralSplitBps, treasury, feeExecutor,
                   referrerOf, refExecutor, authVars, now, paused>>

(* _sendOutput: WETH goes out as ether.                                     *)
SendOutput(b, t, to, n) ==
    IF t = WETH THEN Transfer(Unwrap(b, router, n), ETH, router, to, n)
    ELSE Transfer(b, t, router, to, n)

(* Uniswap takes what the router approved and pays the router.              *)
Swapped(b, tokenIn, used, tokenOut, received) ==
    Transfer(Transfer(b, tokenIn, router, pool, used), tokenOut, pool, router, received)

-----------------------------------------------------------------------------
(* executeExactInputSingle; `received` is what Uniswap gives.               *)

(* tokenIn = tokenOut = WETH with enough ether: wrap only, no swap; the     *)
(* output stays WETH.                                                       *)
WrapOnly(sender, owner, amountIn, value, minAfterFee) ==
    /\ value >= amountIn
    /\ Has(bal, ETH, sender, value)
    /\ ToUser(amountIn) >= minAfterFee
    /\ LET paid == Transfer(bal, ETH, sender, router, value)
           refunded == Transfer(paid, ETH, router, sender, value - amountIn)
           wrapped == Wrap(refunded, router, amountIn)
       IN bal' = Transfer(AfterFees(wrapped, WETH, amountIn, owner),
                          WETH, router, owner, ToUser(amountIn))
    /\ DistributeFee(WETH, amountIn, owner)
    /\ last' = Call("wrap", sender, owner, WETH, value, minAfterFee)

(* The ledger once the router holds amountIn of tokenIn: from msg.value,    *)
(* whose excess goes back to the caller, or from the owner's tokens, in     *)
(* which case any ether sent along stays in the router.                     *)
EthIn(tokenIn, value) == tokenIn = WETH /\ value > 0

CollectedExactIn(sender, owner, tokenIn, amountIn, value) ==
    LET paid == Transfer(bal, ETH, sender, router, value)
    IN IF EthIn(tokenIn, value)
       THEN Wrap(Transfer(paid, ETH, router, sender, value - amountIn), router, amountIn)
       ELSE Transfer(paid, tokenIn, owner, router, amountIn)

CanPay(sender, owner, tokenIn, amount, value) ==
    /\ Has(bal, ETH, sender, value)
    /\ IF EthIn(tokenIn, value) THEN value >= amount ELSE Has(bal, tokenIn, owner, amount)

ExactInputSingle(sender, owner, tokenIn, tokenOut, amountIn, value, received, minOut, minAfterFee) ==
    /\ tokenIn # tokenOut
    /\ CanPay(sender, owner, tokenIn, amountIn, value)
    /\ Has(bal, tokenOut, pool, received)
    /\ received >= minOut
    /\ ToUser(received) >= minAfterFee
    /\ LET collected == CollectedExactIn(sender, owner, tokenIn, amountIn, value)
           swapped == Swapped(collected, tokenIn, amountIn, tokenOut, received)
       IN bal' = SendOutput(AfterFees(swapped, tokenOut, received, owner),
                            tokenOut, owner, ToUser(received))
    /\ DistributeFee(tokenOut, received, owner)
    /\ last' = Call("exactIn", sender, owner, tokenOut, value, minAfterFee)

-----------------------------------------------------------------------------
(* executeExactOutputSingle; `used` is what Uniswap takes.  All of          *)
(* msg.value is wrapped, but only amountInMaximum - used is refunded.       *)

CollectedExactOut(sender, owner, tokenIn, maxIn, value) ==
    LET paid == Transfer(bal, ETH, sender, router, value)
    IN IF EthIn(tokenIn, value) THEN Wrap(paid, router, value)
       ELSE Transfer(paid, tokenIn, owner, router, maxIn)

(* Mutant: the part of the input Uniswap did not take is kept.              *)
RefundNothing(b, tokenIn, owner, excess, value) == b

RefundExcessInput(b, tokenIn, owner, excess, value) ==
    IF EthIn(tokenIn, value)
    THEN Transfer(Unwrap(b, router, excess), ETH, router, owner, excess)
    ELSE Transfer(b, tokenIn, router, owner, excess)

ExactOutputSingle(sender, owner, tokenIn, tokenOut, amountOut, maxIn, value, used, maxAfterFee) ==
    /\ tokenIn # tokenOut
    /\ CanPay(sender, owner, tokenIn, maxIn, value)
    /\ Has(bal, tokenOut, pool, amountOut)
    /\ used <= maxIn
    /\ used <= maxAfterFee
    /\ LET collected == CollectedExactOut(sender, owner, tokenIn, maxIn, value)
           swapped == Swapped(collected, tokenIn, used, tokenOut, amountOut)
           shared == AfterFees(swapped, tokenOut, amountOut, owner)
           refunded == RefundExcessInput(shared, tokenIn, owner, maxIn - used, value)
       IN bal' = SendOutput(refunded, tokenOut, owner, ToUser(amountOut))
    /\ DistributeFee(tokenOut, amountOut, owner)
    /\ last' = Call("exactOut", sender, owner, tokenIn, value, maxAfterFee)

-----------------------------------------------------------------------------
(* The router's own administration.                                        *)

SetPaused(p) ==
    /\ paused # p
    /\ paused' = p
    /\ UNCHANGED executionNonces

-----------------------------------------------------------------------------
(* Everything that can happen on chain.                                    *)

(* Every entry point of the router starts with Enter.                       *)
Trade ==
    \E sender \in Users, beneficiary \in Users \cup {Zero}, owner \in Users, deadline \in Times :
        /\ Enter(sender, beneficiary, owner, deadline)
        /\ \E value \in Values, limit \in Limits, a1 \in Amounts :
              \/ WrapOnly(sender, owner, a1, value, limit)
              \/ \E tokenIn \in Tokens, tokenOut \in Tokens, a2 \in Amounts :
                    \/ ExactInputSingle(sender, owner, tokenIn, tokenOut, a1, value,
                                        a2, limit, limit)
                    \/ \E used \in Amounts :
                          ExactOutputSingle(sender, owner, tokenIn, tokenOut, a1, a2, value,
                                            used, limit)

(* Calls that touch no balance.                                             *)
Authorization ==
    /\ \/ \E sig \in Signatures : Sign(sig)
       \/ \E sig \in signed, o \in Users, d \in Users, deadline \in Times :
             AuthorizeDelegate(o, d, deadline, sig)
       \/ \E o \in Users, d \in Users : RevokeDelegate(o, d)
    /\ UNCHANGED <<bal, now, feeVars, registryVars, routerVars>>

Administration ==
    \/ /\ \/ \E e \in Executors : SetFeeExecutor(e)
          \/ \E c \in FeeConfigs : SetFeeConfig(c[1], c[2])
          \/ \E a \in Treasuries : SetTreasury(a)
       /\ UNCHANGED <<bal, now, authVars, registryVars, routerVars>>
    \/ /\ \E e \in Executors : SetRefExecutor(e)
       /\ UNCHANGED <<bal, now, authVars, feeVars, routerVars>>
    \/ /\ \E p \in BOOLEAN : SetPaused(p)
       /\ UNCHANGED <<bal, now, authVars, feeVars, registryVars>>
    \/ /\ \E t \in Assets, n \in Amounts : WithdrawToTreasury(t, n)
       /\ UNCHANGED <<now, authVars, registryVars, routerVars>>

Referral(sender) ==
    \/ /\ \E referrer \in Users : RegisterReferrer(sender, referrer)
       /\ UNCHANGED <<bal, now, authVars, feeVars, routerVars>>
    \/ /\ \E t \in Tokens, to \in Users \cup {Zero} : ClaimRewards(sender, t, to)
       /\ UNCHANGED <<now, authVars, feeVars, routerVars>>

Tick ==
    /\ AdvanceTime
    /\ UNCHANGED <<bal, authVars, feeVars, registryVars, routerVars>>

Next ==
    \/ Trade
    \/ (Authorization \/ Administration \/ Tick) /\ last' = OtherCall(Zero) /\ UNCHANGED volume
    \/ \E u \in Users : Referral(u) /\ last' = OtherCall(u) /\ UNCHANGED volume

Spec == Init /\ [][Next]_vars

-----------------------------------------------------------------------------
(* Nobody's funds move without that account's word: a user's balance of any *)
(* asset only falls in a call the user made or one made by a delegate the   *)
(* user had authorised.                                                     *)
OnlyAuthorizedSpends ==
    [][\A u \in Users, t \in Assets :
          bal'[t][u] < bal[t][u] =>
              \/ last'.sender = u
              \/ last'.sender \in Users /\ authorized[u][last'.sender]]_vars

(* A trade pays out only what it brought in: what the router holds, such as *)
(* funds stranded by earlier calls, is never spent by a later one.          *)
RouterNeverPays == [][\A t \in Assets : bal'[t][router] >= bal[t][router]]_vars

(* The terms of a trade are kept in the owner's balances, not only in the   *)
(* checks: an exact input brings at least the minimum agreed after fees, an *)
(* exact output costs no more tokens than the maximum agreed.               *)
OutAsset(call) == IF call.kind = "exactIn" /\ call.token = WETH THEN ETH ELSE call.token

TermsKept ==
    [][LET o == last'.owner IN
        /\ last'.kind \in {"exactIn", "wrap"} =>
              LET a == OutAsset(last')
                  sent == IF a = ETH /\ last'.sender = o THEN last'.value ELSE 0
              IN bal'[a][o] + sent >= bal[a][o] + last'.promised
        /\ last'.kind = "exactOut" =>
              bal'[last'.token][o] + last'.promised >= bal[last'.token][o]]_vars

(* Whatever the owner of the FeeManager configures and when, the fees taken *)
(* over time stay within 2% (MAX_FEE_BPS) of what the swaps brought.        *)
FeesCapped ==
    \A t \in Tokens : totalFees[t] * BPS_DENOMINATOR <= volume[t] * MAX_FEE_BPS
=============================================================================
