----------------------------- MODULE RouterProofs -----------------------------
(***************************************************************************)
(* Theorems about the router and the contracts it calls, for any users,    *)
(* tokens, amounts, signatures and fee configurations.                     *)
(*                                                                         *)
(* What a call moves is added up as flows (LedgerProofs), account by       *)
(* account: no balance is overdrawn, and the referral registry holds the   *)
(* sum of what it owes.                                                    *)
(***************************************************************************)
EXTENDS ExecutionRouter, LedgerProofs

Ledgers == LedgersOver(Assets, Accounts)

USE DEF Ledgers

(* Wrapping exchanges ether for WETH.                                       *)
LEMMA WrapFlow ==
    ASSUME NEW b \in Ledgers, NEW a, NEW n \in Int, NEW s \in Assets, NEW x \in Accounts
    PROVE  /\ Wrap(b, a, n) \in Ledgers
           /\ Wrap(b, a, n)[s][x] = b[s][x] - Flow(s, x, ETH, a, n) + Flow(s, x, WETH, a, n)
<1>1. ETH # WETH
  BY ChainAssumption
<1> QED BY <1>1, ExchangeFlow DEF Wrap

(* Unwrapping exchanges WETH for ether.                                     *)
LEMMA UnwrapFlow ==
    ASSUME NEW b \in Ledgers, NEW a, NEW n \in Int, NEW s \in Assets, NEW x \in Accounts
    PROVE  /\ Unwrap(b, a, n) \in Ledgers
           /\ Unwrap(b, a, n)[s][x] = b[s][x] - Flow(s, x, WETH, a, n) + Flow(s, x, ETH, a, n)
<1>1. ETH # WETH
  BY ChainAssumption
<1> QED BY <1>1, ExchangeFlow DEF Unwrap

EarningsType == [Users -> [Tokens -> Nat]]

-----------------------------------------------------------------------------
(* The inductive invariant.                                                 *)

(* Spent signatures are for nonces their owner has passed.                  *)
AuthOK ==
    /\ authorized \in [Users -> [Users -> BOOLEAN]]
    /\ authNonce \in [Users -> 0..(MaxSignatures + 1)]
    /\ signed \subseteq Signatures
    /\ \A sig \in spent : sig.nonce < authNonce[sig.owner]
    /\ AuthorizedBySignature

FeesOK ==
    /\ protocolFeeBps \in 0..MAX_FEE_BPS /\ referralSplitBps \in 0..BPS_DENOMINATOR
    /\ totalFees \in [Tokens -> Nat] /\ volume \in [Tokens -> Nat]
    /\ FeesCapped

(* Nobody is overdrawn.                                                     *)
Covered == \A s \in Assets, x \in Accounts : bal[s][x] >= 0

MoneyOK ==
    /\ bal \in Ledgers /\ earnings \in EarningsType
    /\ Covered /\ RegistrySolvent

CallType == [kind : Kinds, sender : Accounts \cup {Zero}, owner : Users \cup {Zero},
             token : Assets, value : Nat, promised : Nat]

(* What no property is about, of its type.                                  *)
SettingsOK ==
    /\ now \in Times /\ treasury \in Accounts
    /\ feeExecutor \in Accounts \cup {Zero} /\ refExecutor \in Accounts \cup {Zero}
    /\ referrerOf \in [Users -> Users \cup {Zero}]
    /\ executionNonces \in [Users -> 0..MaxTrades]
    /\ paused \in BOOLEAN /\ last \in CallType

RInv == AuthOK /\ FeesOK /\ MoneyOK /\ SettingsOK

-----------------------------------------------------------------------------
(* Fees.                                                                    *)

(* Rounding down: a part of n of p in 10000 is at most that part of n.      *)
LEMMA PartOf ==
    ASSUME NEW n \in Nat, NEW p \in Nat, NEW q \in Nat, p <= q
    PROVE  /\ (n * p) \div 10000 \in Nat
           /\ ((n * p) \div 10000) * 10000 <= n * q
           /\ n * p \in Nat /\ n * q \in Nat
<1>1. \A y, z \in Nat : y * z \in Nat
  OBVIOUS
<1>2. n * p \in Nat /\ n * q \in Nat /\ n * (q - p) \in Nat
  <2>1. q - p \in Nat
    OBVIOUS
  <2> QED BY <1>1, <2>1
<1>3. n * q - n * p = n * (q - p)
  OBVIOUS
<1>4. \A x \in Nat : x \div 10000 \in Nat /\ (x \div 10000) * 10000 <= x
  OBVIOUS
<1> DEFINE x == n * p
           y == n * q
<1>5. x <= y /\ x \in Nat /\ y \in Nat
  BY <1>2, <1>3
<1> HIDE DEF x, y
<1>6. x \div 10000 \in Nat /\ (x \div 10000) * 10000 <= y
  BY <1>4, <1>5
<1> QED BY <1>5, <1>6 DEF x, y

(* A fee is at most the cap's share of the output, a referral reward at     *)
(* most the fee.                                                            *)
LEMMA FeeFacts ==
    ASSUME FeesOK, NEW out \in Nat
    PROVE  /\ ComputeProtocolFee(out) \in Nat /\ ToUser(out) \in Nat
           /\ ComputeProtocolFee(out) * BPS_DENOMINATOR <= out * MAX_FEE_BPS
           /\ ComputeReferralShare(ComputeProtocolFee(out)) \in Nat
           /\ ComputeReferralShare(ComputeProtocolFee(out)) <= ComputeProtocolFee(out)
<1> DEFINE fee == ComputeProtocolFee(out)
<1>1. /\ protocolFeeBps \in Nat /\ protocolFeeBps <= 200
      /\ referralSplitBps \in Nat /\ referralSplitBps <= 10000
  BY DEF FeesOK, MAX_FEE_BPS, BPS_DENOMINATOR
<1>2. fee \in Nat /\ fee * 10000 <= out * 200
  BY <1>1, PartOf DEF ComputeProtocolFee, BPS_DENOMINATOR
<1> HIDE DEF fee
<1>3. fee <= out
  BY <1>2
<1>4. ComputeReferralShare(fee) \in Nat /\ ComputeReferralShare(fee) * 10000 <= fee * 10000
  BY <1>1, <1>2, PartOf DEF ComputeReferralShare, BPS_DENOMINATOR
<1>5. ComputeReferralShare(fee) <= fee
  BY <1>2, <1>4
<1>6. ToUser(out) \in Nat
  BY <1>2, <1>3 DEF ToUser, fee
<1> QED BY <1>2, <1>4, <1>5, <1>6 DEF fee, BPS_DENOMINATOR, MAX_FEE_BPS

(* The two shares of a fee make up no more than the fee.                    *)
LEMMA SharesFit ==
    ASSUME FeesOK, NEW out \in Nat, NEW o
    PROVE  LET fee == ComputeProtocolFee(out)
               toTreasury == fee - ComputeReferralShare(fee)
           IN /\ ReferralPaid(o, out) \in Nat /\ toTreasury \in Nat
              /\ ReferralPaid(o, out) + toTreasury + ToUser(out) <= out
<1> DEFINE fee == ComputeProtocolFee(out)
           share == ComputeReferralShare(fee)
<1>1. fee \in Nat /\ share \in Nat /\ share <= fee /\ ToUser(out) = out - fee
  BY FeeFacts DEF ToUser
<1>2. ReferralPaid(o, out) \in {0, share}
  BY DEF ReferralPaid
<1> HIDE DEF fee, share
<1>3. /\ ReferralPaid(o, out) \in Nat /\ fee - share \in Nat
      /\ ReferralPaid(o, out) + (fee - share) + ToUser(out) <= out
  BY <1>1, <1>2
<1> QED BY <1>3 DEF fee, share

(* What one trade adds to the accounting.                                   *)
LEMMA FeesKeep ==
    ASSUME FeesOK, NEW t \in Tokens, NEW out \in Nat, NEW o, DistributeFee(t, out, o)
    PROVE  FeesOK'
<1> DEFINE fee == ComputeProtocolFee(out)
<1>1. fee \in Nat /\ fee * BPS_DENOMINATOR <= out * MAX_FEE_BPS
  BY FeeFacts
<1>2. /\ totalFees' = [totalFees EXCEPT ![t] = totalFees[t] + fee]
      /\ volume' = [volume EXCEPT ![t] = volume[t] + out]
      /\ UNCHANGED <<protocolFeeBps, referralSplitBps>>
  BY DEF DistributeFee, RecordFeeCollected
<1> HIDE DEF fee
<1>3. totalFees' \in [Tokens -> Nat] /\ volume' \in [Tokens -> Nat]
  BY <1>1, <1>2 DEF FeesOK
<1>4. ASSUME NEW s \in Tokens PROVE totalFees'[s] * BPS_DENOMINATOR <= volume'[s] * MAX_FEE_BPS
  <2>1. totalFees[s] \in Nat /\ volume[s] \in Nat /\ totalFees[s] * 10000 <= volume[s] * 200
    BY DEF FeesOK, FeesCapped, BPS_DENOMINATOR, MAX_FEE_BPS
  <2>2. CASE s = t
    <3>1. totalFees'[s] = totalFees[s] + fee /\ volume'[s] = volume[s] + out
      BY <1>2, <2>2 DEF FeesOK
    <3> QED BY <1>1, <2>1, <3>1 DEF BPS_DENOMINATOR, MAX_FEE_BPS
  <2>3. CASE s # t
    <3>1. totalFees'[s] = totalFees[s] /\ volume'[s] = volume[s]
      BY <1>2, <2>3 DEF FeesOK
    <3> QED BY <2>1, <3>1 DEF BPS_DENOMINATOR, MAX_FEE_BPS
  <2> QED BY <2>2, <2>3
<1> QED BY <1>2, <1>3, <1>4 DEF FeesOK, FeesCapped

(* Distributing a fee leaves rewards natural numbers.                       *)
LEMMA EarningsKeep ==
    ASSUME earnings \in EarningsType, FeesOK, NEW t \in Tokens, NEW out \in Nat, NEW o,
           DistributeFee(t, out, o)
    PROVE  earnings' \in EarningsType
<1> DEFINE n == ReferralPaid(o, out)
           r == referrerOf[o]
<1>1. n \in Nat
  BY SharesFit
<1>2. CASE n > 0 /\ r \in Users
  <2>1. earnings' = [earnings EXCEPT ![r][t] = earnings[r][t] + n]
    BY <1>2 DEF DistributeFee, CreditReward
  <2> HIDE DEF n, r
  <2>2. earnings[r][t] + n \in Nat /\ earnings[r] \in [Tokens -> Nat]
    BY <1>1, <1>2 DEF EarningsType
  <2>3. [earnings[r] EXCEPT ![t] = earnings[r][t] + n] \in [Tokens -> Nat]
    BY <2>2
  <2> QED BY <1>2, <2>1, <2>3 DEF EarningsType
<1>3. CASE n > 0 /\ r \notin Users
  <2>1. earnings' = [earnings EXCEPT ![r][t] = earnings[r][t] + n]
    BY <1>3 DEF DistributeFee, CreditReward
  <2> HIDE DEF n, r
  <2>2. earnings' = earnings
    BY <1>3, <2>1 DEF EarningsType
  <2> QED BY <2>2
<1>4. CASE ~(n > 0)
  BY <1>4 DEF DistributeFee
<1> QED BY <1>2, <1>3, <1>4

-----------------------------------------------------------------------------
(* What the shared steps of a trade move.                                   *)
Paid(o, out) == ReferralPaid(o, out)
ToTreasury(out) == ComputeProtocolFee(out) - ComputeReferralShare(ComputeProtocolFee(out))

(* A fee goes from the router to the registry and to the treasury.          *)
LEMMA AfterFeesFlow ==
    ASSUME FeesOK, NEW b \in Ledgers, NEW t, NEW out \in Nat, NEW o, NEW s \in Assets, NEW x \in Accounts
    PROVE  /\ AfterFees(b, t, out, o) \in Ledgers
           /\ AfterFees(b, t, out, o)[s][x] =
                 b[s][x] - Flow(s, x, t, router, Paid(o, out)) + Flow(s, x, t, registry, Paid(o, out))
                         - Flow(s, x, t, router, ToTreasury(out)) + Flow(s, x, t, treasury, ToTreasury(out))
<1> DEFINE m == Paid(o, out)
           n == ToTreasury(out)
           one == Transfer(b, t, router, registry, m)
<1>0. b[s][x] \in Int
  BY DEF LedgersOver
<1>1. m \in Int /\ n \in Int
  BY SharesFit DEF Paid, ToTreasury
<1>2. AfterFees(b, t, out, o) = Transfer(one, t, router, treasury, n)
  BY DEF AfterFees, Paid, ToTreasury
<1> HIDE DEF m, n
<1>3. one \in Ledgers /\ one[s][x] = b[s][x] - Flow(s, x, t, router, m) + Flow(s, x, t, registry, m)
  BY <1>1, TransferFlow
<1> HIDE DEF one
<1>4. /\ Transfer(one, t, router, treasury, n) \in Ledgers
      /\ Transfer(one, t, router, treasury, n)[s][x] =
            one[s][x] - Flow(s, x, t, router, n) + Flow(s, x, t, treasury, n)
  BY <1>1, <1>3, TransferFlow
<1>5. one[s][x] - Flow(s, x, t, router, n) + Flow(s, x, t, treasury, n) =
         b[s][x] - Flow(s, x, t, router, m) + Flow(s, x, t, registry, m)
                 - Flow(s, x, t, router, n) + Flow(s, x, t, treasury, n)
  BY <1>0, <1>1, <1>3, FlowInt
<1> QED BY <1>2, <1>4, <1>5 DEF m, n

(* An asset as it is paid out: WETH leaves as ether.                        *)
Out(t) == IF t = WETH THEN ETH ELSE t

(* The output leaves the router, unwrapped when it is WETH.                 *)
LEMMA SendOutputFlow ==
    ASSUME NEW b \in Ledgers, NEW t, NEW to, NEW n \in Int, NEW s \in Assets, NEW x \in Accounts
    PROVE  /\ SendOutput(b, t, to, n) \in Ledgers
           /\ SendOutput(b, t, to, n)[s][x] =
                 b[s][x] - Flow(s, x, t, router, n) + Flow(s, x, Out(t), to, n)
<1>1. CASE t = WETH
  <2> DEFINE u == Unwrap(b, router, n)
  <2>1. u \in Ledgers /\ u[s][x] = b[s][x] - Flow(s, x, WETH, router, n) + Flow(s, x, ETH, router, n)
    BY UnwrapFlow
  <2> HIDE DEF u
  <2>2. /\ Transfer(u, ETH, router, to, n) \in Ledgers
        /\ Transfer(u, ETH, router, to, n)[s][x] = u[s][x] - Flow(s, x, ETH, router, n) + Flow(s, x, ETH, to, n)
    BY <2>1, TransferFlow
  <2>3. b[s][x] \in Int
    BY DEF LedgersOver
  <2>4. SendOutput(b, t, to, n) = Transfer(u, ETH, router, to, n)
    BY <1>1 DEF SendOutput, u
  <2> QED BY <1>1, <2>1, <2>2, <2>3, <2>4, FlowInt DEF Out
<1>2. CASE t # WETH
  <2>1. SendOutput(b, t, to, n) = Transfer(b, t, router, to, n) /\ Out(t) = t
    BY <1>2 DEF SendOutput, Out
  <2>2. Transfer(b, t, router, to, n) \in Ledgers
    BY TransferFlow
  <2>3. Transfer(b, t, router, to, n)[s][x] = b[s][x] - Flow(s, x, t, router, n) + Flow(s, x, t, to, n)
    BY TransferFlow
  <2> QED BY <2>1, <2>2, <2>3
<1> QED BY <1>1, <1>2

(* Uniswap takes the input and gives the output.                            *)
LEMMA SwappedFlow ==
    ASSUME NEW b \in Ledgers, NEW t, NEW m \in Int, NEW q, NEW n \in Int, NEW s \in Assets, NEW x \in Accounts
    PROVE  /\ Swapped(b, t, m, q, n) \in Ledgers
           /\ Swapped(b, t, m, q, n)[s][x] =
                 b[s][x] - Flow(s, x, t, router, m) + Flow(s, x, t, pool, m)
                         - Flow(s, x, q, pool, n) + Flow(s, x, q, router, n)
<1> DEFINE one == Transfer(b, t, router, pool, m)
<1>1. one \in Ledgers /\ one[s][x] = b[s][x] - Flow(s, x, t, router, m) + Flow(s, x, t, pool, m)
  BY TransferFlow
<1> HIDE DEF one
<1>2. /\ Transfer(one, q, pool, router, n) \in Ledgers
      /\ Transfer(one, q, pool, router, n)[s][x] = one[s][x] - Flow(s, x, q, pool, n) + Flow(s, x, q, router, n)
  BY <1>1, TransferFlow
<1>3. b[s][x] \in Int
  BY DEF LedgersOver
<1> QED BY <1>1, <1>2, <1>3, FlowInt DEF Swapped, one

(* What is collected for an exact input, net of the refund.                 *)
LEMMA CollectedInFlow ==
    ASSUME bal \in Ledgers, NEW sender, NEW o, NEW t, NEW n \in Int, NEW v \in Int,
           NEW s \in Assets, NEW x \in Accounts
    PROVE  LET c == CollectedExactIn(sender, o, t, n, v)
           IN /\ c \in Ledgers
              /\ EthIn(t, v) => c[s][x] = bal[s][x] - Flow(s, x, ETH, sender, v) + Flow(s, x, ETH, router, v)
                                                    - Flow(s, x, ETH, router, v - n) + Flow(s, x, ETH, sender, v - n)
                                                    - Flow(s, x, ETH, router, n) + Flow(s, x, WETH, router, n)
              /\ ~EthIn(t, v) => c[s][x] = bal[s][x] - Flow(s, x, ETH, sender, v) + Flow(s, x, ETH, router, v)
                                                     - Flow(s, x, t, o, n) + Flow(s, x, t, router, n)
<1> DEFINE paid == Transfer(bal, ETH, sender, router, v)
           back == Transfer(paid, ETH, router, sender, v - n)
           wrapped == Wrap(back, router, n)
           pulled == Transfer(paid, t, o, router, n)
<1>1. paid \in Ledgers /\ paid[s][x] = bal[s][x] - Flow(s, x, ETH, sender, v) + Flow(s, x, ETH, router, v)
  BY TransferFlow
<1> HIDE DEF paid
<1>2. back \in Ledgers /\ back[s][x] = paid[s][x] - Flow(s, x, ETH, router, v - n) + Flow(s, x, ETH, sender, v - n)
  BY <1>1, TransferFlow
<1> HIDE DEF back
<1>3. wrapped \in Ledgers /\ wrapped[s][x] = back[s][x] - Flow(s, x, ETH, router, n) + Flow(s, x, WETH, router, n)
  BY <1>2, WrapFlow
<1>4. pulled \in Ledgers /\ pulled[s][x] = paid[s][x] - Flow(s, x, t, o, n) + Flow(s, x, t, router, n)
  BY <1>1, TransferFlow
<1>0. bal[s][x] \in Int /\ v - n \in Int
  BY DEF LedgersOver
<1>5. CollectedExactIn(sender, o, t, n, v) = IF EthIn(t, v) THEN wrapped ELSE pulled
  BY DEF CollectedExactIn, paid, back
<1> HIDE DEF wrapped, pulled
<1> QED BY <1>0, <1>1, <1>2, <1>3, <1>4, <1>5, FlowInt

(* What an exact output collects first: ether that is wrapped, or the       *)
(* owner's tokens.                                                          *)
LEMMA CollectedOutFlow ==
    ASSUME bal \in Ledgers, NEW sender, NEW o, NEW t, NEW n \in Int, NEW v \in Int,
           NEW s \in Assets, NEW x \in Accounts
    PROVE  LET c == CollectedExactOut(sender, o, t, n, v)
           IN /\ c \in Ledgers
              /\ EthIn(t, v) => c[s][x] = bal[s][x] - Flow(s, x, ETH, sender, v) + Flow(s, x, ETH, router, v)
                                                    - Flow(s, x, ETH, router, v) + Flow(s, x, WETH, router, v)
              /\ ~EthIn(t, v) => c[s][x] = bal[s][x] - Flow(s, x, ETH, sender, v) + Flow(s, x, ETH, router, v)
                                                     - Flow(s, x, t, o, n) + Flow(s, x, t, router, n)
<1> DEFINE paid == Transfer(bal, ETH, sender, router, v)
           wrapped == Wrap(paid, router, v)
           pulled == Transfer(paid, t, o, router, n)
<1>1. paid \in Ledgers /\ paid[s][x] = bal[s][x] - Flow(s, x, ETH, sender, v) + Flow(s, x, ETH, router, v)
  BY TransferFlow
<1> HIDE DEF paid
<1>2. wrapped \in Ledgers /\ wrapped[s][x] = paid[s][x] - Flow(s, x, ETH, router, v) + Flow(s, x, WETH, router, v)
  BY <1>1, WrapFlow
<1>3. pulled \in Ledgers /\ pulled[s][x] = paid[s][x] - Flow(s, x, t, o, n) + Flow(s, x, t, router, n)
  BY <1>1, TransferFlow
<1>0. bal[s][x] \in Int
  BY DEF LedgersOver
<1>4. CollectedExactOut(sender, o, t, n, v) = IF EthIn(t, v) THEN wrapped ELSE pulled
  BY DEF CollectedExactOut, paid
<1> HIDE DEF wrapped, pulled
<1> QED BY <1>0, <1>1, <1>2, <1>3, <1>4, FlowInt

(* What is left of the input goes back to the owner, as what it came.       *)
LEMMA RefundFlow ==
    ASSUME NEW b \in Ledgers, NEW t, NEW o, NEW n \in Int, NEW v, NEW s \in Assets, NEW x \in Accounts
    PROVE  LET r == RefundExcessInput(b, t, o, n, v)
           IN /\ r \in Ledgers
              /\ EthIn(t, v) => r[s][x] = b[s][x] - Flow(s, x, WETH, router, n) + Flow(s, x, ETH, router, n)
                                                  - Flow(s, x, ETH, router, n) + Flow(s, x, ETH, o, n)
              /\ ~EthIn(t, v) => r[s][x] = b[s][x] - Flow(s, x, t, router, n) + Flow(s, x, t, o, n)
<1> DEFINE u == Unwrap(b, router, n)
           sent == Transfer(u, ETH, router, o, n)
           back == Transfer(b, t, router, o, n)
<1>1. u \in Ledgers /\ u[s][x] = b[s][x] - Flow(s, x, WETH, router, n) + Flow(s, x, ETH, router, n)
  BY UnwrapFlow
<1> HIDE DEF u
<1>2. sent \in Ledgers /\ sent[s][x] = u[s][x] - Flow(s, x, ETH, router, n) + Flow(s, x, ETH, o, n)
  BY <1>1, TransferFlow
<1>3. back \in Ledgers /\ back[s][x] = b[s][x] - Flow(s, x, t, router, n) + Flow(s, x, t, o, n)
  BY TransferFlow
<1>0. b[s][x] \in Int
  BY DEF LedgersOver
<1>4. RefundExcessInput(b, t, o, n, v) = IF EthIn(t, v) THEN sent ELSE back
  BY DEF RefundExcessInput, u
<1> HIDE DEF sent, back
<1> QED BY <1>0, <1>1, <1>2, <1>3, <1>4, FlowInt

-----------------------------------------------------------------------------
(* The three kinds of trade.  What is said of one: nobody has less than     *)
(* before but the caller, the owner and Uniswap, and nobody is overdrawn.   *)
NobodyElsePays(sender, o) ==
    /\ bal' \in Ledgers
    /\ \A s \in Assets, x \in Accounts \ {sender, o, pool} : bal'[s][x] >= bal[s][x]
    /\ Covered => Covered'

(* The registry gets what the referrer is credited with.                    *)
ReferralSent(o, t, out) == bal'[t][registry] >= bal[t][registry] + Paid(o, out)

(* Who is who: the parties of a trade are different accounts, and amounts   *)
(* are natural numbers.                                                     *)
LEMMA Accounting ==
    /\ router \in Accounts /\ pool \in Accounts /\ registry \in Accounts /\ router \notin Users
    /\ pool \notin Users /\ registry \notin Users /\ router # pool /\ registry # router
    /\ registry # pool
    /\ WETH \in Assets /\ ETH \in Assets /\ WETH # ETH /\ ETH \notin Tokens /\ WETH \in Tokens
    /\ Users \subseteq Accounts /\ Tokens \subseteq Assets
    /\ Amounts \subseteq Nat /\ Values \subseteq Nat /\ Limits \subseteq Nat
BY ChainAssumption, RouterAssumption, RegistryAssumption DEF Assets

(* A wrap-only call takes from nobody but the sender and brings the         *)
(* minimum.                                                                 *)
LEMMA WrapMoves ==
    ASSUME FeesOK, bal \in Ledgers, NEW sender \in Users, NEW o \in Users, NEW n \in Amounts,
           NEW v \in Values, NEW min \in Limits, WrapOnly(sender, o, n, v, min)
    PROVE  /\ NobodyElsePays(sender, o) /\ ReferralSent(o, WETH, n)
           /\ bal'[WETH][o] >= bal[WETH][o] + min
<1> DEFINE paid == Transfer(bal, ETH, sender, router, v)
           refunded == Transfer(paid, ETH, router, sender, v - n)
           wrapped == Wrap(refunded, router, n)
           shared == AfterFees(wrapped, WETH, n, o)
           final == Transfer(shared, WETH, router, o, ToUser(n))
           m == Paid(o, n)
           k == ToTreasury(n)
           g == ToUser(n)
<1>1. bal' = final
  BY DEF WrapOnly
<1>2. /\ n \in Nat /\ v \in Nat /\ v - n \in Nat /\ min \in Nat /\ g >= min
      /\ m \in Nat /\ k \in Nat /\ g \in Nat /\ m + k + g <= n
      /\ bal[ETH][sender] >= v
  BY Accounting, SharesFit, FeeFacts DEF WrapOnly, Paid, ToTreasury, Has
<1>3. ASSUME NEW s \in Assets, NEW x \in Accounts
      PROVE  /\ final \in Ledgers
             /\ final[s][x] = bal[s][x] - Flow(s, x, ETH, sender, v) + Flow(s, x, ETH, router, v)
                                        - Flow(s, x, ETH, router, v - n) + Flow(s, x, ETH, sender, v - n)
                                        - Flow(s, x, ETH, router, n) + Flow(s, x, WETH, router, n)
                                        - Flow(s, x, WETH, router, m) + Flow(s, x, WETH, registry, m)
                                        - Flow(s, x, WETH, router, k) + Flow(s, x, WETH, treasury, k)
                                        - Flow(s, x, WETH, router, g) + Flow(s, x, WETH, o, g)
  <2> HIDE DEF m, k, g
  <2>1. paid \in Ledgers /\ paid[s][x] = bal[s][x] - Flow(s, x, ETH, sender, v) + Flow(s, x, ETH, router, v)
    BY <1>2, TransferFlow
  <2> HIDE DEF paid
  <2>2. /\ refunded \in Ledgers
        /\ refunded[s][x] = paid[s][x] - Flow(s, x, ETH, router, v - n) + Flow(s, x, ETH, sender, v - n)
    BY <1>2, <2>1, TransferFlow
  <2> HIDE DEF refunded
  <2>3. /\ wrapped \in Ledgers
        /\ wrapped[s][x] = refunded[s][x] - Flow(s, x, ETH, router, n) + Flow(s, x, WETH, router, n)
    BY <1>2, <2>2, WrapFlow
  <2> HIDE DEF wrapped
  <2>4. /\ shared \in Ledgers
        /\ shared[s][x] = wrapped[s][x] - Flow(s, x, WETH, router, m) + Flow(s, x, WETH, registry, m)
                                        - Flow(s, x, WETH, router, k) + Flow(s, x, WETH, treasury, k)
    BY <1>2, <2>3, AfterFeesFlow DEF m, k
  <2> HIDE DEF shared
  <2>5. final \in Ledgers /\ final[s][x] = shared[s][x] - Flow(s, x, WETH, router, g) + Flow(s, x, WETH, o, g)
    BY <1>2, <2>4, TransferFlow DEF g
  <2>6. bal[s][x] \in Int
    BY DEF LedgersOver
  <2> HIDE DEF final
  <2> QED BY <1>2, <2>1, <2>2, <2>3, <2>4, <2>5, <2>6, FlowInt
<1> HIDE DEF final, m, k, g
<1>4. \A s \in Assets, x \in Accounts : bal[s][x] \in Int
  BY DEF LedgersOver
<1>5. final \in Ledgers
  BY <1>3, Accounting
<1>6. ASSUME NEW s \in Assets PROVE final[s][router] >= bal[s][router]
  BY <1>2, <1>3, <1>4, Accounting DEF Flow
<1>7. ASSUME NEW s \in Assets, NEW x \in Accounts \ {sender, o, router} PROVE final[s][x] >= bal[s][x]
  BY <1>2, <1>3, <1>4, Accounting DEF Flow
<1>8. final[WETH][o] >= bal[WETH][o] + min
  BY <1>2, <1>3, <1>4, Accounting DEF Flow
<1>9. final[WETH][registry] >= bal[WETH][registry] + m
  BY <1>2, <1>3, <1>4, Accounting DEF Flow
<1>10. ASSUME NEW s \in Assets, NEW x \in {sender, o}, bal[s][x] >= 0 PROVE final[s][x] >= 0
  BY <1>2, <1>3, <1>4, <1>10, Accounting DEF Flow
<1>11. Covered => \A s \in Assets, x \in Accounts : final[s][x] >= 0
  <2> SUFFICES ASSUME Covered, NEW s \in Assets, NEW x \in Accounts PROVE final[s][x] >= 0
    OBVIOUS
  <2>1. final[s][x] \in Int /\ bal[s][x] \in Int /\ bal[s][x] >= 0
    BY <1>4, <1>5 DEF LedgersOver, Covered
  <2> QED BY <1>6, <1>7, <1>10, <2>1
<1> QED BY <1>1, <1>5, <1>6, <1>7, <1>8, <1>9, <1>11 DEF NobodyElsePays, ReferralSent, Covered, m

(* An exact input takes from nobody but sender and owner and brings the     *)
(* minimum.                                                                 *)
LEMMA ExactInMoves ==
    ASSUME FeesOK, bal \in Ledgers, NEW sender \in Users, NEW o \in Users, NEW t \in Tokens,
           NEW q \in Tokens, NEW n \in Amounts, NEW v \in Values, NEW got \in Amounts, NEW min \in Limits,
           NEW least \in Limits, ExactInputSingle(sender, o, t, q, n, v, got, min, least)
    PROVE  /\ NobodyElsePays(sender, o) /\ ReferralSent(o, q, got)
           /\ bal'[Out(q)][o] + (IF Out(q) = ETH /\ sender = o THEN v ELSE 0) >= bal[Out(q)][o] + least
<1> DEFINE collected == CollectedExactIn(sender, o, t, n, v)
           swapped == Swapped(collected, t, n, q, got)
           shared == AfterFees(swapped, q, got, o)
           final == SendOutput(shared, q, o, ToUser(got))
           m == Paid(o, got)
           k == ToTreasury(got)
           g == ToUser(got)
<1>1. bal' = final
  BY DEF ExactInputSingle
<1>2. /\ n \in Nat /\ v \in Nat /\ got \in Nat /\ least \in Nat /\ g >= least
      /\ m \in Nat /\ k \in Nat /\ g \in Nat /\ m + k + g <= got
      /\ t # q /\ (EthIn(t, v) => v >= n)
      /\ bal[ETH][sender] >= v /\ (~EthIn(t, v) => bal[t][o] >= n) /\ bal[q][pool] >= got
  BY Accounting, SharesFit, FeeFacts DEF ExactInputSingle, CanPay, Paid, ToTreasury, Has
<1>3. ASSUME NEW s \in Assets, NEW x \in Accounts
      PROVE  /\ final \in Ledgers
             /\ final[s][x] = collected[s][x] - Flow(s, x, t, router, n) + Flow(s, x, t, pool, n)
                                              - Flow(s, x, q, pool, got) + Flow(s, x, q, router, got)
                                              - Flow(s, x, q, router, m) + Flow(s, x, q, registry, m)
                                              - Flow(s, x, q, router, k) + Flow(s, x, q, treasury, k)
                                              - Flow(s, x, q, router, g) + Flow(s, x, Out(q), o, g)
             /\ collected[s][x] \in Int
  <2> HIDE DEF m, k, g
  <2>0. n \in Int /\ v \in Int
    BY <1>2
  <2>1. collected \in Ledgers
    BY <2>0, CollectedInFlow
  <2> HIDE DEF collected
  <2>2. /\ swapped \in Ledgers
        /\ swapped[s][x] = collected[s][x] - Flow(s, x, t, router, n) + Flow(s, x, t, pool, n)
                                           - Flow(s, x, q, pool, got) + Flow(s, x, q, router, got)
    BY <1>2, <2>1, SwappedFlow
  <2> HIDE DEF swapped
  <2>3. /\ shared \in Ledgers
        /\ shared[s][x] = swapped[s][x] - Flow(s, x, q, router, m) + Flow(s, x, q, registry, m)
                                        - Flow(s, x, q, router, k) + Flow(s, x, q, treasury, k)
    BY <1>2, <2>2, AfterFeesFlow DEF m, k
  <2> HIDE DEF shared
  <2>4. final \in Ledgers /\ final[s][x] = shared[s][x] - Flow(s, x, q, router, g) + Flow(s, x, Out(q), o, g)
    BY <1>2, <2>3, SendOutputFlow DEF g
  <2>5. collected[s][x] \in Int
    BY <2>1 DEF LedgersOver
  <2> HIDE DEF final
  <2> QED BY <1>2, <2>2, <2>3, <2>4, <2>5, FlowInt
<1>4. ASSUME NEW s \in Assets, NEW x \in Accounts
      PROVE  /\ EthIn(t, v) =>
                  collected[s][x] = bal[s][x] - Flow(s, x, ETH, sender, v) + Flow(s, x, ETH, router, v)
                                              - Flow(s, x, ETH, router, v - n) + Flow(s, x, ETH, sender, v - n)
                                              - Flow(s, x, ETH, router, n) + Flow(s, x, WETH, router, n)
             /\ ~EthIn(t, v) =>
                  collected[s][x] = bal[s][x] - Flow(s, x, ETH, sender, v) + Flow(s, x, ETH, router, v)
                                              - Flow(s, x, t, o, n) + Flow(s, x, t, router, n)
             /\ bal[s][x] \in Int /\ v - n \in Int
  BY <1>2, CollectedInFlow DEF LedgersOver
<1> HIDE DEF final, m, k, g, collected
<1>5. final \in Ledgers
  BY <1>3, Accounting
<1>6. EthIn(t, v) => t = WETH
  BY DEF EthIn
<1>7. ASSUME NEW s \in Assets PROVE final[s][router] >= bal[s][router]
  <2>1. collected[s][router] >= bal[s][router] + Flow(s, router, t, router, n)
    BY <1>2, <1>3, <1>4, <1>6, Accounting DEF Flow
  <2>2. final[s][router] >= collected[s][router] - Flow(s, router, t, router, n)
    BY <1>2, <1>3, Accounting DEF Flow, Out
  <2> QED BY <1>2, <1>3, <1>4, <2>1, <2>2, <1>5, FlowInt, Accounting DEF LedgersOver
<1>8. ASSUME NEW s \in Assets, NEW x \in Accounts \ {sender, o, pool, router} PROVE final[s][x] >= bal[s][x]
  <2>1. collected[s][x] = bal[s][x]
    BY <1>2, <1>3, <1>4, <1>6, Accounting DEF Flow
  <2>2. final[s][x] >= collected[s][x]
    BY <1>2, <1>3, Accounting DEF Flow, Out
  <2> QED BY <2>1, <2>2
<1>9. final[Out(q)][o] + (IF Out(q) = ETH /\ sender = o THEN v ELSE 0) >= bal[Out(q)][o] + least
  <2> DEFINE a == Out(q)
  <2>0. a \in Assets /\ a # t /\ (a # q => q = WETH /\ a = ETH)
    BY <1>2, Accounting DEF Out
  <2>1. collected[a][o] + (IF a = ETH /\ sender = o THEN v ELSE 0) >= bal[a][o]
    <3> HIDE DEF a
    <3> QED BY <1>2, <1>3, <1>4, <1>6, <2>0, Accounting DEF Flow
  <2>2. final[a][o] >= collected[a][o] + g
    <3>1. a = Out(q)
      OBVIOUS
    <3> HIDE DEF a
    <3> QED BY <1>2, <1>3, <2>0, <3>1, Accounting DEF Flow
  <2>3. final[a][o] \in Int /\ collected[a][o] \in Int /\ bal[a][o] \in Int
    BY <1>3, <1>4, <1>5, <2>0, Accounting DEF LedgersOver
  <2> HIDE DEF a
  <2>4. final[a][o] + (IF a = ETH /\ sender = o THEN v ELSE 0) >= bal[a][o] + least
    BY <1>2, <2>1, <2>2, <2>3
  <2> QED BY <2>4 DEF a
<1>10. final[q][registry] >= bal[q][registry] + m
  <2>1. collected[q][registry] = bal[q][registry]
    BY <1>2, <1>3, <1>4, <1>6, Accounting DEF Flow
  <2>2. final[q][registry] >= collected[q][registry] + m
    <3>1. q \in Assets /\ registry \in Accounts \ {router, pool, o} /\ collected[q][registry] \in Int
      BY <1>3, Accounting
    <3>2. final[q][registry] = collected[q][registry] + m + Flow(q, registry, q, treasury, k)
      <4>1. \A a, i, w : a # registry => Flow(q, registry, w, a, i) = 0
        BY DEF Flow
      <4>2. /\ registry # router /\ registry # pool /\ registry # o
            /\ Flow(q, registry, q, registry, m) = m /\ Flow(q, registry, q, treasury, k) \in Int
        BY <1>2, <3>1, FlowInt DEF Flow
      <4> QED BY <1>2, <1>3, <3>1, <4>1, <4>2
    <3>3. Flow(q, registry, q, treasury, k) \in Nat
      BY <1>2 DEF Flow
    <3> QED BY <1>2, <3>1, <3>2, <3>3
  <2> QED BY <2>1, <2>2
<1>11. ASSUME NEW s \in Assets, NEW x \in {sender, o}, bal[s][x] >= 0 PROVE final[s][x] >= 0
  <2>1. collected[s][x] >= 0
    BY <1>2, <1>3, <1>4, <1>6, <1>11, Accounting DEF Flow
  <2>2. final[s][x] >= collected[s][x]
    BY <1>2, <1>3, Accounting DEF Flow, Out
  <2>3. final[s][x] \in Int /\ collected[s][x] \in Int
    BY <1>3, <1>5, Accounting DEF LedgersOver
  <2> QED BY <2>1, <2>2, <2>3
<1>12. ASSUME NEW s \in Assets, bal[s][pool] >= 0 PROVE final[s][pool] >= 0
  <2>1. collected[s][pool] = bal[s][pool]
    BY <1>2, <1>3, <1>4, <1>6, Accounting DEF Flow
  <2>2. final[s][pool] >= collected[s][pool] - Flow(s, pool, q, pool, got)
    BY <1>2, <1>3, Accounting DEF Flow, Out
  <2>3. final[s][pool] \in Int /\ collected[s][pool] \in Int
    BY <1>3, <1>5, Accounting DEF LedgersOver
  <2> QED BY <1>2, <1>12, <2>1, <2>2, <2>3 DEF Flow
<1>13. Covered => \A s \in Assets, x \in Accounts : final[s][x] >= 0
  <2> SUFFICES ASSUME Covered, NEW s \in Assets, NEW x \in Accounts PROVE final[s][x] >= 0
    OBVIOUS
  <2>1. final[s][x] \in Int /\ bal[s][x] \in Int /\ bal[s][x] >= 0
    BY <1>4, <1>5 DEF LedgersOver, Covered
  <2> QED BY <1>7, <1>8, <1>11, <1>12, <2>1
<1> QED BY <1>1, <1>5, <1>7, <1>8, <1>9, <1>10, <1>13 DEF NobodyElsePays, ReferralSent, Covered, m

(* An exact output takes from nobody but sender and owner, and no more      *)
(* than the maximum.                                                        *)
LEMMA ExactOutMoves ==
    ASSUME FeesOK, bal \in Ledgers, NEW sender \in Users, NEW o \in Users, NEW t \in Tokens,
           NEW q \in Tokens, NEW n \in Amounts, NEW top \in Amounts, NEW v \in Values, NEW used \in Amounts,
           NEW most \in Limits, ExactOutputSingle(sender, o, t, q, n, top, v, used, most)
    PROVE  /\ NobodyElsePays(sender, o) /\ ReferralSent(o, q, n)
           /\ bal'[t][o] + most >= bal[t][o]
<1> DEFINE collected == CollectedExactOut(sender, o, t, top, v)
           swapped == Swapped(collected, t, used, q, n)
           shared == AfterFees(swapped, q, n, o)
           refunded == RefundExcessInput(shared, t, o, top - used, v)
           final == SendOutput(refunded, q, o, ToUser(n))
           m == Paid(o, n)
           k == ToTreasury(n)
           g == ToUser(n)
<1>1. bal' = final
  BY DEF ExactOutputSingle
<1>2. /\ n \in Nat /\ v \in Nat /\ top \in Nat /\ used \in Nat /\ most \in Nat
      /\ used <= top /\ used <= most /\ top - used \in Nat
      /\ m \in Nat /\ k \in Nat /\ g \in Nat /\ m + k + g <= n
      /\ t # q /\ (EthIn(t, v) => v >= top)
      /\ bal[ETH][sender] >= v /\ (~EthIn(t, v) => bal[t][o] >= top) /\ bal[q][pool] >= n
  BY Accounting, SharesFit, FeeFacts DEF ExactOutputSingle, CanPay, Paid, ToTreasury, Has
<1>3. ASSUME NEW s \in Assets, NEW x \in Accounts
      PROVE  /\ final \in Ledgers
             /\ final[s][x] = refunded[s][x] - Flow(s, x, q, router, g) + Flow(s, x, Out(q), o, g)
             /\ EthIn(t, v) => refunded[s][x] = shared[s][x] - Flow(s, x, WETH, router, top - used)
                                                             + Flow(s, x, ETH, o, top - used)
             /\ ~EthIn(t, v) => refunded[s][x] = shared[s][x] - Flow(s, x, t, router, top - used)
                                                              + Flow(s, x, t, o, top - used)
             /\ shared[s][x] = collected[s][x] - Flow(s, x, t, router, used) + Flow(s, x, t, pool, used)
                                               - Flow(s, x, q, pool, n) + Flow(s, x, q, router, n)
                                               - Flow(s, x, q, router, m) + Flow(s, x, q, registry, m)
                                               - Flow(s, x, q, router, k) + Flow(s, x, q, treasury, k)
             /\ collected[s][x] \in Int /\ shared[s][x] \in Int /\ refunded[s][x] \in Int
             /\ final[s][x] \in Int
  <2> HIDE DEF m, k, g
  <2>0. v \in Int /\ top \in Int
    BY <1>2
  <2>1. collected \in Ledgers
    BY <2>0, CollectedOutFlow
  <2> HIDE DEF collected
  <2>2. /\ swapped \in Ledgers
        /\ swapped[s][x] = collected[s][x] - Flow(s, x, t, router, used) + Flow(s, x, t, pool, used)
                                           - Flow(s, x, q, pool, n) + Flow(s, x, q, router, n)
    BY <1>2, <2>1, SwappedFlow
  <2> HIDE DEF swapped
  <2>3. /\ shared \in Ledgers
        /\ shared[s][x] = swapped[s][x] - Flow(s, x, q, router, m) + Flow(s, x, q, registry, m)
                                        - Flow(s, x, q, router, k) + Flow(s, x, q, treasury, k)
    BY <1>2, <2>2, AfterFeesFlow DEF m, k
  <2> HIDE DEF shared
  <2>4. /\ refunded \in Ledgers
        /\ EthIn(t, v) => refunded[s][x] =
              shared[s][x] - Flow(s, x, WETH, router, top - used) + Flow(s, x, ETH, router, top - used)
                           - Flow(s, x, ETH, router, top - used) + Flow(s, x, ETH, o, top - used)
        /\ ~EthIn(t, v) => refunded[s][x] =
              shared[s][x] - Flow(s, x, t, router, top - used) + Flow(s, x, t, o, top - used)
    <3>1. top - used \in Int
      BY <1>2
    <3> QED BY <2>3, <3>1, RefundFlow
  <2> HIDE DEF refunded
  <2>5. final \in Ledgers /\ final[s][x] = refunded[s][x] - Flow(s, x, q, router, g) + Flow(s, x, Out(q), o, g)
    BY <1>2, <2>4, SendOutputFlow DEF g
  <2>6. collected[s][x] \in Int /\ shared[s][x] \in Int /\ refunded[s][x] \in Int
    BY <2>1, <2>3, <2>4 DEF LedgersOver
  <2> HIDE DEF final
  <2>7. final[s][x] \in Int
    BY <2>5 DEF LedgersOver
  <2>8. shared[s][x] = collected[s][x] - Flow(s, x, t, router, used) + Flow(s, x, t, pool, used)
                                       - Flow(s, x, q, pool, n) + Flow(s, x, q, router, n)
                                       - Flow(s, x, q, router, m) + Flow(s, x, q, registry, m)
                                       - Flow(s, x, q, router, k) + Flow(s, x, q, treasury, k)
    BY <1>2, <2>2, <2>3, <2>6, FlowInt
  <2>9. EthIn(t, v) => refunded[s][x] =
           shared[s][x] - Flow(s, x, WETH, router, top - used) + Flow(s, x, ETH, o, top - used)
    BY <1>2, <2>4, <2>6, FlowInt
  <2> QED BY <2>4, <2>5, <2>6, <2>7, <2>8, <2>9
<1>4. ASSUME NEW s \in Assets, NEW x \in Accounts
      PROVE  /\ EthIn(t, v) =>
                  collected[s][x] = bal[s][x] - Flow(s, x, ETH, sender, v) + Flow(s, x, ETH, router, v)
                                              - Flow(s, x, ETH, router, v) + Flow(s, x, WETH, router, v)
             /\ ~EthIn(t, v) =>
                  collected[s][x] = bal[s][x] - Flow(s, x, ETH, sender, v) + Flow(s, x, ETH, router, v)
                                              - Flow(s, x, t, o, top) + Flow(s, x, t, router, top)
             /\ bal[s][x] \in Int
  BY <1>2, CollectedOutFlow DEF LedgersOver
<1> HIDE DEF final, m, k, g, collected, shared, refunded
<1>5. final \in Ledgers
  BY <1>3, Accounting
<1>6. EthIn(t, v) => t = WETH
  BY DEF EthIn
<1>7. ASSUME NEW s \in Assets PROVE final[s][router] >= bal[s][router]
  <2>1. collected[s][router] >= bal[s][router] + Flow(s, router, t, router, top)
    BY <1>2, <1>3, <1>4, <1>6, Accounting DEF Flow
  <2>2. shared[s][router] >= collected[s][router] - Flow(s, router, t, router, used)
                                + Flow(s, router, q, router, g)
    BY <1>2, <1>3, Accounting DEF Flow
  <2>3. refunded[s][router] >= shared[s][router] - Flow(s, router, t, router, top - used)
    BY <1>2, <1>3, <1>6, Accounting DEF Flow
  <2>4. final[s][router] >= refunded[s][router] - Flow(s, router, q, router, g)
    BY <1>2, <1>3, Accounting DEF Flow, Out
  <2>5. Flow(s, router, t, router, top) = Flow(s, router, t, router, used) + Flow(s, router, t, router, top - used)
    BY <1>2 DEF Flow
  <2>6. /\ Flow(s, router, t, router, used) \in Int /\ Flow(s, router, t, router, top - used) \in Int
        /\ Flow(s, router, q, router, g) \in Int /\ Flow(s, router, t, router, top) \in Int
    BY <1>2, FlowInt
  <2> QED BY <1>3, <1>4, <2>1, <2>2, <2>3, <2>4, <2>5, <2>6, Accounting
<1>8. ASSUME NEW s \in Assets, NEW x \in Accounts \ {sender, o, pool, router} PROVE final[s][x] >= bal[s][x]
  <2>1. collected[s][x] = bal[s][x]
    BY <1>2, <1>3, <1>4, <1>6, Accounting DEF Flow
  <2>2. shared[s][x] >= collected[s][x]
    BY <1>2, <1>3, Accounting DEF Flow
  <2>3. refunded[s][x] = shared[s][x]
    BY <1>2, <1>3, Accounting DEF Flow
  <2>4. final[s][x] = refunded[s][x]
    BY <1>2, <1>3, Accounting DEF Flow
  <2> QED BY <1>3, <1>4, <2>1, <2>2, <2>3, <2>4, Accounting
<1>9. final[t][o] + most >= bal[t][o]
  <2>0. t \in Assets /\ t # ETH /\ o \in Accounts
    BY Accounting
  <2>1. /\ EthIn(t, v) => collected[t][o] = bal[t][o]
        /\ ~EthIn(t, v) => collected[t][o] = bal[t][o] - top
    BY <1>2, <1>4, <2>0, Accounting DEF Flow
  <2>2. shared[t][o] >= collected[t][o]
    BY <1>2, <1>3, <2>0, Accounting DEF Flow
  <2>3. /\ EthIn(t, v) => refunded[t][o] = shared[t][o]
        /\ ~EthIn(t, v) => refunded[t][o] = shared[t][o] + (top - used)
    BY <1>2, <1>3, <2>0, Accounting DEF Flow
  <2>4. final[t][o] = refunded[t][o]
    BY <1>2, <1>3, <2>0, Accounting DEF Flow, Out
  <2> QED BY <1>2, <1>3, <1>4, <2>0, <2>1, <2>2, <2>3, <2>4
<1>10. final[q][registry] >= bal[q][registry] + m
  <2>1. collected[q][registry] = bal[q][registry]
    BY <1>2, <1>3, <1>4, <1>6, Accounting DEF Flow
  <2>2. shared[q][registry] >= collected[q][registry] + m
    <3>1. q \in Assets /\ registry \in Accounts \ {router, pool, o} /\ collected[q][registry] \in Int
      BY <1>3, Accounting
    <3>2. shared[q][registry] = collected[q][registry] + m + Flow(q, registry, q, treasury, k)
      <4>1. \A a, i, w : a # registry => Flow(q, registry, w, a, i) = 0
        BY DEF Flow
      <4>2. /\ registry # router /\ registry # pool
            /\ Flow(q, registry, q, registry, m) = m /\ Flow(q, registry, q, treasury, k) \in Int
        BY <1>2, <3>1, FlowInt DEF Flow
      <4> QED BY <1>2, <1>3, <3>1, <4>1, <4>2
    <3>3. Flow(q, registry, q, treasury, k) \in Nat
      BY <1>2 DEF Flow
    <3> QED BY <1>2, <3>1, <3>2, <3>3
  <2>3. refunded[q][registry] = shared[q][registry]
    BY <1>2, <1>3, Accounting DEF Flow
  <2>4. final[q][registry] = refunded[q][registry]
    BY <1>2, <1>3, Accounting DEF Flow
  <2> QED BY <2>1, <2>2, <2>3, <2>4
<1>11. ASSUME NEW s \in Assets, NEW x \in {sender, o}, bal[s][x] >= 0 PROVE final[s][x] >= 0
  <2>0. x \in Accounts
    BY Accounting
  <2>1. collected[s][x] >= 0
    BY <1>2, <1>3, <1>4, <1>6, <1>11, Accounting DEF Flow
  <2>2. shared[s][x] >= collected[s][x]
    BY <1>2, <1>3, Accounting DEF Flow
  <2>3. refunded[s][x] >= shared[s][x]
    BY <1>2, <1>3, Accounting DEF Flow
  <2>4. final[s][x] >= refunded[s][x]
    BY <1>2, <1>3, Accounting DEF Flow, Out
  <2> QED BY <1>3, <2>0, <2>1, <2>2, <2>3, <2>4
<1>12. ASSUME NEW s \in Assets, bal[s][pool] >= 0 PROVE final[s][pool] >= 0
  <2>1. collected[s][pool] = bal[s][pool]
    BY <1>2, <1>3, <1>4, <1>6, Accounting DEF Flow
  <2>2. shared[s][pool] >= collected[s][pool] - Flow(s, pool, q, pool, n)
    BY <1>2, <1>3, Accounting DEF Flow
  <2>3. refunded[s][pool] = shared[s][pool]
    BY <1>2, <1>3, Accounting DEF Flow
  <2>4. final[s][pool] = refunded[s][pool]
    BY <1>2, <1>3, Accounting DEF Flow
  <2>5. collected[s][pool] >= Flow(s, pool, q, pool, n)
    BY <1>2, <1>12, <2>1 DEF Flow
  <2>6. Flow(s, pool, q, pool, n) \in Int
    BY <1>2, FlowInt
  <2> QED BY <1>3, <2>2, <2>3, <2>4, <2>5, <2>6, Accounting
<1>13. Covered => \A s \in Assets, x \in Accounts : final[s][x] >= 0
  <2> SUFFICES ASSUME Covered, NEW s \in Assets, NEW x \in Accounts PROVE final[s][x] >= 0
    OBVIOUS
  <2>1. final[s][x] \in Int /\ bal[s][x] \in Int /\ bal[s][x] >= 0
    BY <1>4, <1>5 DEF LedgersOver, Covered
  <2> QED BY <1>7, <1>8, <1>11, <1>12, <2>1
<1> QED BY <1>1, <1>5, <1>7, <1>8, <1>9, <1>10, <1>13 DEF NobodyElsePays, ReferralSent, Covered, m

-----------------------------------------------------------------------------
(* What one step does, and the invariant.                                   *)

(* TermsKept, of one step.                                                  *)
Terms ==
    LET o == last'.owner IN
    /\ last'.kind \in {"exactIn", "wrap"} =>
          LET a == OutAsset(last')
              sent == IF a = ETH /\ last'.sender = o THEN last'.value ELSE 0
          IN bal'[a][o] + sent >= bal[a][o] + last'.promised
    /\ last'.kind = "exactOut" =>
          bal'[last'.token][o] + last'.promised >= bal[last'.token][o]

TradeOK(sender, o) ==
    /\ NobodyElsePays(sender, o)
    /\ \E t \in Tokens, out \in Nat : DistributeFee(t, out, o) /\ ReferralSent(o, t, out)
    /\ ConsumeNonce(o)
    /\ last'.sender = sender /\ last' \in CallType /\ Terms

(* Every trade has a sender whom the owner authorised, or who is the        *)
(* owner.                                                                   *)
LEMMA TradeMoves ==
    ASSUME RInv, Trade
    PROVE  \E sender \in Users, o \in Users : (o = sender \/ authorized[o][sender]) /\ TradeOK(sender, o)
<1>1. PICK sender \in Users, beneficiary \in Users \cup {Zero}, o \in Users, deadline \in Times :
         /\ Enter(sender, beneficiary, o, deadline)
         /\ \E value \in Values, limit \in Limits, a1 \in Amounts :
               \/ WrapOnly(sender, o, a1, value, limit)
               \/ \E tokenIn \in Tokens, tokenOut \in Tokens, a2 \in Amounts :
                     \/ ExactInputSingle(sender, o, tokenIn, tokenOut, a1, value, a2, limit, limit)
                     \/ \E used \in Amounts :
                           ExactOutputSingle(sender, o, tokenIn, tokenOut, a1, a2, value, used, limit)
  BY DEF Trade
<1>2. PICK v \in Values, limit \in Limits, n \in Amounts :
         \/ WrapOnly(sender, o, n, v, limit)
         \/ \E t \in Tokens, q \in Tokens, m \in Amounts :
               \/ ExactInputSingle(sender, o, t, q, n, v, m, limit, limit)
               \/ \E used \in Amounts : ExactOutputSingle(sender, o, t, q, n, m, v, used, limit)
  BY <1>1
<1>3. (o = sender \/ authorized[o][sender]) /\ ConsumeNonce(o)
  BY <1>1 DEF Enter, ResolveOwner
<1>4. FeesOK /\ bal \in Ledgers /\ n \in Nat
  BY Accounting DEF RInv, MoneyOK
<1>a. ASSUME NEW kind \in Kinds, NEW t \in Tokens PROVE Call(kind, sender, o, t, v, limit) \in CallType
  BY Accounting DEF Call, CallType
<1>5. CASE WrapOnly(sender, o, n, v, limit)
  <2>1. NobodyElsePays(sender, o) /\ ReferralSent(o, WETH, n) /\ bal'[WETH][o] >= bal[WETH][o] + limit
    BY <1>4, <1>5, WrapMoves
  <2>2. DistributeFee(WETH, n, o) /\ last' = Call("wrap", sender, o, WETH, v, limit)
    BY <1>5 DEF WrapOnly
  <2>3. /\ last'.kind = "wrap" /\ last'.sender = sender /\ last'.owner = o /\ last'.token = WETH
        /\ last'.promised = limit
    BY <2>2 DEF Call
  <2>4. OutAsset(last') = WETH
    BY <2>3 DEF OutAsset
  <2>5. bal'[WETH][o] + 0 >= bal[WETH][o] + limit
    <3>1. bal'[WETH][o] \in Int
      BY <2>1, Accounting DEF NobodyElsePays, LedgersOver
    <3> QED BY <2>1, <3>1
  <2>6. Terms
    BY <2>3, <2>4, <2>5, Accounting DEF Terms
  <2>7. last' \in CallType
    BY <1>a, <2>2, Accounting DEF Kinds
  <2> QED BY <1>3, <1>4, <2>1, <2>2, <2>3, <2>6, <2>7, Accounting DEF TradeOK
<1>6. ASSUME NEW t \in Tokens, NEW q \in Tokens, NEW m \in Amounts,
             ExactInputSingle(sender, o, t, q, n, v, m, limit, limit)
      PROVE  TradeOK(sender, o)
  <2>1. /\ NobodyElsePays(sender, o) /\ ReferralSent(o, q, m)
        /\ bal'[Out(q)][o] + (IF Out(q) = ETH /\ sender = o THEN v ELSE 0) >= bal[Out(q)][o] + limit
    BY <1>4, <1>6, ExactInMoves
  <2>2. DistributeFee(q, m, o) /\ last' = Call("exactIn", sender, o, q, v, limit)
    BY <1>6 DEF ExactInputSingle
  <2>3. /\ last'.kind = "exactIn" /\ last'.sender = sender /\ last'.owner = o /\ last'.token = q
        /\ last'.promised = limit /\ last'.value = v
    BY <2>2 DEF Call
  <2>4. OutAsset(last') = Out(q)
    BY <2>3 DEF OutAsset, Out
  <2>5. Terms
    BY <2>1, <2>3, <2>4 DEF Terms
  <2>6. m \in Nat
    BY Accounting
  <2>7. last' \in CallType
    BY <1>a, <2>2 DEF Kinds
  <2> QED BY <1>3, <2>1, <2>2, <2>3, <2>5, <2>6, <2>7 DEF TradeOK
<1>7. ASSUME NEW t \in Tokens, NEW q \in Tokens, NEW m \in Amounts, NEW used \in Amounts,
             ExactOutputSingle(sender, o, t, q, n, m, v, used, limit)
      PROVE  TradeOK(sender, o)
  <2>1. NobodyElsePays(sender, o) /\ ReferralSent(o, q, n) /\ bal'[t][o] + limit >= bal[t][o]
    BY <1>4, <1>7, ExactOutMoves
  <2>2. DistributeFee(q, n, o) /\ last' = Call("exactOut", sender, o, t, v, limit)
    BY <1>7 DEF ExactOutputSingle
  <2>3. /\ last'.kind = "exactOut" /\ last'.sender = sender /\ last'.owner = o /\ last'.token = t
        /\ last'.promised = limit
    BY <2>2 DEF Call
  <2>4. Terms
    BY <2>1, <2>3 DEF Terms
  <2>5. last' \in CallType
    BY <1>a, <2>2 DEF Kinds
  <2> QED BY <1>3, <1>4, <2>1, <2>2, <2>3, <2>4, <2>5 DEF TradeOK
<1> QED BY <1>2, <1>3, <1>5, <1>6, <1>7

(* The earnings, as a table of integers, and their sum.                     *)
LEMMA EarningsTable ==
    ASSUME RInv
    PROVE  /\ earnings \in LedgersOver(Users, Tokens) /\ IsFiniteSet(Users)
           /\ \A t \in Tokens : /\ TotalEarnings(t) = ColumnSum(earnings, t, Users)
                                /\ TotalEarnings(t)' = ColumnSum(earnings', t, Users)
                                /\ TotalEarnings(t) \in Int
<1>1. earnings \in LedgersOver(Users, Tokens)
  BY DEF RInv, MoneyOK, EarningsType, LedgersOver
<1>2. IsFiniteSet(Users)
  BY ChainAssumption, FS_Subset
<1>3. ASSUME NEW t \in Tokens
      PROVE  /\ TotalEarnings(t) = ColumnSum(earnings, t, Users)
             /\ TotalEarnings(t)' = ColumnSum(earnings', t, Users)
  BY DEF TotalEarnings, ColumnSum, MapThenSumSet, MapThenFoldSet
<1> QED BY <1>1, <1>2, <1>3, ColumnInt

(* A trade credits a referrer with no more than the registry was sent.      *)
LEMMA TradeFunded ==
    ASSUME RInv, NEW sender \in Users, NEW o \in Users, NEW t \in Tokens, NEW out \in Nat,
           NobodyElsePays(sender, o), DistributeFee(t, out, o), ReferralSent(o, t, out)
    PROVE  RegistrySolvent'
<1> DEFINE n == Paid(o, out)
           r == referrerOf[o]
<1>1. n \in Nat
  BY SharesFit DEF Paid, RInv
<1>2. ASSUME NEW s \in Tokens
      PROVE  ColumnSum(earnings', s, Users) = ColumnSum(earnings, s, Users) + (IF s = t THEN n ELSE 0)
  <2>1. CASE n > 0
    <3>1. r \in Users
      BY <2>1 DEF RInv, SettingsOK, Paid, ReferralPaid
    <3>2. earnings' = Plus(earnings, r, t, n)
      BY <2>1 DEF DistributeFee, CreditReward, Plus, Paid
    <3> HIDE DEF n, r
    <3> QED BY <1>1, <3>1, <3>2, EarningsTable, ColumnPlus
  <2>2. CASE ~(n > 0)
    <3>1. earnings' = earnings /\ n = 0
      BY <1>1, <2>2 DEF DistributeFee, Paid
    <3> QED BY <3>1, EarningsTable
  <2> QED BY <2>1, <2>2
<1>3. ASSUME NEW s \in Tokens PROVE bal'[s][registry] >= TotalEarnings(s)'
  <2>1. /\ bal[s][registry] \in Int /\ bal'[s][registry] \in Int /\ TotalEarnings(s) \in Int
        /\ bal[s][registry] >= TotalEarnings(s)
    BY EarningsTable, Accounting DEF RInv, MoneyOK, RegistrySolvent, NobodyElsePays, LedgersOver
  <2>2. bal'[s][registry] >= bal[s][registry] + (IF s = t THEN n ELSE 0)
    <3>1. registry \in Accounts \ {sender, o, pool} /\ s \in Assets
      BY Accounting
    <3>2. bal'[s][registry] >= bal[s][registry]
      BY <3>1 DEF NobodyElsePays
    <3>3. s = t => bal'[s][registry] >= bal[s][registry] + n
      BY DEF ReferralSent
    <3> HIDE DEF n
    <3> QED BY <1>1, <2>1, <3>2, <3>3
  <2>3. TotalEarnings(s)' = TotalEarnings(s) + (IF s = t THEN n ELSE 0)
    BY <1>2, EarningsTable
  <2> HIDE DEF n
  <2> QED BY <1>1, <2>1, <2>2, <2>3
<1> QED BY <1>3 DEF RegistrySolvent

(* What is said of a call that is no trade: no user and not the router      *)
(* pays, nobody is overdrawn and the registry still holds what it owes.     *)
Harmless ==
    /\ bal' \in Ledgers
    /\ \A s \in Assets, x \in Users \cup {router} : bal'[s][x] >= bal[s][x]
    /\ Covered' /\ RegistrySolvent'

(* Withdrawing fees to the treasury takes nothing from users or router.     *)
LEMMA WithdrawHarmless ==
    ASSUME RInv, NEW t \in Assets, NEW n \in Amounts, WithdrawToTreasury(t, n), UNCHANGED registryVars
    PROVE  Harmless
<1>0. bal \in Ledgers /\ \A s \in Assets, x \in Accounts : bal[s][x] \in Int /\ bal[s][x] >= 0
  BY DEF RInv, MoneyOK, Covered, LedgersOver
<1>1. n \in Nat /\ bal' = Transfer(bal, t, feeManager, treasury, n) /\ bal[t][feeManager] >= n
  BY Accounting DEF WithdrawToTreasury, Has
<1>2. ASSUME NEW s \in Assets, NEW x \in Accounts
      PROVE  /\ bal' \in Ledgers /\ bal'[s][x] \in Int /\ bal'[s][x] >= 0
             /\ x # feeManager => bal'[s][x] >= bal[s][x]
  <2>1. /\ bal' \in Ledgers
        /\ bal'[s][x] = bal[s][x] - Flow(s, x, t, feeManager, n) + Flow(s, x, t, treasury, n)
    BY <1>0, <1>1, TransferFlow
  <2> QED BY <1>0, <1>1, <2>1 DEF Flow
<1>3. RegistrySolvent'
  <2> SUFFICES ASSUME NEW s \in Tokens PROVE bal'[s][registry] >= TotalEarnings(s)'
    BY DEF RegistrySolvent
  <2>1. bal[s][registry] >= TotalEarnings(s) /\ TotalEarnings(s) \in Int
    BY EarningsTable DEF RInv, MoneyOK, RegistrySolvent
  <2>2. TotalEarnings(s)' = TotalEarnings(s)
    BY EarningsTable DEF registryVars
  <2>3. registry \in Accounts /\ registry # feeManager /\ s \in Assets
    BY Accounting, RouterAssumption
  <2> QED BY <1>0, <1>2, <2>1, <2>2, <2>3
<1> QED BY <1>2, <1>3, Accounting, RouterAssumption DEF Harmless, Covered

(* Nor does a claim of referral rewards.                                    *)
LEMMA ClaimHarmless ==
    ASSUME RInv, NEW u \in Users, NEW t \in Tokens, NEW to \in Users \cup {Zero}, ClaimRewards(u, t, to)
    PROVE  Harmless /\ earnings' \in EarningsType
<1> DEFINE n == earnings[u][t]
           who == IF to = Zero THEN u ELSE to
<1>0. bal \in Ledgers /\ \A s \in Assets, x \in Accounts : bal[s][x] \in Int /\ bal[s][x] >= 0
  BY DEF RInv, MoneyOK, Covered, LedgersOver
<1>1. n \in Nat /\ bal' = Transfer(bal, t, registry, who, n) /\ bal[t][registry] >= n /\ t \in Assets
  BY Accounting DEF ClaimRewards, RInv, MoneyOK, EarningsType, Has
<1>2. who \in Users /\ who # registry
  BY Accounting
<1>3. earnings' = Plus(earnings, u, t, -n) /\ earnings' \in EarningsType
  <2>1. n + (-n) = 0
    BY <1>1
  <2>2. [earnings[u] EXCEPT ![t] = 0] \in [Tokens -> Nat]
    BY DEF RInv, MoneyOK, EarningsType
  <2>3. earnings' = [earnings EXCEPT ![u][t] = 0]
    BY DEF ClaimRewards
  <2> QED BY <2>1, <2>2, <2>3 DEF Plus, RInv, MoneyOK, EarningsType
<1> HIDE DEF n, who
<1>4. ASSUME NEW s \in Assets, NEW x \in Accounts
      PROVE  /\ bal' \in Ledgers /\ bal'[s][x] \in Int /\ bal'[s][x] >= 0
             /\ x # registry => bal'[s][x] >= bal[s][x]
             /\ bal'[s][registry] = bal[s][registry] - (IF s = t THEN n ELSE 0)
  <2>1. /\ bal' \in Ledgers
        /\ bal'[s][x] = bal[s][x] - Flow(s, x, t, registry, n) + Flow(s, x, t, who, n)
    BY <1>0, <1>1, TransferFlow
  <2>2. bal'[s][registry] = bal[s][registry] - Flow(s, registry, t, registry, n) + Flow(s, registry, t, who, n)
    BY <1>0, <1>1, TransferFlow, Accounting
  <2>3. bal'[s][registry] = bal[s][registry] - (IF s = t THEN n ELSE 0)
    BY <1>0, <1>1, <1>2, <2>2, Accounting DEF Flow
  <2> QED BY <1>0, <1>1, <2>1, <2>3 DEF Flow
<1>5. RegistrySolvent'
  <2> SUFFICES ASSUME NEW s \in Tokens PROVE bal'[s][registry] >= TotalEarnings(s)'
    BY DEF RegistrySolvent
  <2>1. bal[s][registry] >= TotalEarnings(s) /\ TotalEarnings(s) \in Int
    BY EarningsTable DEF RInv, MoneyOK, RegistrySolvent
  <2>2. TotalEarnings(s)' = TotalEarnings(s) + (IF s = t THEN -n ELSE 0)
    <3>1. -n \in Int
      BY <1>1
    <3> QED BY <1>3, <3>1, EarningsTable, ColumnPlus
  <2>3. bal'[s][registry] = bal[s][registry] - (IF s = t THEN n ELSE 0) /\ bal[s][registry] \in Int
    BY <1>0, <1>4, Accounting
  <2> QED BY <1>1, <2>1, <2>2, <2>3
<1> QED BY <1>3, <1>4, <1>5, Accounting DEF Harmless, Covered

(* Calls other than trades: nobody pays but the fee manager and the         *)
(* registry.                                                                *)
LEMMA OthersMove ==
    ASSUME RInv, Authorization \/ Administration \/ Tick \/ \E u \in Users : Referral(u)
    PROVE  Harmless /\ earnings' \in EarningsType
<1>1. ASSUME UNCHANGED <<bal, earnings>> PROVE Harmless /\ earnings' \in EarningsType
  <2>1. \A s \in Assets, x \in Users \cup {router} : bal[s][x] >= bal[s][x]
    BY Accounting DEF RInv, MoneyOK, LedgersOver
  <2>2. \A s \in Tokens : TotalEarnings(s)' = TotalEarnings(s)
    BY <1>1, EarningsTable
  <2>3. RegistrySolvent'
    BY <1>1, <2>2 DEF RInv, MoneyOK, RegistrySolvent
  <2> QED BY <1>1, <2>1, <2>3 DEF RInv, MoneyOK, Covered, Harmless
<1>2. CASE Authorization \/ Tick
  BY <1>1, <1>2 DEF Authorization, Tick, registryVars
<1>3. CASE Administration
  <2>1. \A e : SetRefExecutor(e) => earnings' = earnings
    BY DEF SetRefExecutor
  <2>2. UNCHANGED registryVars => earnings' = earnings
    BY DEF registryVars
  <2>3. ASSUME NEW t \in Assets, NEW n \in Amounts, WithdrawToTreasury(t, n), UNCHANGED registryVars
        PROVE  Harmless /\ earnings' \in EarningsType
    BY <2>2, <2>3, WithdrawHarmless DEF RInv, MoneyOK
  <2> QED BY <1>1, <1>3, <2>1, <2>2, <2>3 DEF Administration
<1>4. ASSUME NEW u \in Users, Referral(u) PROVE Harmless /\ earnings' \in EarningsType
  <2>1. \A r : RegisterReferrer(u, r) => earnings' = earnings
    BY DEF RegisterReferrer
  <2> QED BY <1>1, <1>4, <2>1, ClaimHarmless DEF Referral
<1> QED BY <1>2, <1>3, <1>4

(* A signature that authorises is for its owner's next nonce, and spends it.*)
LEMMA AuthorizeKeeps ==
    ASSUME AuthOK, NEW o \in Users, NEW d \in Users, NEW deadline, NEW sig \in signed,
           AuthorizeDelegate(o, d, deadline, sig)
    PROVE  AuthOK' /\ sig \notin spent /\ sig.owner = o /\ sig.delegate = d
<1>1. /\ sig \in Signatures /\ sig.owner = o /\ sig.delegate = d /\ sig.nonce = authNonce[o]
      /\ authNonce[o] \in Nat /\ authNonce[o] <= MaxSignatures
  <2>1. sig \in Signatures /\ sig = [owner |-> o, delegate |-> d, nonce |-> authNonce[o], deadline |-> deadline]
    BY DEF AuthorizeDelegate, ValidSignature, AuthOK
  <2>2. sig.nonce \in 0..MaxSignatures
    BY <2>1 DEF Signatures
  <2> QED BY <2>1, <2>2, AuthorizationAssumption
<1>2. /\ authNonce' = [authNonce EXCEPT ![o] = authNonce[o] + 1]
      /\ authorized' = [authorized EXCEPT ![o][d] = TRUE]
      /\ spent' = spent \cup {sig} /\ signed' = signed
  BY DEF AuthorizeDelegate
<1>3. sig \notin spent
  BY <1>1 DEF AuthOK
<1>4. authNonce' \in [Users -> 0..(MaxSignatures + 1)]
  <2>1. authNonce[o] + 1 \in 0..(MaxSignatures + 1)
    BY <1>1, AuthorizationAssumption
  <2> QED BY <1>2, <2>1 DEF AuthOK
<1>5. \A u \in Users : authNonce'[u] >= authNonce[u]
  <2>1. \A u \in Users : authNonce[u] \in Nat
    BY AuthorizationAssumption DEF AuthOK
  <2> QED BY <1>2, <2>1 DEF AuthOK
<1>6. authNonce'[o] = authNonce[o] + 1
  BY <1>2 DEF AuthOK
<1>7. ASSUME NEW x \in spent' PROVE x.nonce < authNonce'[x.owner]
  <2>1. CASE x = sig
    BY <1>1, <1>6, <2>1
  <2>2. CASE x # sig
    <3>1. x \in spent /\ x \in Signatures
      BY <1>2, <2>2 DEF AuthOK, AuthorizedBySignature
    <3>2. x.nonce \in Int /\ x.owner \in Users /\ x.nonce < authNonce[x.owner]
      BY <3>1, AuthorizationAssumption DEF Signatures, AuthOK
    <3>3. authNonce'[x.owner] \in Int /\ authNonce[x.owner] \in Int
      BY <3>2, <1>4 DEF AuthOK
    <3> QED BY <3>2, <3>3, <1>5
  <2> QED BY <2>1, <2>2
<1>8. authorized' \in [Users -> [Users -> BOOLEAN]]
  <2>1. [authorized[o] EXCEPT ![d] = TRUE] \in [Users -> BOOLEAN]
    BY DEF AuthOK
  <2> QED BY <1>2, <2>1 DEF AuthOK
<1>9. ASSUME NEW u \in Users, NEW e \in Users, authorized'[u][e]
      PROVE  \E x \in spent' : x.owner = u /\ x.delegate = e
  <2>1. CASE u = o /\ e = d
    BY <1>1, <1>2, <2>1
  <2>2. CASE ~(u = o /\ e = d)
    <3>1. authorized'[u][e] = authorized[u][e]
      BY <1>2, <2>2 DEF AuthOK
    <3>2. authorized[u][e]
      BY <1>9, <3>1
    <3> QED BY <1>2, <3>2 DEF AuthOK, AuthorizedBySignature
  <2> QED BY <2>1, <2>2
<1>10. \A x, y \in spent' : (x.owner = y.owner /\ x.nonce = y.nonce) => x = y
  <2>1. \A x \in spent : ~(x.owner = sig.owner /\ x.nonce = sig.nonce)
    <3> SUFFICES ASSUME NEW x \in spent, x.owner = o, x.nonce = authNonce[o] PROVE FALSE
      BY <1>1
    <3>1. x.nonce < authNonce[o]
      BY DEF AuthOK
    <3> QED BY <1>1, <3>1
  <2>2. \A x, y \in spent : (x.owner = y.owner /\ x.nonce = y.nonce) => x = y
    BY DEF AuthOK, AuthorizedBySignature
  <2> QED BY <1>2, <2>1, <2>2
<1>11. spent' \subseteq signed' /\ signed' \subseteq Signatures
  BY <1>2 DEF AuthOK, AuthorizedBySignature
<1> QED BY <1>1, <1>3, <1>4, <1>7, <1>8, <1>9, <1>10, <1>11 DEF AuthOK, AuthorizedBySignature

(* A revocation keeps the signatures' invariant and authorises nobody.      *)
LEMMA RevokeKeeps ==
    ASSUME AuthOK, NEW o \in Users, NEW d \in Users, RevokeDelegate(o, d)
    PROVE  AuthOK' /\ \A u, e \in Users : authorized'[u][e] => authorized[u][e]
<1>1. authorized' = [authorized EXCEPT ![o][d] = FALSE] /\ UNCHANGED <<authNonce, signed, spent>>
  BY DEF RevokeDelegate
<1>2. [authorized[o] EXCEPT ![d] = FALSE] \in [Users -> BOOLEAN]
  BY DEF AuthOK
<1>3. authorized' \in [Users -> [Users -> BOOLEAN]]
  BY <1>1, <1>2 DEF AuthOK
<1>4. \A u, e \in Users : authorized'[u][e] => authorized[u][e]
  BY <1>1 DEF AuthOK
<1> QED BY <1>1, <1>3, <1>4 DEF AuthOK, AuthorizedBySignature

(* A step that leaves authorisations alone keeps their invariant.           *)
LEMMA AuthStands == AuthOK /\ UNCHANGED authVars => AuthOK'
BY DEF AuthOK, AuthorizedBySignature, authVars

(* A signature made off-chain changes no authorisation.                     *)
LEMMA SignKeeps == ASSUME AuthOK, NEW sig, Sign(sig) PROVE AuthOK' /\ UNCHANGED <<authorized, spent>>
BY DEF AuthOK, AuthorizedBySignature, Sign

(* NoSignatureReplay, of one step.                                          *)
FreshOnly ==
    \A o, d \in Users : (~authorized[o][d] /\ authorized'[o][d]) =>
        \E sig \in spent' \ spent : sig.owner = o /\ sig.delegate = d

(* An authorisation is fresh: its signature was not used before.            *)
LEMMA AuthorizationKeeps ==
    ASSUME AuthOK, Authorization
    PROVE  AuthOK' /\ FreshOnly
<1>1. ASSUME NEW sig, Sign(sig) PROVE AuthOK' /\ FreshOnly
  BY <1>1, SignKeeps DEF FreshOnly
<1>2. ASSUME NEW sig \in signed, NEW o \in Users, NEW d \in Users, NEW deadline,
             AuthorizeDelegate(o, d, deadline, sig)
      PROVE  AuthOK' /\ FreshOnly
  <2>1. AuthOK' /\ sig \notin spent /\ sig.owner = o /\ sig.delegate = d
    BY <1>2, AuthorizeKeeps
  <2>2. spent' = spent \cup {sig} /\ authorized' = [authorized EXCEPT ![o][d] = TRUE]
    BY <1>2 DEF AuthorizeDelegate
  <2>3. ASSUME NEW u \in Users, NEW e \in Users, ~authorized[u][e], authorized'[u][e] PROVE u = o /\ e = d
    BY <2>2, <2>3 DEF AuthOK
  <2> QED BY <2>1, <2>2, <2>3 DEF FreshOnly
<1>3. ASSUME NEW o \in Users, NEW d \in Users, RevokeDelegate(o, d) PROVE AuthOK' /\ FreshOnly
  BY <1>3, RevokeKeeps DEF FreshOnly
<1> QED BY <1>1, <1>2, <1>3 DEF Authorization

(* Administration keeps the fee configuration within its caps.              *)
LEMMA AdministrationKeeps ==
    ASSUME FeesOK, Administration, UNCHANGED volume
    PROVE  FeesOK'
<1>1. \A e : SetFeeExecutor(e) => FeesOK'
  BY DEF SetFeeExecutor, FeesOK, FeesCapped
<1>2. ASSUME NEW p \in Nat, NEW q \in Nat, SetFeeConfig(p, q) PROVE FeesOK'
  BY <1>2 DEF SetFeeConfig, FeesOK, FeesCapped, MAX_FEE_BPS, BPS_DENOMINATOR
<1>6. \A c \in FeeConfigs : c[1] \in Nat /\ c[2] \in Nat
  BY FeeManagerAssumption
<1>3. \A a : SetTreasury(a) => FeesOK'
  BY DEF SetTreasury, FeesOK, FeesCapped
<1>4. UNCHANGED feeVars => FeesOK'
  BY DEF feeVars, FeesOK, FeesCapped
<1>5. \A t, n : WithdrawToTreasury(t, n) => UNCHANGED feeVars
  BY DEF WithdrawToTreasury
<1> QED BY <1>1, <1>2, <1>3, <1>4, <1>5, <1>6 DEF Administration

(* The settings, in a trade and in any other call.                          *)
LEMMA TradeSettings ==
    ASSUME SettingsOK, NEW sender, NEW o \in Users, TradeOK(sender, o)
    PROVE  SettingsOK'
<1>1. UNCHANGED <<now, treasury, feeExecutor, refExecutor, referrerOf, paused>>
  BY DEF TradeOK, DistributeFee
<1>2. executionNonces' \in [Users -> 0..MaxTrades]
  <2>1. /\ executionNonces' = [executionNonces EXCEPT ![o] = executionNonces[o] + 1]
        /\ executionNonces[o] < MaxTrades /\ executionNonces[o] \in 0..MaxTrades
    BY DEF TradeOK, ConsumeNonce, SettingsOK
  <2>2. executionNonces[o] + 1 \in 0..MaxTrades
    BY <2>1, RouterAssumption
  <2> QED BY <2>1, <2>2 DEF SettingsOK
<1> QED BY <1>1, <1>2 DEF TradeOK, SettingsOK

(* Calls that trade nothing keep the settings well typed.                   *)
LEMMA OtherSettings ==
    ASSUME SettingsOK, Authorization \/ Administration \/ Tick \/ \E u \in Users : Referral(u),
           last' = OtherCall(Zero) \/ \E u \in Users : last' = OtherCall(u)
    PROVE  SettingsOK'
<1>1. last' \in CallType
  BY Accounting DEF OtherCall, Call, CallType, Kinds
<1>2. CASE Authorization
  BY <1>1, <1>2 DEF Authorization, feeVars, registryVars, routerVars, SettingsOK
<1>3. CASE Administration
  BY <1>1, <1>3, FeeManagerAssumption DEF Administration, SetFeeExecutor, SetFeeConfig, SetTreasury, SetRefExecutor,
     SetPaused, WithdrawToTreasury, feeVars, registryVars, routerVars, SettingsOK
<1>4. CASE Tick
  <2>1. now' \in Times
    BY <1>4, ChainAssumption DEF Tick, AdvanceTime, Times, SettingsOK
  <2> QED BY <1>1, <1>4, <2>1 DEF Tick, feeVars, registryVars, routerVars, SettingsOK
<1>5. ASSUME NEW u \in Users, Referral(u) PROVE SettingsOK'
  <2>1. UNCHANGED <<now, feeVars, routerVars, refExecutor>>
    BY <1>5 DEF Referral, RegisterReferrer, ClaimRewards
  <2>2. referrerOf' \in [Users -> Users \cup {Zero}]
    BY <1>5 DEF Referral, RegisterReferrer, ClaimRewards, SettingsOK
  <2> QED BY <1>1, <2>1, <2>2 DEF feeVars, routerVars, SettingsOK
<1> QED BY <1>2, <1>3, <1>4, <1>5

(* The invariant holds at deployment.                                       *)
LEMMA InvInit == Init => RInv
<1> SUFFICES ASSUME Init PROVE RInv
  OBVIOUS
<1>1. AuthOK
  BY AuthorizationAssumption DEF Init, AuthInit, AuthOK, AuthorizedBySignature
<1>2. FeesOK
  <2>1. protocolFeeBps \in 0..MAX_FEE_BPS /\ referralSplitBps \in 0..BPS_DENOMINATOR
    <3>0. PICK c \in FeeConfigs : /\ protocolFeeBps = c[1] /\ c[1] <= MAX_FEE_BPS
                                  /\ referralSplitBps = c[2] /\ c[2] <= BPS_DENOMINATOR
      BY DEF Init, FeeInit
    <3>1. /\ protocolFeeBps \in Nat /\ referralSplitBps \in Nat
          /\ protocolFeeBps <= MAX_FEE_BPS /\ referralSplitBps <= BPS_DENOMINATOR
      BY <3>0, FeeManagerAssumption
    <3> QED BY <3>1 DEF MAX_FEE_BPS, BPS_DENOMINATOR
  <2>2. totalFees = [t \in Tokens |-> 0] /\ volume = [t \in Tokens |-> 0]
    BY DEF Init, FeeInit
  <2> QED BY <2>1, <2>2 DEF FeesOK, FeesCapped, MAX_FEE_BPS, BPS_DENOMINATOR
<1>3. MoneyOK
  <2>1. bal \in Ledgers /\ Covered
    BY RouterAssumption DEF Init, LedgersOver, Covered
  <2>2. earnings = [u \in Users |-> [t \in Tokens |-> 0]]
    BY DEF Init, RegistryInit
  <2>3. earnings \in EarningsType
    BY <2>2 DEF EarningsType
  <2>4. ASSUME NEW t \in Tokens PROVE bal[t][registry] >= TotalEarnings(t)
    <3>1. IsFiniteSet(Users)
      BY ChainAssumption, FS_Subset
    <3>2. TotalEarnings(t) = ColumnSum(earnings, t, Users)
      BY DEF TotalEarnings, ColumnSum, MapThenSumSet, MapThenFoldSet
    <3>3. TotalEarnings(t) = 0
      BY <2>2, <3>1, <3>2, ColumnZero
    <3> QED BY <2>1, <3>3, Accounting DEF Covered
  <2> QED BY <2>1, <2>3, <2>4 DEF MoneyOK, RegistrySolvent
<1>4. SettingsOK
  <2>1. last \in CallType
    BY Accounting DEF Init, Call, CallType, Kinds
  <2>2. now \in Times /\ executionNonces \in [Users -> 0..MaxTrades]
    BY ChainAssumption, RouterAssumption DEF Init, Times
  <2>3. treasury \in Accounts
    BY FeeManagerAssumption DEF Init, FeeInit
  <2> QED BY <2>1, <2>2, <2>3 DEF Init, FeeInit, RegistryInit, SettingsOK
<1> QED BY <1>1, <1>2, <1>3, <1>4 DEF RInv

(* Everything a step may do, next to the invariant.                         *)
StepOK ==
    /\ \A u \in Users, t \in Assets :
          bal'[t][u] < bal[t][u] =>
              \/ last'.sender = u
              \/ last'.sender \in Users /\ authorized[u][last'.sender]
    /\ \A t \in Assets : bal'[t][router] >= bal[t][router]
    /\ FreshOnly /\ Terms

(* Every step keeps the invariant and the action properties.                *)
LEMMA InvNext == RInv /\ Next => RInv' /\ StepOK
<1> SUFFICES ASSUME RInv, Next PROVE RInv' /\ StepOK
  OBVIOUS
<1>0. bal \in Ledgers /\ \A s \in Assets, x \in Users : bal[s][x] \in Int
  BY Accounting DEF RInv, MoneyOK, LedgersOver
<1>1. CASE Trade
  <2>1. PICK sender \in Users, o \in Users : (o = sender \/ authorized[o][sender]) /\ TradeOK(sender, o)
    BY <1>1, TradeMoves
  <2>2. PICK t \in Tokens, out \in Nat : DistributeFee(t, out, o) /\ ReferralSent(o, t, out)
    BY <2>1 DEF TradeOK
  <2>3. AuthOK' /\ FreshOnly
    <3>1. UNCHANGED authVars
      BY <2>2 DEF DistributeFee
    <3> QED BY <3>1, AuthStands DEF RInv, FreshOnly, authVars
  <2>4. FeesOK'
    BY <2>2, FeesKeep DEF RInv
  <2>5. MoneyOK'
    <3>1. earnings' \in EarningsType
      BY <2>2, EarningsKeep DEF RInv, MoneyOK
    <3>2. RegistrySolvent'
      BY <2>1, <2>2, TradeFunded DEF TradeOK
    <3> QED BY <2>1, <3>1, <3>2 DEF RInv, MoneyOK, TradeOK, NobodyElsePays
  <2>6. ASSUME NEW u \in Users, NEW s \in Assets, bal'[s][u] < bal[s][u]
        PROVE  last'.sender = u \/ (last'.sender \in Users /\ authorized[u][last'.sender])
    <3>1. bal'[s][u] \in Int /\ bal[s][u] \in Int
      BY <1>0, <2>1, Accounting DEF TradeOK, NobodyElsePays, LedgersOver
    <3>2. u \in {sender, o}
      BY <2>1, <2>6, <3>1, Accounting DEF TradeOK, NobodyElsePays
    <3> QED BY <2>1, <3>2 DEF TradeOK
  <2>7. (\A s \in Assets : bal'[s][router] >= bal[s][router]) /\ Terms
    BY <2>1, Accounting DEF TradeOK, NobodyElsePays
  <2>8. SettingsOK'
    BY <2>1, TradeSettings DEF RInv
  <2> QED BY <2>3, <2>4, <2>5, <2>6, <2>7, <2>8 DEF RInv, StepOK
<1>2. CASE ~Trade
  <2>1. /\ Authorization \/ Administration \/ Tick \/ \E u \in Users : Referral(u)
        /\ UNCHANGED volume /\ last'.kind = "other"
        /\ last' = OtherCall(Zero) \/ \E u \in Users : last' = OtherCall(u)
    BY <1>2 DEF Next, OtherCall, Call
  <2>2. Harmless /\ earnings' \in EarningsType
    BY <2>1, OthersMove
  <2>3. AuthOK' /\ FreshOnly
    <3>1. CASE Authorization
      BY <3>1, AuthorizationKeeps DEF RInv
    <3>2. CASE UNCHANGED authVars
      BY <3>2, AuthStands DEF RInv, FreshOnly, authVars
    <3> QED BY <2>1, <3>1, <3>2 DEF Administration, Tick, Referral
  <2>4. FeesOK'
    <3>1. CASE Administration
      BY <2>1, <3>1, AdministrationKeeps DEF RInv
    <3>2. CASE UNCHANGED feeVars
      BY <2>1, <3>2 DEF RInv, feeVars, FeesOK, FeesCapped
    <3> QED BY <2>1, <3>1, <3>2 DEF Authorization, Tick, Referral
  <2>5. SettingsOK'
    BY <2>1, OtherSettings DEF RInv
  <2>6. ASSUME NEW u \in Users, NEW s \in Assets PROVE ~(bal'[s][u] < bal[s][u])
    <3>1. bal'[s][u] \in Int /\ bal[s][u] \in Int /\ bal'[s][u] >= bal[s][u]
      BY <1>0, <2>2, Accounting DEF Harmless, LedgersOver
    <3> QED BY <3>1
  <2>7. Terms
    BY <2>1 DEF Terms
  <2> QED BY <2>2, <2>3, <2>4, <2>5, <2>6, <2>7 DEF RInv, MoneyOK, Harmless, StepOK
<1> QED BY <1>1, <1>2

(* A stuttering step keeps the invariant.                                   *)
LEMMA Stutter == RInv /\ UNCHANGED vars => RInv'
<1> SUFFICES ASSUME RInv, UNCHANGED vars PROVE RInv'
  OBVIOUS
<1>1. AuthOK' /\ FeesOK' /\ SettingsOK'
  BY AuthStands DEF RInv, vars, feeVars, registryVars, routerVars, FeesOK, FeesCapped, SettingsOK
<1>2. UNCHANGED <<bal, earnings>>
  BY DEF vars, registryVars
<1>3. \A s \in Tokens : TotalEarnings(s)' = TotalEarnings(s)
  BY <1>2, EarningsTable
<1>4. MoneyOK'
  BY <1>2, <1>3 DEF RInv, MoneyOK, Covered, RegistrySolvent
<1> QED BY <1>1, <1>4 DEF RInv

(* The router's inductive invariant always holds.                           *)
LEMMA Invariance == Spec => []RInv
BY InvInit, InvNext, Stutter, PTL DEF Spec

-----------------------------------------------------------------------------
(* A delegate acts only under a signature of that owner, spent once.        *)
THEOREM DelegatesAreSigned == Spec => []AuthorizedBySignature
<1>1. RInv => AuthorizedBySignature
  BY DEF RInv, AuthOK
<1> QED BY <1>1, Invariance, PTL

(* Authority never comes back on a signature that was used before.          *)
THEOREM SignaturesWorkOnce == Spec => NoSignatureReplay
<1>1. RInv /\ [Next]_vars => [FreshOnly]_authVars
  BY InvNext DEF StepOK, vars, authVars
<1> QED BY <1>1, Invariance, PTL DEF Spec, NoSignatureReplay, FreshOnly

(* Fees stay within 2% of what the swaps brought, whatever the owner        *)
(* configures in between.                                                   *)
THEOREM FeesStayCapped == Spec => []FeesCapped
<1>1. RInv => FeesCapped
  BY DEF RInv, FeesOK
<1> QED BY <1>1, Invariance, PTL

(* A user's balance falls only in the user's own calls and in those of a    *)
(* delegate it has authorised.                                              *)
THEOREM FundsMoveOnWord == Spec => OnlyAuthorizedSpends
<1> DEFINE Step == \A u \in Users, t \in Assets :
                       bal'[t][u] < bal[t][u] =>
                           \/ last'.sender = u
                           \/ last'.sender \in Users /\ authorized[u][last'.sender]
<1>1. RInv /\ [Next]_vars => [Step]_vars
  BY InvNext DEF StepOK
<1> QED BY <1>1, Invariance, PTL DEF Spec, OnlyAuthorizedSpends

(* No call takes from the router what an earlier one left there.            *)
THEOREM RouterKeeps == Spec => RouterNeverPays
<1> DEFINE Step == \A t \in Assets : bal'[t][router] >= bal[t][router]
<1>1. RInv /\ [Next]_vars => [Step]_vars
  BY InvNext DEF StepOK
<1> QED BY <1>1, Invariance, PTL DEF Spec, RouterNeverPays

(* The registry holds what it owes to all referrers together, however fees, *)
(* splits and executors are changed in between.                             *)
THEOREM ReferrersCanClaim == Spec => []RegistrySolvent
<1>1. RInv => RegistrySolvent
  BY DEF RInv, MoneyOK
<1> QED BY <1>1, Invariance, PTL

(* Every variable keeps its type; no account is ever overdrawn.             *)
THEOREM TypesHold == Spec => []RouterTypeOK
<1>1. ASSUME RInv PROVE RouterTypeOK
  <2>1. bal \in [Assets -> [Accounts -> Nat]]
    <3>1. \A s \in Assets, x \in Accounts : bal[s][x] \in Nat
      BY <1>1 DEF RInv, MoneyOK, Covered, LedgersOver
    <3> QED BY <1>1, <3>1 DEF RInv, MoneyOK, LedgersOver
  <2>2. ChainTypeOK
    BY <1>1, <2>1 DEF RInv, SettingsOK, ChainTypeOK
  <2>3. AuthTypeOK
    BY <1>1 DEF RInv, AuthOK, AuthorizedBySignature, AuthTypeOK
  <2>4. FeeTypeOK
    BY <1>1 DEF RInv, FeesOK, SettingsOK, FeeTypeOK
  <2>5. RegistryTypeOK
    BY <1>1 DEF RInv, MoneyOK, EarningsType, SettingsOK, RegistryTypeOK
  <2> QED BY <1>1, <2>2, <2>3, <2>4, <2>5 DEF RInv, FeesOK, SettingsOK, CallType, RouterTypeOK
<1> QED BY <1>1, Invariance, PTL

(* What a trade agreed shows in the owner's balances.                       *)
THEOREM TermsAreKept == Spec => TermsKept
<1>1. RInv /\ [Next]_vars => [Terms]_vars
  BY InvNext DEF StepOK
<1> QED BY <1>1, Invariance, PTL DEF Spec, TermsKept, Terms
=============================================================================
