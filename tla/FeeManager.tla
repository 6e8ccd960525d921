------------------------------ MODULE FeeManager ------------------------------
(***************************************************************************)
(* contracts/FeeManager.sol: fee configuration and accounting.  The fees   *)
(* of swaps never pass through this contract; withdrawToTreasury moves     *)
(* what else was sent to it.                                               *)
(***************************************************************************)
EXTENDS Chain

CONSTANTS
    feeManager,   \* the contract's own account
    FeeConfigs,   \* pairs <<protocolFeeBps, referralSplitBps>> the owner tries
    Treasuries,   \* treasury addresses the owner tries
    Executors     \* what setExecutor is called with: the router, or Zero

VARIABLES protocolFeeBps, referralSplitBps, treasury, feeExecutor, totalFees

feeVars == <<protocolFeeBps, referralSplitBps, treasury, feeExecutor, totalFees>>

MAX_FEE_BPS == 200
BPS_DENOMINATOR == 10000

ASSUME FeeManagerAssumption ==
    /\ feeManager \in Accounts
    /\ FeeConfigs \subseteq Nat \X Nat
    /\ Treasuries \subseteq Accounts
    /\ Executors \subseteq Accounts \cup {Zero}

(* The configured fee and split stay within the caps of Constants.sol.      *)
FeeTypeOK ==
    /\ protocolFeeBps \in 0..MAX_FEE_BPS
    /\ referralSplitBps \in 0..BPS_DENOMINATOR
    /\ treasury \in Accounts
    /\ feeExecutor \in Accounts \cup {Zero}
    /\ totalFees \in [Tokens -> Nat]

FeeInit ==
    /\ \E c \in FeeConfigs :
          /\ protocolFeeBps = c[1] /\ c[1] <= MAX_FEE_BPS
          /\ referralSplitBps = c[2] /\ c[2] <= BPS_DENOMINATOR
    /\ treasury \in Treasuries
    /\ feeExecutor = Zero
    /\ totalFees = [t \in Tokens |-> 0]

(* Mutant: the fee is rounded up.                                           *)
ProtocolFeeRoundedUp(value) ==
    (value * protocolFeeBps + BPS_DENOMINATOR - 1) \div BPS_DENOMINATOR

ComputeProtocolFee(value) == (value * protocolFeeBps) \div BPS_DENOMINATOR
ComputeReferralShare(fee) == (fee * referralSplitBps) \div BPS_DENOMINATOR

SetFeeExecutor(e) ==
    /\ feeExecutor' = e
    /\ UNCHANGED <<protocolFeeBps, referralSplitBps, treasury, totalFees>>

(* Mutant: the cap is not checked.                                          *)
SetFeeConfigUncapped(feeBps, splitBps) ==
    /\ protocolFeeBps' = feeBps
    /\ referralSplitBps' = splitBps
    /\ UNCHANGED <<treasury, feeExecutor, totalFees>>

SetFeeConfig(feeBps, splitBps) ==
    /\ feeBps <= MAX_FEE_BPS
    /\ splitBps <= BPS_DENOMINATOR
    /\ protocolFeeBps' = feeBps
    /\ referralSplitBps' = splitBps
    /\ UNCHANGED <<treasury, feeExecutor, totalFees>>

SetTreasury(a) ==
    /\ treasury' = a
    /\ UNCHANGED <<protocolFeeBps, referralSplitBps, feeExecutor, totalFees>>

(* Called by the executor for every swap; a zero fee returns early.         *)
RecordFeeCollected(sender, t, fee) ==
    /\ sender = feeExecutor
    /\ totalFees' = [totalFees EXCEPT ![t] = @ + fee]

WithdrawToTreasury(t, n) ==
    /\ n > 0
    /\ Has(bal, t, feeManager, n)
    /\ bal' = Transfer(bal, t, feeManager, treasury, n)
    /\ UNCHANGED feeVars
=============================================================================
