--------------------------- MODULE ReferralRegistry ---------------------------
(***************************************************************************)
(* contracts/ReferralRegistry.sol: one referrer per user, rewards credited *)
(* by the router and claimed by the referrer.                              *)
(***************************************************************************)
EXTENDS Chain, FiniteSetsExt

CONSTANT registry   \* the contract's own account

VARIABLES referrerOf, earnings, refExecutor

registryVars == <<referrerOf, earnings, refExecutor>>

ASSUME RegistryAssumption == registry \in Accounts

(* A user has at most one referrer, and earnings are natural numbers.       *)
RegistryTypeOK ==
    /\ referrerOf \in [Users -> Users \cup {Zero}]
    /\ earnings \in [Users -> [Tokens -> Nat]]
    /\ refExecutor \in Accounts \cup {Zero}

RegistryInit ==
    /\ referrerOf = [u \in Users |-> Zero]
    /\ earnings = [u \in Users |-> [t \in Tokens |-> 0]]
    /\ refExecutor = Zero

SetRefExecutor(e) ==
    /\ refExecutor' = e
    /\ UNCHANGED <<referrerOf, earnings>>

RegisterReferrer(sender, referrer) ==
    /\ referrer # sender
    /\ referrerOf[sender] = Zero
    /\ referrerOf' = [referrerOf EXCEPT ![sender] = referrer]
    /\ UNCHANGED <<earnings, refExecutor>>

(* Called by the executor after it has sent the tokens.                     *)
CreditReward(sender, referrer, t, n) ==
    /\ sender = refExecutor
    /\ earnings' = [earnings EXCEPT ![referrer][t] = @ + n]

(* Mutant: the reset of the claimed earnings is missing.                    *)
ClaimWithoutReset(sender, t, to) ==
    /\ earnings[sender][t] > 0
    /\ Has(bal, t, registry, earnings[sender][t])
    /\ bal' = Transfer(bal, t, registry, IF to = Zero THEN sender ELSE to, earnings[sender][t])
    /\ UNCHANGED registryVars

ClaimRewards(sender, t, to) ==
    /\ earnings[sender][t] > 0
    /\ earnings' = [earnings EXCEPT ![sender][t] = 0]
    /\ Has(bal, t, registry, earnings[sender][t])
    /\ bal' = Transfer(bal, t, registry, IF to = Zero THEN sender ELSE to, earnings[sender][t])
    /\ UNCHANGED <<referrerOf, refExecutor>>

TotalEarnings(t) == MapThenSumSet(LAMBDA u : earnings[u][t], Users)

(* The registry always holds what it owes: every referrer can claim, in any *)
(* order, whatever the router credited under whatever fee configuration.    *)
RegistrySolvent == \A t \in Tokens : bal[t][registry] >= TotalEarnings(t)
=============================================================================
