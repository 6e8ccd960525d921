------------------------------ MODULE SdkClient ------------------------------
(***************************************************************************)
(* Calls of the SDK's modules by a program that signs for the account.     *)
(* Every writing method has one shape: throw without a signer, send, wait  *)
(* for the receipt, for some read the chain again, return; whatever fails  *)
(* on the way is thrown as a ContractError.  Connections fail at any step. *)
(***************************************************************************)
EXTENDS Account

CONSTANTS
    Calls,       \* bound: calls the program makes
    SdkMethods,  \* the methods it uses
    HasSigner    \* ArbiClient was given a signer

VaultMethods == {"deposit", "withdraw", "redeem"}
StrategyMethods == {"registerStrategy", "subscribe", "cancelSubscription", "listMarketplace",
                    "cancelListing", "buyStrategy", "claimRoyalty"}
AgentMethods == {"registerAgent", "updateAgent", "deactivateAgent", "subscribeToAgent", "claimAgentRevenue"}
StakingMethods == {"stakeAgent", "unstakeAgent"}
DaoMethods == {"createRule", "triggerRule"}
ExecutionMethods == {"swapExactInputSingle", "approveToken"}
Methods == VaultMethods \union StrategyMethods \union AgentMethods \union StakingMethods
           \union DaoMethods \union ExecutionMethods

ASSUME SdkAssumption == SdkMethods \subseteq Methods /\ HasSigner \in BOOLEAN

VARIABLE call   \* per call: its method, its next await, its transaction

Steps == {"new", "send", "wait", "read", "returned", "thrown"}

SdkInit == call = [c \in Calls |-> [method |-> "none", step |-> "new", tx |-> 0]]

SdkTypeOK ==
    call \in [Calls -> [method : Methods \union {"none"}, step : Steps, tx : 0..Len(txs)]]

Goto(c, step) == call' = [call EXCEPT ![c].step = step]

(* The kind of transaction a method sends, as Account tells them apart.     *)
Sends(method) ==
    CASE method = "buyStrategy"  -> "buy"
      [] method = "approveToken" -> "approveBuy"
      [] OTHER                   -> method

(* The methods that read the chain after their receipt: the vault's convert *)
(* functions, the registry's getTokenId.                                    *)
ReadsBack(method) == method \in VaultMethods \union {"registerStrategy"}

(* Methods that throw before they send: ArbiClient passes no staking        *)
(* address, and the swap's tuple is wrapped twice, which ethers refuses.    *)
NeverSends(method) == method \in StakingMethods \union {"swapExactInputSingle"}

Invoke(c, method) ==
    /\ call[c].step = "new"
    /\ call' = [call EXCEPT ![c] =
         [method |-> method, tx |-> 0,
          step |-> IF HasSigner /\ ~NeverSends(method) THEN "send" ELSE "thrown"]]
    /\ UNCHANGED accountVars

Send(c, amount) ==
    /\ call[c].step = "send"
    /\ (call[c].method = "approveToken" <=> amount # 0)
    /\ txs' = Append(txs, Tx(Sends(call[c].method), amount, amount))
    /\ call' = [call EXCEPT ![c].step = "wait", ![c].tx = Len(txs) + 1]
    /\ UNCHANGED <<chain, others>>

(* The answer to the sending request is lost, with or without its effect.   *)
SendFails(c) ==
    /\ call[c].step = "send"
    /\ \/ UNCHANGED txs
       \/ txs' = Append(txs, Tx(Sends(call[c].method), 0, 0))
    /\ Goto(c, "thrown")
    /\ UNCHANGED <<chain, others>>

(* Mutant: the receipt's status is not looked at.                           *)
ReceiptAny(c) ==
    /\ call[c].step = "wait" /\ txs[call[c].tx].status # "pool"
    /\ Goto(c, IF ReadsBack(call[c].method) THEN "read" ELSE "returned")
    /\ UNCHANGED accountVars

(* tx.wait(): a reverted receipt is thrown.                                 *)
Receipt(c) ==
    /\ call[c].step = "wait" /\ txs[call[c].tx].status # "pool"
    /\ Goto(c, IF txs[call[c].tx].status = "reverted" THEN "thrown"
               ELSE IF ReadsBack(call[c].method) THEN "read" ELSE "returned")
    /\ UNCHANGED accountVars

WaitFails(c) == call[c].step = "wait" /\ Goto(c, "thrown") /\ UNCHANGED accountVars

ReadBack(c) ==
    /\ call[c].step = "read"
    /\ \E step \in {"returned", "thrown"} : Goto(c, step)
    /\ UNCHANGED accountVars

SdkNext ==
    \E c \in Calls :
        \/ \E method \in SdkMethods : Invoke(c, method)
        \/ \E amount \in Prices \union {0} : Send(c, amount)
        \/ SendFails(c) \/ Receipt(c) \/ WaitFails(c) \/ ReadBack(c)
-----------------------------------------------------------------------------
(* A call that returns took effect: its transaction is mined, not reverted.   *)
ReturnMeansDone ==
    \A c \in Calls : call[c].step = "returned" => txs[call[c].tx].status = "ok"
=============================================================================
