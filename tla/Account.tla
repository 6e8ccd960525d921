------------------------------- MODULE Account -------------------------------
(***************************************************************************)
(* The chain as the clients of one account see it: what the front end and  *)
(* the SDK read, and the account's transactions, which are mined in the    *)
(* order they were submitted.  A transaction may revert for reasons that   *)
(* are not modelled; when it does not, the contracts' own checks decide.   *)
(***************************************************************************)
EXTENDS Integers, Sequences, FiniteSets

CONSTANTS
    Prices,      \* prices the strategy token is listed at
    Fees,        \* what the FeeManager holds at first
    MaxOthers    \* bound: moves of other accounts

ASSUME AccountAssumption == Prices \subseteq Nat \ {0} /\ Prices # {} /\ Fees \in Nat /\ MaxOthers \in Nat

VARIABLES
    chain,   \* contract state the clients read
    txs,     \* the account's transactions: kind, argument, status, sum paid
    others   \* bound

accountVars == <<chain, txs, others>>

Statuses == {"pool", "ok", "reverted"}
Reads == {"nonce", "ownerNonce", "authNonce", "buyAllowance", "price", "earned", "fees"}

AccountInit ==
    /\ \E p \in Prices :
         chain = [r \in Reads |-> CASE r = "price" -> p [] r = "fees" -> Fees [] r = "earned" -> 1 [] OTHER -> 0]
    /\ txs = <<>> /\ others = 0

AccountTypeOK ==
    /\ chain \in [Reads -> Nat]
    /\ \A i \in DOMAIN txs : txs[i].status \in Statuses /\ txs[i].arg \in Nat /\ txs[i].paid \in Nat
    /\ others \in 0..MaxOthers

Tx(kind, arg, shown) == [kind |-> kind, arg |-> arg, status |-> "pool", paid |-> 0, shown |-> shown]

(* Mutant: the nonce is counted but not compared.                           *)
AcceptsAnyNonce(kind, arg) ==
    CASE kind = "authorize"    -> arg = chain["authNonce"]
      [] kind = "withdraw"     -> arg <= chain["fees"]
      [] kind = "buy"          -> chain["price"] # 0 /\ chain["price"] <= chain["buyAllowance"]
      [] OTHER                 -> TRUE

(* What the contracts require of a call.                                    *)
Accepts(kind, arg) ==
    CASE kind = "swap"         -> arg = chain["nonce"]
      [] kind = "delegateSwap" -> arg = chain["ownerNonce"]
      [] kind = "authorize"    -> arg = chain["authNonce"]
      [] kind = "withdraw"     -> arg <= chain["fees"]
      [] kind = "buy"          -> chain["price"] # 0 /\ chain["price"] <= chain["buyAllowance"]
      [] OTHER                 -> TRUE

Effect(kind, arg) ==
    CASE kind = "swap"         -> [chain EXCEPT !["nonce"] = @ + 1]
      [] kind = "delegateSwap" -> [chain EXCEPT !["ownerNonce"] = @ + 1]
      [] kind = "authorize"    -> [chain EXCEPT !["authNonce"] = @ + 1]
      [] kind = "withdraw"     -> [chain EXCEPT !["fees"] = @ - arg]
      [] kind = "claim"        -> [chain EXCEPT !["earned"] = 0]
      [] kind = "approveBuy"   -> [chain EXCEPT !["buyAllowance"] = arg]
      [] kind = "buy"          -> [chain EXCEPT !["buyAllowance"] = @ - chain["price"], !["price"] = 0]
      [] OTHER                 -> chain

Waiting == {i \in DOMAIN txs : txs[i].status = "pool"}
NextToMine(i) == i \in Waiting /\ \A j \in Waiting : i <= j

Mine(i) ==
    /\ NextToMine(i) /\ Accepts(txs[i].kind, txs[i].arg)
    /\ chain' = Effect(txs[i].kind, txs[i].arg)
    /\ txs' = [txs EXCEPT ![i].status = "ok", ![i].paid = IF txs[i].kind = "buy" THEN chain["price"] ELSE 0]
    /\ UNCHANGED others

Revert(i) ==
    /\ NextToMine(i)
    /\ txs' = [txs EXCEPT ![i].status = "reverted"]
    /\ UNCHANGED <<chain, others>>

(* Other accounts: the owner this account trades for swaps on its own,      *)
(* another seller lists the token, a referred user's swap earns a reward,   *)
(* the FeeManager's balance is withdrawn.                                   *)
Elsewhere ==
    /\ others < MaxOthers /\ others' = others + 1
    /\ \/ chain' = [chain EXCEPT !["ownerNonce"] = @ + 1]
       \/ \E p \in Prices : chain' = [chain EXCEPT !["price"] = p]
       \/ chain' = [chain EXCEPT !["earned"] = @ + 1]
       \/ chain' = [chain EXCEPT !["fees"] = 0]
    /\ UNCHANGED txs

AccountNext == Elsewhere \/ \E i \in DOMAIN txs : Mine(i) \/ Revert(i)

Did(i, kinds) == txs[i].kind \in kinds /\ txs[i].status = "ok"
=============================================================================
