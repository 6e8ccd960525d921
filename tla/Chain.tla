-------------------------------- MODULE Chain --------------------------------
(***************************************************************************)
(* What every contract of the protocol sees of the chain: accounts, the    *)
(* balances of the assets they hold and the block timestamp.               *)
(***************************************************************************)
EXTENDS Ledger, FiniteSets

CONSTANTS
    Tokens,     \* ERC-20 tokens, WETH among them
    WETH,
    ETH,        \* the native coin, kept in the same ledger
    Accounts,   \* everything that can hold a balance
    Users,      \* externally owned accounts: traders, delegates, referrers
    Zero,       \* address(0)
    MaxTime     \* bound: the last block timestamp

ASSUME ChainAssumption ==
    /\ WETH \in Tokens /\ ETH \notin Tokens
    /\ Users \subseteq Accounts /\ Zero \notin Accounts
    /\ IsFiniteSet(Accounts)   \* addresses are 160 bits long
    /\ MaxTime \in Nat

VARIABLES
    bal,   \* bal[asset][account]
    now    \* block.timestamp

Assets == Tokens \cup {ETH}
Times == 0..MaxTime

(* Balances are natural numbers: no transfer overdraws an account.          *)
ChainTypeOK ==
    /\ bal \in [Assets -> [Accounts -> Nat]]
    /\ now \in Times

(* deposit{value: n}() and withdraw(n) by account a; the coins themselves   *)
(* sit in the WETH contract, outside the ledger.                            *)
Wrap(b, a, n) == Exchange(b, ETH, WETH, a, n)
Unwrap(b, a, n) == Exchange(b, WETH, ETH, a, n)

AdvanceTime == now < MaxTime /\ now' = now + 1
=============================================================================
