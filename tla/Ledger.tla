------------------------------- MODULE Ledger -------------------------------
(***************************************************************************)
(* Balances, per asset and account, and what a transfer does to them.      *)
(* ERC-20 transfers (OpenZeppelin SafeERC20 on a standard token) and WETH9 *)
(* are external code, modelled by what the contracts rely on: the exact    *)
(* amount moves, or the call reverts and nothing happened.                 *)
(***************************************************************************)
EXTENDS Integers

Has(b, t, a, n) == b[t][a] >= n

Transfer(b, t, from, to, n) ==
    LET debited == [b EXCEPT ![t][from] = @ - n]
    IN [debited EXCEPT ![t][to] = @ + n]

(* Account a gives n of one asset for n of another.                         *)
Exchange(b, given, got, a, n) ==
    [b EXCEPT ![given][a] = @ - n, ![got][a] = @ + n]
=============================================================================
