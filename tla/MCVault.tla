------------------------------- MODULE MCVault -------------------------------
(* Model-checking instance of Vault. *)
EXTENDS Vault, TLC

CONSTANTS alice, bob, first, second

MCApprovals == {<<alice, bob>>}

Symmetric == Permutations({first, second})
=============================================================================
