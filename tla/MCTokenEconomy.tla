--------------------------- MODULE MCTokenEconomy ---------------------------
(* Model-checking instance of TokenEconomy. *)
EXTENDS TokenEconomy, TLC

CONSTANTS alice, bob

MCSplit == <<1000, 500, 500>>
MCSplits == {MCSplit, <<0, 500, 0>>}
MCAgentSplits == {<<9000, 1000>>}

Symmetric == Permutations({alice, bob})
=============================================================================
