------------------------------ MODULE MCMempool ------------------------------
(* Model-checking instance of Mempool: three swaps of one pool, one of      *)
(* another and one that is not decoded, enough for two cuts of the map.     *)
EXTENDS Mempool

CONSTANTS h1, h2, h3, h4, h5, p1, p2

MCDecoded == [h \in Hashes |-> CASE h = h1 -> 1 [] h = h2 -> 3 [] h \in {h3, h5} -> 2 [] OTHER -> 0]
MCPoolOf == [h \in Hashes |-> IF h = h3 THEN p2 ELSE p1]
=============================================================================
