------------------------------ MODULE SharePool ------------------------------
(***************************************************************************)
(* What an ERC-4626 vault promises its holders, whatever it does with the  *)
(* assets: shares are issued at no less than the current rate and redeemed *)
(* at no more than it, and otherwise the pool only gains.  The rate is     *)
(* OpenZeppelin's, with one virtual asset and one virtual share.  A pool   *)
(* that converts its assets (sound = FALSE) bears the market's losses and  *)
(* promises nothing here.                                                  *)
(***************************************************************************)
EXTENDS Integers

CONSTANT Holders

VARIABLES
    worth,    \* assets the pool holds
    supply,   \* shares issued
    shares,   \* per holder
    sound     \* the pool never converts its assets; fixed

poolVars == <<worth, supply, shares, sound>>

PoolInit ==
    /\ worth = 0 /\ supply = 0
    /\ shares = [h \in Holders |-> 0]
    /\ sound \in BOOLEAN

(* n shares are worth no more than a assets, at the rate before the step.   *)
NoDearer(n, a) == n * (worth + 1) <= a * (supply + 1)
NoCheaper(n, a) == a * (supply + 1) <= n * (worth + 1)

Join(h) ==
    LET n == supply' - supply IN
    /\ n >= 0
    /\ NoDearer(n, worth' - worth)
    /\ shares' = [shares EXCEPT ![h] = @ + n]

Leave(h) ==
    LET n == supply - supply' IN
    /\ n >= 0 /\ n <= shares[h]
    /\ NoCheaper(n, worth - worth')
    /\ shares' = [shares EXCEPT ![h] = @ - n]

Gain == worth' >= worth /\ UNCHANGED <<supply, shares>>

PoolNext ==
    /\ sound => /\ worth' \in Nat /\ supply' \in Nat
                /\ Gain \/ \E h \in Holders : Join(h) \/ Leave(h)
    /\ UNCHANGED sound

PoolSpec == PoolInit /\ [][PoolNext]_poolVars

(* The share price never falls: no join, exit, harvest or replacement of a  *)
(* strategy takes anything from the holders who do nothing.                 *)
PriceKept ==
    [][sound => (worth' + 1) * (supply + 1) >= (worth + 1) * (supply' + 1)]_poolVars
=============================================================================
