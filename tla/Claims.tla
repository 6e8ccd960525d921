-------------------------------- MODULE Claims --------------------------------
(***************************************************************************)
(* What the strategy and the agent contracts share: shares of a payment    *)
(* that accrue to accounts until they are claimed, and subscriptions that  *)
(* are extended from their expiry.  Users have approved every contract for *)
(* their tokens.                                                           *)
(***************************************************************************)
EXTENDS Chain, FiniteSetsExt

CONSTANT Contracts   \* the protocol's own accounts: no contract calls claim()

ASSUME ClaimsAssumption == Contracts \subseteq Accounts \ Users

BPS_DENOMINATOR == 10000

Share(amount, bps) == (amount * bps) \div BPS_DENOMINATOR

NoClaims == [a \in Accounts |-> [t \in Tokens |-> 0]]

Credited(claims, a, t, n) == [claims EXCEPT ![a][t] = @ + n]

(* claim(token): the whole balance, which is reset.                         *)
Claimed(claims, a, t) == [claims EXCEPT ![a][t] = 0]

Owed(claims, t) == MapThenSumSet(LAMBDA a : claims[a][t], Accounts)

Extended(expiry, duration) == (IF expiry > now THEN expiry ELSE now) + duration

(* Mutant: the last second counts as well.                                  *)
LiveUntil(expiry) == expiry >= now

Live(expiry) == expiry > now
=============================================================================
