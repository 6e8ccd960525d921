-------------------------- MODULE MCExecutionRouter --------------------------
(* Model-checking instances of ExecutionRouter. *)
EXTENDS ExecutionRouter, TLC

CONSTANTS Coins   \* what each user and the pool start with, per asset

(* 2% with half of it for referrers, and one basis point above the cap. *)
MCFeeConfigs == {<<200, 5000>>, <<201, 5000>>}

(* No fee to begin with: the runs that are not about fees. *)
MCNoFees == {<<0, 0>>}

MCFunding ==
    [t \in Assets |-> [a \in Accounts |->
        IF a \in Users /\ t # WETH THEN Coins
        ELSE IF a = pool /\ t # ETH THEN 2 * Coins
        ELSE IF a = feeManager /\ t = ETH THEN Coins \div 2 ELSE 0]]

(* `last` is written by every step and read by none of them: two states that *)
(* differ in it alone have the same successors.                             *)
WithoutLast == <<bal, now, authVars, feeVars, registryVars, routerVars, volume>>
=============================================================================
