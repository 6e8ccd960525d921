------------------------------ MODULE MevGuard ------------------------------
(***************************************************************************)
(* The risk score of the execution engine's MEV guard, as the worker calls *)
(* it: a transaction is reduced to the answers evaluateMevRisk takes from  *)
(* its calldata, its fee fields and the mempool snapshot.                  *)
(***************************************************************************)
EXTENDS Integers

CONSTANT RISK_THRESHOLD   \* config.RISK_THRESHOLD, 85 unless the environment sets it

ASSUME RiskThresholdAssumption == RISK_THRESHOLD \in Int

(***************************************************************************)
(* What the score depends on: whether the calldata is a known swap, at     *)
(* least two pending swaps have the same target, one of those is above     *)
(* 10 ether, the simulated output is below the user's minimum, and the fee *)
(* cap is below 120% of the base fee.                                      *)
(***************************************************************************)
RiskFeatures ==
    [swap : BOOLEAN, samePool : BOOLEAN, whale : BOOLEAN,
     slippage : BOOLEAN, lowGas : BOOLEAN]

Points(condition, points) == IF condition THEN points ELSE 0

RiskScore(f) ==
    LET total == Points(f.swap /\ f.samePool, 35) + Points(f.swap /\ f.whale, 25)
                 + Points(f.swap /\ f.slippage, 40) + Points(f.lowGas, 15)
    IN IF total > 100 THEN 100 ELSE total

MevActions == {"safe", "increaseGas", "bundle", "reject"}

MevAction(score) ==
    CASE score >= RISK_THRESHOLD                 -> "reject"
      [] score < RISK_THRESHOLD /\ score >= 60   -> "bundle"
      [] score < RISK_THRESHOLD /\ score < 60 /\ score >= 35 -> "increaseGas"
      [] OTHER                                   -> "safe"

(***************************************************************************)
(* The worker passes no minimum output (its fourth argument is undefined), *)
(* so the slippage term is never added to the scores the worker sees.      *)
(***************************************************************************)
WorkerScores == {RiskScore(f) : f \in {g \in RiskFeatures : ~g.slippage}}
=============================================================================
