----------------------------- MODULE TokenEconomy -----------------------------
(***************************************************************************)
(* The strategy and the agent contracts side by side: the same users, the  *)
(* same tokens, one clock.                                                 *)
(***************************************************************************)
EXTENDS StrategyMarket, AgentProtocol

CONSTANTS
    Funds,      \* what each user starts with, per token
    MaxCalls    \* bound: calls of MarketNext and AgentNext

ASSUME EconomyAssumption ==
    /\ Funds \in Nat /\ MaxCalls \in Nat
    /\ {marketplace, distributor, subscriptions} \cap {staking, revenue, agentSubscriptions} = {}

VARIABLE calls   \* bound

vars == <<bal, now, marketVars, agentVars, calls>>

(* Every variable of both halves keeps its type.                            *)
EconomyTypeOK == ChainTypeOK /\ MarketTypeOK /\ AgentTypeOK /\ calls \in 0..MaxCalls

Init ==
    /\ bal = [t \in Assets |-> [a \in Accounts |-> IF a \in Users /\ t # ETH THEN Funds ELSE 0]]
    /\ now = 0 /\ calls = 0
    /\ MarketInit /\ AgentInit

(* No time passes inside a registration.                                    *)
Tick == ~Minting /\ AdvanceTime /\ UNCHANGED <<bal, marketVars, agentVars, calls>>

Next ==
    \/ /\ calls < MaxCalls /\ calls' = calls + 1
       /\ \/ MarketNext /\ UNCHANGED agentVars
          \/ AgentNext /\ UNCHANGED marketVars
    \/ MarketHousekeeping /\ UNCHANGED <<agentVars, calls>>
    \/ AgentHousekeeping /\ UNCHANGED <<marketVars, calls>>
    \/ Tick

Spec == Init /\ [][Next]_vars

(* Every claim can be paid, in whatever order claims and payments come: the *)
(* distributors of royalties and of agents' revenue hold what they owe.     *)
ClaimsFunded == RoyaltiesSolvent /\ RevenuesSolvent
=============================================================================
