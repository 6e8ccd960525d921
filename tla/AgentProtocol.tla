---------------------------- MODULE AgentProtocol ----------------------------
(***************************************************************************)
(* contracts/agent: AgentRegistry, AgentStaking, AgentRevenueDistributor   *)
(* and AgentSubscriptionManager.                                           *)
(***************************************************************************)
EXTENDS Claims

CONSTANTS
    Agents,                               \* agent ids
    agentOwner,                           \* owner of the four contracts
    staking, revenue, agentSubscriptions, \* the contracts' own accounts
    stakingToken,
    Payments, Periods,                    \* amounts and durations tried
    AgentSplits,                          \* <<agentBps, protocolBps>> tried
    LockPeriods, MinimumStakes,           \* what the owner sets
    InitialLock,                          \* lockPeriodSeconds at first: 7 days
    agentTreasury                         \* protocolTreasury, fixed

ASSUME AgentAssumption ==
    /\ {staking, revenue, agentSubscriptions} \subseteq Contracts
    /\ IsFiniteSet(Agents)   \* ids are words of 256 bits
    /\ staking # revenue /\ agentSubscriptions \notin {staking, revenue}
    /\ stakingToken \in Tokens /\ agentTreasury \in Accounts
    /\ Payments \subseteq Nat \ {0} /\ Periods \subseteq Nat \ {0}
    /\ AgentSplits \subseteq Nat \X Nat
    /\ LockPeriods \subseteq Nat /\ InitialLock \in LockPeriods /\ MinimumStakes \subseteq Nat

VARIABLES
    agents,          \* per id: creator, active
    agentSplit, revenues,
    stakes,          \* stakeBalance and stakeDepositedAt, per agent and staker
    totalStake, minimumStake, lockPeriod,
    agentExpiry,     \* _subscriptionExpiry[user][agent]
    slashed,         \* history: what slash took, per agent
    deposits         \* history: times of deposits, per agent and staker

revenueVars == <<agentSplit, revenues>>
stakeVars == <<stakes, totalStake, slashed, deposits>>
stakeRules == <<minimumStake, lockPeriod>>
agentVars == <<agents, revenueVars, stakeVars, stakeRules, agentExpiry>>

MAX_AGENT_BPS == 9000
MAX_AGENT_PROTOCOL_BPS == 2000

(* No stake or total goes below zero, rates stay within their caps and only *)
(* registered agents are active.                                            *)
AgentTypeOK ==
    /\ agents \in [Agents -> [creator : Users \cup {Zero}, active : BOOLEAN]]
    /\ \A a \in Agents : agents[a].active => agents[a].creator # Zero
    /\ agentSplit[1] \in 0..MAX_AGENT_BPS /\ agentSplit[2] \in 0..MAX_AGENT_PROTOCOL_BPS
    /\ revenues \in [Accounts -> [Tokens -> Nat]]
    /\ stakes \in [Agents -> [Users -> [amount : Nat, since : Times]]]
    /\ totalStake \in [Agents -> Nat] /\ minimumStake \in [Agents -> Nat]
    /\ lockPeriod \in LockPeriods
    /\ agentExpiry \in [Users -> [Agents -> Nat]]
    /\ slashed \in [Agents -> Nat] /\ deposits \in [Agents -> [Users -> SUBSET Times]]

AgentSplitAllowed(s) ==
    /\ s[1] <= MAX_AGENT_BPS /\ s[2] <= MAX_AGENT_PROTOCOL_BPS
    /\ s[1] + s[2] <= BPS_DENOMINATOR

AgentInit ==
    /\ agents = [a \in Agents |-> [creator |-> Zero, active |-> FALSE]]
    /\ agentSplit = <<8000, 2000>> /\ revenues = NoClaims
    /\ stakes = [a \in Agents |-> [u \in Users |-> [amount |-> 0, since |-> 0]]]
    /\ totalStake = [a \in Agents |-> 0] /\ minimumStake = [a \in Agents |-> 0]
    /\ lockPeriod = InitialLock
    /\ agentExpiry = [u \in Users |-> [a \in Agents |-> 0]]
    /\ slashed = [a \in Agents |-> 0]
    /\ deposits = [a \in Agents |-> [u \in Users |-> {}]]

-----------------------------------------------------------------------------
(* AgentRegistry.                                                          *)

RegisterAgent(sender, a) ==
    /\ agents[a].creator = Zero
    /\ agents' = [agents EXCEPT ![a] = [creator |-> sender, active |-> TRUE]]
    /\ UNCHANGED <<bal, now, revenueVars, stakeVars, stakeRules, agentExpiry>>

UpdateAgent(sender, a, active) ==
    /\ agents[a].creator = sender
    /\ agents' = [agents EXCEPT ![a].active = active]
    /\ UNCHANGED <<bal, now, revenueVars, stakeVars, stakeRules, agentExpiry>>

DeactivateAgent(sender, a) ==
    /\ agents[a].creator # Zero /\ sender \in {agents[a].creator, agentOwner}
    /\ agents' = [agents EXCEPT ![a].active = FALSE]
    /\ UNCHANGED <<bal, now, revenueVars, stakeVars, stakeRules, agentExpiry>>

-----------------------------------------------------------------------------
(* AgentRevenueDistributor.                                                *)

SetBps(s) ==
    /\ AgentSplitAllowed(s)
    /\ agentSplit' = s
    /\ UNCHANGED <<bal, now, agents, revenues, stakeVars, stakeRules, agentExpiry>>

RevenueShared(a, t, n) ==
    Credited(Credited(revenues, agents[a].creator, t, Share(n, agentSplit[1])),
             agentTreasury, t, Share(n, agentSplit[2]))

(* Revenue for an unknown agent is not taken.                               *)
ReceiveRevenue(sender, a, t, n) ==
    /\ agents[a].creator # Zero
    /\ Has(bal, t, sender, n)
    /\ bal' = Transfer(bal, t, sender, revenue, n)
    /\ revenues' = RevenueShared(a, t, n)
    /\ UNCHANGED <<now, agents, agentSplit, stakeVars, stakeRules, agentExpiry>>

ClaimRevenue(sender, t) ==
    LET n == revenues[sender][t] IN
    /\ n > 0
    /\ revenues' = Claimed(revenues, sender, t)
    /\ Has(bal, t, revenue, n)
    /\ bal' = Transfer(bal, t, revenue, sender, n)
    /\ UNCHANGED <<now, agents, agentSplit, stakeVars, stakeRules, agentExpiry>>

-----------------------------------------------------------------------------
(* AgentStaking.                                                           *)

SetMinimumStake(a, n) ==
    /\ minimumStake' = [minimumStake EXCEPT ![a] = n]
    /\ UNCHANGED <<bal, now, agents, revenueVars, stakeVars, lockPeriod, agentExpiry>>

SetLockPeriod(n) ==
    /\ lockPeriod' = n
    /\ UNCHANGED <<bal, now, agents, revenueVars, stakeVars, minimumStake, agentExpiry>>

(* Mutant: only the first deposit starts the lock.                          *)
LockedSinceFirst(a, u) == IF stakes[a][u].amount = 0 THEN now ELSE stakes[a][u].since

LockedSince(a, u) == now

Stake(sender, a, n) ==
    /\ agents[a].active
    /\ Has(bal, stakingToken, sender, n)
    /\ bal' = Transfer(bal, stakingToken, sender, staking, n)
    /\ stakes' = [stakes EXCEPT ![a][sender] =
                     [amount |-> @.amount + n, since |-> LockedSince(a, sender)]]
    /\ totalStake' = [totalStake EXCEPT ![a] = @ + n]
    /\ deposits' = [deposits EXCEPT ![a][sender] = @ \cup {now}]
    /\ UNCHANGED <<now, agents, revenueVars, slashed, stakeRules, agentExpiry>>

(* Mutant: the total stops at zero instead of reverting.                    *)
UnstakeSaturating(sender, a, n) ==
    /\ stakes[a][sender].amount >= n
    /\ now >= stakes[a][sender].since + lockPeriod
    /\ stakes' = [stakes EXCEPT ![a][sender].amount = @ - n]
    /\ totalStake' = [totalStake EXCEPT ![a] = IF @ < n THEN 0 ELSE @ - n]
    /\ bal' = Transfer(bal, stakingToken, staking, sender, n)
    /\ UNCHANGED <<now, agents, revenueVars, slashed, deposits, stakeRules, agentExpiry>>

(* The total is reduced with checked arithmetic: after a slash whoever      *)
(* comes last cannot withdraw.                                              *)
Unstake(sender, a, n) ==
    /\ stakes[a][sender].amount >= n
    /\ now >= stakes[a][sender].since + lockPeriod
    /\ totalStake[a] >= n
    /\ stakes' = [stakes EXCEPT ![a][sender].amount = @ - n]
    /\ totalStake' = [totalStake EXCEPT ![a] = @ - n]
    /\ bal' = Transfer(bal, stakingToken, staking, sender, n)
    /\ UNCHANGED <<now, agents, revenueVars, slashed, deposits, stakeRules, agentExpiry>>

SlashedAmount(a, n) == IF totalStake[a] < n THEN totalStake[a] ELSE n

(* No staker's own balance changes.                                         *)
Slash(a, n) ==
    /\ totalStake' = [totalStake EXCEPT ![a] = @ - SlashedAmount(a, n)]
    /\ slashed' = [slashed EXCEPT ![a] = @ + SlashedAmount(a, n)]
    /\ UNCHANGED <<bal, now, agents, revenueVars, stakes, deposits, stakeRules, agentExpiry>>

-----------------------------------------------------------------------------
(* AgentSubscriptionManager.                                               *)

SubscribeToAgent(user, a, period, t, n) ==
    LET paid == Transfer(bal, t, user, agentSubscriptions, n) IN
    /\ agents[a].active
    /\ Has(bal, t, user, n)
    /\ bal' = Transfer(paid, t, agentSubscriptions, revenue, n)
    /\ revenues' = RevenueShared(a, t, n)
    /\ agentExpiry' = [agentExpiry EXCEPT ![user][a] = Extended(@, period)]
    /\ UNCHANGED <<now, agents, agentSplit, stakeVars, stakeRules>>

CancelAgentSubscription(user, a) ==
    /\ Live(agentExpiry[user][a])
    /\ agentExpiry' = [agentExpiry EXCEPT ![user][a] = now]
    /\ UNCHANGED <<bal, now, agents, revenueVars, stakeVars, stakeRules>>

-----------------------------------------------------------------------------
(* Calls that move no money in, and those that do or change a rule.         *)
AgentHousekeeping ==
    \/ \E u \in Users, a \in Agents : RegisterAgent(u, a) \/ CancelAgentSubscription(u, a)
    \/ \E u \in (Users \cup {agentTreasury}) \ Contracts, t \in Tokens : ClaimRevenue(u, t)

AgentNext ==
    \/ \E u \in Users, a \in Agents :
          \/ UpdateAgent(u, a, ~agents[a].active)
          \/ \E n \in Payments :
                \/ Stake(u, a, n) \/ Unstake(u, a, n)
                \/ \E t \in Tokens :
                      \/ ReceiveRevenue(u, a, t, n)
                      \/ \E p \in Periods : SubscribeToAgent(u, a, p, t, n)
    \/ \E s \in AgentSplits \ {agentSplit} : SetBps(s)
    \/ \E a \in Agents :
          \/ \E u \in Users \cup {agentOwner} : DeactivateAgent(u, a)
          \/ \E n \in MinimumStakes \ {minimumStake[a]} : SetMinimumStake(a, n)
          \/ \E n \in Payments : Slash(a, n)
    \/ \E n \in LockPeriods \ {lockPeriod} : SetLockPeriod(n)

-----------------------------------------------------------------------------
(* What creators and treasury are owed for revenue and subscriptions is     *)
(* there, in whatever order they claim, and the subscription contract keeps *)
(* nothing of what passes through it.                                       *)
RevenuesSolvent ==
    \A t \in Tokens :
        /\ bal[t][revenue] >= Owed(revenues, t)
        /\ bal[t][agentSubscriptions] = 0

(* A slash is final: however stakers deposit and withdraw before and after  *)
(* it, as much as was slashed stays in the contract, and stakes are backed. *)
SlashIsFinal ==
    LET staked(a) == MapThenSumSet(LAMBDA u : stakes[a][u].amount, Users)
    IN /\ \A a \in Agents : staked(a) >= slashed[a]
       /\ bal[stakingToken][staking] >= MapThenSumSet(staked, Agents)

(* No token leaves the stake within the lock period of any of that staker's *)
(* deposits: adding to a stake locks all of it again.                       *)
LockedStaysIn ==
    [][\A a \in Agents, u \in Users :
          stakes'[a][u].amount < stakes[a][u].amount =>
              \A t \in deposits[a][u] : now >= t + lockPeriod]_<<now, agentVars>>
=============================================================================
