------------------------- MODULE TreasuryAutomation -------------------------
(***************************************************************************)
(* contracts/dao: RiskGuard (daily spend, slippage, whitelist, pause), the *)
(* TreasuryAutomationController that swaps the treasury's tokens under it, *)
(* PolicyEngine (rules with a condition and a limit per period) and        *)
(* BuybackModule (scheduled chunks).  The router is external here: a swap  *)
(* for the treasury needs the treasury's authorisation of the caller and   *)
(* gives at least the minimum asked for; module ExecutionRouter has the    *)
(* rest of it.  A call that reverts changes nothing and is no action.      *)
(***************************************************************************)
EXTENDS Integers, FiniteSetsExt

CONSTANTS
    Rules, Schedules,   \* bytes32 ids
    RuleSettings,       \* [condition, param, limit, period] the owner sets
    ScheduleSettings,   \* [total, chunks, interval]
    NoParam,            \* conditionParams shorter than 32 bytes
    DeployedLimit,      \* maxDailySpend at deployment
    Limits,             \* maxDailySpend values the owner sets
    SlippageRates,      \* maxSlippageBps values the owner tries
    Spends, Outs,       \* amountIn; outputs, minimum and expected outputs
    Funding,            \* the treasury's tokens at the start
    DayLength,          \* SECONDS_PER_DAY
    MaxTime, MaxTriggers, MaxOut, MaxChanges   \* bounds

ASSUME AutomationAssumption ==
    /\ NoParam \notin Nat
    /\ \A s \in RuleSettings :
          /\ s.condition \in {"Always", "TimestampAfter", "IntervalElapsed"}
          /\ s.param \in Nat \cup {NoParam} /\ s.limit \in Nat /\ s.period \in Nat
    /\ \A s \in ScheduleSettings : s.total \in Nat /\ s.chunks \in Nat /\ s.interval \in Nat
    /\ DeployedLimit \in Nat /\ Limits \subseteq Nat /\ SlippageRates \subseteq Nat
    /\ Spends \subseteq Nat /\ Outs \subseteq Nat /\ Funding \in Nat
    /\ DayLength \in Nat \ {0}
    /\ MaxTime \in Nat /\ MaxTriggers \in Nat /\ MaxOut \in Nat
    /\ MaxChanges \in Nat

VARIABLES
    now,               \* block.timestamp
    funds,             \* the treasury's tokens
    authorized,        \* which of the contracts the treasury authorised
    maxDailySpend, maxSlippageBps, whitelist, guardPaused, automationController,
    dailySpend,        \* per day
    exposure,
    rule,              \* per id
    schedule,          \* per id
    triggers,          \* history: triggerRule successes, per rule and time
    spent,             \* history: treasury tokens the controller used, per day
    highest,           \* history: the highest limit in force, per day
    changes            \* history: changes of the configuration

guardVars == <<maxDailySpend, maxSlippageBps, whitelist, guardPaused, automationController,
               dailySpend, highest>>
swapVars == <<funds, exposure, spent>>
autoVars == <<now, authorized, guardVars, swapVars, rule, schedule, triggers, changes>>

MAX_SLIPPAGE_BPS == 1000
BPS_DENOMINATOR == 10000

Times == 0..MaxTime
Days == 0..(MaxTime \div DayLength)
Today == now \div DayLength

NoRule == [exists |-> FALSE, disabled |-> FALSE, condition |-> "Always", param |-> NoParam,
           limit |-> 0, period |-> 0, executed |-> 0, start |-> 0, last |-> 0]
AsSet(s, executed, start, last) ==
    [exists |-> TRUE, disabled |-> FALSE, condition |-> s.condition, param |-> s.param,
     limit |-> s.limit, period |-> s.period, executed |-> executed, start |-> start, last |-> last]
NoSchedule == [exists |-> FALSE, cancelled |-> FALSE, total |-> 0, chunks |-> 0,
               interval |-> 0, executed |-> 0, next |-> 0, paid |-> 0]

(* Balances, counters and rates stay in range: the treasury is never        *)
(* overdrawn, slippage stays within 10% and no schedule or rule counts more *)
(* executions than it may.                                                  *)
AutomationTypeOK ==
    /\ now \in Times /\ funds \in Nat
    /\ authorized \subseteq {"controller", "buyback"}
    /\ maxDailySpend \in Nat /\ maxSlippageBps \in 0..MAX_SLIPPAGE_BPS
    /\ whitelist \subseteq {"router", "controller"} /\ guardPaused \in BOOLEAN
    /\ automationController \in {"controller", "other"}
    /\ dailySpend \in [Days -> Nat] /\ spent \in [Days -> Nat] /\ highest \in [Days -> Nat]
    /\ exposure \in Nat
    /\ \A r \in Rules : rule[r].exists => rule[r].start <= now /\ rule[r].last <= now
    /\ \A s \in Schedules : schedule[s].executed <= schedule[s].chunks
    /\ triggers \in [Rules -> [Times -> 0..MaxTriggers]]
    /\ changes \in 0..MaxChanges

(* scripts/deploy-phase4.ts: the controller is set, the router whitelisted;  *)
(* a deployment that runs agents whitelists the controller as well, and its *)
(* rules may have been set.                                                 *)
AutomationInit ==
    /\ now = 0 /\ funds = Funding
    /\ authorized = {"controller", "buyback"}
    /\ maxDailySpend = DeployedLimit
    /\ maxSlippageBps = 100
    /\ whitelist \in {{"router"}, {"router", "controller"}} /\ guardPaused = FALSE
    /\ automationController = "controller"
    /\ dailySpend = [d \in Days |-> 0] /\ spent = [d \in Days |-> 0]
    /\ highest = [d \in Days |-> IF d = 0 THEN maxDailySpend ELSE 0]
    /\ exposure = 0
    /\ rule \in [Rules -> {NoRule} \cup {AsSet(s, 0, 0, 0) : s \in RuleSettings}]
    /\ schedule = [s \in Schedules |-> NoSchedule]
    /\ triggers = [r \in Rules |-> [t \in Times |-> 0]]
    /\ changes = 0

-----------------------------------------------------------------------------
(* RiskGuard.                                                              *)

SetMaxDailySpend(n) ==
    /\ maxDailySpend' = n
    /\ highest' = [highest EXCEPT ![Today] = IF n > @ THEN n ELSE @]
    /\ UNCHANGED <<maxSlippageBps, whitelist, guardPaused, automationController, dailySpend>>

SetMaxSlippageBps(bps) ==
    /\ bps <= MAX_SLIPPAGE_BPS
    /\ maxSlippageBps' = bps
    /\ UNCHANGED <<maxDailySpend, whitelist, guardPaused, automationController, dailySpend,
                   highest>>

SetStrategyWhitelisted(target, allowed) ==
    /\ whitelist' = IF allowed THEN whitelist \cup {target} ELSE whitelist \ {target}
    /\ UNCHANGED <<maxDailySpend, maxSlippageBps, guardPaused, automationController, dailySpend,
                   highest>>

PauseGuard(p) ==
    /\ guardPaused # p /\ guardPaused' = p
    /\ UNCHANGED <<maxDailySpend, maxSlippageBps, whitelist, automationController, dailySpend,
                   highest>>

SetAutomationController(c) ==
    /\ automationController' = c
    /\ UNCHANGED <<maxDailySpend, maxSlippageBps, whitelist, guardPaused, dailySpend, highest>>

CanExecute(target, n) ==
    /\ ~guardPaused
    /\ target \in whitelist
    /\ dailySpend[Today] + n <= maxDailySpend

MinimumFor(expected) == (expected * (BPS_DENOMINATOR - maxSlippageBps)) \div BPS_DENOMINATOR

ValidateExecution(n, minOut, expected) ==
    /\ CanExecute("router", n)
    /\ expected > 0 => minOut >= MinimumFor(expected)

(* Mutant: the spend is recorded under the previous day's key.              *)
RecordSpendYesterday(n) ==
    /\ automationController = "controller"
    /\ dailySpend' = [dailySpend EXCEPT ![IF Today = 0 THEN 0 ELSE Today - 1] = @ + n]

RecordSpend(n) ==
    /\ automationController = "controller"
    /\ dailySpend' = [dailySpend EXCEPT ![Today] = @ + n]

-----------------------------------------------------------------------------
(* TreasuryAutomationController.                                           *)

RouterSwap(caller, n, minOut, got) ==
    /\ caller \in authorized
    /\ funds >= n
    /\ got >= minOut
    /\ funds' = funds - n

(* Bound: outputs of MaxOut in total.                                       *)
ExecuteAutomatedSwap(n, minOut, expected, got) ==
    /\ exposure + got <= MaxOut
    /\ ValidateExecution(n, minOut, expected)
    /\ RouterSwap("controller", n, minOut, got)
    /\ RecordSpend(n)
    /\ exposure' = exposure + got
    /\ spent' = [spent EXCEPT ![Today] = @ + n]
    /\ UNCHANGED <<now, authorized, maxDailySpend, maxSlippageBps, whitelist, guardPaused,
                   automationController, highest, rule, schedule, triggers>>

SetExposure(n) ==
    /\ exposure' = n
    /\ UNCHANGED <<now, authorized, guardVars, funds, spent, rule, schedule, triggers>>

-----------------------------------------------------------------------------
(* PolicyEngine.                                                           *)

(* Replacing a rule keeps its counters.                                     *)
SetRule(r, s) ==
    LET old == rule[r] IN
    /\ rule' = [rule EXCEPT ![r] = IF old.exists THEN AsSet(s, old.executed, old.start, old.last)
                                   ELSE AsSet(s, 0, now, 0)]
    /\ UNCHANGED <<now, authorized, guardVars, swapVars, schedule, triggers>>

DisableRule(r) ==
    /\ rule[r].exists
    /\ rule' = [rule EXCEPT ![r].disabled = TRUE]
    /\ UNCHANGED <<now, authorized, guardVars, swapVars, schedule, triggers>>

IsNewPeriod(r) == now >= rule[r].start + rule[r].period

Param(x) == IF x.param = NoParam THEN 0 ELSE x.param

ConditionMet(x) ==
    CASE x.condition = "Always" -> TRUE
      [] x.condition = "TimestampAfter" -> now >= Param(x)
      [] x.condition = "IntervalElapsed" -> now >= x.last + Param(x)

(* The view keepers ask.                                                    *)
EvaluateCondition(r) ==
    LET x == rule[r] IN
    /\ x.exists /\ ~x.disabled
    /\ ~IsNewPeriod(r)
    /\ x.executed < x.limit
    /\ x.condition = "TimestampAfter" => x.param # NoParam
    /\ ConditionMet(x)

(* Mutant: the count is reset, the period not restarted.                    *)
RenewedSameStart(r) == IF IsNewPeriod(r) THEN [rule[r] EXCEPT !.executed = 0] ELSE rule[r]

(* The period resets first.                                                 *)
Renewed(r) ==
    IF IsNewPeriod(r) THEN [rule[r] EXCEPT !.start = now, !.executed = 0] ELSE rule[r]

Triggerable(r) ==
    /\ rule[r].exists /\ ~rule[r].disabled
    /\ Renewed(r).executed < rule[r].limit
    /\ ConditionMet(rule[r])

(* Anyone may call.  Bound: MaxTriggers per rule and timestamp.             *)
TriggerRule(r) ==
    /\ triggers[r][now] < MaxTriggers
    /\ Triggerable(r)
    /\ rule' = [rule EXCEPT ![r] = [Renewed(r) EXCEPT !.executed = @ + 1, !.last = now]]
    /\ triggers' = [triggers EXCEPT ![r][now] = @ + 1]
    /\ UNCHANGED <<now, authorized, guardVars, swapVars, schedule>>

-----------------------------------------------------------------------------
(* BuybackModule.                                                          *)

CreateSchedule(id, s) ==
    /\ s.chunks # 0 /\ ~schedule[id].exists
    /\ schedule' = [schedule EXCEPT ![id] =
          [exists |-> TRUE, cancelled |-> FALSE, total |-> s.total, chunks |-> s.chunks,
           interval |-> s.interval, executed |-> 0, next |-> now, paid |-> 0]]
    /\ UNCHANGED <<now, authorized, guardVars, swapVars, rule, triggers>>

CancelSchedule(id) ==
    /\ schedule[id].exists
    /\ schedule' = [schedule EXCEPT ![id].cancelled = TRUE]
    /\ UNCHANGED <<now, authorized, guardVars, swapVars, rule, triggers>>

BuybackDue(id) ==
    LET s == schedule[id] IN
    /\ s.exists /\ ~s.cancelled
    /\ s.executed < s.chunks
    /\ now >= s.next
    /\ funds >= s.total \div s.chunks

(* The balance is compared with the chunk, but the amount swapped is the    *)
(* caller's.  paid is history: what the schedule has cost.                  *)
ExecuteBuybackChunk(id, n, minOut, got) ==
    /\ BuybackDue(id)
    /\ RouterSwap("buyback", n, minOut, got)
    /\ schedule' = [schedule EXCEPT ![id].executed = @ + 1, ![id].next = now + schedule[id].interval,
                                    ![id].paid = @ + n]
    /\ UNCHANGED <<now, authorized, guardVars, exposure, spent, rule, triggers>>

-----------------------------------------------------------------------------
Authorize(c, yes) ==
    /\ authorized' = IF yes THEN authorized \cup {c} ELSE authorized \ {c}
    /\ UNCHANGED <<now, guardVars, swapVars, rule, schedule, triggers>>

AdvanceTime ==
    /\ now < MaxTime
    /\ now' = now + 1
    /\ highest' = [highest EXCEPT ![(now + 1) \div DayLength] =
                      IF maxDailySpend > @ THEN maxDailySpend ELSE @]
    /\ UNCHANGED <<authorized, maxDailySpend, maxSlippageBps, whitelist, guardPaused,
                   automationController, dailySpend, swapVars, rule, schedule, triggers>>

(* Bound: MaxChanges of the owner's and the treasury's configuration.       *)
Reconfigure ==
    /\ changes < MaxChanges /\ changes' = changes + 1
    /\ \/ /\ \/ \E n \in Limits : SetMaxDailySpend(n)
             \/ \E bps \in SlippageRates : SetMaxSlippageBps(bps)
             \/ \E t \in {"router", "controller"}, yes \in BOOLEAN : SetStrategyWhitelisted(t, yes)
             \/ \E p \in BOOLEAN : PauseGuard(p)
             \/ \E c \in {"controller", "other"} : SetAutomationController(c)
          /\ UNCHANGED <<now, authorized, swapVars, rule, schedule, triggers>>
       \/ SetExposure(0)
       \/ \E r \in Rules : DisableRule(r) \/ \E s \in RuleSettings : SetRule(r, s)
       \/ \E id \in Schedules :
             CancelSchedule(id) \/ \E s \in ScheduleSettings : CreateSchedule(id, s)
       \/ \E c \in {"controller", "buyback"}, yes \in BOOLEAN : Authorize(c, yes)

Execute ==
    \/ \E n \in Spends, min \in Outs, expected \in Outs, got \in Outs :
          ExecuteAutomatedSwap(n, min, expected, got)
    \/ \E id \in Schedules, n \in Spends, min \in Outs, got \in Outs :
          ExecuteBuybackChunk(id, n, min, got)

-----------------------------------------------------------------------------
(* What the automation takes from the treasury in a day stays within the    *)
(* highest daily limit of that day, whatever is paused, whitelisted or      *)
(* raised and lowered in between.                                           *)
DailyLimitKept == \A d \in Days : spent[d] <= highest[d]

(* Periods are restarted by triggers, not aligned: in any span as long as   *)
(* the shortest period a rule ever had, it fires at most twice its limit.   *)
TriggersIn(r, span) == MapThenSumSet(LAMBDA t : triggers[r][t], span)

RateLimited ==
    \A r \in Rules, t \in Times, s \in RuleSettings :
        (\A x \in RuleSettings : x.period >= s.period)
        => \E x \in RuleSettings :
              TriggersIn(r, {u \in Times : t <= u /\ u < t + s.period}) <= 2 * x.limit
=============================================================================
