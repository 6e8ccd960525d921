SPECIFICATION Spec
CONSTANTS
    Rules = {weekly}
    Schedules = {plan}
    RuleSettings <- MCRuleSettings
    ScheduleSettings <- MCScheduleSettings
    NoParam = none
    DeployedLimit = 2
    Limits = {0, 4}
    SlippageRates = {1000, 1001}
    Spends = {2}
    Outs = {0, 100}
    Funding = 6
    DayLength = 2
    MaxTime = 2
    MaxTriggers = 3
    MaxOut = 100
    MaxChanges = 1
    Evaluations = {e1, e2}
INVARIANT DailyLimitKept
INVARIANT RateLimited
PROPERTY DueRulesFire
CHECK_DEADLOCK FALSE
