----------------------------- MODULE MCAgentLoop -----------------------------
(* Model-checking instance of AgentLoop with TreasuryAutomation. *)
EXTENDS AgentLoop

MCRuleSettings ==
    {[condition |-> "Always", param |-> NoParam, limit |-> 1, period |-> 2],
     [condition |-> "TimestampAfter", param |-> 2, limit |-> 1, period |-> 3],
     [condition |-> "IntervalElapsed", param |-> 1, limit |-> 1, period |-> 3]}

MCScheduleSettings == {[total |-> 4, chunks |-> 2, interval |-> 1]}
=============================================================================
