------------------------------ MODULE AgentLoop ------------------------------
(***************************************************************************)
(* packages/agent: a DaoAutomationAgent on a timer, and the on-chain       *)
(* automation it triggers.  evaluate() is a chain of awaits, each an       *)
(* action here: the signal, the RiskGuard status, canExecute, the rule's   *)
(* validation when the agent was given a ruleId, and the transaction.  The *)
(* timer does not wait for it, so evaluations overlap, and nothing between *)
(* two awaits is protected from the other actors.                          *)
(***************************************************************************)
EXTENDS TreasuryAutomation

CONSTANT Evaluations   \* bound: overlapping calls of evaluate()

VARIABLES
    running,    \* start() and stop()
    withRule,   \* a ruleId was configured; fixed
    eval        \* per evaluation: its next await and the rule of its signal

agentVars == <<running, withRule, eval>>
vars == <<autoVars, agentVars>>

Steps == {"idle", "signal", "status", "canExecute", "validate", "send", "mine"}

AgentTypeOK ==
    /\ AutomationTypeOK
    /\ running \in BOOLEAN /\ withRule \in BOOLEAN
    /\ eval \in [Evaluations -> [step : Steps, rule : Rules]]

Init ==
    /\ AutomationInit
    /\ running = FALSE /\ withRule \in BOOLEAN
    /\ \E r \in Rules : eval = [e \in Evaluations |-> [step |-> "idle", rule |-> r]]

Goto(e, step) == eval' = [eval EXCEPT ![e].step = step]
OnlyEval == UNCHANGED <<autoVars, running, withRule>>

Start == ~running /\ running' = TRUE /\ UNCHANGED <<autoVars, withRule, eval>>

(* Evaluations in flight go on.                                             *)
Stop == running /\ running' = FALSE /\ UNCHANGED <<autoVars, withRule, eval>>

Tick(e) == running /\ eval[e].step = "idle" /\ Goto(e, "signal") /\ OnlyEval

(* generateSignal is the subclass's own: nothing, or a rule to trigger.     *)
NoSignal(e) == eval[e].step = "signal" /\ Goto(e, "idle") /\ OnlyEval

Signal(e, r) ==
    /\ eval[e].step = "signal"
    /\ eval' = [eval EXCEPT ![e] = [step |-> "status", rule |-> r]]
    /\ OnlyEval

ReadStatus(e) ==
    /\ eval[e].step = "status"
    /\ Goto(e, IF guardPaused THEN "idle" ELSE "canExecute")
    /\ OnlyEval

(* The target asked about is the controller, where validateExecution asks   *)
(* about the router.                                                        *)
AskCanExecute(e) ==
    /\ eval[e].step = "canExecute"
    /\ Goto(e, IF ~CanExecute("controller", 0) THEN "idle"
               ELSE IF withRule THEN "validate" ELSE "send")
    /\ OnlyEval

(* getRule's ABI in the SDK lists the fields, the contract returns a struct *)
(* with a dynamic member: every field is read one word early, so disabled   *)
(* is what exists was.  The rule validated is the configured one, here the  *)
(* signal's; no rule passes.                                                *)
SeenAsDisabled(r) == rule[r].exists

ValidateRule(e) ==
    /\ eval[e].step = "validate"
    /\ Goto(e, IF SeenAsDisabled(eval[e].rule) \/ ~EvaluateCondition(eval[e].rule)
               THEN "idle" ELSE "send")
    /\ OnlyEval

(* Mutant: the keeper asks the view before it sends.                        *)
SendIfViewAgrees(e) ==
    /\ eval[e].step = "send"
    /\ Goto(e, IF EvaluateCondition(eval[e].rule) THEN "mine" ELSE "idle")
    /\ OnlyEval

(* The wallet's gas estimate refuses a call that would revert now.          *)
Send(e) ==
    /\ eval[e].step = "send"
    /\ Goto(e, IF Triggerable(eval[e].rule) THEN "mine" ELSE "idle")
    /\ OnlyEval

Mine(e) ==
    /\ eval[e].step = "mine"
    /\ Goto(e, "idle")
    /\ IF Triggerable(eval[e].rule) THEN TriggerRule(eval[e].rule)
       ELSE UNCHANGED <<now, authorized, guardVars, swapVars, rule, schedule, triggers>>
    /\ UNCHANGED <<running, withRule, changes>>

Await(e) ==
    \/ Tick(e) \/ ReadStatus(e) \/ AskCanExecute(e) \/ ValidateRule(e) \/ Send(e) \/ Mine(e)

(* Everyone else: the owner, other keepers, time.                           *)
Others ==
    /\ \/ Reconfigure
       \/ /\ Execute \/ AdvanceTime \/ \E r \in Rules : TriggerRule(r)
          /\ UNCHANGED changes
    /\ UNCHANGED agentVars

Next ==
    \/ Start \/ Stop
    \/ \E e \in Evaluations : Await(e) \/ NoSignal(e) \/ \E r \in Rules : Signal(e, r)
    \/ Others

(* Timers fire and requests are answered; a subclass worth running signals  *)
(* every rule again and again.                                              *)
Fairness ==
    \A e \in Evaluations :
        WF_vars(Await(e)) /\ \A r \in Rules : SF_vars(Signal(e, r))

Spec == Init /\ [][Next]_vars /\ Fairness

-----------------------------------------------------------------------------
(* A rule that can fire does not wait for ever for a running agent without  *)
(* a configured ruleId: overlapping evaluations, stale answers and reverts  *)
(* notwithstanding, it fires or stops being due.                            *)
Ready(r) ==
    /\ running /\ ~withRule
    /\ CanExecute("controller", 0)
    /\ Triggerable(r) /\ triggers[r][now] < MaxTriggers

DueRulesFire == \A r \in Rules : []<>~Ready(r)
=============================================================================
