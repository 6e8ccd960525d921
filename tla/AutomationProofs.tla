--------------------------- MODULE AutomationProofs ---------------------------
(***************************************************************************)
(* The daily limit of the treasury automation and the rate at which its    *)
(* rules fire, for any limits, periods, amounts, schedules and day length, *)
(* with agents, keepers and owner interleaved.                             *)
(***************************************************************************)
EXTENDS AgentLoop, LedgerProofs

(* RiskGuard's own count is what the controller really spent, and the       *)
(* limit in force was counted into the day's highest.                       *)
SpendOK ==
    /\ now \in Times /\ maxDailySpend \in Nat
    /\ dailySpend \in [Days -> Nat] /\ spent = dailySpend /\ highest \in [Days -> Nat]
    /\ highest[Today] >= maxDailySpend
    /\ DailyLimitKept

-----------------------------------------------------------------------------
(* Days.                                                                    *)

(* Division by a day's length is monotone.                                  *)
LEMMA Division ==
    ASSUME NEW x \in Nat, NEW y \in Nat, x <= y, NEW n \in Nat, n > 0
    PROVE  x \div n \in Nat /\ y \div n \in Nat /\ x \div n <= y \div n
OBVIOUS

(* Every time has a day.                                                    *)
LEMMA DayOf == ASSUME NEW t \in Times PROVE t \div DayLength \in Days
<1>1. t \in Nat /\ MaxTime \in Nat /\ t <= MaxTime /\ DayLength \in Nat /\ DayLength > 0
  BY AutomationAssumption DEF Times
<1> QED BY <1>1, Division DEF Days

-----------------------------------------------------------------------------
(* Steps that leave the guard's limit and the spending alone.               *)
LEMMA SpendStands ==
    SpendOK /\ UNCHANGED <<now, maxDailySpend, dailySpend, spent, highest>> => SpendOK'
BY DEF SpendOK, Today, DailyLimitKept

(* A new limit is counted into the day's highest.                           *)
LEMMA LimitKeeps ==
    ASSUME SpendOK, NEW n \in Nat, SetMaxDailySpend(n), UNCHANGED <<now, spent>>
    PROVE  SpendOK'
<1> DEFINE h == IF n > highest[Today] THEN n ELSE highest[Today]
<1>0. Today \in Days /\ highest[Today] \in Nat
  BY DayOf DEF SpendOK, Today
<1>1. h \in Nat /\ h >= n /\ h >= highest[Today]
  BY <1>0
<1>2. highest' = [highest EXCEPT ![Today] = h] /\ maxDailySpend' = n /\ UNCHANGED dailySpend
  BY DEF SetMaxDailySpend
<1> HIDE DEF h
<1>3. highest' \in [Days -> Nat] /\ highest'[Today] = h /\ Today' = Today
  BY <1>0, <1>1, <1>2 DEF SpendOK, Today
<1>4. ASSUME NEW d \in Days PROVE spent[d] <= highest'[d]
  <2>1. spent[d] \in Nat /\ highest[d] \in Nat /\ spent[d] <= highest[d]
    BY DEF SpendOK, DailyLimitKept
  <2>2. highest'[d] >= highest[d] /\ highest'[d] \in Nat
    BY <1>1, <1>2, <1>3, <2>1 DEF SpendOK
  <2> QED BY <2>1, <2>2
<1> QED BY <1>1, <1>2, <1>3, <1>4 DEF SpendOK, DailyLimitKept

(* The next second may be the next day.                                     *)
LEMMA TimeKeeps ==
    ASSUME SpendOK, AdvanceTime
    PROVE  SpendOK'
<1> DEFINE d1 == (now + 1) \div DayLength
           h == IF maxDailySpend > highest[d1] THEN maxDailySpend ELSE highest[d1]
<1>0. now' = now + 1 /\ now' \in Times
  BY AutomationAssumption DEF AdvanceTime, SpendOK, Times
<1>1. d1 \in Days /\ Today' = d1 /\ highest[d1] \in Nat /\ maxDailySpend \in Nat
  BY <1>0, DayOf DEF SpendOK, Today
<1>2. h \in Nat /\ h >= maxDailySpend /\ h >= highest[d1]
  BY <1>1
<1>3. highest' = [highest EXCEPT ![d1] = h] /\ UNCHANGED <<maxDailySpend, dailySpend, spent>>
  BY DEF AdvanceTime, swapVars
<1> HIDE DEF h, d1
<1>4. highest' \in [Days -> Nat] /\ highest'[d1] = h
  BY <1>1, <1>2, <1>3 DEF SpendOK
<1>5. ASSUME NEW d \in Days PROVE spent[d] <= highest'[d]
  <2>1. spent[d] \in Nat /\ highest[d] \in Nat /\ spent[d] <= highest[d]
    BY DEF SpendOK, DailyLimitKept
  <2>2. highest'[d] >= highest[d] /\ highest'[d] \in Nat
    BY <1>2, <1>3, <1>4, <2>1 DEF SpendOK
  <2> QED BY <2>1, <2>2
<1> QED BY <1>0, <1>1, <1>2, <1>3, <1>4, <1>5 DEF SpendOK, DailyLimitKept

(* A swap is checked against the count it is then added to.                 *)
LEMMA SwapKeeps ==
    ASSUME SpendOK, NEW n \in Nat, NEW min, NEW expected, NEW got,
           ExecuteAutomatedSwap(n, min, expected, got)
    PROVE  SpendOK'
<1> DEFINE c == dailySpend[Today] + n
<1>0. Today \in Days /\ dailySpend[Today] \in Nat /\ highest[Today] \in Nat
  BY DayOf DEF SpendOK, Today
<1>1. c \in Nat /\ c <= highest[Today]
  <2>1. c <= maxDailySpend
    BY DEF ExecuteAutomatedSwap, ValidateExecution, CanExecute
  <2> QED BY <1>0, <2>1 DEF SpendOK
<1>2. /\ dailySpend' = [dailySpend EXCEPT ![Today] = c] /\ spent' = [spent EXCEPT ![Today] = spent[Today] + n]
      /\ UNCHANGED <<now, maxDailySpend, highest>>
  BY DEF ExecuteAutomatedSwap, RecordSpend
<1>3. spent' = dailySpend'
  BY <1>2 DEF SpendOK
<1> HIDE DEF c
<1>4. dailySpend' \in [Days -> Nat] /\ Today' = Today
  BY <1>1, <1>2 DEF SpendOK, Today
<1>5. ASSUME NEW d \in Days PROVE dailySpend'[d] <= highest[d]
  <2>1. CASE d = Today
    BY <1>1, <1>2, <2>1 DEF SpendOK
  <2>2. CASE d # Today
    BY <1>2, <2>2 DEF SpendOK, DailyLimitKept
  <2> QED BY <2>1, <2>2
<1> QED BY <1>2, <1>3, <1>4, <1>5 DEF SpendOK, DailyLimitKept

(* No reconfiguration breaks the spending invariant.                        *)
LEMMA OwnerKeeps ==
    ASSUME SpendOK, Reconfigure
    PROVE  SpendOK'
<1>1. ASSUME NEW n \in Limits, SetMaxDailySpend(n), UNCHANGED <<now, swapVars>> PROVE SpendOK'
  BY <1>1, AutomationAssumption, LimitKeeps DEF swapVars
<1> DEFINE Still == UNCHANGED <<maxDailySpend, dailySpend, highest>>
           Rest == UNCHANGED <<now, maxDailySpend, dailySpend, spent, highest>>
<1>2. /\ \A bps : SetMaxSlippageBps(bps) => Still
      /\ \A t, yes : SetStrategyWhitelisted(t, yes) => Still
      /\ \A p : PauseGuard(p) => Still
      /\ \A c : SetAutomationController(c) => Still
  BY DEF SetMaxSlippageBps, SetStrategyWhitelisted, PauseGuard, SetAutomationController
<1>3. /\ \A n : SetExposure(n) => Rest
      /\ \A r : DisableRule(r) => Rest
      /\ \A r, s : SetRule(r, s) => Rest
  BY DEF SetExposure, DisableRule, SetRule, guardVars, swapVars
<1>4. /\ \A id : CancelSchedule(id) => Rest
      /\ \A id, s : CreateSchedule(id, s) => Rest
      /\ \A c, yes : Authorize(c, yes) => Rest
  BY DEF CancelSchedule, CreateSchedule, Authorize, guardVars, swapVars
<1> QED BY <1>1, <1>2, <1>3, <1>4, SpendStands DEF Reconfigure, swapVars

(* The spending invariant holds at deployment.                              *)
LEMMA SpendInit == Init => SpendOK
<1> SUFFICES ASSUME Init PROVE SpendOK
  OBVIOUS
<1>1. now = 0 /\ 0 \in Times /\ maxDailySpend \in Nat
  BY AutomationAssumption DEF Init, AutomationInit, Times
<1>2. Today = 0
  <2>1. \A n \in Nat : n > 0 => 0 \div n = 0
    OBVIOUS
  <2> QED BY <1>1, <2>1, AutomationAssumption DEF Today
<1>3. 0 \in Days
  BY <1>1, <1>2, DayOf DEF Today
<1>4. /\ highest = [d \in Days |-> IF d = 0 THEN maxDailySpend ELSE 0]
      /\ dailySpend = [d \in Days |-> 0] /\ spent = [d \in Days |-> 0]
  BY DEF Init, AutomationInit
<1> QED BY <1>1, <1>2, <1>3, <1>4 DEF SpendOK, DailyLimitKept

(* Every step keeps it.                                                     *)
LEMMA SpendNext == SpendOK /\ [Next]_vars => SpendOK'
<1> SUFFICES ASSUME SpendOK, [Next]_vars PROVE SpendOK'
  OBVIOUS
<1> DEFINE Rest == UNCHANGED <<now, maxDailySpend, dailySpend, spent, highest>>
<1>1. UNCHANGED autoVars => Rest
  BY DEF autoVars, guardVars, swapVars
<1>2. \A r : TriggerRule(r) => Rest
  BY DEF TriggerRule, guardVars, swapVars
<1>3. CASE UNCHANGED vars
  BY <1>1, <1>3, SpendStands DEF vars
<1>4. CASE Start \/ Stop
  BY <1>1, <1>4, SpendStands DEF Start, Stop
<1>5. ASSUME NEW e \in Evaluations, Await(e) \/ NoSignal(e) \/ \E r \in Rules : Signal(e, r)
      PROVE  SpendOK'
  <2>1. CASE Mine(e)
    <3>1. Rest
      BY <1>2, <2>1 DEF Mine, guardVars, swapVars
    <3> QED BY <3>1, SpendStands
  <2>2. CASE ~Mine(e)
    <3>1. UNCHANGED autoVars
      BY <1>5, <2>2 DEF Await, NoSignal, Signal, Tick, ReadStatus, AskCanExecute, ValidateRule, Send, OnlyEval
    <3> QED BY <1>1, <3>1, SpendStands
  <2> QED BY <2>1, <2>2
<1>6. CASE Others
  <2>1. ASSUME NEW n \in Spends, NEW min \in Outs, NEW expected \in Outs, NEW got \in Outs,
               ExecuteAutomatedSwap(n, min, expected, got)
        PROVE  SpendOK'
    BY <2>1, AutomationAssumption, SwapKeeps
  <2>2. \A id, n, min, got : ExecuteBuybackChunk(id, n, min, got) => Rest
    BY DEF ExecuteBuybackChunk, guardVars
  <2>3. CASE Execute
    BY <2>1, <2>2, <2>3, SpendStands DEF Execute
  <2> QED BY <1>2, <1>6, <2>3, OwnerKeeps, TimeKeeps, SpendStands DEF Others
<1> QED BY <1>3, <1>4, <1>5, <1>6 DEF Next

-----------------------------------------------------------------------------
(* What the automation takes from the treasury in a day stays within the    *)
(* highest limit of that day, whatever is configured in between and however *)
(* many evaluations overlap.                                                *)
THEOREM SpendIsLimited == Spec => []DailyLimitKept
<1>1. SpendOK => DailyLimitKept
  BY DEF SpendOK
<1> QED BY <1>1, SpendInit, SpendNext, PTL DEF Spec

-----------------------------------------------------------------------------
(* The rate at which a rule fires.                                          *)

(* How often it fired from t on, and within p seconds from t.               *)
Tail(c, t) == Total(c, {u \in Times : t <= u})
Within(c, t, p) == Total(c, {u \in Times : t <= u /\ u < t + p})

Counts == [Times -> Nat]
RuleType == [exists : BOOLEAN, disabled : BOOLEAN, condition : {"Always", "TimestampAfter", "IntervalElapsed"},
             param : Nat \cup {NoParam}, limit : Nat, period : Nat, executed : Nat, start : Nat, last : Nat]

(* No rule ever had a shorter period.                                       *)
Shortest(p) == p \in Nat /\ RuleSettings # {} /\ \A s \in RuleSettings : p <= s.period

(* A rule x that fired c: never in the future nor before it was set.        *)
Counted(x, c, n) ==
    /\ x \in RuleType /\ c \in Counts /\ x.start <= n
    /\ \A u \in Times : u > n => c[u] = 0
    /\ ~x.exists => \A u \in Times : c[u] = 0
    /\ x.exists => \E s \in RuleSettings : x.limit = s.limit /\ x.period = s.period

(* Since its period started it fired as often as it counted, and before,    *)
(* within one period, as often as some limit allowed.                       *)
Bounded(x, c) ==
    \E s \in RuleSettings :
        /\ x.executed <= s.limit
        /\ \A t \in Times : t > x.start => Tail(c, t) <= x.executed
        /\ \A t \in Times, p \in Nat :
              Shortest(p) /\ t > x.start - p => Tail(c, t) <= x.executed + s.limit

Limited(c) ==
    \A t \in Times, p \in Nat :
        Shortest(p) => \E s \in RuleSettings : Within(c, t, p) <= 2 * s.limit

RateOK ==
    /\ now \in Times /\ rule \in [Rules -> RuleType] /\ triggers \in [Rules -> Counts]
    /\ \A r \in Rules :
          /\ Counted(rule[r], triggers[r], now) /\ Limited(triggers[r])
          /\ rule[r].exists => Bounded(rule[r], triggers[r])

(* Limits and periods are natural numbers.                                  *)
LEMMA SettingsNat ==
    ASSUME NEW s \in RuleSettings
    PROVE  s.limit \in Nat /\ s.period \in Nat
BY AutomationAssumption

(* There are finitely many times, so triggers can be summed up.             *)
LEMMA TimesFinite == Times \subseteq Nat /\ IsFiniteSet(Times) /\ \A S \in SUBSET Times : IsFiniteSet(S)
<1>1. Times \subseteq Nat /\ IsFiniteSet(Times)
  BY AutomationAssumption, FS_Interval DEF Times
<1> QED BY <1>1, FS_Subset

(* Counts of triggers sum up to a natural number.                           *)
LEMMA CountNat ==
    ASSUME NEW c \in Counts, NEW S \in SUBSET Times
    PROVE  Total(c, S) \in Nat
<1>1. IsFiniteSet(S) /\ \A x \in S : c[x] \in Nat
  BY TimesFinite DEF Counts
<1> QED BY <1>1, TotalNat

(* The history, one firing later.                                           *)
Counting(c, n) == [c EXCEPT ![n] = @ + 1]

(* Firing once more counts in every span that contains the moment.          *)
LEMMA OnceMore ==
    ASSUME NEW c \in Counts, NEW n \in Times, NEW d, d = Counting(c, n), NEW S \in SUBSET Times
    PROVE  d \in Counts /\ Total(d, S) = Total(c, S) + (IF n \in S THEN 1 ELSE 0)
<1>1. d \in Counts /\ d[n] = c[n] + 1 /\ \A x \in Times : x # n => d[x] = c[x]
  BY DEF Counts, Counting
<1>2. /\ \A x \in S : c[x] \in Int /\ d[x] \in Int
      /\ c[n] \in Int /\ Total(c, S) \in Int /\ IsFiniteSet(S)
  BY <1>1, CountNat, TimesFinite DEF Counts
<1>3. CASE n \in S
  <2>1. \A y \in S \ {n} : c[y] = d[y]
    BY <1>1
  <2>2. Total(d, S) = Total(c, S) + d[n] - c[n]
    BY ONLY <1>2, <1>3, <2>1, TotalChange
  <2> QED BY ONLY <1>1, <1>2, <1>3, <2>2
<1>4. CASE n \notin S
  <2>1. \A y \in S : c[y] = d[y]
    BY <1>1, <1>4
  <2>2. Total(d, S) = Total(c, S)
    BY ONLY <1>2, <2>1, TotalSame
  <2> QED BY ONLY <1>1, <1>2, <1>4, <2>2
<1> QED BY <1>3, <1>4

(* A span has at most as many triggers as there are from its start on.      *)
LEMMA TailNat ==
    ASSUME NEW c \in Counts, NEW t, NEW p
    PROVE  /\ Tail(c, t) \in Nat /\ Within(c, t, p) \in Nat /\ Within(c, t, p) <= Tail(c, t)
<1> DEFINE T == {u \in Times : t <= u}
           S == {u \in Times : t <= u /\ u < t + p}
<1>1. T \in SUBSET Times /\ S \in SUBSET T /\ S \in SUBSET Times
  OBVIOUS
<1>2. Tail(c, t) = Total(c, T) /\ Within(c, t, p) = Total(c, S)
  BY DEF Tail, Within
<1> HIDE DEF T, S
<1>3. Total(c, T) \in Nat /\ Total(c, S) \in Nat
  BY <1>1, CountNat
<1>4. Total(c, S) <= Total(c, T)
  BY <1>1, TotalSubset, TimesFinite DEF Counts
<1> QED BY <1>2, <1>3, <1>4

(* One more trigger is one more from any earlier start on, and leaves       *)
(* spans it is not in alone.                                                *)
LEMMA TailOnceMore ==
    ASSUME NEW c \in Counts, NEW n \in Times, NEW d, d = Counting(c, n), NEW t \in Times, NEW p \in Nat
    PROVE  /\ d \in Counts
           /\ Tail(d, t) = Tail(c, t) + (IF t <= n THEN 1 ELSE 0)
           /\ ~(t <= n /\ n < t + p) => Within(d, t, p) = Within(c, t, p)
<1> DEFINE T == {u \in Times : t <= u}
           S == {u \in Times : t <= u /\ u < t + p}
<1>0. c \in Counts /\ n \in Times /\ d = Counting(c, n)
  OBVIOUS
<1>1. T \in SUBSET Times /\ S \in SUBSET Times /\ (n \in T <=> t <= n) /\ (n \in S <=> t <= n /\ n < t + p)
  OBVIOUS
<1>2. /\ Tail(c, t) = Total(c, T) /\ Within(c, t, p) = Total(c, S)
      /\ Tail(d, t) = Total(d, T) /\ Within(d, t, p) = Total(d, S)
  BY DEF Tail, Within
<1> HIDE DEF T, S
<1>3. /\ d \in Counts /\ Total(d, T) = Total(c, T) + (IF n \in T THEN 1 ELSE 0)
      /\ Total(d, S) = Total(c, S) + (IF n \in S THEN 1 ELSE 0)
  BY ONLY <1>0, <1>1, OnceMore
<1>4. Total(c, T) \in Nat /\ Total(c, S) \in Nat
  BY <1>1, CountNat
<1> QED BY <1>1, <1>2, <1>3, <1>4

(* What never fired is within every limit.                                  *)
LEMMA NeverFired ==
    ASSUME NEW c \in Counts, \A u \in Times : c[u] = 0, NEW t, NEW p
    PROVE  Tail(c, t) = 0 /\ Within(c, t, p) = 0
<1>1. \A S \in SUBSET Times : IsFiniteSet(S) /\ \A u \in S : c[u] = 0
  BY TimesFinite
<1>2. \A S \in SUBSET Times : Total(c, S) = 0
  BY <1>1, TotalZero
<1> QED BY <1>2 DEF Tail, Within

(* The step that counts: a rule fires, in its period or the first time in   *)
(* the next, which starts no sooner than the shortest period after it.      *)
LEMMA Fires ==
    ASSUME NEW x, NEW c, NEW n \in Times, Counted(x, c, n), Bounded(x, c), Limited(c), x.exists,
           NEW y \in RuleType, y.exists, y.limit = x.limit, y.period = x.period,
           \/ /\ n >= x.start + x.period /\ x.limit > 0
              /\ y.start = n /\ y.executed = 1
           \/ /\ x.executed < x.limit
              /\ y.start = x.start /\ y.executed = x.executed + 1,
           NEW d, d = Counting(c, n)
    PROVE  Counted(y, d, n) /\ Bounded(y, d) /\ Limited(d)
<1>0. n \in Times /\ d = Counting(c, n)
  OBVIOUS
<1>1. c \in Counts /\ x \in RuleType /\ x.start <= n /\ n \in Nat
  BY TimesFinite DEF Counted
<1>2. d \in Counts /\ \A t \in Times, p \in Nat :
         /\ Tail(d, t) = Tail(c, t) + (IF t <= n THEN 1 ELSE 0)
         /\ ~(t <= n /\ n < t + p) => Within(d, t, p) = Within(c, t, p)
  BY ONLY <1>0, <1>1, TailOnceMore
<1>3. \A t \in Times, p \in Nat :
         /\ t \in Nat /\ Tail(c, t) \in Nat /\ Tail(d, t) \in Nat
         /\ Within(d, t, p) \in Nat /\ Within(d, t, p) <= Tail(d, t)
  BY <1>1, <1>2, TailNat, TimesFinite
<1>4. PICK s \in RuleSettings :
         /\ x.executed <= s.limit
         /\ \A t \in Times : t > x.start => Tail(c, t) <= x.executed
         /\ \A t \in Times, p \in Nat :
               Shortest(p) /\ t > x.start - p => Tail(c, t) <= x.executed + s.limit
  BY DEF Bounded
<1>5. PICK z \in RuleSettings : x.limit = z.limit /\ x.period = z.period
  BY DEF Counted
<1>6. PICK m \in RuleSettings : s.limit <= m.limit /\ z.limit <= m.limit
  BY <1>4, <1>5, SettingsNat
<1>7. /\ x.executed \in Nat /\ x.start \in Nat /\ x.limit \in Nat /\ x.period \in Nat
      /\ s.limit \in Nat /\ m.limit \in Nat /\ x.limit <= m.limit
  BY <1>1, <1>4, <1>5, <1>6, SettingsNat DEF RuleType
<1>8. \A p \in Nat : Shortest(p) => p <= x.period
  BY <1>5 DEF Shortest
(* No rule fires in the future: this moment is the last.                    *)
<1>9. \A t \in Times : t > n => Tail(c, t) = 0
  <2> SUFFICES ASSUME NEW t \in Times, t > n PROVE Tail(c, t) = 0
    OBVIOUS
  <2> DEFINE T == {u \in Times : t <= u}
  <2>1. IsFiniteSet(T)
    BY TimesFinite
  <2>2. \A u \in T : c[u] = 0
    <3>1. \A u \in T : u \in Times /\ u > n
      BY <1>1, TimesFinite
    <3> QED BY <3>1 DEF Counted
  <2> HIDE DEF T
  <2>3. Total(c, T) = 0
    BY <2>1, <2>2, TotalZero
  <2> QED BY <2>3 DEF Tail, T
<1>10. /\ y.executed \in Nat /\ y.executed <= m.limit /\ y.start \in Nat /\ y.start <= n
       /\ \A t \in Times : t > y.start => Tail(d, t) <= y.executed
       /\ \A t \in Times, p \in Nat :
             Shortest(p) /\ t > y.start - p => Tail(d, t) <= y.executed + m.limit
  <2>1. CASE n >= x.start + x.period /\ x.limit > 0 /\ y.start = n /\ y.executed = 1
    <3>1. \A t \in Times : t > n => Tail(d, t) = 0
      BY ONLY <1>0, <1>1, <1>2, <1>3, <1>9, TimesFinite
    <3>2. ASSUME NEW t \in Times, NEW p \in Nat, Shortest(p), t > n - p
          PROVE  Tail(d, t) <= 1 + m.limit
      <4>1. t > x.start
        BY <1>1, <1>3, <1>7, <1>8, <2>1, <3>2
      <4>2. Tail(c, t) <= x.executed
        BY <1>4, <4>1
      <4> QED BY <1>2, <1>3, <1>4, <1>6, <1>7, <4>2
    <3> QED BY <1>1, <1>7, <2>1, <3>1, <3>2
  <2>2. CASE x.executed < x.limit /\ y.start = x.start /\ y.executed = x.executed + 1
    <3>1. ASSUME NEW t \in Times, t > x.start PROVE Tail(d, t) <= x.executed + 1
      BY <1>2, <1>3, <1>4, <1>7, <3>1
    <3>2. ASSUME NEW t \in Times, NEW p \in Nat, Shortest(p), t > x.start - p
          PROVE  Tail(d, t) <= x.executed + 1 + m.limit
      <4>1. Tail(c, t) <= x.executed + s.limit
        BY <1>4, <3>2
      <4> QED BY <1>2, <1>3, <1>6, <1>7, <4>1
    <3> QED BY <1>1, <1>7, <2>2, <3>1, <3>2
  <2> QED BY <2>1, <2>2
<1>11. Bounded(y, d)
  BY <1>10 DEF Bounded
<1>12. Limited(d)
  <2> SUFFICES ASSUME NEW t \in Times, NEW p \in Nat, Shortest(p)
               PROVE  \E q \in RuleSettings : Within(d, t, p) <= 2 * q.limit
    BY DEF Limited
  <2>1. CASE ~(t <= n /\ n < t + p)
    <3>1. Within(d, t, p) = Within(c, t, p)
      BY <1>2, <2>1
    <3> QED BY <3>1 DEF Limited
  <2>2. CASE t <= n /\ n < t + p
    <3>1. t > y.start - p
      BY <1>1, <1>3, <1>10, <2>2
    <3>2. Tail(d, t) <= y.executed + m.limit
      BY <1>10, <3>1
    <3>3. Within(d, t, p) <= 2 * m.limit
      BY <1>3, <1>7, <1>10, <3>2
    <3> QED BY <3>3
  <2> QED BY <2>1, <2>2
<1>13. Counted(y, d, n)
  <2>1. \A u \in Times : u > n => d[u] = 0
    BY <1>1 DEF Counted, Counts, Counting
  <2> QED BY <1>2, <1>5, <1>10, <2>1 DEF Counted
<1> QED BY <1>11, <1>12, <1>13

(* A rule that fires, is set, or is disabled.                               *)
LEMMA RateWritten ==
    ASSUME RateOK, NEW r \in Rules, NEW y, NEW d, UNCHANGED now,
           rule' = [rule EXCEPT ![r] = y], triggers' = [triggers EXCEPT ![r] = d],
           Counted(y, d, now), Limited(d), y.exists => Bounded(y, d)
    PROVE  RateOK'
<1>1. y \in RuleType /\ d \in Counts
  BY DEF Counted
<1>2. rule' \in [Rules -> RuleType] /\ triggers' \in [Rules -> Counts]
  BY <1>1 DEF RateOK
<1>3. \A q \in Rules : /\ rule'[q] = IF q = r THEN y ELSE rule[q]
                       /\ triggers'[q] = IF q = r THEN d ELSE triggers[q]
  BY DEF RateOK
<1>4. \A q \in Rules : /\ Counted(rule'[q], triggers'[q], now) /\ Limited(triggers'[q])
                       /\ rule'[q].exists => Bounded(rule'[q], triggers'[q])
  BY <1>3 DEF RateOK
<1> QED BY <1>2, <1>4 DEF RateOK

(* A trigger, with a new counting period or within the current one, keeps   *)
(* the rate invariant.                                                      *)
LEMMA TriggerKeeps ==
    ASSUME RateOK, NEW r \in Rules, TriggerRule(r)
    PROVE  RateOK'
<1> DEFINE x == rule[r]
           c == triggers[r]
           y == [Renewed(r) EXCEPT !.executed = @ + 1, !.last = now]
           d == Counting(c, now)
<1>1. /\ now \in Times /\ x \in RuleType /\ c \in Counts /\ x.exists /\ now \in Nat
      /\ Counted(x, c, now) /\ Limited(c) /\ Bounded(x, c)
  BY TimesFinite DEF RateOK, TriggerRule, Triggerable
<1>2. /\ Renewed(r) \in RuleType /\ Renewed(r).exists = x.exists /\ Renewed(r).limit = x.limit
      /\ Renewed(r).period = x.period
      /\ \/ /\ now >= x.start + x.period
            /\ Renewed(r).start = now /\ Renewed(r).executed = 0
         \/ /\ Renewed(r).start = x.start /\ Renewed(r).executed = x.executed
  BY <1>1 DEF Renewed, IsNewPeriod, RuleType
<1>3. Renewed(r).executed < x.limit
  BY DEF TriggerRule, Triggerable
<1>4. /\ y \in RuleType /\ y.exists = x.exists /\ y.limit = x.limit /\ y.period = x.period
      /\ y.start = Renewed(r).start /\ y.executed = Renewed(r).executed + 1
  <2> DEFINE z == Renewed(r)
  <2>1. z \in RuleType
    BY <1>2
  <2> HIDE DEF x, z
  <2> DEFINE w == [z EXCEPT !.executed = z.executed + 1, !.last = now]
  <2>2. z.executed + 1 \in Nat
    BY <2>1 DEF RuleType
  <2>3. w \in RuleType
    BY <1>1, <2>1, <2>2 DEF RuleType
  <2>4. /\ w.exists = z.exists /\ w.limit = z.limit /\ w.period = z.period
        /\ w.start = z.start /\ w.executed = z.executed + 1
    BY <2>1 DEF RuleType
  <2>5. w = y
    BY DEF z
  <2> HIDE DEF w, y
  <2> QED BY <1>2, <2>3, <2>4, <2>5 DEF x, z
<1>5. rule' = [rule EXCEPT ![r] = y] /\ triggers' = [triggers EXCEPT ![r] = d] /\ UNCHANGED now
  BY DEF TriggerRule, Counting
<1> HIDE DEF x, c, y, d
<1>6. d = Counting(c, now)
  BY DEF d
<1>7. \/ /\ now >= x.start + x.period /\ x.limit > 0
         /\ y.start = now /\ y.executed = 1
      \/ /\ x.executed < x.limit
         /\ y.start = x.start /\ y.executed = x.executed + 1
  BY <1>1, <1>2, <1>3, <1>4 DEF RuleType
<1>8. Counted(y, d, now) /\ Bounded(y, d) /\ Limited(d)
  BY <1>1, <1>4, <1>6, <1>7, Fires
<1> QED BY <1>5, <1>8, RateWritten

(* A rule set for the first time has never fired.                           *)
LEMMA NewRule ==
    ASSUME NEW s \in RuleSettings, NEW n \in Times, NEW c \in Counts, \A u \in Times : c[u] = 0
    PROVE  Counted(AsSet(s, 0, n, 0), c, n) /\ Limited(c) /\ Bounded(AsSet(s, 0, n, 0), c)
<1> DEFINE y == AsSet(s, 0, n, 0)
<1>1. /\ s.condition \in {"Always", "TimestampAfter", "IntervalElapsed"}
      /\ s.param \in Nat \cup {NoParam} /\ s.limit \in Nat /\ s.period \in Nat /\ n \in Nat
  BY AutomationAssumption, TimesFinite
<1>2. /\ y \in RuleType /\ y.exists /\ y.limit = s.limit /\ y.period = s.period /\ y.start = n
      /\ y.executed = 0
  BY <1>1 DEF AsSet, RuleType
<1> HIDE DEF y
<1>3. Counted(y, c, n)
  BY <1>1, <1>2 DEF Counted
<1>4. Limited(c)
  <2>1. \A t \in Times, p \in Nat : Within(c, t, p) = 0
    BY NeverFired
  <2>2. \A t \in Times, p \in Nat : Within(c, t, p) <= 2 * s.limit
    BY <1>1, <2>1
  <2> QED BY <2>2 DEF Limited
<1>5. Bounded(y, c)
  <2>1. \A t \in Times : Tail(c, t) = 0
    BY NeverFired
  <2>2. y.executed <= s.limit /\ \A t \in Times : Tail(c, t) <= y.executed /\ Tail(c, t) <= y.executed + s.limit
    BY <1>1, <1>2, <2>1
  <2> QED BY <2>2 DEF Bounded
<1> QED BY <1>3, <1>4, <1>5 DEF y

(* A rule that is set starts a period of its own.                           *)
LEMMA SetRuleKeeps ==
    ASSUME RateOK, NEW r \in Rules, NEW s \in RuleSettings, SetRule(r, s)
    PROVE  RateOK'
<1> DEFINE x == rule[r]
           c == triggers[r]
<1>1. /\ now \in Times /\ x \in RuleType /\ c \in Counts /\ now \in Nat
      /\ Counted(x, c, now) /\ Limited(c)
      /\ x.exists => Bounded(x, c)
  BY TimesFinite DEF RateOK
<1>2. triggers' = [triggers EXCEPT ![r] = c] /\ UNCHANGED now
  BY DEF SetRule, RateOK
<1>3. CASE x.exists
  <2> DEFINE y == AsSet(s, x.executed, x.start, x.last)
  <2>1. rule' = [rule EXCEPT ![r] = y]
    BY <1>3 DEF SetRule
  <2> HIDE DEF x, c
  <2>2. /\ s.condition \in {"Always", "TimestampAfter", "IntervalElapsed"}
        /\ s.param \in Nat \cup {NoParam} /\ s.limit \in Nat /\ s.period \in Nat
    BY AutomationAssumption
  <2>3. /\ y \in RuleType /\ y.exists /\ y.limit = s.limit /\ y.period = s.period
        /\ y.start = x.start /\ y.executed = x.executed
    BY <1>1, <2>2 DEF AsSet, RuleType
  <2> HIDE DEF y
  <2>4. Counted(y, c, now)
    BY <1>1, <2>3 DEF Counted
  <2>5. Bounded(y, c)
    <3>1. Bounded(x, c)
      BY <1>1, <1>3
    <3> QED BY <2>3, <3>1 DEF Bounded
  <2> QED BY <1>1, <1>2, <2>1, <2>4, <2>5, RateWritten
<1>4. CASE ~x.exists
  <2> DEFINE y == AsSet(s, 0, now, 0)
  <2>1. rule' = [rule EXCEPT ![r] = y]
    BY <1>4 DEF SetRule
  <2> HIDE DEF x, c
  <2>2. \A u \in Times : c[u] = 0
    BY <1>1, <1>4 DEF Counted
  <2>3. Counted(y, c, now) /\ Limited(c) /\ Bounded(y, c)
    BY <1>1, <2>2, NewRule
  <2> HIDE DEF y
  <2> QED BY <1>2, <2>1, <2>3, RateWritten
<1> QED BY <1>3, <1>4

(* A disabled rule keeps its counts.                                        *)
LEMMA DisableKeeps ==
    ASSUME RateOK, NEW r \in Rules, DisableRule(r)
    PROVE  RateOK'
<1> DEFINE x == rule[r]
           c == triggers[r]
           y == [x EXCEPT !.disabled = TRUE]
<1>1. /\ now \in Times /\ x \in RuleType /\ c \in Counts /\ x.exists
      /\ Counted(x, c, now) /\ Limited(c) /\ Bounded(x, c)
  BY DEF RateOK, DisableRule
<1>2. rule' = [rule EXCEPT ![r] = y] /\ triggers' = [triggers EXCEPT ![r] = c] /\ UNCHANGED now
  BY DEF DisableRule, RateOK
<1> HIDE DEF x, c
<1>3. /\ y \in RuleType /\ y.exists = x.exists /\ y.limit = x.limit /\ y.period = x.period
      /\ y.start = x.start /\ y.executed = x.executed
  BY <1>1 DEF RuleType
<1> HIDE DEF y
<1>4. Counted(y, c, now)
  BY <1>1, <1>3 DEF Counted
<1>5. Bounded(y, c)
  BY <1>1, <1>3 DEF Bounded
<1> QED BY <1>1, <1>2, <1>4, <1>5, RateWritten

(* Time only ends spans.                                                    *)
LEMMA RateTimeKeeps ==
    ASSUME RateOK, AdvanceTime
    PROVE  RateOK'
<1>1. now' = now + 1 /\ now' \in Times /\ now \in Nat /\ UNCHANGED <<rule, triggers>>
  BY AutomationAssumption, TimesFinite DEF AdvanceTime, RateOK, Times
<1>2. ASSUME NEW r \in Rules PROVE Counted(rule[r], triggers[r], now')
  <2>1. Counted(rule[r], triggers[r], now)
    BY DEF RateOK
  <2>2. rule[r].start \in Nat /\ rule[r].start <= now + 1
    BY <1>1, <2>1 DEF Counted, RuleType
  <2>3. \A u \in Times : u > now + 1 => triggers[r][u] = 0
    <3>1. \A u \in Times : u > now + 1 => u > now
      BY <1>1, TimesFinite
    <3> QED BY <2>1, <3>1 DEF Counted
  <2> QED BY <1>1, <2>1, <2>2, <2>3 DEF Counted
<1> QED BY <1>1, <1>2 DEF RateOK

(* A step that leaves rules and triggers alone keeps the rate invariant.    *)
LEMMA RateStands == RateOK /\ UNCHANGED <<now, rule, triggers>> => RateOK'
BY DEF RateOK

(* So does every other reconfiguration.                                     *)
LEMMA RateReconfigured ==
    ASSUME RateOK, Reconfigure
    PROVE  RateOK'
<1>1. CASE UNCHANGED <<now, rule, triggers>>
  BY <1>1, RateStands
<1>2. /\ \A n : SetExposure(n) => UNCHANGED <<now, rule, triggers>>
      /\ \A id : CancelSchedule(id) => UNCHANGED <<now, rule, triggers>>
      /\ \A id, s : CreateSchedule(id, s) => UNCHANGED <<now, rule, triggers>>
      /\ \A c, yes : Authorize(c, yes) => UNCHANGED <<now, rule, triggers>>
  BY DEF SetExposure, CancelSchedule, CreateSchedule, Authorize
<1> QED BY <1>1, <1>2, SetRuleKeeps, DisableKeeps DEF Reconfigure

(* The rate invariant holds at deployment.                                  *)
LEMMA RateInit == Init => RateOK
<1> SUFFICES ASSUME Init PROVE RateOK
  OBVIOUS
<1>1. 0 \in Times /\ now = 0
  BY AutomationAssumption DEF Times, Init, AutomationInit
<1>2. /\ rule \in [Rules -> {NoRule} \cup {AsSet(s, 0, 0, 0) : s \in RuleSettings}]
      /\ triggers = [r \in Rules |-> [t \in Times |-> 0]]
  BY DEF Init, AutomationInit
<1>3. NoRule \in RuleType /\ ~NoRule.exists /\ NoRule.start = 0
  BY DEF NoRule, RuleType
<1>4. ASSUME NEW r \in Rules
      PROVE  /\ Counted(rule[r], triggers[r], 0) /\ Limited(triggers[r])
             /\ rule[r].exists => Bounded(rule[r], triggers[r])
  <2> DEFINE c == triggers[r]
  <2>1. c \in Counts /\ \A u \in Times : c[u] = 0
    BY <1>2 DEF Counts
  <2> HIDE DEF c
  <2>2. CASE rule[r] = NoRule
    <3>1. Counted(NoRule, c, 0)
      BY <1>3, <2>1 DEF Counted
    <3>2. Limited(c)
      <4> SUFFICES ASSUME NEW t \in Times, NEW p \in Nat, Shortest(p)
                   PROVE  \E s \in RuleSettings : Within(c, t, p) <= 2 * s.limit
        BY DEF Limited
      <4> PICK s \in RuleSettings : TRUE
        BY DEF Shortest
      <4>1. Within(c, t, p) = 0 /\ s.limit \in Nat
        BY <2>1, NeverFired, SettingsNat
      <4> QED BY <4>1
    <3> QED BY <1>3, <2>2, <3>1, <3>2 DEF c
  <2>3. CASE \E s \in RuleSettings : rule[r] = AsSet(s, 0, 0, 0)
    BY <1>1, <2>1, <2>3, NewRule DEF c
  <2> QED BY <1>2, <2>2, <2>3
<1>5. rule \in [Rules -> RuleType] /\ triggers \in [Rules -> Counts]
  <2>1. \A r \in Rules : rule[r] \in RuleType /\ triggers[r] \in Counts
    BY <1>4 DEF Counted
  <2> QED BY <1>2, <2>1
<1> QED BY <1>1, <1>4, <1>5 DEF RateOK

(* Signals name rules.                                                      *)
SignalsOK == eval \in [Evaluations -> [step : Steps, rule : Rules]]

(* Signals are well typed at the start.                                     *)
LEMMA SignalsInit == Init => SignalsOK
BY DEF Init, SignalsOK, Steps

(* Every step keeps them so.                                                *)
LEMMA SignalsNext == SignalsOK /\ [Next]_vars => SignalsOK'
<1> SUFFICES ASSUME SignalsOK, [Next]_vars PROVE SignalsOK'
  OBVIOUS
<1>1. CASE UNCHANGED eval
  BY <1>1 DEF SignalsOK
<1>2. ASSUME NEW e \in Evaluations, NEW step \in Steps, Goto(e, step) PROVE SignalsOK'
  BY <1>2 DEF SignalsOK, Goto
<1>3. ASSUME NEW e \in Evaluations, NEW r \in Rules, Signal(e, r) PROVE SignalsOK'
  BY <1>3 DEF SignalsOK, Signal, Steps
<1>4. ASSUME NEW e \in Evaluations, Await(e) \/ NoSignal(e) PROVE \E step \in Steps : Goto(e, step)
  BY <1>4 DEF Await, NoSignal, Tick, ReadStatus, AskCanExecute, ValidateRule, Send, Mine, Steps
<1> QED BY <1>1, <1>2, <1>3, <1>4 DEF Next, Start, Stop, Others, agentVars, vars

(* Every step keeps the rate invariant.                                     *)
LEMMA RateNext == SignalsOK /\ RateOK /\ [Next]_vars => RateOK'
<1> SUFFICES ASSUME SignalsOK, RateOK, [Next]_vars PROVE RateOK'
  OBVIOUS
<1> DEFINE Still == UNCHANGED <<now, rule, triggers>>
<1>1. UNCHANGED autoVars => Still
  BY DEF autoVars
<1>2. CASE UNCHANGED vars \/ Start \/ Stop
  BY <1>1, <1>2, RateStands DEF vars, Start, Stop
<1>3. ASSUME NEW e \in Evaluations, Await(e) \/ NoSignal(e) \/ \E r \in Rules : Signal(e, r)
      PROVE  RateOK'
  <2>1. CASE Mine(e)
    <3>1. CASE Triggerable(eval[e].rule)
      <4>1. TriggerRule(eval[e].rule)
        BY <2>1, <3>1 DEF Mine
      <4>2. eval[e].rule \in Rules
        BY DEF SignalsOK
      <4> QED BY <4>1, <4>2, TriggerKeeps
    <3>2. CASE ~Triggerable(eval[e].rule)
      <4>1. Still
        BY <2>1, <3>2 DEF Mine
      <4> QED BY <4>1, RateStands
    <3> QED BY <3>1, <3>2
  <2>2. CASE ~Mine(e)
    <3>1. UNCHANGED autoVars
      BY <1>3, <2>2 DEF Await, NoSignal, Signal, Tick, ReadStatus, AskCanExecute, ValidateRule, Send, OnlyEval
    <3> QED BY <1>1, <3>1, RateStands
  <2> QED BY <2>1, <2>2
<1>4. CASE Others
  <2>1. /\ \A n, min, expected, got : ExecuteAutomatedSwap(n, min, expected, got) => Still
        /\ \A id, n, min, got : ExecuteBuybackChunk(id, n, min, got) => Still
    BY DEF ExecuteAutomatedSwap, ExecuteBuybackChunk
  <2>2. Execute => Still
    BY <2>1 DEF Execute
  <2> QED BY <1>4, <2>2, RateStands, RateReconfigured, RateTimeKeeps, TriggerKeeps DEF Others
<1> QED BY <1>2, <1>3, <1>4 DEF Next

-----------------------------------------------------------------------------
(* In any span as long as the shortest period that rules were given, a rule *)
(* fires at most twice some limit that rules were given, whoever triggers,  *)
(* replaces and disables it, and however agents and keepers overlap.        *)
THEOREM RatesAreLimited == Spec => []RateLimited
<1>1. Init => SignalsOK /\ RateOK
  BY SignalsInit, RateInit
<1>2. (SignalsOK /\ RateOK) /\ [Next]_vars => (SignalsOK /\ RateOK)'
  BY SignalsNext, RateNext
<1>3. RateOK => RateLimited
  <2> SUFFICES ASSUME RateOK, NEW r \in Rules, NEW t \in Times, NEW s \in RuleSettings,
                      \A x \in RuleSettings : x.period >= s.period
               PROVE  \E x \in RuleSettings :
                         TriggersIn(r, {u \in Times : t <= u /\ u < t + s.period}) <= 2 * x.limit
    BY DEF RateLimited
  <2>1. Shortest(s.period) /\ s.period \in Nat
    BY SettingsNat DEF Shortest
  <2>2. PICK x \in RuleSettings : Within(triggers[r], t, s.period) <= 2 * x.limit
    BY <2>1 DEF RateOK, Limited
  <2>3. \A S : TriggersIn(r, S) = Total(triggers[r], S)
    BY DEF TriggersIn, Total, MapThenSumSet, MapThenFoldSet
  <2> QED BY <2>2, <2>3 DEF Within
<1> QED BY <1>1, <1>2, <1>3, PTL DEF Spec
================================================================================
