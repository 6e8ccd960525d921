------------------------------ MODULE VaultProofs ------------------------------
(***************************************************************************)
(* The vault, for any holders, strategies, amounts, fees and losses of     *)
(* trades: balances stay natural numbers and shares add up, liquidity is   *)
(* never out of reach, performance fees stay within what may count as a    *)
(* rise, and a vault whose strategies hold the asset is a share pool whose *)
(* price never falls.                                                      *)
(*                                                                         *)
(* The invariant VInv adds three things to the types: the supply is the    *)
(* sum of the shares (or burning could take it below zero), an empty       *)
(* position leaves nothing of the other token behind (so that what the lp  *)
(* strategy skips when it has no position is nothing), and every strategy  *)
(* but the current one has no position.  The fees' invariant counts what   *)
(* the strategies earned and have not collected, and what they hold of the *)
(* other token, as not there yet.                                          *)
(***************************************************************************)
EXTENDS Vault, LedgerProofs

(* What a harvest of this book may count as a rise.                         *)
Owed(b) == b.fees + b.paired

(* The book of one strategy.                                                *)
BookOK(b, k) ==
    /\ b \in Books
    /\ b.position > 0 => b.minted /\ k = "lp"
    /\ b.position = 0 => b.paired = 0

BooksOK ==
    /\ book \in [Strategies -> Books]
    /\ kind \in [Strategies -> {"holding", "lp"}]
    /\ \A s \in Strategies : BookOK(book[s], kind[s])

AccountsOK ==
    /\ wallet \in [Holders -> Nat] /\ idle \in Nat
    /\ shares \in [Holders -> Nat]
    /\ supply = Total(shares, Holders)

ConfOK ==
    /\ conf \in [cap : Nat, perf : 0..MAX_PERFORMANCE_FEE_BPS,
                 exit : 0..MAX_WITHDRAWAL_FEE_BPS, paused : BOOLEAN]
    /\ owner \in {"account", "factory"}
    /\ gained \in Nat /\ moved \in 0..MaxMarket /\ calls \in 0..MaxCalls /\ harvestFees \in Nat
    /\ unplaced \in Nat

StrategyOK ==
    /\ strategy \in Strategies \cup {NoStrategy}
    /\ strategyActive = (strategy # NoStrategy)
    /\ \A s \in Strategies : s # strategy => book[s].position = 0

VInv == BooksOK /\ AccountsOK /\ ConfOK /\ StrategyOK

-----------------------------------------------------------------------------
(* Rounded down, not above the quotient.                                    *)
LEMMA RoundedDown ==
    ASSUME NEW a \in Nat, NEW b \in Nat
    PROVE  a \div (b + 1) \in Nat /\ (a \div (b + 1)) * (b + 1) <= a
OBVIOUS

(* Rounded up, not below the quotient.                                      *)
LEMMA RoundedUp ==
    ASSUME NEW a \in Nat, NEW b \in Nat
    PROVE  (a + b) \div (b + 1) \in Nat /\ a <= ((a + b) \div (b + 1)) * (b + 1)
OBVIOUS

(* A share of at most bps basis points.                                     *)
LEMMA ShareOf ==
    ASSUME NEW a \in Nat, NEW b \in Nat, NEW bps \in Nat, b <= bps, bps <= 10000
    PROVE  /\ (a * b) \div 10000 \in 0..a
           /\ ((a * b) \div 10000) * 10000 <= a * bps
<1>1. a * b \in Nat /\ a * b <= a * bps /\ a * bps <= a * 10000
  OBVIOUS
<1> DEFINE p == a * b
<1>2. p \in Nat /\ p \div 10000 \in Nat /\ (p \div 10000) * 10000 <= p
  BY <1>1
<1> QED BY <1>1, <1>2

(* The smaller of two amounts.                                              *)
LEMMA LeastOK ==
    ASSUME NEW a \in Nat, NEW b \in Nat
    PROVE  Least(a, b) \in Nat /\ Least(a, b) <= a /\ Least(a, b) <= b
BY DEF Least

-----------------------------------------------------------------------------
(* What the calls of a strategy leave in its book.                          *)

(* A trade loses part of what is traded.                                    *)
LEMMA AfterTradeOK ==
    ASSUME NEW n \in Nat, NEW m \in AfterTrade(n)
    PROVE  m \in Nat /\ m <= n
BY VaultAssumption DEF AfterTrade

(* Providing takes no more than there is and leaves the fees alone.         *)
LEMMA ProvidedOK ==
    ASSUME NEW b \in Books, NEW n \in Nat, NEW c \in Provided(b, n)
    PROVE  c \in Books /\ c.minted /\ c.fees = b.fees /\ b.paired <= c.paired
<1> DEFINE half == n \div 2
           x == n - half
<1>1. half \in Nat /\ x \in Nat
  OBVIOUS
<1>2. PICK y \in AfterTrade(half) : c \in Added(b, x, y)
  BY DEF Provided
<1> HIDE DEF half, x
<1>3. PICK t \in Taken(b, x) \X Taken(b, y) :
        c = [b EXCEPT !.held = @ + (x - t[1]), !.paired = @ + (y - t[2]),
                      !.position = @ + t[1] + t[2], !.minted = TRUE]
  BY <1>2 DEF Added
<1> DEFINE u == t[1]
           v == t[2]
<1>4. y \in Nat /\ u \in Taken(b, x) /\ v \in Taken(b, y)
  BY <1>1, AfterTradeOK
<1>5. c = [b EXCEPT !.held = @ + (x - u), !.paired = @ + (y - v),
                    !.position = @ + u + v, !.minted = TRUE]
  BY <1>3
<1> HIDE DEF u, v
<1>6. u \in Nat /\ u <= x /\ v \in Nat /\ v <= y
  BY <1>1, <1>4, AfterTradeOK DEF Taken
<1>7. /\ b.held \in Nat /\ b.paired \in Nat /\ b.position \in Nat /\ b.fees \in Nat
      /\ x - u \in Nat /\ y - v \in Nat
  BY <1>1, <1>4, <1>6 DEF Books
<1>8. c = [held |-> b.held + (x - u), paired |-> b.paired + (y - v),
           position |-> b.position + u + v, fees |-> b.fees, minted |-> TRUE]
  BY <1>5 DEF Books
<1> QED BY <1>6, <1>7, <1>8 DEF Books

(* A deposit keeps the book good, and all of it when the strategy holds     *)
(* the asset.                                                               *)
LEMMA DepositedOK ==
    ASSUME BooksOK, NEW s \in Strategies, NEW n \in Nat, NEW c \in Deposited(s, n)
    PROVE  /\ BookOK(c, kind[s]) /\ c.fees = book[s].fees /\ book[s].paired <= c.paired
           /\ kind[s] = "holding" => Balance(c) = Balance(book[s]) + n
<1> USE DEF BooksOK, BookOK
<1>1. CASE kind[s] = "lp"
  <2>1. c \in Provided(book[s], n) /\ c.position > book[s].position
    BY <1>1 DEF Deposited
  <2>2. c \in Books /\ c.minted /\ c.fees = book[s].fees /\ book[s].paired <= c.paired
    BY <2>1, ProvidedOK
  <2> QED BY <1>1, <2>1, <2>2 DEF Books
<1>2. CASE kind[s] # "lp"
  BY <1>2 DEF Deposited, Books, Balance
<1> QED BY <1>1, <1>2

(* Unwinding leaves no position and none of the other token.                *)
LEMMA UnwoundOK ==
    ASSUME NEW k, NEW b, BookOK(b, k), NEW c \in Unwound(b)
    PROVE  /\ c \in Books /\ c.position = 0 /\ c.paired = 0
           /\ b.position = 0 => c = b
           /\ Owed(c) <= Owed(b)
<1>1. CASE b.position = 0
  BY <1>1 DEF Unwound, BookOK, Books, Owed
<1>2. CASE b.position # 0
  <2>1. PICK out \in AfterTrade(b.position + b.fees + b.paired) :
          c = [b EXCEPT !.held = @ + out, !.paired = 0, !.position = 0, !.fees = 0]
    BY <1>2 DEF Unwound
  <2>2. out \in Nat
    <3>1. b.position + b.fees + b.paired \in Nat
      BY DEF BookOK, Books
    <3> QED BY <3>1, AfterTradeOK
  <2>3. c = [held |-> b.held + out, paired |-> 0, position |-> 0, fees |-> 0, minted |-> b.minted]
    BY <2>1 DEF BookOK, Books
  <2>4. b.held \in Nat /\ b.minted \in BOOLEAN /\ b.fees \in Nat /\ b.paired \in Nat
    BY DEF BookOK, Books
  <2> QED BY <1>2, <2>2, <2>3, <2>4 DEF Books, Owed
<1> QED BY <1>1, <1>2

(* A withdrawal gives what it takes from the balance, and touches the       *)
(* position only to close it.                                               *)
LEMMA WithdrawnOK ==
    ASSUME NEW k, NEW b, BookOK(b, k), NEW n \in Nat, NEW r \in Withdrawn(b, n)
    PROVE  /\ r.out \in Nat /\ r.out <= n /\ BookOK(r.book, k) /\ Owed(r.book) <= Owed(b)
           /\ b.position = 0 => /\ r.book.position = 0 /\ r.book.fees = b.fees
                                /\ r.out + Balance(r.book) = Balance(b)
<1>1. PICK c \in IF n > b.held THEN Unwound(b) ELSE {b} :
        r = [book |-> [c EXCEPT !.held = @ - Least(n, c.held)], out |-> Least(n, c.held)]
  BY DEF Withdrawn
<1>2. c \in Books /\ BookOK(c, k) /\ (b.position = 0 => c = b) /\ Owed(c) <= Owed(b)
  BY UnwoundOK DEF BookOK, Books, Owed
<1>3. c.held \in Nat
  BY <1>2 DEF Books
<1> DEFINE m == Least(n, c.held)
<1>4. m \in Nat /\ m <= n /\ m <= c.held
  BY <1>3, LeastOK
<1>5. r.out = m /\ r.book = [c EXCEPT !.held = @ - m]
  BY <1>1
<1> HIDE DEF m
<1> QED BY <1>2, <1>3, <1>4, <1>5 DEF Books, BookOK, Balance, Owed

(* A harvest collects the fees and leaves the position.                     *)
LEMMA HarvestedOK ==
    ASSUME BooksOK, NEW s \in Strategies, NEW c \in Harvested(s)
    PROVE  /\ BookOK(c, kind[s]) /\ c.position = book[s].position
           /\ Balance(c) + Owed(c) <= Balance(book[s]) + Owed(book[s])
           /\ Owed(c) <= Owed(book[s])
           /\ kind[s] = "holding" => /\ c.fees = 0
                                     /\ Balance(c) = Balance(book[s]) + book[s].fees
<1> DEFINE b == book[s]
<1>1. BookOK(b, kind[s]) /\ kind[s] \in {"holding", "lp"}
  BY DEF BooksOK
<1>2. CASE kind[s] = "holding"
  <2>1. c = [held |-> b.held + b.fees, paired |-> b.paired, position |-> b.position,
             fees |-> 0, minted |-> b.minted]
    BY <1>1, <1>2 DEF Harvested, Books, BookOK
  <2>2. /\ b.held \in Nat /\ b.paired \in Nat /\ b.position \in Nat /\ b.fees \in Nat
        /\ b.minted \in BOOLEAN
    BY <1>1 DEF BookOK, Books
  <2> QED BY <1>1, <2>1, <2>2 DEF Books, Balance, BookOK, Owed
<1>3. CASE kind[s] = "lp" /\ b.position = 0
  BY <1>1, <1>3 DEF Harvested, BookOK, Books, Balance, Owed
<1>4. CASE kind[s] = "lp" /\ b.position # 0
  <2>1. PICK out \in AfterTrade(b.fees + b.paired) :
          c = [b EXCEPT !.held = @ + out, !.paired = 0, !.fees = 0]
    BY <1>4 DEF Harvested
  <2>2. out \in Nat /\ out <= b.fees + b.paired
    <3>1. b.fees + b.paired \in Nat
      BY <1>1 DEF BookOK, Books
    <3> QED BY <3>1, AfterTradeOK
  <2>3. c = [held |-> b.held + out, paired |-> 0, position |-> b.position, fees |-> 0,
             minted |-> b.minted]
    BY <1>1, <2>1 DEF BookOK, Books
  <2>4. /\ b.held \in Nat /\ b.position \in Nat /\ b.minted \in BOOLEAN
        /\ b.fees \in Nat /\ b.paired \in Nat
    BY <1>1 DEF BookOK, Books
  <2> QED BY <1>1, <1>4, <2>2, <2>3, <2>4 DEF BookOK, Books, Balance, Owed
<1> QED BY <1>1, <1>2, <1>3, <1>4

(* A strategy that is replaced keeps no position.                           *)
LEMMA RetiredOK ==
    ASSUME BooksOK, NEW s \in Strategies, NEW r \in Retired(s)
    PROVE  /\ r.out \in Nat /\ BookOK(r.book, kind[s]) /\ r.book.position = 0
           /\ Owed(r.book) <= Owed(book[s])
           /\ kind[s] = "holding" => /\ r.book.fees = book[s].fees
                                     /\ r.out = Balance(book[s]) /\ Balance(r.book) = 0
<1> DEFINE b == book[s]
<1>1. BookOK(b, kind[s]) /\ kind[s] \in {"holding", "lp"}
  BY DEF BooksOK
<1>2. CASE kind[s] = "holding"
  BY <1>1, <1>2 DEF Retired, Books, Balance, BookOK, Owed
<1>3. CASE kind[s] = "lp"
  <2>1. PICK c \in Unwound(b) : r = [book |-> [c EXCEPT !.minted = FALSE], out |-> 0]
    BY <1>3 DEF Retired
  <2>2. c \in Books /\ c.position = 0 /\ c.paired = 0 /\ Owed(c) <= Owed(b)
    BY <1>1, UnwoundOK
  <2>3. r.out = 0 /\ r.book = [held |-> c.held, paired |-> 0, position |-> 0, fees |-> c.fees,
                               minted |-> FALSE]
    BY <2>1, <2>2 DEF Books
  <2>4. c.held \in Nat /\ c.fees \in Nat
    BY <2>2 DEF Books
  <2> QED BY <1>3, <2>2, <2>3, <2>4 DEF Books, BookOK, Owed
<1> QED BY <1>1, <1>2, <1>3

(* Nor does one that is emptied.                                            *)
LEMMA EmergencyWithdrawnOK ==
    ASSUME BooksOK, NEW s \in Strategies, NEW r \in EmergencyWithdrawn(s)
    PROVE  /\ r.out \in Nat /\ BookOK(r.book, kind[s]) /\ r.book.position = 0
           /\ Owed(r.book) <= Owed(book[s])
           /\ kind[s] = "holding" => /\ r.book.fees = book[s].fees
                                     /\ r.out = Balance(book[s]) /\ Balance(r.book) = 0
<1> DEFINE b == book[s]
<1>1. BookOK(b, kind[s]) /\ kind[s] \in {"holding", "lp"}
  BY DEF BooksOK
<1>2. CASE kind[s] = "lp" /\ ~b.minted
  BY <1>1, <1>2 DEF EmergencyWithdrawn, Books, BookOK, Owed
<1>3. CASE ~(kind[s] = "lp" /\ ~b.minted)
  <2>1. PICK c \in Unwound(b) : r = [book |-> [c EXCEPT !.minted = FALSE, !.held = 0], out |-> c.held]
    BY <1>3 DEF EmergencyWithdrawn
  <2>2. c \in Books /\ c.position = 0 /\ c.paired = 0 /\ (b.position = 0 => c = b)
        /\ Owed(c) <= Owed(b)
    BY <1>1, UnwoundOK
  <2>3. kind[s] = "holding" => b.position = 0
    BY <1>1 DEF BookOK, Books
  <2>4. r.out = c.held /\ r.book = [held |-> 0, paired |-> 0, position |-> 0, fees |-> c.fees,
                                    minted |-> FALSE]
    BY <2>1, <2>2 DEF Books
  <2>5. c.held \in Nat /\ c.fees \in Nat
    BY <2>2 DEF Books
  <2>6. kind[s] = "holding" => r.out = Balance(b) /\ r.book.fees = b.fees
    BY <2>2, <2>3, <2>4, <2>5 DEF Balance
  <2> QED BY <2>2, <2>4, <2>5, <2>6 DEF Books, BookOK, Balance, Owed
<1> QED BY <1>2, <1>3

-----------------------------------------------------------------------------
(* The invariant, action by action.                                         *)

(* Totals are natural numbers, and nobody has more shares than there are.   *)
LEMMA Totals ==
    ASSUME VInv
    PROVE  /\ supply \in Nat /\ TotalAssets \in Nat /\ idle \in Nat
           /\ \A h \in Holders : shares[h] \in Nat /\ shares[h] <= supply
           /\ \A s \in Strategies : Balance(book[s]) \in Nat
<1>1. \A s \in Strategies : Balance(book[s]) \in Nat
  BY DEF VInv, BooksOK, Books, Balance
<1>2. supply \in Nat /\ \A h \in Holders : shares[h] <= supply
  BY TotalNat, VaultAssumption DEF VInv, AccountsOK
<1> QED BY <1>1, <1>2 DEF VInv, AccountsOK, StrategyOK, TotalAssets, Active

(* One book written with a good one.                                        *)
LEMMA BookWritten ==
    ASSUME BooksOK, NEW s \in Strategies, NEW b, BookOK(b, kind[s]),
           book' = [book EXCEPT ![s] = b], kind' = kind
    PROVE  BooksOK'
BY DEF BooksOK, BookOK

(* The shares of one holder move.                                           *)
LEMMA SharesMove ==
    ASSUME shares \in [Holders -> Nat], NEW h \in Holders, NEW n \in Int, shares[h] + n \in Nat,
           shares' = [shares EXCEPT ![h] = @ + n], supply = Total(shares, Holders),
           supply' = supply + n
    PROVE  shares' \in [Holders -> Nat] /\ supply' = Total(shares', Holders)
<1>1. shares' \in [Holders -> Nat] /\ shares'[h] = shares[h] + n
      /\ \A y \in Holders \ {h} : shares[y] = shares'[y]
  OBVIOUS
<1>2. /\ IsFiniteSet(Holders)
      /\ \A y \in Holders : shares[y] \in Int /\ shares'[y] \in Int
  BY <1>1, VaultAssumption
<1>3. Total(shares, Holders) \in Int
  BY <1>2, TotalInt
<1>4. Total(shares', Holders) = Total(shares, Holders) + shares'[h] - shares[h]
  BY ONLY <1>1, <1>2, h \in Holders, TotalChange
<1> QED BY <1>1, <1>3, <1>4

(* The count of calls stays within its bound.                               *)
LEMMA CalledOK ==
    ASSUME ConfOK, Called
    PROVE  calls' \in 0..MaxCalls
BY VaultAssumption DEF ConfOK, Called

(* A vault as deployed satisfies the invariant.                             *)
LEMMA InitOK ==
    ASSUME Init
    PROVE  VInv
<1>1. AccountsOK
  <2>1. Total(shares, Holders) = 0
    BY TotalZero, VaultAssumption DEF Init
  <2> QED BY <2>1, VaultAssumption DEF Init, AccountsOK
<1>2. BooksOK
  BY DEF Init, BooksOK, BookOK, Books, EmptyBook
<1>3. StrategyOK
  BY DEF Init, StrategyOK, EmptyBook
<1>4. ConfOK
  <2>1. PICK c \in Caps, p \in PerfFees, e \in ExitFees :
          /\ p <= MAX_PERFORMANCE_FEE_BPS /\ e <= MAX_WITHDRAWAL_FEE_BPS
          /\ conf = [cap |-> c, perf |-> p, exit |-> e, paused |-> FALSE]
    BY DEF Init
  <2>2. c \in Nat /\ p \in 0..MAX_PERFORMANCE_FEE_BPS /\ e \in 0..MAX_WITHDRAWAL_FEE_BPS
    BY <2>1, VaultAssumption DEF MAX_PERFORMANCE_FEE_BPS, MAX_WITHDRAWAL_FEE_BPS
  <2> QED BY <2>1, <2>2, VaultAssumption DEF Init, ConfOK
<1> QED BY <1>1, <1>2, <1>3, <1>4 DEF VInv

(* Deposits and mints keep it.                                              *)
LEMMA TakeInOK ==
    ASSUME VInv, NEW h \in Holders, NEW a \in Nat, NEW n \in Nat, TakeIn(h, a, n)
    PROVE  VInv'
<1> USE DEF TakeIn, deployed, market
<1>1. ConfOK'
  <2>1. unplaced' \in Nat
    <3>1. CASE Active /\ a > 0
      <4>1. PICK b \in Deposited(strategy, a) : unplaced' = unplaced + b.paired - book[strategy].paired
        BY <3>1
      <4>2. strategy \in Strategies /\ BookOK(book[strategy], kind[strategy]) /\ BooksOK
        BY <3>1 DEF VInv, StrategyOK, BooksOK, Active
      <4>3. BookOK(b, kind[strategy]) /\ book[strategy].paired <= b.paired
        BY <4>1, <4>2, DepositedOK
      <4> QED BY <4>1, <4>2, <4>3 DEF VInv, ConfOK, BookOK, Books
    <3>2. CASE ~(Active /\ a > 0)
      BY <3>2 DEF VInv, ConfOK
    <3> QED BY <3>1, <3>2
  <2> QED BY <2>1, CalledOK DEF VInv, ConfOK
<1>2. wallet' \in [Holders -> Nat]
  BY DEF VInv, AccountsOK
<1>3. shares' \in [Holders -> Nat] /\ supply' = Total(shares', Holders)
  <2>1. shares[h] + n \in Nat
    BY DEF VInv, AccountsOK
  <2>2. /\ shares \in [Holders -> Nat] /\ supply = Total(shares, Holders)
        /\ shares' = [shares EXCEPT ![h] = @ + n] /\ supply' = supply + n
    BY DEF VInv, AccountsOK
  <2>3. n \in Int
    OBVIOUS
  <2> QED BY ONLY h \in Holders, <2>1, <2>2, <2>3, SharesMove
<1>4. CASE Active /\ a > 0
  <2>1. PICK b \in Deposited(strategy, a) : book' = [book EXCEPT ![strategy] = b]
    BY <1>4
  <2>2. strategy \in Strategies
    BY <1>4 DEF VInv, StrategyOK, Active
  <2>3. BookOK(b, kind[strategy])
    BY <2>1, <2>2, DepositedOK DEF VInv
  <2>4. BooksOK'
    BY <2>1, <2>2, <2>3, BookWritten DEF VInv
  <2>5. StrategyOK'
    BY <2>1, <2>2 DEF VInv, StrategyOK, BooksOK
  <2> QED BY <1>1, <1>2, <1>3, <1>4, <2>4, <2>5 DEF VInv, AccountsOK
<1>5. CASE ~(Active /\ a > 0)
  <2>1. idle' \in Nat
    BY <1>5 DEF VInv, AccountsOK
  <2>2. BooksOK' /\ StrategyOK'
    BY <1>5 DEF VInv, BooksOK, BookOK, StrategyOK
  <2> QED BY <1>1, <1>2, <1>3, <2>1, <2>2 DEF VInv, AccountsOK
<1> QED BY <1>4, <1>5

(* Withdrawals and redemptions keep it: nobody burns shares that are not    *)
(* there.                                                                   *)
LEMMA PayOutOK ==
    ASSUME VInv, NEW c \in Holders, NEW h \in Holders, NEW a \in Nat, NEW n \in Nat, PayOut(c, h, a, n)
    PROVE  VInv'
<1> USE DEF PayOut, deployed, market
<1>1. ConfOK'
  BY CalledOK DEF VInv, ConfOK
<1>2. wallet' \in [Holders -> Nat]
  <2>1. conf.exit \in Nat /\ conf.exit <= 500
    BY DEF VInv, ConfOK, MAX_WITHDRAWAL_FEE_BPS
  <2>2. (a * conf.exit) \div BPS_DENOMINATOR \in 0..a
    BY <2>1, ShareOf DEF BPS_DENOMINATOR
  <2> DEFINE fee == (a * conf.exit) \div BPS_DENOMINATOR
  <2>3. wallet' = [wallet EXCEPT ![c] = @ + a - fee]
    OBVIOUS
  <2> HIDE DEF fee
  <2>4. wallet[c] + a - fee \in Nat
    BY <2>2 DEF VInv, AccountsOK, fee
  <2> QED BY <2>3, <2>4 DEF VInv, AccountsOK
<1>3. shares' \in [Holders -> Nat] /\ supply' = Total(shares', Holders)
  <2>1. shares[h] \in Nat /\ supply \in Nat
    BY Totals
  <2>2. shares[h] + (0 - n) \in Nat /\ shares[h] + (0 - n) = shares[h] - n /\ supply' = supply + (0 - n)
    BY <2>1
  <2>3. shares' = [shares EXCEPT ![h] = @ + (0 - n)]
    BY <2>2
  <2>4. shares \in [Holders -> Nat] /\ supply = Total(shares, Holders) /\ 0 - n \in Int
    BY DEF VInv, AccountsOK
  <2> QED BY ONLY h \in Holders, <2>2, <2>3, <2>4, SharesMove
<1>4. CASE idle < a /\ Active
  <2>1. PICK r \in Withdrawn(book[strategy], a - idle) :
           /\ idle + r.out >= a
           /\ idle' = idle + r.out - a
           /\ book' = [book EXCEPT ![strategy] = r.book]
    BY <1>4
  <2>2. strategy \in Strategies /\ BookOK(book[strategy], kind[strategy]) /\ idle \in Nat /\ a - idle \in Nat
    BY <1>4 DEF VInv, StrategyOK, Active, BooksOK, AccountsOK
  <2>3. r.out \in Nat /\ BookOK(r.book, kind[strategy])
    BY <2>1, <2>2, WithdrawnOK
  <2>4. BooksOK'
    BY <2>1, <2>2, <2>3, BookWritten DEF VInv
  <2>5. StrategyOK'
    BY <2>1, <2>2 DEF VInv, StrategyOK, BooksOK
  <2>6. idle' \in Nat
    BY <2>1, <2>2, <2>3
  <2> QED BY <1>1, <1>2, <1>3, <2>4, <2>5, <2>6 DEF VInv, AccountsOK
<1>5. CASE ~(idle < a /\ Active)
  <2>1. idle' \in Nat
    BY <1>5 DEF VInv, AccountsOK
  <2>2. BooksOK' /\ StrategyOK'
    BY <1>5 DEF VInv, BooksOK, BookOK, StrategyOK
  <2> QED BY <1>1, <1>2, <1>3, <2>1, <2>2 DEF VInv, AccountsOK
<1> QED BY <1>4, <1>5

(* The conversions give natural numbers, rounded against the caller.        *)
LEMMA Conversions ==
    ASSUME VInv, NEW a \in Nat
    PROVE  /\ SharesFor(a) \in Nat /\ SharesFor(a) * (TotalAssets + 1) <= a * (supply + 1)
           /\ SharesToBurn(a) \in Nat /\ a * (supply + 1) <= SharesToBurn(a) * (TotalAssets + 1)
           /\ AssetsFor(a) \in Nat /\ AssetsFor(a) * (supply + 1) <= a * (TotalAssets + 1)
           /\ AssetsToPay(a) \in Nat /\ a * (TotalAssets + 1) <= AssetsToPay(a) * (supply + 1)
<1> DEFINE p == a * (supply + 1)
           q == a * (TotalAssets + 1)
<1>1. TotalAssets \in Nat /\ supply \in Nat
  BY Totals
<1>2. p \in Nat /\ q \in Nat
  BY <1>1
<1>3. /\ SharesFor(a) = p \div (TotalAssets + 1)
      /\ SharesToBurn(a) = (p + TotalAssets) \div (TotalAssets + 1)
      /\ AssetsFor(a) = q \div (supply + 1)
      /\ AssetsToPay(a) = (q + supply) \div (supply + 1)
  BY DEF SharesFor, SharesToBurn, AssetsFor, AssetsToPay
<1> HIDE DEF p, q
<1>4. /\ SharesFor(a) \in Nat /\ SharesFor(a) * (TotalAssets + 1) <= p
      /\ SharesToBurn(a) \in Nat /\ p <= SharesToBurn(a) * (TotalAssets + 1)
  BY <1>1, <1>2, <1>3, RoundedDown, RoundedUp
<1>5. /\ AssetsFor(a) \in Nat /\ AssetsFor(a) * (supply + 1) <= q
      /\ AssetsToPay(a) \in Nat /\ q <= AssetsToPay(a) * (supply + 1)
  BY <1>1, <1>2, <1>3, RoundedDown, RoundedUp
<1> QED BY <1>4, <1>5 DEF p, q

(* What a harvest may cost stays within the rise.                           *)
LEMMA PerformanceFeeOK ==
    ASSUME VInv, NEW rise \in Int
    PROVE  /\ PerformanceFee(rise) \in Nat
           /\ PerformanceFee(rise) # 0 => PerformanceFee(rise) <= rise
           /\ rise >= 0 => /\ PerformanceFee(rise) <= rise
                           /\ PerformanceFee(rise) * 10000 <= rise * 2000
<1>1. conf.perf \in Nat /\ conf.perf <= 2000
  <2>1. conf.perf \in 0..MAX_PERFORMANCE_FEE_BPS
    BY DEF VInv, ConfOK
  <2> DEFINE p == conf.perf
  <2>2. p \in 0..2000
    BY <2>1 DEF MAX_PERFORMANCE_FEE_BPS
  <2> HIDE DEF p
  <2>3. p \in Nat /\ p <= 2000
    BY <2>2
  <2> QED BY <2>3 DEF p
<1>2. CASE rise > 0
  <2>1. rise \in Nat
    BY <1>2
  <2>2. /\ (rise * conf.perf) \div 10000 \in 0..rise
        /\ ((rise * conf.perf) \div 10000) * 10000 <= rise * 2000
    BY <1>1, <2>1, ShareOf
  <2>3. PerformanceFee(rise) = (rise * conf.perf) \div 10000
    BY <1>2 DEF PerformanceFee, BPS_DENOMINATOR
  <2> HIDE DEF VInv
  <2> QED BY <2>1, <2>2, <2>3
<1>3. CASE ~(rise > 0)
  <2>1. PerformanceFee(rise) = 0
    BY <1>3 DEF PerformanceFee
  <2> QED BY <1>3, <2>1
<1> QED BY <1>2, <1>3

(* A harvest keeps it, fee included.                                        *)
LEMMA HarvestOK ==
    ASSUME VInv, Harvest
    PROVE  VInv'
<1> USE DEF Harvest, deployed, market
<1>1. strategy \in Strategies /\ BookOK(book[strategy], kind[strategy]) /\ BooksOK
  BY DEF VInv, StrategyOK, Active, BooksOK
<1>2. PICK b \in Harvested(strategy) :
        LET fee == PerformanceFee(Balance(b) - Balance(book[strategy])) IN
        IF fee = 0 THEN book' = [book EXCEPT ![strategy] = b] /\ UNCHANGED <<idle, harvestFees>>
        ELSE \E r \in Withdrawn(b, fee) :
                /\ idle + r.out >= fee
                /\ idle' = idle + r.out - fee
                /\ book' = [book EXCEPT ![strategy] = r.book]
                /\ harvestFees' = harvestFees + fee
  OBVIOUS
<1> DEFINE fee == PerformanceFee(Balance(b) - Balance(book[strategy]))
<1>3. BookOK(b, kind[strategy])
  BY <1>1, <1>2, HarvestedOK
<1>4. fee \in Nat
  <2>1. Balance(b) - Balance(book[strategy]) \in Int
    BY <1>1, <1>3 DEF BookOK, Books, Balance
  <2> QED BY <2>1, PerformanceFeeOK
<1>5. CASE fee = 0
  <2>1. book' = [book EXCEPT ![strategy] = b] /\ UNCHANGED <<idle, harvestFees>>
    BY <1>2, <1>5
  <2>2. BooksOK'
    BY <1>1, <1>3, <2>1, BookWritten
  <2> QED BY <1>1, <2>1, <2>2 DEF VInv, AccountsOK, ConfOK, StrategyOK, BooksOK
<1>6. CASE fee # 0
  <2>1. PICK r \in Withdrawn(b, fee) :
                /\ idle + r.out >= fee
                /\ idle' = idle + r.out - fee
                /\ book' = [book EXCEPT ![strategy] = r.book]
                /\ harvestFees' = harvestFees + fee
    BY <1>2, <1>6
  <2> HIDE DEF fee
  <2>2. r.out \in Nat /\ BookOK(r.book, kind[strategy])
    BY <1>3, <1>4, <2>1, WithdrawnOK
  <2>3. BooksOK'
    BY <1>1, <2>1, <2>2, BookWritten
  <2>4. idle' \in Nat /\ harvestFees' \in Nat
    BY <1>4, <2>1, <2>2 DEF VInv, AccountsOK, ConfOK
  <2> QED BY <1>1, <2>1, <2>3, <2>4 DEF VInv, AccountsOK, ConfOK, StrategyOK, BooksOK
<1> QED BY <1>5, <1>6

(* So does a harvest of the strategy by anyone,                             *)
LEMMA HarvestStrategyOK ==
    ASSUME VInv, NEW s \in Strategies, HarvestStrategy(s)
    PROVE  VInv'
<1> USE DEF HarvestStrategy, deployed, market
<1>1. PICK b \in Harvested(s) : book' = [book EXCEPT ![s] = b]
  OBVIOUS
<1>2. BookOK(b, kind[s]) /\ b.position = book[s].position
  BY <1>1, HarvestedOK DEF VInv
<1>3. BooksOK'
  BY <1>1, <1>2, BookWritten DEF VInv
<1> QED BY <1>1, <1>2, <1>3 DEF VInv, AccountsOK, ConfOK, StrategyOK, BooksOK

(* setting a strategy, as it is done only when there is none,               *)
LEMMA SetStrategyOK ==
    ASSUME VInv, NEW s \in Strategies \cup {NoStrategy}, SetStrategy(s)
    PROVE  VInv'
<1> USE DEF SetStrategy, deployed, market
<1>1. calls' \in 0..MaxCalls
  BY CalledOK DEF VInv
<1>2. \A t \in Strategies : book[t].position = 0
  BY VaultAssumption DEF VInv, StrategyOK
<1> QED BY <1>1, <1>2 DEF VInv, AccountsOK, ConfOK, StrategyOK, BooksOK, BookOK

(* replacing one, as what is replaced is unwound,                           *)
LEMMA RetireOK ==
    ASSUME VInv, NEW s \in Strategies \cup {NoStrategy}, RetireStrategyAndSetNew(s)
    PROVE  VInv'
<1> USE DEF RetireStrategyAndSetNew, deployed, market
<1>1. strategy \in Strategies /\ BooksOK /\ idle \in Nat
  BY DEF VInv, StrategyOK, Active, AccountsOK
<1>2. calls' \in 0..MaxCalls
  BY CalledOK DEF VInv
<1>3. PICK r \in Retired(strategy) :
          LET left == [book EXCEPT ![strategy] = r.book]
              all == idle + r.out
          IN IF s = NoStrategy \/ all = 0
             THEN idle' = all /\ book' = left /\ UNCHANGED unplaced
             ELSE /\ idle' = 0
                  /\ IF kind[s] = "lp"
                     THEN \E b \in Provided(left[s], all) :
                             /\ b.position > left[s].position
                             /\ book' = [left EXCEPT ![s] = b]
                             /\ unplaced' = unplaced + b.paired - left[s].paired
                     ELSE book' = [left EXCEPT ![s].held = @ + all] /\ UNCHANGED unplaced
  OBVIOUS
<1>4. r.out \in Nat /\ BookOK(r.book, kind[strategy]) /\ r.book.position = 0
  BY <1>1, <1>3, RetiredOK
<1> DEFINE left == [book EXCEPT ![strategy] = r.book]
           all == idle + r.out
<1>5. /\ left \in [Strategies -> Books] /\ all \in Nat
      /\ \A t \in Strategies : BookOK(left[t], kind[t]) /\ left[t].position = 0
  BY <1>1, <1>4 DEF VInv, StrategyOK, BooksOK, BookOK
<1>6. idle' \in Nat /\ BooksOK' /\ unplaced' \in Nat /\ \A t \in Strategies : t # s => book'[t].position = 0
  <2>0. unplaced \in Nat
    BY DEF VInv, ConfOK
  <2>1. CASE s = NoStrategy \/ all = 0
    <3>1. idle' = all /\ book' = left /\ kind' = kind /\ unplaced' = unplaced
      BY <1>3, <2>1
    <3> HIDE DEF left, all
    <3> QED BY <1>1, <1>5, <2>0, <3>1 DEF BooksOK
  <2>2. CASE ~(s = NoStrategy \/ all = 0) /\ kind[s] = "lp"
    <3>1. PICK b \in Provided(left[s], all) :
            /\ b.position > left[s].position
            /\ book' = [left EXCEPT ![s] = b]
            /\ unplaced' = unplaced + b.paired - left[s].paired
      BY <1>3, <2>2
    <3>2. idle' = 0 /\ kind' = kind /\ s \in Strategies
      BY <1>3, <2>2
    <3> HIDE DEF left, all
    <3>3. b \in Books /\ b.minted /\ left[s].paired <= b.paired
      BY <1>5, <3>1, <3>2, ProvidedOK
    <3>4. BookOK(b, kind[s])
      BY <1>5, <2>2, <3>1, <3>2, <3>3 DEF BookOK, Books
    <3>5. unplaced' \in Nat
      BY <1>5, <2>0, <3>1, <3>2, <3>3 DEF Books
    <3> QED BY <1>1, <1>5, <3>1, <3>2, <3>4, <3>5 DEF BooksOK, BookOK
  <2>3. CASE ~(s = NoStrategy \/ all = 0) /\ kind[s] # "lp"
    <3>1. /\ idle' = 0 /\ kind' = kind /\ s \in Strategies /\ unplaced' = unplaced
          /\ book' = [left EXCEPT ![s].held = @ + all]
      BY <1>3, <2>3
    <3> HIDE DEF left, all
    <3> DEFINE b == [left[s] EXCEPT !.held = @ + all]
    <3>2. book' = [left EXCEPT ![s] = b]
      BY <1>5, <3>1
    <3>3. BookOK(b, kind[s])
      BY <1>5, <3>1 DEF BookOK, Books
    <3> HIDE DEF b
    <3> QED BY <1>1, <1>5, <2>0, <3>1, <3>2, <3>3 DEF BooksOK, BookOK
  <2> QED BY <2>1, <2>2, <2>3
<1>7. StrategyOK'
  BY <1>6 DEF StrategyOK
<1> HIDE DEF left, all
<1> QED BY <1>2, <1>6, <1>7 DEF VInv, AccountsOK, ConfOK

(* emptying one,                                                            *)
LEMMA EmergencyOK ==
    ASSUME VInv, EmergencyWithdrawFromStrategy
    PROVE  VInv'
<1> USE DEF EmergencyWithdrawFromStrategy, deployed, market
<1>1. strategy \in Strategies /\ BooksOK
  BY DEF VInv, StrategyOK
<1>2. calls' \in 0..MaxCalls
  BY CalledOK DEF VInv
<1>3. PICK r \in EmergencyWithdrawn(strategy) :
        idle' = idle + r.out /\ book' = [book EXCEPT ![strategy] = r.book]
  OBVIOUS
<1>4. r.out \in Nat /\ BookOK(r.book, kind[strategy])
  BY <1>1, <1>3, EmergencyWithdrawnOK
<1>5. BooksOK'
  BY <1>1, <1>3, <1>4, BookWritten
<1> QED BY <1>1, <1>2, <1>3, <1>4, <1>5 DEF VInv, AccountsOK, ConfOK, StrategyOK, BooksOK

(* new fees, a new cap or a pause,                                          *)
LEMMA ConfigureOK ==
    ASSUME VInv, Configure
    PROVE  VInv'
<1> USE DEF Configure, deployed, market
<1>1. conf' \in [cap : Nat, perf : 0..MAX_PERFORMANCE_FEE_BPS,
                 exit : 0..MAX_WITHDRAWAL_FEE_BPS, paused : BOOLEAN]
  <2>1. conf \in [cap : Nat, perf : 0..MAX_PERFORMANCE_FEE_BPS,
                  exit : 0..MAX_WITHDRAWAL_FEE_BPS, paused : BOOLEAN]
    BY DEF VInv, ConfOK
  <2>2. ASSUME NEW c \in Caps, conf' = [conf EXCEPT !.cap = c]
        PROVE  conf' \in [cap : Nat, perf : 0..MAX_PERFORMANCE_FEE_BPS,
                          exit : 0..MAX_WITHDRAWAL_FEE_BPS, paused : BOOLEAN]
    BY <2>1, <2>2, VaultAssumption
  <2>3. ASSUME NEW f \in PerfFees, f <= MAX_PERFORMANCE_FEE_BPS, conf' = [conf EXCEPT !.perf = f]
        PROVE  conf' \in [cap : Nat, perf : 0..MAX_PERFORMANCE_FEE_BPS,
                          exit : 0..MAX_WITHDRAWAL_FEE_BPS, paused : BOOLEAN]
    <3>1. f \in 0..MAX_PERFORMANCE_FEE_BPS
      BY <2>3, VaultAssumption DEF MAX_PERFORMANCE_FEE_BPS
    <3> QED BY <2>1, <2>3, <3>1
  <2>4. ASSUME NEW f \in ExitFees, f <= MAX_WITHDRAWAL_FEE_BPS, conf' = [conf EXCEPT !.exit = f]
        PROVE  conf' \in [cap : Nat, perf : 0..MAX_PERFORMANCE_FEE_BPS,
                          exit : 0..MAX_WITHDRAWAL_FEE_BPS, paused : BOOLEAN]
    BY <2>1, <2>4, VaultAssumption DEF MAX_WITHDRAWAL_FEE_BPS
  <2>5. CASE conf' = [conf EXCEPT !.paused = ~@]
    BY <2>1, <2>5
  <2> QED BY <2>2, <2>3, <2>4, <2>5
<1> QED BY <1>1 DEF VInv, AccountsOK, ConfOK, StrategyOK, BooksOK, BookOK

(* a transfer of assets to the vault,                                       *)
LEMMA DonateOK ==
    ASSUME VInv, NEW h \in Holders, NEW a \in Amounts, Donate(h, a)
    PROVE  VInv'
<1> USE DEF Donate, deployed, market
<1>1. calls' \in 0..MaxCalls
  BY CalledOK DEF VInv
<1>2. a \in Nat
  BY VaultAssumption
<1> QED BY <1>1, <1>2 DEF VInv, AccountsOK, ConfOK, StrategyOK, BooksOK, BookOK

(* and a move of the market.                                                *)
LEMMA MarketMovesOK ==
    ASSUME VInv, NEW s \in Strategies, MarketMoves(s)
    PROVE  VInv'
<1> USE DEF MarketMoves, deployed
<1>1. moved' \in 0..MaxMarket /\ Yield \in Nat /\ Yield # 0
  BY VaultAssumption DEF VInv, ConfOK
<1>2. BookOK(book[s], kind[s]) /\ BooksOK /\ gained \in Nat
  BY DEF VInv, BooksOK, ConfOK
<1>3. \E b : /\ book' = [book EXCEPT ![s] = b] /\ BookOK(b, kind[s])
             /\ (b.position = 0) <=> (book[s].position = 0)
  <2>1. CASE book' = [book EXCEPT ![s].fees = @ + Yield]
    <3> DEFINE b == [book[s] EXCEPT !.fees = @ + Yield]
    <3>1. book' = [book EXCEPT ![s] = b]
      BY <1>2, <2>1 DEF BooksOK
    <3>2. BookOK(b, kind[s]) /\ b.position = book[s].position
      BY <1>1, <1>2 DEF BookOK, Books
    <3> HIDE DEF b
    <3> QED BY <3>1, <3>2
  <2>2. CASE book[s].position > 0 /\ book' = [book EXCEPT ![s].position = @ + Yield]
    <3> DEFINE b == [book[s] EXCEPT !.position = @ + Yield]
    <3>1. book' = [book EXCEPT ![s] = b]
      BY <1>2, <2>2 DEF BooksOK
    <3>2. BookOK(b, kind[s]) /\ b.position > 0
      BY <1>1, <1>2, <2>2 DEF BookOK, Books
    <3>3. (b.position = 0) <=> (book[s].position = 0)
      BY <2>2, <3>2, <1>2 DEF BookOK, Books
    <3> HIDE DEF b
    <3> QED BY <3>1, <3>2, <3>3
  <2>3. CASE book[s].position > Yield /\ book' = [book EXCEPT ![s].position = @ - Yield]
    <3> DEFINE b == [book[s] EXCEPT !.position = @ - Yield]
    <3>1. book' = [book EXCEPT ![s] = b]
      BY <1>2, <2>3 DEF BooksOK
    <3>2. BookOK(b, kind[s]) /\ b.position > 0 /\ book[s].position > 0
      BY <1>1, <1>2, <2>3 DEF BookOK, Books
    <3>3. (b.position = 0) <=> (book[s].position = 0)
      BY <3>2, <1>2 DEF BookOK, Books
    <3> HIDE DEF b
    <3> QED BY <3>1, <3>2, <3>3
  <2> QED BY <2>1, <2>2, <2>3
<1>4. PICK b : /\ book' = [book EXCEPT ![s] = b] /\ BookOK(b, kind[s])
               /\ (b.position = 0) <=> (book[s].position = 0)
  BY <1>3
<1>5. BooksOK'
  BY <1>2, <1>4, BookWritten
<1>6. StrategyOK'
  BY <1>2, <1>4 DEF VInv, StrategyOK, BooksOK
<1>7. gained' \in Nat
  BY <1>1, <1>2
<1> QED BY <1>1, <1>5, <1>6, <1>7 DEF VInv, AccountsOK, ConfOK

(* The vault's inductive invariant always holds.                            *)
LEMMA Invariance == Spec => []VInv
<1>1. VInv /\ [Next]_vars => VInv'
  <2> SUFFICES ASSUME VInv, [Next]_vars PROVE VInv'
    OBVIOUS
  <2>1. ASSUME NEW h \in Holders, NEW a \in Amounts, Deposit(h, a) PROVE VInv'
    BY <2>1, Conversions, TakeInOK, VaultAssumption DEF Deposit
  <2>2. ASSUME NEW h \in Holders, NEW a \in Amounts, Mint(h, a) PROVE VInv'
    BY <2>2, Conversions, TakeInOK, VaultAssumption DEF Mint
  <2>3. ASSUME NEW c \in Holders, NEW h \in Holders, NEW a \in Amounts, Withdraw(c, h, a) PROVE VInv'
    BY <2>3, Conversions, PayOutOK, VaultAssumption DEF Withdraw
  <2>4. ASSUME NEW c \in Holders, NEW h \in Holders, NEW a \in Amounts, Redeem(c, h, a) PROVE VInv'
    BY <2>4, Conversions, PayOutOK, VaultAssumption DEF Redeem
  <2>5. CASE UNCHANGED vars
    BY <2>5 DEF vars, deployed, market, VInv, AccountsOK, ConfOK, StrategyOK, BooksOK, BookOK
  <2> QED BY <2>1, <2>2, <2>3, <2>4, <2>5, DonateOK, HarvestOK, HarvestStrategyOK, MarketMovesOK,
             SetStrategyOK, RetireOK, EmergencyOK, ConfigureOK DEF Next
<1> QED BY <1>1, InitOK, PTL DEF Spec

(* Balances are natural numbers, fees stay within their caps, and no        *)
(* liquidity is held under a forgotten token id, whatever is called.        *)
THEOREM TypesHold == Spec => []VaultTypeOK
<1>1. VInv => VaultTypeOK
  <2> SUFFICES ASSUME VInv PROVE VaultTypeOK
    OBVIOUS
  <2>1. supply \in Nat
    BY Totals
  <2> QED BY <2>1 DEF VInv, VaultTypeOK, AccountsOK, ConfOK, StrategyOK, BooksOK, BookOK
<1> QED BY <1>1, Invariance, PTL

(* Whatever strategies are set, replaced and emptied, only the one the      *)
(* vault counts and can still call holds a position or the other token.     *)
THEOREM LiquidityStaysInReach == Spec => []LiquidityInReach
<1>1. VInv => LiquidityInReach
  BY VaultAssumption DEF VInv, StrategyOK, BooksOK, BookOK, LiquidityInReach, Active
<1> QED BY <1>1, Invariance, PTL

-----------------------------------------------------------------------------
(* Performance fees.                                                        *)

(* What the next harvests may still count as a rise, over all strategies.   *)
Uncollected(bk) == [s \in Strategies |-> Owed(bk[s])]
Pending(bk) == Total(Uncollected(bk), Strategies)

FeesOK == harvestFees * 10000 <= (gained + unplaced - Pending(book)) * 2000

(* When what one strategy is owed moves, so does the sum.                   *)
LEMMA PendingMoves ==
    ASSUME BooksOK, BooksOK', NEW s \in Strategies,
           \A t \in Strategies \ {s} : Owed(book'[t]) = Owed(book[t])
    PROVE  Pending(book') = Pending(book) + Owed(book'[s]) - Owed(book[s])
<1>1. /\ \A t \in Strategies : Uncollected(book)[t] \in Int /\ Uncollected(book')[t] \in Int
      /\ \A t \in Strategies \ {s} : Uncollected(book)[t] = Uncollected(book')[t]
      /\ Uncollected(book)[s] = Owed(book[s]) /\ Uncollected(book')[s] = Owed(book'[s])
  BY DEF Uncollected, BooksOK, Books, Owed
<1>2. IsFiniteSet(Strategies)
  BY VaultAssumption
<1>3. Total(Uncollected(book'), Strategies)
        = Total(Uncollected(book), Strategies) + Uncollected(book')[s] - Uncollected(book)[s]
  BY ONLY <1>1, <1>2, s \in Strategies, TotalChange
<1> QED BY <1>1, <1>3 DEF Pending

(* One book is written with b.                                              *)
LEMMA PendingWritten ==
    ASSUME BooksOK, BooksOK', NEW s \in Strategies, NEW b, book' = [book EXCEPT ![s] = b]
    PROVE  /\ Pending(book') = Pending(book) + Owed(b) - Owed(book[s])
           /\ Owed(b) \in Nat /\ Owed(book[s]) \in Nat
<1>1. book'[s] = b /\ \A t \in Strategies \ {s} : Owed(book'[t]) = Owed(book[t])
  BY DEF BooksOK
<1>2. Pending(book') = Pending(book) + Owed(book'[s]) - Owed(book[s])
  BY <1>1, PendingMoves
<1> QED BY <1>1, <1>2 DEF BooksOK, Books, Owed

(* The sum is a natural number.                                             *)
LEMMA PendingNat ==
    /\ BooksOK => Pending(book) \in Nat
    /\ BooksOK' => Pending(book') \in Nat
<1>1. ASSUME BooksOK PROVE Pending(book) \in Nat
  <2>1. \A t \in Strategies : Uncollected(book)[t] \in Nat
    BY <1>1 DEF Uncollected, BooksOK, Books, Owed
  <2> QED BY <2>1, TotalNat, VaultAssumption DEF Pending
<1>2. ASSUME BooksOK' PROVE Pending(book') \in Nat
  <2>1. \A t \in Strategies : Uncollected(book')[t] \in Nat
    BY <1>2 DEF Uncollected, BooksOK, Books, Owed
  <2> QED BY <2>1, TotalNat, VaultAssumption DEF Pending
<1> QED BY <1>1, <1>2

(* What may still count as a rise grows by no more than what was earned or  *)
(* left over by a purchase.                                                 *)
Accounted == Pending(book') - Pending(book) <= (gained' - gained) + (unplaced' - unplaced)

(* Then, when no fee is charged, fees stay within.                          *)
LEMMA AccountedSuffices ==
    ASSUME VInv, VInv', FeesOK, Accounted, harvestFees' = harvestFees
    PROVE  FeesOK'
<1>1. /\ Pending(book) \in Nat /\ Pending(book') \in Nat
      /\ gained \in Nat /\ gained' \in Nat /\ unplaced \in Nat /\ unplaced' \in Nat
      /\ harvestFees \in Nat
  BY PendingNat DEF VInv, ConfOK
<1>2. gained + unplaced - Pending(book) <= gained' + unplaced' - Pending(book')
  BY <1>1 DEF Accounted
<1>3. \A x, y \in Int : x <= y => x * 2000 <= y * 2000
  OBVIOUS
<1>4. (gained + unplaced - Pending(book)) * 2000 <= (gained' + unplaced' - Pending(book')) * 2000
  BY <1>1, <1>2, <1>3
<1>5. harvestFees * 10000 <= (gained + unplaced - Pending(book)) * 2000
  BY DEF FeesOK
<1>6. harvestFees' * 10000 <= (gained' + unplaced' - Pending(book')) * 2000
  BY <1>1, <1>4, <1>5
<1> QED BY <1>6 DEF FeesOK

(* Deposits and mints: what a purchase leaves over is counted,              *)
LEMMA TakeInFees ==
    ASSUME VInv, VInv', NEW h \in Holders, NEW a \in Nat, NEW n \in Nat, TakeIn(h, a, n)
    PROVE  Accounted /\ harvestFees' = harvestFees
<1>1. /\ BooksOK /\ BooksOK' /\ gained' = gained /\ gained \in Nat /\ unplaced \in Nat
      /\ unplaced' \in Nat /\ harvestFees' = harvestFees
      /\ Pending(book) \in Nat /\ Pending(book') \in Nat
  BY PendingNat DEF VInv, ConfOK, TakeIn, market
<1>2. CASE Active /\ a > 0
  <2>1. PICK b \in Deposited(strategy, a) :
          /\ book' = [book EXCEPT ![strategy] = b]
          /\ unplaced' = unplaced + b.paired - book[strategy].paired
    BY <1>2 DEF TakeIn
  <2>2. strategy \in Strategies
    BY <1>2 DEF VInv, StrategyOK, Active
  <2>3. BookOK(b, kind[strategy]) /\ b.fees = book[strategy].fees /\ BookOK(book[strategy], kind[strategy])
    BY <1>1, <2>1, <2>2, DepositedOK DEF BooksOK
  <2>4. Pending(book') = Pending(book) + Owed(b) - Owed(book[strategy])
    BY <1>1, <2>1, <2>2, PendingWritten
  <2>5. Owed(b) - Owed(book[strategy]) = b.paired - book[strategy].paired
        /\ b.paired \in Nat /\ book[strategy].paired \in Nat
    BY <2>3 DEF Owed, BookOK, Books
  <2>6. Owed(b) \in Nat /\ Owed(book[strategy]) \in Nat
    BY <2>3 DEF Owed, BookOK, Books
  <2> QED BY <1>1, <2>1, <2>4, <2>5, <2>6 DEF Accounted
<1>3. CASE ~(Active /\ a > 0)
  <2>1. book' = book /\ unplaced' = unplaced
    BY <1>3 DEF TakeIn
  <2> QED BY <1>1, <2>1 DEF Accounted
<1> QED BY <1>2, <1>3

(* withdrawals and redemptions: an unwound position leaves nothing owed,    *)
LEMMA PayOutFees ==
    ASSUME VInv, VInv', NEW c \in Holders, NEW h \in Holders, NEW a \in Nat, NEW n \in Nat,
           PayOut(c, h, a, n)
    PROVE  Accounted /\ harvestFees' = harvestFees
<1>1. /\ BooksOK /\ BooksOK' /\ gained' = gained /\ unplaced' = unplaced
      /\ gained \in Nat /\ unplaced \in Nat /\ harvestFees' = harvestFees
      /\ Pending(book) \in Nat
  BY PendingNat DEF VInv, ConfOK, PayOut, market
<1>2. CASE idle < a /\ Active
  <2>1. PICK r \in Withdrawn(book[strategy], a - idle) : book' = [book EXCEPT ![strategy] = r.book]
    BY <1>2 DEF PayOut
  <2>2. strategy \in Strategies /\ a - idle \in Nat /\ BookOK(book[strategy], kind[strategy])
    BY <1>1, <1>2 DEF VInv, StrategyOK, AccountsOK, BooksOK, Active
  <2>3. Owed(r.book) <= Owed(book[strategy])
    BY <2>1, <2>2, WithdrawnOK
  <2>4. /\ Pending(book') = Pending(book) + Owed(r.book) - Owed(book[strategy])
        /\ Owed(r.book) \in Nat /\ Owed(book[strategy]) \in Nat
    BY <1>1, <2>1, <2>2, PendingWritten
  <2> QED BY <1>1, <2>3, <2>4 DEF Accounted
<1>3. CASE ~(idle < a /\ Active)
  <2>1. book' = book
    BY <1>3 DEF PayOut
  <2> QED BY <1>1, <2>1 DEF Accounted
<1> QED BY <1>2, <1>3

(* the replacement of a strategy: the old one unwinds, the new one buys,    *)
LEMMA RetireFees ==
    ASSUME VInv, VInv', NEW s \in Strategies \cup {NoStrategy}, RetireStrategyAndSetNew(s)
    PROVE  Accounted /\ harvestFees' = harvestFees
<1>1. /\ strategy \in Strategies /\ BooksOK /\ BooksOK' /\ idle \in Nat
      /\ gained' = gained /\ gained \in Nat /\ unplaced \in Nat /\ unplaced' \in Nat
      /\ harvestFees' = harvestFees /\ Pending(book) \in Nat /\ Pending(book') \in Nat
  BY PendingNat DEF RetireStrategyAndSetNew, Active, VInv, StrategyOK, AccountsOK, ConfOK, market
<1>2. PICK r \in Retired(strategy) :
          LET left == [book EXCEPT ![strategy] = r.book]
              all == idle + r.out
          IN IF s = NoStrategy \/ all = 0
             THEN idle' = all /\ book' = left /\ UNCHANGED unplaced
             ELSE /\ idle' = 0
                  /\ IF kind[s] = "lp"
                     THEN \E b \in Provided(left[s], all) :
                             /\ b.position > left[s].position
                             /\ book' = [left EXCEPT ![s] = b]
                             /\ unplaced' = unplaced + b.paired - left[s].paired
                     ELSE book' = [left EXCEPT ![s].held = @ + all] /\ UNCHANGED unplaced
  BY DEF RetireStrategyAndSetNew
<1>3. r.out \in Nat /\ BookOK(r.book, kind[strategy]) /\ Owed(r.book) <= Owed(book[strategy])
  BY <1>1, <1>2, RetiredOK
<1> DEFINE left == [book EXCEPT ![strategy] = r.book]
           all == idle + r.out
<1>4. /\ left \in [Strategies -> Books] /\ all \in Nat
      /\ left[strategy] = r.book /\ \A t \in Strategies \ {strategy} : left[t] = book[t]
      /\ \A t \in Strategies : Owed(left[t]) \in Nat /\ Owed(left[t]) <= Owed(book[t])
  <2>1. left \in [Strategies -> Books] /\ all \in Nat
        /\ left[strategy] = r.book /\ \A t \in Strategies \ {strategy} : left[t] = book[t]
    BY <1>1, <1>3 DEF BooksOK, BookOK
  <2> HIDE DEF left
  <2>2. \A t \in Strategies : Owed(left[t]) \in Nat /\ Owed(book[t]) \in Nat
    BY <1>1, <2>1 DEF BooksOK, Books, Owed
  <2>3. \A t \in Strategies : Owed(left[t]) <= Owed(book[t])
    BY <1>3, <2>1, <2>2
  <2> QED BY <2>1, <2>2, <2>3
<1>5. CASE book' = left /\ unplaced' = unplaced
  <2> HIDE DEF left
  <2>1. \A t \in Strategies \ {strategy} : Owed(book'[t]) = Owed(book[t])
    BY <1>4, <1>5
  <2>2. Pending(book') = Pending(book) + Owed(book'[strategy]) - Owed(book[strategy])
    BY <1>1, <2>1, PendingMoves
  <2>3. Owed(book'[strategy]) <= Owed(book[strategy]) /\ Owed(book'[strategy]) \in Nat
        /\ Owed(book[strategy]) \in Nat
    BY <1>1, <1>4, <1>5 DEF BooksOK, Books, Owed
  <2> QED BY <1>1, <1>5, <2>2, <2>3 DEF Accounted
<1>6. ASSUME NEW b \in Books, s \in Strategies, b.fees = left[s].fees,
             book' = [left EXCEPT ![s] = b], unplaced' = unplaced + b.paired - left[s].paired
      PROVE  Accounted
  <2> HIDE DEF left
  <2>1. book'[s] = b /\ \A t \in Strategies \ {s} : book'[t] = left[t]
    BY <1>4, <1>6
  <2>2. Owed(b) - Owed(left[s]) = unplaced' - unplaced /\ Owed(b) \in Nat
    BY <1>1, <1>4, <1>6 DEF Owed, Books
  <2>3. CASE s = strategy
    <3>1. \A t \in Strategies \ {strategy} : Owed(book'[t]) = Owed(book[t])
      BY <1>4, <2>1, <2>3
    <3>2. Pending(book') = Pending(book) + Owed(b) - Owed(book[s])
      BY <1>1, <2>1, <2>3, <3>1, PendingMoves
    <3>3. Owed(left[s]) <= Owed(book[s]) /\ Owed(left[s]) \in Nat /\ Owed(book[s]) \in Nat
      BY <1>1, <1>4, <1>6 DEF BooksOK, Books, Owed
    <3> QED BY <1>1, <2>2, <3>2, <3>3 DEF Accounted
  <2>4. CASE s # strategy
    <3>1. /\ \A t \in Strategies : Uncollected(left)[t] \in Int /\ Uncollected(book')[t] \in Int
                                   /\ Uncollected(book)[t] \in Int
          /\ \A t \in Strategies \ {s} : Uncollected(left)[t] = Uncollected(book')[t]
          /\ \A t \in Strategies \ {strategy} : Uncollected(book)[t] = Uncollected(left)[t]
          /\ Uncollected(left)[s] = Owed(left[s]) /\ Uncollected(book')[s] = Owed(b)
          /\ Uncollected(book)[strategy] = Owed(book[strategy])
          /\ Uncollected(left)[strategy] = Owed(left[strategy])
      BY <1>1, <1>4, <1>6, <2>1 DEF Uncollected, BooksOK, Books, Owed
    <3>2. IsFiniteSet(Strategies) /\ s \in Strategies /\ strategy \in Strategies
      BY <1>1, <1>6, VaultAssumption
    <3>3. Total(Uncollected(book'), Strategies)
            = Total(Uncollected(left), Strategies) + Uncollected(book')[s] - Uncollected(left)[s]
      BY ONLY <3>1, <3>2, TotalChange
    <3>4. Total(Uncollected(left), Strategies)
            = Total(Uncollected(book), Strategies) + Uncollected(left)[strategy] - Uncollected(book)[strategy]
      BY ONLY <3>1, <3>2, TotalChange
    <3>5. Pending(book')
            = Pending(book) + Owed(left[strategy]) - Owed(book[strategy]) + Owed(b) - Owed(left[s])
      BY <1>1, <3>1, <3>3, <3>4 DEF Pending
    <3>6. /\ Owed(left[strategy]) <= Owed(book[strategy]) /\ Owed(left[strategy]) \in Nat
          /\ Owed(book[strategy]) \in Nat /\ Owed(left[s]) \in Nat
      BY <1>1, <1>4, <1>6 DEF BooksOK, Books, Owed
    <3> QED BY <1>1, <2>2, <3>5, <3>6 DEF Accounted
  <2> QED BY <2>3, <2>4
<1>7. CASE s = NoStrategy \/ all = 0
  BY <1>2, <1>5, <1>7
<1>8. CASE ~(s = NoStrategy \/ all = 0) /\ kind[s] = "lp"
  <2>1. PICK b \in Provided(left[s], all) :
          /\ book' = [left EXCEPT ![s] = b]
          /\ unplaced' = unplaced + b.paired - left[s].paired
    BY <1>2, <1>8
  <2>2. s \in Strategies
    BY <1>8
  <2>3. b \in Books /\ b.fees = left[s].fees
    <3> HIDE DEF left, all
    <3> QED BY <1>4, <2>1, <2>2, ProvidedOK
  <2> HIDE DEF left, all
  <2> QED BY <1>1, <1>6, <2>1, <2>2, <2>3
<1>9. CASE ~(s = NoStrategy \/ all = 0) /\ kind[s] # "lp"
  <2>1. s \in Strategies /\ book' = [left EXCEPT ![s].held = @ + all] /\ unplaced' = unplaced
    BY <1>2, <1>9
  <2> DEFINE b == [left[s] EXCEPT !.held = @ + all]
  <2>2. /\ b \in Books /\ b.fees = left[s].fees /\ book' = [left EXCEPT ![s] = b]
        /\ b.paired = left[s].paired /\ left[s].paired \in Nat
    <3> HIDE DEF left, all
    <3> QED BY <1>4, <2>1 DEF Books
  <2>3. unplaced' = unplaced + b.paired - left[s].paired
    <3> HIDE DEF b, left
    <3> QED BY <1>1, <2>1, <2>2
  <2> HIDE DEF b, left, all
  <2> QED BY <1>1, <1>6, <2>1, <2>2, <2>3
<1> QED BY <1>1, <1>7, <1>8, <1>9

(* emptying one,                                                            *)
LEMMA EmergencyFees ==
    ASSUME VInv, VInv', EmergencyWithdrawFromStrategy
    PROVE  Accounted /\ harvestFees' = harvestFees
<1>1. /\ strategy \in Strategies /\ BooksOK /\ BooksOK' /\ gained' = gained /\ unplaced' = unplaced
      /\ gained \in Nat /\ unplaced \in Nat /\ harvestFees' = harvestFees /\ Pending(book) \in Nat
  BY PendingNat DEF EmergencyWithdrawFromStrategy, VInv, StrategyOK, ConfOK, market
<1>2. PICK r \in EmergencyWithdrawn(strategy) : book' = [book EXCEPT ![strategy] = r.book]
  BY DEF EmergencyWithdrawFromStrategy
<1>3. Owed(r.book) <= Owed(book[strategy])
  BY <1>1, <1>2, EmergencyWithdrawnOK
<1>4. /\ Pending(book') = Pending(book) + Owed(r.book) - Owed(book[strategy])
      /\ Owed(r.book) \in Nat /\ Owed(book[strategy]) \in Nat
  BY <1>1, <1>2, PendingWritten
<1> QED BY <1>1, <1>3, <1>4 DEF Accounted

(* a harvest by anyone, which takes no fee,                                 *)
LEMMA HarvestStrategyFees ==
    ASSUME VInv, VInv', NEW s \in Strategies, HarvestStrategy(s)
    PROVE  Accounted /\ harvestFees' = harvestFees
<1>1. /\ BooksOK /\ BooksOK' /\ gained' = gained /\ unplaced' = unplaced
      /\ gained \in Nat /\ unplaced \in Nat /\ harvestFees' = harvestFees /\ Pending(book) \in Nat
  BY PendingNat DEF HarvestStrategy, VInv, ConfOK, market
<1>2. PICK b \in Harvested(s) : book' = [book EXCEPT ![s] = b]
  BY DEF HarvestStrategy
<1>3. Balance(b) + Owed(b) <= Balance(book[s]) + Owed(book[s]) /\ BookOK(b, kind[s])
  BY <1>1, <1>2, HarvestedOK
<1>4. Pending(book') = Pending(book) + Owed(b) - Owed(book[s]) /\ Owed(b) \in Nat
      /\ Owed(book[s]) \in Nat
  BY <1>1, <1>2, PendingWritten
<1>5. Owed(b) <= Owed(book[s])
  BY <1>1, <1>2, HarvestedOK
<1> QED BY <1>1, <1>4, <1>5 DEF Accounted

(* and a move of the market: what is earned is pending first.               *)
LEMMA MarketMovesFees ==
    ASSUME VInv, VInv', NEW s \in Strategies, MarketMoves(s)
    PROVE  Accounted /\ harvestFees' = harvestFees
<1>1. /\ BooksOK /\ BooksOK' /\ Yield \in Nat /\ harvestFees' = harvestFees
      /\ unplaced' = unplaced /\ gained \in Nat /\ unplaced \in Nat /\ Pending(book) \in Nat
      /\ BookOK(book[s], kind[s])
  BY VaultAssumption, PendingNat DEF MarketMoves, VInv, ConfOK, BooksOK
<1>2. CASE book' = [book EXCEPT ![s].fees = @ + Yield] /\ gained' = gained + Yield
  <2> DEFINE b == [book[s] EXCEPT !.fees = @ + Yield]
  <2>1. book' = [book EXCEPT ![s] = b] /\ Owed(b) = Owed(book[s]) + Yield
    BY <1>1, <1>2 DEF BooksOK, BookOK, Books, Owed
  <2> HIDE DEF b
  <2>2. Pending(book') = Pending(book) + Owed(b) - Owed(book[s]) /\ Owed(book[s]) \in Nat
    BY <1>1, <2>1, PendingWritten
  <2> QED BY <1>1, <1>2, <2>1, <2>2 DEF Accounted
<1>3. CASE /\ \E n : book' = [book EXCEPT ![s].position = n]
           /\ gained' = gained \/ gained' = gained + Yield
  <2>1. PICK n : book' = [book EXCEPT ![s].position = n]
    BY <1>3
  <2> DEFINE b == [book[s] EXCEPT !.position = n]
  <2>2. book' = [book EXCEPT ![s] = b] /\ Owed(b) = Owed(book[s])
    BY <1>1, <2>1 DEF BooksOK, BookOK, Books, Owed
  <2> HIDE DEF b
  <2>3. Pending(book') = Pending(book) + Owed(b) - Owed(book[s]) /\ Owed(book[s]) \in Nat
    BY <1>1, <2>2, PendingWritten
  <2> QED BY <1>1, <1>3, <2>2, <2>3 DEF Accounted
<1>4. \/ book' = [book EXCEPT ![s].fees = @ + Yield] /\ gained' = gained + Yield
      \/ book' = [book EXCEPT ![s].position = @ + Yield] /\ gained' = gained + Yield
      \/ book' = [book EXCEPT ![s].position = @ - Yield] /\ gained' = gained
  BY DEF MarketMoves
<1>5. \/ book' = [book EXCEPT ![s].fees = @ + Yield] /\ gained' = gained + Yield
      \/ book' = [book EXCEPT ![s].position = book[s].position + Yield] /\ gained' = gained + Yield
      \/ book' = [book EXCEPT ![s].position = book[s].position - Yield] /\ gained' = gained
  BY <1>1, <1>4 DEF BooksOK
<1> QED BY <1>1, <1>2, <1>3, <1>5

(* A harvest of the vault: the fee is at most 20% of what stops being       *)
(* pending.                                                                 *)
LEMMA HarvestFees ==
    ASSUME VInv, VInv', FeesOK, Harvest
    PROVE  FeesOK'
<1> USE DEF Harvest, market
<1>1. strategy \in Strategies /\ BooksOK /\ BooksOK'
  BY DEF VInv, StrategyOK, Active
<1> DEFINE a == book[strategy]
<1>2. PICK b \in Harvested(strategy) :
        LET fee == PerformanceFee(Balance(b) - Balance(a)) IN
        IF fee = 0 THEN book' = [book EXCEPT ![strategy] = b] /\ UNCHANGED <<idle, harvestFees>>
        ELSE \E r \in Withdrawn(b, fee) :
                /\ idle + r.out >= fee
                /\ idle' = idle + r.out - fee
                /\ book' = [book EXCEPT ![strategy] = r.book]
                /\ harvestFees' = harvestFees + fee
  OBVIOUS
<1> DEFINE rise == Balance(b) - Balance(a)
           fee == PerformanceFee(rise)
<1>3. /\ BookOK(a, kind[strategy]) /\ BookOK(b, kind[strategy])
      /\ Balance(b) + Owed(b) <= Balance(a) + Owed(a) /\ Owed(b) <= Owed(a)
  BY <1>1, <1>2, HarvestedOK DEF BooksOK
<1>4. Balance(a) \in Nat /\ Balance(b) \in Nat /\ Owed(a) \in Nat /\ Owed(b) \in Nat
  BY <1>3 DEF BookOK, Books, Balance, Owed
<1>5. rise \in Int /\ rise <= Owed(a) - Owed(b)
  BY <1>3, <1>4
<1>6. /\ fee \in Nat /\ fee * 10000 <= (Owed(a) - Owed(b)) * 2000
  <2> HIDE DEF rise
  <2>1. fee \in Nat /\ (fee # 0 => fee <= rise) /\ (rise >= 0 => fee * 10000 <= rise * 2000)
    BY <1>5, PerformanceFeeOK
  <2> HIDE DEF fee
  <2>2. Owed(a) - Owed(b) \in Nat
    BY <1>3, <1>4
  <2>3. CASE fee = 0
    BY <2>2, <2>3
  <2>4. CASE fee # 0
    <3>1. rise >= 0
      BY <1>5, <2>1, <2>4
    <3>2. rise * 2000 <= (Owed(a) - Owed(b)) * 2000
      BY <1>5, <2>2
    <3> QED BY <1>5, <2>1, <2>2, <3>1, <3>2
  <2> QED BY <2>1, <2>3, <2>4
<1>7. \E c : /\ book' = [book EXCEPT ![strategy] = c] /\ Owed(c) <= Owed(b)
             /\ harvestFees' = harvestFees + fee
  <2>1. CASE fee = 0
    <3>1. harvestFees \in Nat /\ harvestFees' = harvestFees /\ book' = [book EXCEPT ![strategy] = b]
      BY <1>2, <2>1 DEF VInv, ConfOK
    <3> HIDE DEF fee, rise
    <3>2. Owed(b) <= Owed(b) /\ harvestFees' = harvestFees + fee
      BY <1>4, <2>1, <3>1
    <3> QED BY <3>1, <3>2
  <2>2. CASE fee # 0
    <3>1. PICK r \in Withdrawn(b, fee) :
             book' = [book EXCEPT ![strategy] = r.book] /\ harvestFees' = harvestFees + fee
      BY <1>2, <2>2
    <3> HIDE DEF fee
    <3>2. Owed(r.book) <= Owed(b)
      BY <1>3, <1>6, <3>1, WithdrawnOK
    <3> QED BY <3>1, <3>2
  <2> QED BY <2>1, <2>2
<1>8. PICK c : /\ book' = [book EXCEPT ![strategy] = c] /\ Owed(c) <= Owed(b)
               /\ harvestFees' = harvestFees + fee
  BY <1>7
<1>9. Pending(book') = Pending(book) + Owed(c) - Owed(a) /\ Owed(c) \in Nat
  BY <1>1, <1>8, PendingWritten
<1>10. /\ Pending(book) \in Nat /\ gained \in Nat /\ harvestFees \in Nat /\ unplaced \in Nat
       /\ gained' = gained /\ unplaced' = unplaced
  BY <1>1, PendingNat DEF VInv, ConfOK
<1>11. harvestFees * 10000 <= (gained + unplaced - Pending(book)) * 2000
  BY DEF FeesOK
<1> HIDE DEF fee, rise, a
<1>12. harvestFees' * 10000 <= (gained' + unplaced' - Pending(book')) * 2000
  <2>1. harvestFees' * 10000 <= (gained + unplaced - Pending(book) + (Owed(a) - Owed(b))) * 2000
    BY <1>4, <1>6, <1>8, <1>10, <1>11
  <2>2. gained + unplaced - Pending(book) + (Owed(a) - Owed(b)) <= gained' + unplaced' - Pending(book')
    BY <1>4, <1>8, <1>9, <1>10
  <2>3. \A x, y \in Int : x <= y => x * 2000 <= y * 2000
    OBVIOUS
  <2> DEFINE x == gained + unplaced - Pending(book) + (Owed(a) - Owed(b))
             y == gained' + unplaced' - Pending(book')
  <2>4. x \in Int /\ y \in Int
    BY <1>4, <1>9, <1>10
  <2> DEFINE p == harvestFees' * 10000
             q == x * 2000
             w == y * 2000
  <2>5. p \in Int /\ q \in Int /\ w \in Int
    <3>1. harvestFees' \in Nat
      BY <1>6, <1>8, <1>10
    <3> HIDE DEF x, y
    <3> QED BY <2>4, <3>1
  <2>6. q <= w /\ p <= q
    BY <2>1, <2>2, <2>3, <2>4
  <2> HIDE DEF x, y, p, q, w
  <2>7. p <= w
    BY <2>5, <2>6
  <2> QED BY <2>7 DEF p, w, y
<1> QED BY <1>12 DEF FeesOK

(* Over any series of deposits, exits, harvests and replacements, with any  *)
(* strategies, the performance fees stay within 20% of what the strategies  *)
(* earned and of what their purchases for liquidity left over: no deposit,  *)
(* exit, replacement or harvest by a third party makes anything else count  *)
(* as a rise, or the same thing twice.                                      *)
THEOREM FeesStayWithinGains == Spec => []FeesWithinGains
<1>1. Init => FeesOK
  <2> SUFFICES ASSUME Init PROVE harvestFees * 10000 <= (gained + unplaced - Pending(book)) * 2000
    BY DEF FeesOK
  <2>1. \A t \in Strategies : Uncollected(book)[t] = 0
    BY DEF Init, EmptyBook, Uncollected, Owed
  <2>2. Pending(book) = 0
    BY <2>1, TotalZero, VaultAssumption DEF Pending
  <2> QED BY <2>2 DEF Init
<1>2. VInv /\ VInv' /\ FeesOK /\ [Next]_vars => FeesOK'
  <2> SUFFICES ASSUME VInv, VInv', FeesOK, [Next]_vars PROVE FeesOK'
    OBVIOUS
  <2>1. ASSUME NEW h \in Holders, NEW a \in Amounts, Deposit(h, a) \/ Mint(h, a) PROVE FeesOK'
    <3>1. PICK m \in Nat, n \in Nat : TakeIn(h, m, n)
      BY <2>1, Conversions, VaultAssumption DEF Deposit, Mint
    <3> QED BY <3>1, TakeInFees, AccountedSuffices
  <2>2. ASSUME NEW c \in Holders, NEW h \in Holders, NEW a \in Amounts, Withdraw(c, h, a) \/ Redeem(c, h, a)
        PROVE  FeesOK'
    <3>1. PICK m \in Nat, n \in Nat : PayOut(c, h, m, n)
      BY <2>2, Conversions, VaultAssumption DEF Withdraw, Redeem
    <3> QED BY <3>1, PayOutFees, AccountedSuffices
  <2>3. ASSUME NEW s \in Strategies \cup {NoStrategy}, RetireStrategyAndSetNew(s) PROVE FeesOK'
    BY <2>3, RetireFees, AccountedSuffices
  <2>4. ASSUME EmergencyWithdrawFromStrategy PROVE FeesOK'
    BY <2>4, EmergencyFees, AccountedSuffices
  <2>5. ASSUME NEW s \in Strategies, HarvestStrategy(s) \/ MarketMoves(s) PROVE FeesOK'
    BY <2>5, HarvestStrategyFees, MarketMovesFees, AccountedSuffices
  <2>6. ASSUME \/ \E h \in Holders, a \in Amounts : Donate(h, a)
               \/ \E s \in Strategies \cup {NoStrategy} : SetStrategy(s)
               \/ Configure \/ UNCHANGED vars
        PROVE  FeesOK'
    <3>1. book' = book /\ gained' = gained /\ unplaced' = unplaced /\ harvestFees' = harvestFees
      BY <2>6 DEF Donate, SetStrategy, Configure, vars, market
    <3> QED BY <3>1 DEF FeesOK, Pending, Uncollected
  <2> QED BY <2>1, <2>2, <2>3, <2>4, <2>5, <2>6, HarvestFees DEF Next
<1>3. VInv /\ FeesOK => FeesWithinGains
  <2> SUFFICES ASSUME VInv, harvestFees * 10000 <= (gained + unplaced - Pending(book)) * 2000
               PROVE  harvestFees * 10000 <= (gained + unplaced) * 2000
    BY DEF FeesOK, FeesWithinGains, BPS_DENOMINATOR, MAX_PERFORMANCE_FEE_BPS
  <2>1. Pending(book) \in Nat /\ gained \in Nat /\ harvestFees \in Nat /\ unplaced \in Nat
    BY PendingNat DEF VInv, ConfOK
  <2> QED BY <2>1
<1> QED BY <1>1, <1>2, <1>3, Invariance, PTL DEF Spec

-----------------------------------------------------------------------------
(* What each action does to the assets, when all strategies hold the asset. *)

(* A strategy that holds the asset never has a position.                    *)
LEMMA HoldingBook ==
    ASSUME VInv, Sound, NEW s \in Strategies
    PROVE  book[s].position = 0 /\ kind[s] = "holding" /\ BookOK(book[s], kind[s])
BY DEF Sound, VInv, BooksOK, BookOK, Books

(* What a strategy is does not change.                                      *)
LEMMA KindFixed ==
    ASSUME [Next]_vars
    PROVE  kind' = kind
<1> USE DEF deployed
<1>1. ASSUME NEW h \in Holders, NEW a \in Amounts, Deposit(h, a) \/ Mint(h, a) \/ Donate(h, a)
      PROVE  kind' = kind
  BY <1>1 DEF Deposit, Mint, Donate, TakeIn
<1>2. ASSUME NEW c \in Holders, NEW h \in Holders, NEW a \in Amounts, Withdraw(c, h, a) \/ Redeem(c, h, a)
      PROVE  kind' = kind
  BY <1>2 DEF Withdraw, Redeem, PayOut
<1>3. ASSUME NEW s \in Strategies \cup {NoStrategy},
             HarvestStrategy(s) \/ MarketMoves(s) \/ SetStrategy(s) \/ RetireStrategyAndSetNew(s)
      PROVE  kind' = kind
  BY <1>3 DEF HarvestStrategy, MarketMoves, SetStrategy, RetireStrategyAndSetNew
<1>4. ASSUME Harvest \/ EmergencyWithdrawFromStrategy \/ Configure \/ UNCHANGED vars
      PROVE  kind' = kind
  BY <1>4 DEF Harvest, EmergencyWithdrawFromStrategy, Configure, vars
<1> QED BY <1>1, <1>2, <1>3, <1>4 DEF Next

(* The assets, as one case or the other.                                    *)
LEMMA Assets ==
    /\ Active => TotalAssets = idle + Balance(book[strategy])
    /\ ~Active /\ idle \in Nat => TotalAssets = idle
    /\ Active' => TotalAssets' = idle' + Balance(book'[strategy'])
    /\ ~Active' /\ idle' \in Nat => TotalAssets' = idle'
BY DEF TotalAssets, Active

(* Totals, for the next state.                                              *)
LEMMA TotalsNext ==
    ASSUME VInv'
    PROVE  supply' \in Nat /\ TotalAssets' \in Nat
<1>1. \A s \in Strategies : Balance(book'[s]) \in Nat
  BY DEF VInv, BooksOK, Books, Balance
<1>2. supply' \in Nat
  BY TotalNat, VaultAssumption DEF VInv, AccountsOK
<1>3. idle' \in Nat /\ (Active' => strategy' \in Strategies)
  BY DEF VInv, AccountsOK, StrategyOK, Active
<1> QED BY <1>1, <1>2, <1>3, Assets

(* The balance of the current strategy, written.                            *)
LEMMA CurrentBook ==
    ASSUME VInv, Active, NEW b, book' = [book EXCEPT ![strategy] = b], strategy' = strategy,
           strategyActive' = strategyActive
    PROVE  /\ strategy \in Strategies /\ BookOK(book[strategy], kind[strategy])
           /\ idle \in Nat /\ Balance(book[strategy]) \in Nat
           /\ TotalAssets = idle + Balance(book[strategy])
           /\ TotalAssets' = idle' + Balance(b)
<1>1. strategy \in Strategies /\ book \in [Strategies -> Books] /\ Active'
  BY DEF VInv, StrategyOK, BooksOK, Active
<1>2. book'[strategy'] = b
  BY <1>1
<1> QED BY <1>1, <1>2, Totals, Assets DEF VInv, BooksOK, AccountsOK

(* No book changes and the strategy stays.                                  *)
LEMMA SameBooks ==
    ASSUME VInv, book' = book, strategy' = strategy, strategyActive' = strategyActive,
           NEW n \in Int, idle' = idle + n
    PROVE  TotalAssets' = TotalAssets + n
<1>1. idle \in Nat /\ \A s \in Strategies : Balance(book[s]) \in Nat
  BY Totals
<1>2. Active => strategy \in Strategies
  BY DEF VInv, StrategyOK, Active
<1>3. Active' = Active
  BY DEF Active
<1> QED BY <1>1, <1>2, <1>3 DEF TotalAssets

(* A deposit or mint adds what the caller gives.                            *)
LEMMA TakeInAssets ==
    ASSUME VInv, Sound, NEW h \in Holders, NEW a \in Nat, NEW n \in Nat, TakeIn(h, a, n)
    PROVE  TotalAssets' = TotalAssets + a
<1> USE DEF TakeIn
<1>1. CASE Active /\ a > 0
  <2>1. PICK b \in Deposited(strategy, a) : book' = [book EXCEPT ![strategy] = b]
    BY <1>1
  <2>2. strategy \in Strategies
    BY <1>1 DEF VInv, StrategyOK, Active
  <2>3. Balance(b) = Balance(book[strategy]) + a
    BY <2>1, <2>2, DepositedOK DEF VInv, Sound
  <2>4. idle' = idle
    BY <1>1
  <2>5. /\ idle \in Nat /\ Balance(book[strategy]) \in Nat
        /\ TotalAssets = idle + Balance(book[strategy]) /\ TotalAssets' = idle' + Balance(b)
    BY <1>1, <2>1, CurrentBook
  <2> QED BY ONLY a \in Nat, <2>3, <2>4, <2>5
<1>2. CASE ~(Active /\ a > 0)
  BY <1>2, SameBooks
<1> QED BY <1>1, <1>2

(* A withdrawal or redemption takes what leaves, the withdrawal fee         *)
(* included.                                                                *)
LEMMA PayOutAssets ==
    ASSUME VInv, Sound, NEW c \in Holders, NEW h \in Holders, NEW a \in Nat, NEW n \in Nat, PayOut(c, h, a, n)
    PROVE  TotalAssets' = TotalAssets - a
<1> USE DEF PayOut
<1>1. CASE idle < a /\ Active
  <2>1. PICK r \in Withdrawn(book[strategy], a - idle) :
           idle' = idle + r.out - a /\ book' = [book EXCEPT ![strategy] = r.book]
    BY <1>1
  <2>2. strategy \in Strategies /\ a - idle \in Nat
    BY <1>1 DEF VInv, StrategyOK, AccountsOK, Active
  <2>3. r.out \in Nat /\ r.out + Balance(r.book) = Balance(book[strategy]) /\ BookOK(r.book, kind[strategy])
    BY <2>1, <2>2, HoldingBook, WithdrawnOK
  <2>4. Balance(r.book) \in Nat
    BY <2>3 DEF BookOK, Books, Balance
  <2>5. /\ idle \in Nat /\ TotalAssets = idle + Balance(book[strategy])
        /\ TotalAssets' = idle' + Balance(r.book)
    BY <1>1, <2>1, CurrentBook
  <2> QED BY <2>1, <2>3, <2>4, <2>5
<1>2. CASE ~(idle < a /\ Active)
  <2>1. idle' = idle + (0 - a) /\ TotalAssets \in Nat
    BY <1>2, Totals
  <2>2. TotalAssets' = TotalAssets + (0 - a)
    BY <1>2, <2>1, SameBooks
  <2> QED BY <2>1, <2>2
<1> QED BY <1>1, <1>2

(* A harvest adds at least nothing: its fee is within the rise.             *)
LEMMA HarvestAssets ==
    ASSUME VInv, Sound, Harvest
    PROVE  TotalAssets' >= TotalAssets
<1> USE DEF Harvest
<1>1. strategy \in Strategies /\ BooksOK
  BY DEF VInv, StrategyOK, Active
<1> DEFINE a == book[strategy]
<1>2. PICK b \in Harvested(strategy) :
        LET fee == PerformanceFee(Balance(b) - Balance(a)) IN
        IF fee = 0 THEN book' = [book EXCEPT ![strategy] = b] /\ UNCHANGED <<idle, harvestFees>>
        ELSE \E r \in Withdrawn(b, fee) :
                /\ idle + r.out >= fee
                /\ idle' = idle + r.out - fee
                /\ book' = [book EXCEPT ![strategy] = r.book]
                /\ harvestFees' = harvestFees + fee
  OBVIOUS
<1> DEFINE fee == PerformanceFee(Balance(b) - Balance(a))
<1>3. /\ BookOK(a, kind[strategy]) /\ BookOK(b, kind[strategy])
      /\ b.position = 0 /\ Balance(b) = Balance(a) + a.fees
  BY <1>1, <1>2, HoldingBook, HarvestedOK
<1>4. a.fees \in Nat /\ Balance(a) \in Nat /\ Balance(b) \in Nat /\ Balance(b) - Balance(a) = a.fees
  BY <1>3 DEF BookOK, Books, Balance
<1>5. fee \in Nat /\ fee <= a.fees
  BY <1>4, PerformanceFeeOK
<1>6. CASE fee = 0
  <2>1. book' = [book EXCEPT ![strategy] = b] /\ idle' = idle
    BY <1>2, <1>6
  <2>2. idle \in Nat /\ TotalAssets = idle + Balance(a) /\ TotalAssets' = idle' + Balance(b)
    BY <2>1, CurrentBook
  <2> QED BY <1>3, <1>4, <2>1, <2>2
<1>7. CASE fee # 0
  <2>1. PICK r \in Withdrawn(b, fee) :
           idle' = idle + r.out - fee /\ book' = [book EXCEPT ![strategy] = r.book]
    BY <1>2, <1>7
  <2>2. idle \in Nat /\ TotalAssets = idle + Balance(a) /\ TotalAssets' = idle' + Balance(r.book)
    BY <2>1, CurrentBook
  <2> HIDE DEF fee, a
  <2>3. r.out \in Nat /\ r.out + Balance(r.book) = Balance(b) /\ BookOK(r.book, kind[strategy])
    BY <1>3, <1>5, <2>1, WithdrawnOK
  <2>4. Balance(r.book) \in Nat
    BY <2>3 DEF BookOK, Books, Balance
  <2> QED BY <1>3, <1>4, <1>5, <2>1, <2>2, <2>3, <2>4
<1> QED BY <1>6, <1>7

(* A harvest by anyone adds what is collected, or nothing the vault         *)
(* counts.                                                                  *)
LEMMA HarvestStrategyAssets ==
    ASSUME VInv, Sound, NEW s \in Strategies, HarvestStrategy(s)
    PROVE  TotalAssets' >= TotalAssets
<1> USE DEF HarvestStrategy
<1>1. PICK b \in Harvested(s) : book' = [book EXCEPT ![s] = b]
  OBVIOUS
<1>2. Balance(b) = Balance(book[s]) + book[s].fees /\ book[s].fees \in Nat
  BY <1>1, HarvestedOK, HoldingBook DEF Sound, VInv, BookOK, Books
<1>3. CASE Active /\ s = strategy
  <2>1. /\ idle \in Nat /\ Balance(book[s]) \in Nat
        /\ TotalAssets = idle + Balance(book[s]) /\ TotalAssets' = idle + Balance(b)
    BY <1>1, <1>3, CurrentBook
  <2> QED BY <1>2, <2>1
<1>4. CASE ~(Active /\ s = strategy)
  <2>1. TotalAssets \in Nat
    BY Totals
  <2>2. TotalAssets' = TotalAssets
    BY <1>1, <1>4 DEF TotalAssets, Active, VInv, StrategyOK, BooksOK
  <2> QED BY <2>1, <2>2
<1> QED BY <1>3, <1>4

(* What is earned and not collected is not counted.                         *)
LEMMA MarketMovesAssets ==
    ASSUME VInv, Sound, NEW s \in Strategies, MarketMoves(s)
    PROVE  TotalAssets' >= TotalAssets
<1>1. book' = [book EXCEPT ![s].fees = @ + Yield]
  <2>1. book[s].position = 0 /\ Yield \in Nat
    BY HoldingBook, VaultAssumption
  <2> QED BY <2>1 DEF MarketMoves
<1>2. \A t \in Strategies : Balance(book'[t]) = Balance(book[t])
  BY <1>1 DEF VInv, BooksOK, Books, Balance
<1>3. TotalAssets' = TotalAssets
  <2>1. UNCHANGED <<idle, strategy, strategyActive>>
    BY DEF MarketMoves
  <2>2. Active => strategy \in Strategies
    BY DEF Active, VInv, StrategyOK
  <2> QED BY <1>2, <2>1, <2>2 DEF TotalAssets, Active
<1>4. TotalAssets \in Nat
  BY Totals
<1> QED BY <1>3, <1>4

(* Setting a strategy adds what it holds.                                   *)
LEMMA SetStrategyAssets ==
    ASSUME VInv, VInv', NEW s \in Strategies \cup {NoStrategy}, SetStrategy(s)
    PROVE  TotalAssets' >= TotalAssets
<1>1. ~Active /\ idle' = idle /\ idle \in Nat
  BY DEF SetStrategy, Active, VInv, AccountsOK
<1>2. Active' => Balance(book'[strategy']) \in Nat
  <2>1. \A t \in Strategies : Balance(book'[t]) \in Nat
    BY DEF VInv, BooksOK, Books, Balance
  <2> QED BY <2>1 DEF Active, VInv, StrategyOK
<1> QED BY <1>1, <1>2 DEF TotalAssets

(* Replacing a strategy loses nothing of what it held.                      *)
LEMMA RetireAssets ==
    ASSUME VInv, VInv', Sound, NEW s \in Strategies \cup {NoStrategy}, RetireStrategyAndSetNew(s)
    PROVE  TotalAssets' >= TotalAssets
<1> USE DEF RetireStrategyAndSetNew
<1>1. strategy \in Strategies /\ BooksOK /\ idle \in Nat /\ Active
  BY DEF VInv, StrategyOK, Active, AccountsOK
<1>2. PICK r \in Retired(strategy) :
          LET left == [book EXCEPT ![strategy] = r.book]
              all == idle + r.out
          IN \/ (s = NoStrategy \/ all = 0) /\ idle' = all /\ book' = left
             \/ s \in Strategies /\ idle' = 0 /\ book' = [left EXCEPT ![s].held = @ + all]
  BY VaultAssumption DEF Sound
<1>3. /\ r.out \in Nat /\ r.out = Balance(book[strategy]) /\ BookOK(r.book, kind[strategy])
      /\ r.book.position = 0
  BY <1>1, <1>2, RetiredOK DEF Sound
<1> DEFINE all == idle + r.out
           left == [book EXCEPT ![strategy] = r.book]
<1>4. TotalAssets = all /\ all \in Nat
  BY <1>1, <1>3, Assets
<1>5. left \in [Strategies -> Books]
  BY <1>1, <1>3 DEF BooksOK, BookOK
<1>6. idle' \in Nat /\ (Active' <=> s \in Strategies) /\ (Active' => strategy' = s)
      /\ (Active' => Balance(book'[s]) \in Nat)
  <2>1. \A t \in Strategies : Balance(book'[t]) \in Nat
    BY DEF VInv, BooksOK, Books, Balance
  <2> QED BY <2>1, VaultAssumption DEF VInv, AccountsOK, Active
<1>7. CASE idle' = all
  <2> HIDE DEF all
  <2> QED BY <1>4, <1>6, <1>7, Assets
<1>8. CASE s \in Strategies /\ idle' = 0 /\ book' = [left EXCEPT ![s].held = @ + all]
  <2> HIDE DEF all, left
  <2>1. Balance(book'[s]) >= all
    BY <1>4, <1>5, <1>8 DEF Books, Balance
  <2>2. TotalAssets' = 0 + Balance(book'[s])
    BY <1>6, <1>8, Assets
  <2> QED BY <1>4, <1>6, <1>8, <2>1, <2>2
<1> QED BY <1>2, <1>7, <1>8

(* Emptying a strategy moves what it held.                                  *)
LEMMA EmergencyAssets ==
    ASSUME VInv, Sound, EmergencyWithdrawFromStrategy
    PROVE  TotalAssets' >= TotalAssets
<1> USE DEF EmergencyWithdrawFromStrategy
<1>1. strategy \in Strategies /\ BooksOK /\ Active /\ idle \in Nat
  BY DEF VInv, StrategyOK, Active, AccountsOK
<1>2. PICK r \in EmergencyWithdrawn(strategy) :
        idle' = idle + r.out /\ book' = [book EXCEPT ![strategy] = r.book]
  OBVIOUS
<1>3. r.out \in Nat /\ r.out = Balance(book[strategy]) /\ Balance(r.book) = 0
  BY <1>1, <1>2, EmergencyWithdrawnOK DEF Sound
<1>4. TotalAssets = idle + Balance(book[strategy]) /\ TotalAssets' = idle' + Balance(r.book)
  BY <1>1, <1>2, CurrentBook
<1> QED BY <1>1, <1>2, <1>3, <1>4

-----------------------------------------------------------------------------
(* The abstract pool: its price never falls, and the vault is one.          *)

(* Buying n shares for a assets at no less than the rate s/w keeps the rate. *)
LEMMA JoinKeepsRate ==
    ASSUME NEW w \in Nat, NEW s \in Nat, NEW w2 \in Nat, NEW s2 \in Nat,
           (s2 - s) * (w + 1) <= (w2 - w) * (s + 1)
    PROVE  (w2 + 1) * (s + 1) >= (w + 1) * (s2 + 1)
<1> DEFINE A == w + 1  B == s + 1  C == w2 + 1  D == s2 + 1
<1>1. A \in Int /\ B \in Int /\ C \in Int /\ D \in Int
  OBVIOUS
<1>2. s2 - s = D - B /\ w2 - w = C - A
  OBVIOUS
<1>3. (D - B) * A <= (C - A) * B
  BY <1>2
<1>4. (D - B) * A = D * A - B * A /\ (C - A) * B = C * B - A * B /\ A * B = B * A /\ D * A = A * D
  <2> HIDE DEF A, B, C, D
  <2> QED BY <1>1
<1>5. C * B >= A * D
  <2> HIDE DEF A, B, C, D
  <2>1. \A p, q, r \in Int : p - q <= r - q => r >= p
    OBVIOUS
  <2>2. A * D \in Int /\ B * A \in Int /\ C * B \in Int
    BY <1>1
  <2> QED BY <1>3, <1>4, <2>1, <2>2
<1> QED BY <1>5

(* A gain is no purchase at all, an exit a purchase backwards.              *)
LEMMA GainIsNoJoin ==
    ASSUME NEW w \in Nat, NEW s \in Nat, NEW w2 \in Nat, w2 >= w
    PROVE  (s - s) * (w + 1) <= (w2 - w) * (s + 1)
<1>1. s - s = 0 /\ w2 - w \in Nat /\ w + 1 \in Nat /\ s + 1 \in Nat
  OBVIOUS
<1>2. \A c, d, e \in Nat : 0 * c <= d * e
  OBVIOUS
<1> QED BY <1>1, <1>2

(* Selling shares at no more than the rate keeps it, read backwards.        *)
LEMMA LeaveIsJoinBackwards ==
    ASSUME NEW w \in Nat, NEW s \in Nat, NEW w2 \in Nat, NEW s2 \in Nat,
           (w - w2) * (s + 1) <= (s - s2) * (w + 1)
    PROVE  (s2 - s) * (w + 1) <= (w2 - w) * (s + 1)
<1>1. \A a, b, c, d \in Int : a * b <= c * d => (0 - c) * d <= (0 - a) * b
  OBVIOUS
<1>2. s2 - s = 0 - (s - s2) /\ w2 - w = 0 - (w - w2)
  OBVIOUS
<1>3. w - w2 \in Int /\ s - s2 \in Int /\ w + 1 \in Int /\ s + 1 \in Int
  OBVIOUS
<1> QED BY <1>1, <1>2, <1>3

(* A deposit or mint is a join, a withdrawal or redemption a leave.         *)
LEMMA DepositJoins ==
    ASSUME VInv, Sound, NEW h \in Holders, NEW a \in Amounts, Deposit(h, a) \/ Mint(h, a)
    PROVE  Pool!Join(h)
<1>1. a \in Nat /\ supply \in Nat /\ TotalAssets \in Nat
  BY Totals, VaultAssumption
<1>2. PICK m \in Nat, n \in Nat : TakeIn(h, m, n) /\ n * (TotalAssets + 1) <= m * (supply + 1)
  <2>1. CASE Deposit(h, a)
    BY <1>1, <2>1, Conversions DEF Deposit
  <2>2. CASE Mint(h, a)
    BY <1>1, <2>2, Conversions DEF Mint
  <2> QED BY <2>1, <2>2
<1>3. TotalAssets' = TotalAssets + m
  BY <1>2, TakeInAssets
<1>4. supply' = supply + n /\ shares' = [shares EXCEPT ![h] = @ + n]
  BY <1>2 DEF TakeIn
<1>5. supply' - supply = n /\ TotalAssets' - TotalAssets = m
  BY <1>1, <1>3, <1>4
<1>6. Pool!NoDearer(supply' - supply, TotalAssets' - TotalAssets)
  BY <1>2, <1>5 DEF Pool!NoDearer
<1>7. supply' - supply >= 0 /\ shares' = [shares EXCEPT ![h] = @ + (supply' - supply)]
  <2> DEFINE d == supply' - supply
  <2>1. d = n
    BY <1>5
  <2> HIDE DEF d
  <2>2. d >= 0 /\ shares' = [shares EXCEPT ![h] = @ + d]
    BY <1>4, <2>1
  <2> QED BY <2>2 DEF d
<1> QED BY <1>6, <1>7 DEF Pool!Join

(* A withdrawal or redemption is a leave.                                   *)
LEMMA WithdrawalLeaves ==
    ASSUME VInv, Sound, NEW c \in Holders, NEW h \in Holders, NEW a \in Amounts,
           Withdraw(c, h, a) \/ Redeem(c, h, a)
    PROVE  Pool!Leave(h)
<1>1. a \in Nat /\ supply \in Nat /\ TotalAssets \in Nat
  BY Totals, VaultAssumption
<1>2. PICK m \in Nat, n \in Nat : PayOut(c, h, m, n) /\ m * (supply + 1) <= n * (TotalAssets + 1)
  <2>1. CASE Withdraw(c, h, a)
    BY <1>1, <2>1, Conversions DEF Withdraw
  <2>2. CASE Redeem(c, h, a)
    BY <1>1, <2>2, Conversions DEF Redeem
  <2> QED BY <2>1, <2>2
<1>3. TotalAssets' = TotalAssets - m
  BY <1>2, PayOutAssets
<1>4. supply' = supply - n /\ shares[h] >= n /\ shares' = [shares EXCEPT ![h] = @ - n] /\ shares[h] \in Nat
  BY <1>2, Totals DEF PayOut
<1>5. supply - supply' = n /\ TotalAssets - TotalAssets' = m
  BY <1>1, <1>3, <1>4
<1>6. Pool!NoCheaper(supply - supply', TotalAssets - TotalAssets')
  BY <1>2, <1>5 DEF Pool!NoCheaper
<1>7. /\ supply - supply' >= 0 /\ supply - supply' <= shares[h]
      /\ shares' = [shares EXCEPT ![h] = @ - (supply - supply')]
  <2> DEFINE d == supply - supply'
  <2>1. d = n
    BY <1>5
  <2> HIDE DEF d
  <2>2. d >= 0 /\ d <= shares[h] /\ shares' = [shares EXCEPT ![h] = @ - d]
    BY <1>4, <2>1
  <2> QED BY <2>2 DEF d
<1> QED BY <1>6, <1>7 DEF Pool!Leave

(* Everything else is a gain.                                               *)
LEMMA OthersGain ==
    ASSUME VInv, VInv', Sound,
           \/ \E h \in Holders, a \in Amounts : Donate(h, a)
           \/ Harvest
           \/ \E s \in Strategies : HarvestStrategy(s) \/ MarketMoves(s)
           \/ \E s \in Strategies \cup {NoStrategy} : SetStrategy(s) \/ RetireStrategyAndSetNew(s)
           \/ EmergencyWithdrawFromStrategy \/ Configure \/ UNCHANGED vars
    PROVE  Pool!Gain
<1>1. UNCHANGED <<supply, shares>>
  BY DEF Donate, Harvest, HarvestStrategy, MarketMoves, SetStrategy, RetireStrategyAndSetNew,
         EmergencyWithdrawFromStrategy, Configure, vars
<1>2. ASSUME NEW h \in Holders, NEW a \in Amounts, Donate(h, a)
      PROVE  TotalAssets' >= TotalAssets
  <2>1. a \in Nat /\ TotalAssets \in Nat
    BY Totals, VaultAssumption
  <2>2. TotalAssets' = TotalAssets + a
    BY <1>2, <2>1, SameBooks DEF Donate
  <2> QED BY <2>1, <2>2
<1>3. ASSUME Configure \/ UNCHANGED vars
      PROVE  TotalAssets' >= TotalAssets
  <2>1. idle \in Nat /\ TotalAssets \in Nat
    BY Totals
  <2>2. idle' = idle + 0 /\ book' = book /\ strategy' = strategy /\ strategyActive' = strategyActive
    BY <1>3, <2>1 DEF Configure, vars
  <2>3. TotalAssets' = TotalAssets + 0
    BY <2>2, SameBooks
  <2> QED BY <2>1, <2>3
<1>4. ASSUME NEW s \in Strategies, HarvestStrategy(s) \/ MarketMoves(s)
      PROVE  TotalAssets' >= TotalAssets
  BY <1>4, HarvestStrategyAssets, MarketMovesAssets
<1>5. ASSUME NEW s \in Strategies \cup {NoStrategy}, SetStrategy(s) \/ RetireStrategyAndSetNew(s)
      PROVE  TotalAssets' >= TotalAssets
  BY <1>5, SetStrategyAssets, RetireAssets
<1>6. TotalAssets' >= TotalAssets
  BY <1>2, <1>3, <1>4, <1>5, HarvestAssets, EmergencyAssets
<1> QED BY <1>1, <1>6 DEF Pool!Gain

(* The vault implements the share pool: every call of every interleaving is *)
(* a join, an exit or a gain of the pool, or none of it is visible there.   *)
THEOREM VaultIsPool == Spec => ImplementsPool
<1>1. Init => Pool!PoolInit
  BY DEF Init, Pool!PoolInit, TotalAssets, Active, Balance, EmptyBook, Sound
<1>2. VInv /\ VInv' /\ [Next]_vars => [Pool!PoolNext]_(Pool!poolVars)
  <2> SUFFICES ASSUME VInv, VInv', [Next]_vars PROVE Pool!PoolNext
    OBVIOUS
  <2>1. Sound' = Sound
    BY KindFixed DEF Sound
  <2>2. Sound => Pool!Gain \/ \E h \in Holders : Pool!Join(h) \/ Pool!Leave(h)
    <3> SUFFICES ASSUME Sound PROVE Pool!Gain \/ \E h \in Holders : Pool!Join(h) \/ Pool!Leave(h)
      OBVIOUS
    <3> QED BY DepositJoins, WithdrawalLeaves, OthersGain DEF Next
  <2> QED BY <2>1, <2>2, TotalsNext DEF Pool!PoolNext
<1> QED BY <1>1, <1>2, Invariance, PTL DEF Spec, ImplementsPool, Pool!PoolSpec

(* A pool's price never falls: for any holders, any amounts and any gains,  *)
(* (worth + 1) / (supply + 1) never decreases while the pool is sound.      *)
THEOREM PriceIsKept == Spec => Pool!PriceKept
<1>1. VInv /\ VInv' /\ [Next]_vars
      => [Sound => (TotalAssets' + 1) * (supply + 1) >= (TotalAssets + 1) * (supply' + 1)]_(Pool!poolVars)
  <2> SUFFICES ASSUME VInv, VInv', [Next]_vars, Sound
               PROVE  (TotalAssets' + 1) * (supply + 1) >= (TotalAssets + 1) * (supply' + 1)
    OBVIOUS
  <2>1. supply \in Nat /\ TotalAssets \in Nat /\ supply' \in Nat /\ TotalAssets' \in Nat
    BY Totals, TotalsNext
  <2>2. (supply' - supply) * (TotalAssets + 1) <= (TotalAssets' - TotalAssets) * (supply + 1)
    <3>1. CASE Pool!Gain
      BY <2>1, <3>1, GainIsNoJoin DEF Pool!Gain
    <3>2. ASSUME NEW h \in Holders, Pool!Join(h)
          PROVE  (supply' - supply) * (TotalAssets + 1) <= (TotalAssets' - TotalAssets) * (supply + 1)
      BY <3>2 DEF Pool!Join, Pool!NoDearer
    <3>3. ASSUME NEW h \in Holders, Pool!Leave(h)
          PROVE  (supply' - supply) * (TotalAssets + 1) <= (TotalAssets' - TotalAssets) * (supply + 1)
      BY <2>1, <3>3, LeaveIsJoinBackwards DEF Pool!Leave, Pool!NoCheaper
    <3> QED BY <3>1, <3>2, <3>3, DepositJoins, WithdrawalLeaves, OthersGain DEF Next
  <2> QED BY <2>1, <2>2, JoinKeepsRate
<1> QED BY <1>1, Invariance, PTL DEF Spec, Pool!PriceKept
=============================================================================
