-------------------------------- MODULE Vault --------------------------------
(***************************************************************************)
(* contracts/vault/Vault.sol with its strategies: an ERC-4626 vault of one *)
(* asset that lends all of it to one strategy at a time, a performance fee *)
(* taken at a harvest and a withdrawal fee.                                *)
(*                                                                         *)
(* A "holding" strategy (MockStrategy, MockStrategyWithHarvest) keeps the  *)
(* asset itself; an "lp" strategy (UniswapV3LPStrategy) sells half of it   *)
(* and provides liquidity.  A strategy's book is valued in the asset; a    *)
(* strategy call is the set of books it may leave, because a swap or a     *)
(* liquidity change may lose an amount in Impact.                          *)
(***************************************************************************)
EXTENDS Integers, FiniteSets

CONSTANTS
    Holders,     \* accounts that deposit and redeem
    Strategies,  \* deployed with this vault as theirs
    NoStrategy,  \* address(0)
    Coins,       \* what each holder starts with
    Approvals,   \* <<owner, spender>>: unlimited approvals of shares
    Amounts,     \* assets and shares callers ask for
    Donors,      \* holders that also transfer assets to the vault directly
    PerfFees, ExitFees, Caps,   \* what the owner configures
    Impact,      \* what a trade of an lp strategy may lose
    Yield,       \* what a move of the market earns or costs
    MaxMarket,   \* bound: moves of the market
    MaxCalls     \* bound: calls that move assets

ASSUME VaultAssumption ==
    /\ IsFiniteSet(Holders) /\ IsFiniteSet(Strategies)
    /\ NoStrategy \notin Strategies
    /\ Coins \in Nat /\ MaxMarket \in Nat /\ MaxCalls \in Nat
    /\ Approvals \subseteq Holders \X Holders
    /\ Donors \subseteq Holders
    /\ Amounts \subseteq Nat \ {0} /\ PerfFees \subseteq Nat /\ ExitFees \subseteq Nat
    /\ Caps \subseteq Nat /\ Impact \subseteq Nat /\ Yield \in Nat \ {0}

VARIABLES
    wallet,          \* the asset, per holder
    idle,            \* the asset in the vault
    shares, supply,
    strategy, strategyActive,
    book,            \* per strategy
    conf,            \* depositCap, performanceFeeBps, withdrawalFeeBps, paused
    kind, owner,     \* fixed at deployment
    gained,          \* history: what strategies earned
    moved, calls,    \* history: moves of the market, calls that move assets
    harvestFees,     \* history: performance fees taken
    unplaced         \* history: paired tokens bought for liquidity and not taken

deployed == <<kind, owner>>
market == <<gained, moved>>
vars == <<wallet, idle, shares, supply, strategy, strategyActive, book, conf,
          deployed, market, calls, harvestFees, unplaced>>

MAX_PERFORMANCE_FEE_BPS == 2000
MAX_WITHDRAWAL_FEE_BPS == 500
BPS_DENOMINATOR == 10000

(* held, paired: balances of the asset and of the pool's other token;       *)
(* position: the liquidity's value (0: none); fees: earned, not collected;  *)
(* minted: positionTokenId # 0.                                             *)
Books == [held : Nat, paired : Nat, position : Nat, fees : Nat, minted : BOOLEAN]
EmptyBook == [held |-> 0, paired |-> 0, position |-> 0, fees |-> 0, minted |-> FALSE]

(* Balances stay natural numbers, fees stay within their caps, an active    *)
(* strategy is there, and no liquidity is held under a forgotten token id.  *)
VaultTypeOK ==
    /\ wallet \in [Holders -> Nat] /\ idle \in Nat
    /\ shares \in [Holders -> Nat] /\ supply \in Nat
    /\ strategy \in Strategies \cup {NoStrategy}
    /\ strategyActive \in BOOLEAN /\ (strategyActive => strategy # NoStrategy)
    /\ book \in [Strategies -> Books]
    /\ \A s \in Strategies : book[s].position > 0 => book[s].minted /\ kind[s] = "lp"
    /\ conf \in [cap : Nat, perf : 0..MAX_PERFORMANCE_FEE_BPS,
                 exit : 0..MAX_WITHDRAWAL_FEE_BPS, paused : BOOLEAN]
    /\ kind \in [Strategies -> {"holding", "lp"}] /\ owner \in {"account", "factory"}
    /\ gained \in Nat /\ moved \in 0..MaxMarket /\ calls \in 0..MaxCalls /\ harvestFees \in Nat
    /\ unplaced \in Nat

-----------------------------------------------------------------------------
(* Strategies.                                                             *)

Least(a, b) == IF a <= b THEN a ELSE b

Balance(b) == b.held + b.position

(* What is left of an amount n after a trade.                               *)
AfterTrade(n) == {n - i : i \in {j \in Impact : j <= n}}

(* _swapHalfToPaired and _addLiquidity: the first mint takes at least 99.5% *)
(* of both tokens, increaseLiquidity has no minimum.  What is not taken     *)
(* stays in the strategy.                                                   *)
Taken(b, n) == {u \in AfterTrade(n) : b.minted \/ u >= (n * 9950) \div BPS_DENOMINATOR}

(* x of the asset and y of the other token are offered, t is what is taken. *)
Added(b, x, y) ==
    {[b EXCEPT !.held = @ + (x - t[1]), !.paired = @ + (y - t[2]),
               !.position = @ + t[1] + t[2], !.minted = TRUE] :
        t \in Taken(b, x) \X Taken(b, y)}

Provided(b, n) ==
    LET half == n \div 2
    IN IF half = 0 THEN {}
       ELSE UNION {Added(b, n - half, bought) : bought \in AfterTrade(half)}

Deposited(s, n) ==
    IF kind[s] = "lp" THEN {b \in Provided(book[s], n) : b.position > book[s].position}
    ELSE {[book[s] EXCEPT !.held = @ + n]}

(* All liquidity is removed, everything owed collected and sold.            *)
Unwound(b) ==
    IF b.position = 0 THEN {b}
    ELSE {[b EXCEPT !.held = @ + out, !.paired = 0, !.position = 0, !.fees = 0] :
             out \in AfterTrade(b.position + b.fees + b.paired)}

(* withdraw(n): only an lp strategy short of n touches its position, and    *)
(* then all of it.                                                          *)
Withdrawn(b, n) ==
    {[book |-> [c EXCEPT !.held = @ - Least(n, c.held)], out |-> Least(n, c.held)] :
        c \in IF n > b.held THEN Unwound(b) ELSE {b}}

Harvested(s) ==
    LET b == book[s] IN
    IF kind[s] = "holding" THEN {[b EXCEPT !.held = @ + b.fees, !.fees = 0]}
    ELSE IF b.position = 0 THEN {b}
    ELSE {[b EXCEPT !.held = @ + out, !.paired = 0, !.fees = 0] :
             out \in AfterTrade(b.fees + b.paired)}

(* The lp strategy unwinds but sends nothing.                               *)
Retired(s) ==
    LET b == book[s] IN
    IF kind[s] = "holding" THEN {[book |-> [b EXCEPT !.held = 0], out |-> b.held]}
    ELSE {[book |-> [c EXCEPT !.minted = FALSE], out |-> 0] : c \in Unwound(b)}

EmergencyWithdrawn(s) ==
    LET b == book[s] IN
    IF kind[s] = "lp" /\ ~b.minted THEN {[book |-> b, out |-> 0]}
    ELSE {[book |-> [c EXCEPT !.minted = FALSE, !.held = 0], out |-> c.held] : c \in Unwound(b)}

-----------------------------------------------------------------------------
(* The vault.                                                              *)

Active == strategyActive /\ strategy # NoStrategy

TotalAssets == idle + (IF Active THEN Balance(book[strategy]) ELSE 0)

(* Mutant: shares are rounded up.                                           *)
SharesForRoundedUp(a) == (a * (supply + 1) + TotalAssets) \div (TotalAssets + 1)

(* OpenZeppelin's conversions: down for what the caller gets, up for what   *)
(* the caller gives.                                                        *)
SharesFor(a) == (a * (supply + 1)) \div (TotalAssets + 1)
SharesToBurn(a) == (a * (supply + 1) + TotalAssets) \div (TotalAssets + 1)
AssetsFor(n) == (n * (TotalAssets + 1)) \div (supply + 1)
AssetsToPay(n) == (n * (TotalAssets + 1) + supply) \div (supply + 1)

Called == calls < MaxCalls /\ calls' = calls + 1

(* Assets go straight on to an active strategy.                             *)
TakeIn(caller, a, n) ==
    /\ Called
    /\ ~conf.paused
    /\ conf.cap = 0 \/ TotalAssets + a <= conf.cap
    /\ wallet[caller] >= a
    /\ wallet' = [wallet EXCEPT ![caller] = @ - a]
    /\ shares' = [shares EXCEPT ![caller] = @ + n]
    /\ supply' = supply + n
    /\ IF Active /\ a > 0
       THEN /\ \E b \in Deposited(strategy, a) :
                  /\ book' = [book EXCEPT ![strategy] = b]
                  /\ unplaced' = unplaced + b.paired - book[strategy].paired
            /\ idle' = idle
       ELSE idle' = idle + a /\ UNCHANGED <<book, unplaced>>
    /\ UNCHANGED <<strategy, strategyActive, conf, deployed, market, harvestFees>>

Deposit(caller, a) == TakeIn(caller, a, SharesFor(a))
Mint(caller, n) == TakeIn(caller, AssetsToPay(n), n)

(* What the vault is short of comes from the strategy; the transfers revert *)
(* when that is not enough.  The fee leaves with the assets.                *)
PayOut(caller, h, a, n) ==
    /\ Called
    /\ ~conf.paused
    /\ caller = h \/ <<h, caller>> \in Approvals
    /\ shares[h] >= n
    /\ shares' = [shares EXCEPT ![h] = @ - n]
    /\ supply' = supply - n
    /\ wallet' = [wallet EXCEPT ![caller] = @ + a - (a * conf.exit) \div BPS_DENOMINATOR]
    /\ IF idle < a /\ Active
       THEN \E r \in Withdrawn(book[strategy], a - idle) :
               /\ idle + r.out >= a
               /\ idle' = idle + r.out - a
               /\ book' = [book EXCEPT ![strategy] = r.book]
       ELSE idle >= a /\ idle' = idle - a /\ UNCHANGED book
    /\ UNCHANGED <<strategy, strategyActive, conf, deployed, market, harvestFees, unplaced>>

Withdraw(caller, h, a) == a <= AssetsFor(shares[h]) /\ PayOut(caller, h, a, SharesToBurn(a))
Redeem(caller, h, n) == PayOut(caller, h, AssetsFor(n), n)

(* Mutant: the fee is a share of all assets, not of the rise.               *)
PerformanceFeeOnAll(rise) ==
    IF rise > 0 THEN ((TotalAssets + rise) * conf.perf) \div BPS_DENOMINATOR ELSE 0

PerformanceFee(rise) ==
    IF rise > 0 THEN (rise * conf.perf) \div BPS_DENOMINATOR ELSE 0

(* The fee is a share of the rise within the call; it is withdrawn from the *)
(* strategy after the harvest.                                              *)
Harvest ==
    /\ ~conf.paused /\ Active
    /\ \E b \in Harvested(strategy) :
          LET fee == PerformanceFee(Balance(b) - Balance(book[strategy])) IN
          IF fee = 0 THEN book' = [book EXCEPT ![strategy] = b] /\ UNCHANGED <<idle, harvestFees>>
          ELSE \E r \in Withdrawn(b, fee) :
                  /\ idle + r.out >= fee
                  /\ idle' = idle + r.out - fee
                  /\ book' = [book EXCEPT ![strategy] = r.book]
                  /\ harvestFees' = harvestFees + fee
    /\ UNCHANGED <<wallet, shares, supply, strategy, strategyActive, conf, deployed, market, calls,
                   unplaced>>

(* Anyone may call the strategy's own harvest.                              *)
HarvestStrategy(s) ==
    /\ \E b \in Harvested(s) : book' = [book EXCEPT ![s] = b]
    /\ UNCHANGED <<wallet, idle, shares, supply, strategy, strategyActive, conf, deployed,
                   market, calls, harvestFees, unplaced>>

-----------------------------------------------------------------------------
(* The owner.  A vault made by a factory is owned by the factory, which     *)
(* calls none of these after the deployment.                                *)

(* Mutant: a strategy in place may be overwritten.                          *)
SetStrategyAnytime(s) ==
    /\ owner = "account" /\ Called
    /\ strategy' = s
    /\ strategyActive' = (s # NoStrategy)
    /\ UNCHANGED <<wallet, idle, shares, supply, book, conf, deployed, market, harvestFees,
                   unplaced>>

SetStrategy(s) ==
    /\ owner = "account" /\ Called
    /\ ~strategyActive
    /\ strategy' = s
    /\ strategyActive' = (s # NoStrategy)
    /\ UNCHANGED <<wallet, idle, shares, supply, book, conf, deployed, market, harvestFees,
                   unplaced>>

(* The new strategy gets the whole balance of the vault.                    *)
RetireStrategyAndSetNew(s) ==
    /\ owner = "account" /\ Called
    /\ Active
    /\ \E r \in Retired(strategy) :
          LET left == [book EXCEPT ![strategy] = r.book]
              all == idle + r.out
          IN IF s = NoStrategy \/ all = 0
             THEN idle' = all /\ book' = left /\ UNCHANGED unplaced
             ELSE /\ idle' = 0
                  /\ IF kind[s] = "lp"
                     THEN \E b \in Provided(left[s], all) :
                             /\ b.position > left[s].position
                             /\ book' = [left EXCEPT ![s] = b]
                             /\ unplaced' = unplaced + b.paired - left[s].paired
                     ELSE book' = [left EXCEPT ![s].held = @ + all] /\ UNCHANGED unplaced
    /\ strategy' = s
    /\ strategyActive' = (s # NoStrategy)
    /\ UNCHANGED <<wallet, shares, supply, conf, deployed, market, harvestFees>>

EmergencyWithdrawFromStrategy ==
    /\ owner = "account" /\ Called
    /\ strategy # NoStrategy
    /\ \E r \in EmergencyWithdrawn(strategy) :
          idle' = idle + r.out /\ book' = [book EXCEPT ![strategy] = r.book]
    /\ UNCHANGED <<wallet, shares, supply, strategy, strategyActive, conf, deployed, market,
                   harvestFees, unplaced>>

Configure ==
    /\ owner = "account"
    /\ \/ \E c \in Caps : conf' = [conf EXCEPT !.cap = c]
       \/ \E f \in PerfFees : f <= MAX_PERFORMANCE_FEE_BPS /\ conf' = [conf EXCEPT !.perf = f]
       \/ \E f \in ExitFees : f <= MAX_WITHDRAWAL_FEE_BPS /\ conf' = [conf EXCEPT !.exit = f]
       \/ conf' = [conf EXCEPT !.paused = ~@]
    /\ UNCHANGED <<wallet, idle, shares, supply, strategy, strategyActive, book, deployed,
                   market, calls, harvestFees, unplaced>>

-----------------------------------------------------------------------------
(* The world around the vault.                                             *)

(* A plain transfer of the asset to the vault.                              *)
Donate(h, a) ==
    /\ Called
    /\ h \in Donors /\ wallet[h] >= a
    /\ wallet' = [wallet EXCEPT ![h] = @ - a]
    /\ idle' = idle + a
    /\ UNCHANGED <<shares, supply, strategy, strategyActive, book, conf, deployed, market,
                   harvestFees, unplaced>>

(* Fees accrue, or the value of a position moves.                           *)
MarketMoves(s) ==
    /\ moved < MaxMarket
    /\ moved' = moved + 1
    /\ \/ /\ kind[s] = "holding" \/ book[s].position > 0
          /\ book' = [book EXCEPT ![s].fees = @ + Yield] /\ gained' = gained + Yield
       \/ /\ book[s].position > 0
          /\ book' = [book EXCEPT ![s].position = @ + Yield] /\ gained' = gained + Yield
       \/ /\ book[s].position > Yield
          /\ book' = [book EXCEPT ![s].position = @ - Yield] /\ UNCHANGED gained
    /\ UNCHANGED <<wallet, idle, shares, supply, strategy, strategyActive, conf, deployed,
                   calls, harvestFees, unplaced>>

(* Deployed by an account without a strategy, by VaultFactory with or       *)
(* without one, or by UniswapV3VaultFactory with an lp strategy.            *)
Init ==
    /\ wallet = [h \in Holders |-> Coins]
    /\ idle = 0 /\ supply = 0 /\ shares = [h \in Holders |-> 0]
    /\ kind \in [Strategies -> {"holding", "lp"}]
    /\ owner \in {"account", "factory"}
    /\ strategy \in Strategies \cup {NoStrategy}
    /\ owner = "account" => strategy = NoStrategy
    /\ strategyActive = (strategy # NoStrategy)
    /\ book = [s \in Strategies |-> EmptyBook]
    /\ \E c \in Caps, p \in PerfFees, e \in ExitFees :
          /\ p <= MAX_PERFORMANCE_FEE_BPS /\ e <= MAX_WITHDRAWAL_FEE_BPS
          /\ conf = [cap |-> c, perf |-> p, exit |-> e, paused |-> FALSE]
    /\ gained = 0 /\ moved = 0 /\ calls = 0 /\ harvestFees = 0 /\ unplaced = 0

Next ==
    \/ \E h \in Holders, a \in Amounts : Deposit(h, a) \/ Mint(h, a) \/ Donate(h, a)
    \/ \E c \in Holders, h \in Holders, a \in Amounts : Withdraw(c, h, a) \/ Redeem(c, h, a)
    \/ Harvest
    \/ \E s \in Strategies : HarvestStrategy(s) \/ MarketMoves(s)
    \/ \E s \in Strategies \cup {NoStrategy} : SetStrategy(s) \/ RetireStrategyAndSetNew(s)
    \/ EmergencyWithdrawFromStrategy
    \/ Configure

Spec == Init /\ [][Next]_vars

-----------------------------------------------------------------------------
(* With strategies that hold the asset itself the vault is a sound pool:    *)
(* joining, leaving, harvesting, replacing the strategy and emptying it     *)
(* never take anything from the holders who do nothing.                     *)
Sound == \A s \in Strategies : kind[s] = "holding"

Pool == INSTANCE SharePool WITH worth <- TotalAssets, sound <- Sound
ImplementsPool == Pool!PoolSpec

(* Replacing strategies never loses track of liquidity: only the strategy   *)
(* the vault counts and can still call holds a position or the other token. *)
LiquidityInReach ==
    \A s \in Strategies : ~(Active /\ s = strategy) => book[s].position = 0 /\ book[s].paired = 0

(* Over any series of deposits, harvests and replacements, with any kind of *)
(* strategy, performance fees stay within 20% of what the strategies earned *)
(* and of the tokens they bought for liquidity and swept up later: nothing  *)
(* else ever counts as a rise, and nothing counts twice.                    *)
FeesWithinGains ==
    harvestFees * BPS_DENOMINATOR <= (gained + unplaced) * MAX_PERFORMANCE_FEE_BPS

(* vault/README.md, Security: "Strategy upgrade: full withdraw from old     *)
(* strategy before setting new one": a strategy that is replaced holds      *)
(* nothing of the vault any more.                                           *)
FullWithdrawOnUpgrade ==
    [][strategyActive /\ strategy' # strategy => Balance(book'[strategy]) = 0]_vars
=============================================================================
