---------------------------- MODULE EconomyProofs ----------------------------
(***************************************************************************)
(* Theorems about the strategy and the agent contracts, for any users,     *)
(* tokens, strategies, agents, prices, durations and rates.                *)
(*                                                                         *)
(* There are two invariants.  EInv knows of balances only that they are    *)
(* integers: it is about tokens, listings, rates, periods and locks.  MInv *)
(* stands on it and is about money: nobody is overdrawn, and every         *)
(* contract holds what it owes.                                            *)
(***************************************************************************)
EXTENDS TokenEconomy, LedgerProofs

Ledgers == LedgersOver(Assets, Accounts)

USE DEF Ledgers

TokenType == [strategy : Strategies, creator : Users, version : 1..MaxVersion, owner : Users]
ClaimType == [Accounts -> [Tokens -> Nat]]
ListingType == [seller : Users \cup {Zero}, token : Tokens \cup {Zero}, price : Nat]
RegisteredType(n) == [creator : Users \cup {Zero}, version : 0..MaxVersion, id : 0..n]

-----------------------------------------------------------------------------
(* The inductive invariant, one part per group of variables.                *)
LedgerOK == now \in Times /\ bal \in Ledgers

(* Tokens and strategies point at each other, and the last token belongs to *)
(* the strategy whose registration has not returned, at version 1.          *)
TokensOK ==
    /\ nft \in Seq(TokenType) /\ early \subseteq Strategies
    /\ registered \in [Strategies -> RegisteredType(Len(nft))]
    /\ \A s \in Strategies :
          /\ registered[s].creator # Zero => registered[s].version # 0
          /\ registered[s].version # 0 /\ registered[s].id = 0 =>
                Len(nft) # 0 /\ nft[Len(nft)].strategy = s
          /\ registered[s].id # 0 => nft[registered[s].id].strategy = s
    /\ \A id \in Minted : registered[nft[id].strategy].id = 0 => nft[id].version = 1
    /\ VersionsAgree

ListingsOK ==
    /\ listings \in [Ids -> ListingType]
    /\ \A id \in Ids : listings[id].seller # Zero => id \in Minted /\ listings[id].token \in Tokens
    /\ royaltyBps \in 0..MAX_ROYALTY_BPS

RoyaltiesOK == split \in Nat \X Nat \X Nat /\ SplitAllowed(split) /\ royalties \in ClaimType

(* What is left of a subscription: the times at which its holder may still  *)
(* execute.                                                                 *)
Left(e, s) == IF e > now THEN e - now - (IF now \in s THEN 1 ELSE 0) ELSE 0

PeriodOK(u, id) ==
    /\ served[u][id] \in SUBSET (0..now) /\ IsFiniteSet(served[u][id])
    /\ Cardinality(served[u][id]) + Left(expiry[u][id], served[u][id]) <= bought[u][id]

PeriodsOK ==
    /\ expiry \in [Users -> [Ids -> Nat]] /\ bought \in [Users -> [Ids -> Nat]]
    /\ served \in [Users -> [Ids -> SUBSET Times]]
    /\ \A u \in Users, id \in Ids : PeriodOK(u, id)

(* No deposit is later than the one a stake's lock is counted from.         *)
StakesOK ==
    /\ stakes \in [Agents -> [Users -> [amount : Nat, since : Times]]]
    /\ deposits \in [Agents -> [Users -> SUBSET Times]]
    /\ \A a \in Agents, u \in Users : \A t \in deposits[a][u] : t <= stakes[a][u].since /\ t <= now
    /\ lockPeriod \in Nat

RevenueOK == agentSplit \in Nat \X Nat /\ AgentSplitAllowed(agentSplit) /\ revenues \in ClaimType

EInv == LedgerOK /\ TokensOK /\ ListingsOK /\ RoyaltiesOK /\ PeriodsOK /\ StakesOK /\ RevenueOK

-----------------------------------------------------------------------------
(* The claims.                                                              *)

(* A share of an amount is a natural number.                                *)
LEMMA ShareNat ==
    ASSUME NEW n \in Nat, NEW bps \in Nat
    PROVE  Share(n, bps) \in Nat
<1>1. n * bps \in Nat
  OBVIOUS
<1>2. \A x \in Nat : x \div 10000 \in Nat
  OBVIOUS
<1> QED BY <1>1, <1>2 DEF Share, BPS_DENOMINATOR

(* A credit keeps what is owed well typed,                                  *)
LEMMA CreditedType ==
    ASSUME NEW c \in ClaimType, NEW a, NEW t, NEW n \in Nat
    PROVE  Credited(c, a, t, n) \in ClaimType
<1>1. CASE a \in Accounts
  <2>1. c[a] \in [Tokens -> Nat]
    BY <1>1 DEF ClaimType
  <2>2. [c[a] EXCEPT ![t] = @ + n] \in [Tokens -> Nat]
    <3>1. CASE t \in Tokens
      <4>1. c[a][t] + n \in Nat
        BY <2>1, <3>1
      <4> QED BY <2>1, <3>1, <4>1
    <3>2. CASE t \notin Tokens
      BY <2>1, <3>2
    <3> QED BY <3>1, <3>2
  <2> QED BY <1>1, <2>2 DEF Credited, ClaimType
<1>2. CASE a \notin Accounts
  BY <1>2 DEF Credited, ClaimType
<1> QED BY <1>1, <1>2

(* and so does a claim,                                                     *)
LEMMA ClaimedType ==
    ASSUME NEW c \in ClaimType, NEW a, NEW t
    PROVE  Claimed(c, a, t) \in ClaimType
<1>1. CASE a \in Accounts
  <2>1. [c[a] EXCEPT ![t] = 0] \in [Tokens -> Nat]
    BY <1>1 DEF ClaimType
  <2> QED BY <1>1, <2>1 DEF Claimed, ClaimType
<1>2. CASE a \notin Accounts
  BY <1>2 DEF Claimed, ClaimType
<1> QED BY <1>1, <1>2

(* a royalty that is split,                                                 *)
LEMMA SharedOutType ==
    ASSUME RoyaltiesOK, NEW t, NEW c, NEW a, NEW n \in Nat
    PROVE  SharedOut(t, c, a, n) \in ClaimType
<1>1. split[1] \in Nat /\ split[2] \in Nat /\ split[3] \in Nat
  BY DEF RoyaltiesOK
<1>2. Share(n, split[1]) \in Nat /\ Share(n, split[2]) \in Nat /\ Share(n, split[3]) \in Nat
  BY <1>1, ShareNat
<1> DEFINE one == Credited(royalties, c, t, Share(n, split[1]))
           two == Credited(one, protocolTreasury, t, Share(n, split[2]))
           three == Credited(two, a, t, Share(n, split[3]))
<1>3. one \in ClaimType
  BY <1>2, CreditedType DEF RoyaltiesOK
<1>4. two \in ClaimType
  <2> HIDE DEF one
  <2> QED BY <1>2, <1>3, CreditedType
<1>5. three \in ClaimType
  <2> HIDE DEF two
  <2> QED BY <1>2, <1>4, CreditedType
<1> QED BY <1>4, <1>5 DEF SharedOut

(* and revenue that is shared.                                              *)
LEMMA RevenueSharedType ==
    ASSUME RevenueOK, NEW a, NEW t, NEW n \in Nat
    PROVE  RevenueShared(a, t, n) \in ClaimType
<1>1. Share(n, agentSplit[1]) \in Nat /\ Share(n, agentSplit[2]) \in Nat
  BY ShareNat DEF RevenueOK
<1> DEFINE one == Credited(revenues, agents[a].creator, t, Share(n, agentSplit[1]))
<1>2. one \in ClaimType
  BY <1>1, CreditedType DEF RevenueOK
<1>3. Credited(one, agentTreasury, t, Share(n, agentSplit[2])) \in ClaimType
  <2> HIDE DEF one
  <2> QED BY <1>1, <1>2, CreditedType
<1> QED BY <1>3 DEF RevenueShared
-----------------------------------------------------------------------------
(* Parts whose variables a step leaves alone.                               *)
LEMMA LedgerStands == LedgerOK /\ UNCHANGED <<bal, now>> => LedgerOK'
BY DEF LedgerOK
(* Steps that leave a part of the state alone keep its part of the          *)
(* invariant: tokens,                                                       *)
LEMMA TokensStand == TokensOK /\ UNCHANGED <<nft, registered, early>> => TokensOK'
BY DEF TokensOK, VersionsAgree, Minted
(* listings,                                                                *)
LEMMA ListingsStand ==
    ListingsOK /\ UNCHANGED <<listings, royaltyBps>> /\ Len(nft') = Len(nft) => ListingsOK'
BY DEF ListingsOK, Minted
(* royalties,                                                               *)
LEMMA RoyaltiesStand == RoyaltiesOK /\ UNCHANGED <<split, royalties>> => RoyaltiesOK'
BY DEF RoyaltiesOK, SplitAllowed
(* subscription periods,                                                    *)
LEMMA PeriodsStand == PeriodsOK /\ UNCHANGED <<periodVars, now>> => PeriodsOK'
BY DEF PeriodsOK, PeriodOK, Left, periodVars
(* stakes,                                                                  *)
LEMMA StakesStand == StakesOK /\ UNCHANGED <<stakes, deposits, lockPeriod, now>> => StakesOK'
BY DEF StakesOK
(* agents' revenue.                                                         *)
LEMMA RevenueStand == RevenueOK /\ UNCHANGED <<agentSplit, revenues>> => RevenueOK'
BY DEF RevenueOK, AgentSplitAllowed

-----------------------------------------------------------------------------
(* Tokens, strategies and listings.                                         *)

(* A token as its fields, and what TokensOK says of it.                     *)
LEMMA TokenFields ==
    ASSUME TokensOK, NEW id \in Minted
    PROVE  LET s == nft[id].strategy IN
           /\ nft[id] \in TokenType /\ s \in Strategies
           /\ nft[id].creator \in Users /\ nft[id].owner \in Users
           /\ registered[s].id = id \/ (registered[s].id = 0 /\ id = Len(nft))
           /\ registered[s].creator = nft[id].creator
           /\ nft[id].version = IF s \in early THEN 1 ELSE registered[s].version
           /\ registered[s].id = 0 => nft[id].version = 1
           /\ registered[s].version # 0
<1>1. nft[id] \in TokenType
  BY DEF TokensOK, Minted
<1>2. nft[id].creator # Zero
  BY <1>1, ChainAssumption DEF TokenType
<1> QED BY <1>1, <1>2 DEF TokensOK, VersionsAgree, TokenType

(* A token that only changes hands.                                         *)
LEMMA HandedOn ==
    ASSUME TokensOK, NEW id \in Minted, NEW to \in Users,
           nft' = [nft EXCEPT ![id].owner = to], UNCHANGED <<registered, early>>
    PROVE  TokensOK' /\ Len(nft') = Len(nft)
<1> DEFINE t == [nft[id] EXCEPT !.owner = to]
<1>1. nft[id] \in TokenType /\ id \in DOMAIN nft /\ nft \in Seq(TokenType)
  BY TokenFields DEF TokensOK, Minted
<1>2. t \in TokenType /\ t.strategy = nft[id].strategy /\ t.creator = nft[id].creator
      /\ t.version = nft[id].version
  BY <1>1 DEF TokenType
<1>3. nft' = [nft EXCEPT ![id] = t]
  OBVIOUS
<1> HIDE DEF t
<1>4. nft' \in Seq(TokenType) /\ Len(nft') = Len(nft) /\ nft'[id] = t
      /\ \A j \in Minted : j # id => nft'[j] = nft[j]
  BY <1>1, <1>2, <1>3 DEF Minted
<1>5. \A j \in Minted : /\ nft'[j].strategy = nft[j].strategy /\ nft'[j].creator = nft[j].creator
                        /\ nft'[j].version = nft[j].version
  BY <1>2, <1>4
<1>6. \A s \in Strategies : registered[s].id # 0 => registered[s].id \in Minted
  BY DEF TokensOK, RegisteredType, Minted
<1>7. Len(nft) \in Nat /\ (Len(nft) # 0 => Len(nft) \in Minted)
  BY <1>1 DEF Minted
<1> QED BY <1>4, <1>5, <1>6, <1>7 DEF TokensOK, VersionsAgree, Minted

(* A registration mints a token, which its strategy does not point at yet.  *)
LEMMA RegisterTokens ==
    ASSUME TokensOK, NEW s \in Strategies, NEW u \in Users, Register(s, u)
    PROVE  TokensOK'
<1> DEFINE t == [strategy |-> s, creator |-> u, version |-> 1, owner |-> u]
           r == [creator |-> u, version |-> 1, id |-> 0]
<1>0. Len(nft) \in Nat /\ 1 \in 1..MaxVersion /\ 1 \in 0..MaxVersion
  BY MarketAssumption DEF TokensOK
<1>1. t \in TokenType /\ nft' = Append(nft, t) /\ registered' = [registered EXCEPT ![s] = r]
      /\ early' = early
  BY <1>0 DEF Register, TokenType
<1>2. /\ nft' \in Seq(TokenType) /\ Len(nft') = Len(nft) + 1 /\ nft'[Len(nft) + 1] = t
      /\ \A id \in 1..Len(nft) : nft'[id] = nft[id]
  BY <1>1 DEF TokensOK
<1>3. r \in RegisteredType(Len(nft) + 1)
  BY <1>0 DEF RegisteredType
<1>4. \A x \in Strategies : registered[x] \in RegisteredType(Len(nft) + 1)
  BY <1>0 DEF TokensOK, RegisteredType
<1>5. t.strategy = s /\ t.creator = u /\ t.version = 1 /\ r.id = 0 /\ r.creator = u /\ r.version = 1
  OBVIOUS
<1> HIDE DEF t, r
<1>6. registered' \in [Strategies -> RegisteredType(Len(nft'))]
  BY <1>1, <1>2, <1>3, <1>4 DEF TokensOK
<1>7. registered'[s] = r /\ \A x \in Strategies : x # s => registered'[x] = registered[x]
  BY <1>1 DEF TokensOK
<1>8. \A x \in Strategies : registered[x].id # 0 => registered[x].id \in 1..Len(nft)
  BY DEF TokensOK, RegisteredType
<1>9. /\ registered[s].id = 0
      /\ \A x \in Strategies : registered[x].version \in Nat /\ (registered[x].version = 0 \/ registered[x].id # 0)
  <2>1. \A x \in Strategies : registered[x].version \in Nat
    BY DEF TokensOK, RegisteredType
  <2> QED BY <2>1 DEF Register, Minting
<1>10. \A x \in Strategies :
          /\ registered'[x].creator # Zero => registered'[x].version # 0
          /\ registered'[x].version # 0 /\ registered'[x].id = 0 =>
                Len(nft') # 0 /\ nft'[Len(nft')].strategy = x
          /\ registered'[x].id # 0 => nft'[registered'[x].id].strategy = x
  BY <1>0, <1>2, <1>5, <1>7, <1>8, <1>9 DEF TokensOK
<1>11. ASSUME NEW id \in 1..(Len(nft) + 1)
       PROVE  LET x == nft'[id].strategy IN
              /\ registered'[x].id = 0 => nft'[id].version = 1
              /\ registered'[x].id = id \/ (registered'[x].id = 0 /\ id = Len(nft'))
              /\ registered'[x].creator = nft'[id].creator
              /\ nft'[id].version = IF x \in early' THEN 1 ELSE registered'[x].version
  <2>1. CASE id = Len(nft) + 1
    BY <2>1, <1>2, <1>5, <1>7
  <2>2. CASE id # Len(nft) + 1
    <3>1. id \in Minted /\ nft'[id] = nft[id]
      BY <2>2, <1>0, <1>2 DEF Minted
    <3>2. /\ nft[id].strategy \in Strategies /\ registered[nft[id].strategy].id = id /\ id # 0
      BY <3>1, <1>0, <1>9, TokenFields DEF Minted
    <3>3. nft[id].strategy # s
      BY <3>2, <1>9
    <3> QED BY <3>1, <3>2, <3>3, <1>1, <1>7, TokenFields
  <2> QED BY <2>1, <2>2
<1>12. Minted' = 1..(Len(nft) + 1)
  BY <1>2 DEF Minted
<1>13. VersionsAgree' /\ \A id \in Minted' : registered'[nft'[id].strategy].id = 0 => nft'[id].version = 1
  BY <1>11, <1>12 DEF VersionsAgree
<1>14. early' \subseteq Strategies
  BY <1>1 DEF TokensOK
<1> QED BY <1>2, <1>6, <1>10, <1>13, <1>14 DEF TokensOK

(* When it returns, it does.                                                *)
LEMMA ReturnTokens ==
    ASSUME TokensOK, NEW s \in Strategies, RegisterReturns(s)
    PROVE  TokensOK'
<1> DEFINE n == Len(nft)
           r == [registered[s] EXCEPT !.id = n]
<1>1. registered[s] \in RegisteredType(n) /\ registered[s].version # 0 /\ registered[s].id = 0 /\ n \in Nat
  BY DEF RegisterReturns, TokensOK, RegisteredType
<1>2. n # 0 /\ nft[n].strategy = s /\ n \in Minted
  BY <1>1 DEF TokensOK, Minted
<1>3. /\ r \in RegisteredType(n) /\ r.id = n /\ r.version = registered[s].version
      /\ r.creator = registered[s].creator
  BY <1>1 DEF RegisteredType
<1>4. registered' = [registered EXCEPT ![s] = r] /\ nft' = nft /\ early' = early
  BY DEF RegisterReturns
<1> HIDE DEF r
<1>5. registered' \in [Strategies -> RegisteredType(n)] /\ registered'[s] = r
      /\ \A x \in Strategies : x # s => registered'[x] = registered[x]
  BY <1>3, <1>4 DEF TokensOK
<1>6. \A x \in Strategies :
         /\ registered'[x].creator # Zero => registered'[x].version # 0
         /\ registered'[x].version # 0 /\ registered'[x].id = 0 => n # 0 /\ nft[n].strategy = x
         /\ registered'[x].id # 0 => nft[registered'[x].id].strategy = x
  BY <1>1, <1>2, <1>3, <1>5 DEF TokensOK
<1>7. ASSUME NEW id \in Minted
      PROVE  LET x == nft[id].strategy IN
             /\ registered'[x].id = 0 => nft[id].version = 1
             /\ registered'[x].id = id \/ (registered'[x].id = 0 /\ id = n)
             /\ registered'[x].creator = nft[id].creator
             /\ nft[id].version = IF x \in early THEN 1 ELSE registered'[x].version
  <2>1. CASE nft[id].strategy = s
    <3>1. id = n
      BY <2>1, <1>1, TokenFields DEF Minted
    <3> QED BY <2>1, <3>1, <1>2, <1>3, <1>5, TokenFields
  <2>2. CASE nft[id].strategy # s
    BY <2>2, <1>5, TokenFields
  <2> QED BY <2>1, <2>2
<1> QED BY <1>4, <1>5, <1>6, <1>7 DEF TokensOK, VersionsAgree, Minted

(* An upgrade moves the version in registry and token together, unless the  *)
(* token's id is not stored yet.                                            *)
LEMMA UpgradeTokens ==
    ASSUME TokensOK, NEW u \in Users, NEW s \in Strategies, NEW v \in 1..MaxVersion,
           UpgradeStrategy(u, s, v)
    PROVE  TokensOK' /\ Len(nft') = Len(nft)
<1> DEFINE id == registered[s].id
           t == [nft[id] EXCEPT !.version = v]
           r == [registered[s] EXCEPT !.version = v]
<1>0. u # Zero /\ v # 0
  BY ChainAssumption, MarketAssumption
<1>1. /\ r \in RegisteredType(Len(nft)) /\ r.id = id /\ r.version = v /\ r.creator = registered[s].creator
      /\ registered[s].version # 0
  <2>1. registered[s] \in RegisteredType(Len(nft)) /\ v \in 0..MaxVersion
    BY MarketAssumption DEF TokensOK
  <2> QED BY <2>1, <1>0 DEF RegisteredType, UpgradeStrategy, TokensOK
<1>2. registered' = [registered EXCEPT ![s] = r]
  BY DEF UpgradeStrategy
<1> HIDE DEF r
<1>3. registered' \in [Strategies -> RegisteredType(Len(nft))] /\ registered'[s] = r
      /\ \A x \in Strategies : x # s => registered'[x] = registered[x]
  BY <1>1, <1>2 DEF TokensOK
<1>4. CASE id = 0
  <2>1. nft' = nft /\ early' = early \cup {s}
    BY <1>4 DEF UpgradeStrategy
  <2>2. \A x \in Strategies :
           /\ registered'[x].creator # Zero => registered'[x].version # 0
           /\ registered'[x].version # 0 /\ registered'[x].id = 0 => Len(nft) # 0 /\ nft[Len(nft)].strategy = x
           /\ registered'[x].id # 0 => nft[registered'[x].id].strategy = x
    BY <1>0, <1>1, <1>3, <1>4 DEF TokensOK
  <2>3. ASSUME NEW j \in Minted
        PROVE  LET x == nft[j].strategy IN
               /\ registered'[x].id = 0 => nft[j].version = 1
               /\ registered'[x].id = j \/ (registered'[x].id = 0 /\ j = Len(nft))
               /\ registered'[x].creator = nft[j].creator
               /\ nft[j].version = IF x \in early' THEN 1 ELSE registered'[x].version
    <3>1. CASE nft[j].strategy = s
      BY <3>1, <2>1, <1>1, <1>3, <1>4, TokenFields
    <3>2. CASE nft[j].strategy # s
      BY <3>2, <2>1, <1>3, TokenFields
    <3> QED BY <3>1, <3>2
  <2>4. early' \subseteq Strategies
    BY <2>1 DEF TokensOK
  <2> QED BY <2>1, <2>2, <2>3, <2>4, <1>3 DEF TokensOK, VersionsAgree, Minted
<1>5. CASE id # 0
  <2>1. id \in Minted /\ nft[id].strategy = s
    BY <1>5 DEF TokensOK, RegisteredType, Minted
  <2>2. nft[id] \in TokenType /\ nft \in Seq(TokenType) /\ id \in DOMAIN nft
    BY <2>1, TokenFields DEF TokensOK, Minted
  <2>3. t \in TokenType /\ t.strategy = s /\ t.creator = nft[id].creator /\ t.version = v
    BY <2>1, <2>2 DEF TokenType
  <2>4. nft' = [nft EXCEPT ![id] = t] /\ early' = early \ {s}
    BY <1>5 DEF UpgradeStrategy
  <2> HIDE DEF t, id
  <2>5. nft' \in Seq(TokenType) /\ Len(nft') = Len(nft) /\ nft'[id] = t
        /\ \A j \in Minted : j # id => nft'[j] = nft[j]
    BY <2>2, <2>3, <2>4 DEF Minted
  <2>6. \A x \in Strategies : registered[x].id # 0 => registered[x].id \in Minted
    BY DEF TokensOK, RegisteredType, Minted
  <2>7. \A j \in Minted : nft'[j].strategy = nft[j].strategy
    BY <2>1, <2>3, <2>5
  <2>8. Len(nft) \in Nat /\ (Len(nft) # 0 => Len(nft) \in Minted)
    BY <2>2 DEF Minted
  <2>9. \A x \in Strategies :
           /\ registered'[x].creator # Zero => registered'[x].version # 0
           /\ registered'[x].version # 0 /\ registered'[x].id = 0 =>
                 Len(nft) # 0 /\ nft'[Len(nft)].strategy = x
           /\ registered'[x].id # 0 => nft'[registered'[x].id].strategy = x
    BY <1>0, <1>1, <1>3, <1>5, <2>6, <2>7, <2>8 DEF TokensOK, id
  <2>10. ASSUME NEW j \in Minted
         PROVE  LET x == nft'[j].strategy IN
                /\ registered'[x].id = 0 => nft'[j].version = 1
                /\ registered'[x].id = j \/ (registered'[x].id = 0 /\ j = Len(nft))
                /\ registered'[x].creator = nft'[j].creator
                /\ nft'[j].version = IF x \in early' THEN 1 ELSE registered'[x].version
    <3>1. CASE j = id
      BY <3>1, <1>1, <1>3, <1>5, <2>1, <2>3, <2>4, <2>5, TokenFields DEF id
    <3>2. CASE j # id
      <4>1. nft[j].strategy # s
        BY <3>2, <1>5, TokenFields DEF id
      <4> QED BY <3>2, <4>1, <1>3, <2>4, <2>5, TokenFields
    <3> QED BY <3>1, <3>2
  <2>11. early' \subseteq Strategies
    BY <2>4 DEF TokensOK
  <2>12. Minted' = Minted
    BY <2>5 DEF Minted
  <2> QED BY <2>5, <2>9, <2>10, <2>11, <2>12, <1>3 DEF TokensOK, VersionsAgree
<1> QED BY <1>4, <1>5

(* A royalty is at most a quarter of the price.                             *)
LEMMA ListingRoyalty ==
    ASSUME ListingsOK, NEW id \in Ids
    PROVE  /\ listings[id].price \in Nat
           /\ RoyaltyInfo(listings[id].price) \in Nat
           /\ 4 * RoyaltyInfo(listings[id].price) <= listings[id].price
<1> DEFINE p == listings[id].price
<1>1. p \in Nat /\ royaltyBps \in Nat /\ royaltyBps <= 2500
  BY DEF ListingsOK, ListingType, MAX_ROYALTY_BPS
<1>2. \A x, r \in Nat : r <= 2500 => x * r <= x * 2500 /\ x * r \in Nat
  <2> TAKE x, r \in Nat
  <2> HAVE r <= 2500
  <2>1. \A y, z \in Nat : y * z >= 0 /\ y * z \in Int
    OBVIOUS
  <2>2. 2500 - r \in Nat /\ x * 2500 - x * r = x * (2500 - r)
    OBVIOUS
  <2> QED BY <2>1, <2>2
<1>3. \A x, y \in Nat : x <= y * 2500 => 4 * (x \div 10000) <= y /\ x \div 10000 \in Nat
  OBVIOUS
<1> HIDE DEF p
<1>4. p * royaltyBps \in Nat /\ p * royaltyBps <= p * 2500
  BY <1>1, <1>2
<1>5. 4 * Share(p, royaltyBps) <= p /\ Share(p, royaltyBps) \in Nat
  BY <1>1, <1>3, <1>4 DEF Share, BPS_DENOMINATOR
<1> QED BY <1>1, <1>5 DEF RoyaltyInfo, p

(* Steps that write a listing, or none.                                     *)
LEMMA ListingWritten ==
    ASSUME ListingsOK, NEW id, NEW l \in ListingType,
           l.seller # Zero => id \in Minted /\ l.token \in Tokens,
           listings' = [listings EXCEPT ![id] = l], UNCHANGED royaltyBps, Len(nft') = Len(nft)
    PROVE  ListingsOK'
<1>1. listings' \in [Ids -> ListingType]
  BY DEF ListingsOK
<1>2. \A j \in Ids : j # id => listings'[j] = listings[j]
  BY DEF ListingsOK
<1>3. id \in Ids => listings'[id] = l
  BY DEF ListingsOK
<1>4. Minted' = Minted
  BY DEF Minted
<1> QED BY <1>1, <1>2, <1>3, <1>4 DEF ListingsOK

(* No listing is a listing of nobody.                                       *)
LEMMA UnlistedType == Unlisted \in ListingType /\ Unlisted.seller = Zero
BY DEF Unlisted, ListingType

(* More tokens do not disturb a listing.                                    *)
LEMMA ListingsGrow ==
    ASSUME ListingsOK, TokensOK, TokensOK', UNCHANGED <<listings, royaltyBps>>, Len(nft') = Len(nft) + 1
    PROVE  ListingsOK'
<1>1. Minted \subseteq Minted'
  BY DEF Minted, TokensOK
<1> QED BY <1>1 DEF ListingsOK

-----------------------------------------------------------------------------
(* Subscriptions.                                                           *)

(* What a good period says, and that it is counted in natural numbers.      *)
LEMMA PeriodFacts ==
    ASSUME PeriodsOK, LedgerOK, NEW u \in Users, NEW id \in Ids
    PROVE  /\ now \in Nat /\ expiry[u][id] \in Nat /\ bought[u][id] \in Nat
           /\ served[u][id] \in SUBSET (0..now) /\ IsFiniteSet(served[u][id])
           /\ Cardinality(served[u][id]) \in Nat
           /\ Cardinality(served[u][id]) + Left(expiry[u][id], served[u][id]) <= bought[u][id]
<1>1. now \in Nat
  BY ChainAssumption DEF LedgerOK, Times
<1>2. PeriodOK(u, id)
  BY DEF PeriodsOK
<1> QED BY <1>1, <1>2, FS_CardinalityType DEF PeriodsOK, PeriodOK

(* An extension adds the time that is paid for.                             *)
LEMMA SubscribeKeeps ==
    ASSUME PeriodsOK, LedgerOK, NEW u \in Users, NEW id \in Ids, NEW d \in Nat, d > 0,
           expiry' = [expiry EXCEPT ![u][id] = Extended(expiry[u][id], d)],
           bought' = [bought EXCEPT ![u][id] = bought[u][id] + d],
           UNCHANGED <<served, now>>
    PROVE  PeriodsOK'
<1> DEFINE e2 == Extended(expiry[u][id], d)
           b2 == bought[u][id] + d
<1>1. /\ now \in Nat /\ expiry[u][id] \in Nat /\ bought[u][id] \in Nat
      /\ Cardinality(served[u][id]) \in Nat
      /\ Cardinality(served[u][id]) + Left(expiry[u][id], served[u][id]) <= bought[u][id]
  BY PeriodFacts
<1>2. e2 \in Nat /\ b2 \in Nat
  BY <1>1 DEF Extended
<1>3. Cardinality(served[u][id]) + Left(e2, served[u][id]) <= b2
  <2>1. CASE expiry[u][id] > now
    BY <1>1, <2>1 DEF Left, Extended
  <2>2. CASE ~(expiry[u][id] > now)
    BY <1>1, <2>2 DEF Left, Extended
  <2> QED BY <2>1, <2>2
<1> HIDE DEF e2, b2
<1>4. expiry' = [expiry EXCEPT ![u][id] = e2] /\ bought' = [bought EXCEPT ![u][id] = b2]
  BY DEF e2, b2
<1>5. expiry' \in [Users -> [Ids -> Nat]] /\ bought' \in [Users -> [Ids -> Nat]]
  BY <1>2, <1>4 DEF PeriodsOK
<1>6. ASSUME NEW v \in Users, NEW j \in Ids PROVE PeriodOK(v, j)'
  <2>1. CASE v = u /\ j = id
    <3>1. expiry'[v][j] = e2 /\ bought'[v][j] = b2
      BY <2>1, <1>4 DEF PeriodsOK
    <3> QED BY <2>1, <3>1, <1>3 DEF PeriodsOK, PeriodOK, Left
  <2>2. CASE ~(v = u /\ j = id)
    <3>1. expiry'[v][j] = expiry[v][j] /\ bought'[v][j] = bought[v][j]
      BY <2>2, <1>4 DEF PeriodsOK
    <3> QED BY <3>1 DEF PeriodsOK, PeriodOK, Left
  <2> QED BY <2>1, <2>2
<1> QED BY <1>5, <1>6 DEF PeriodsOK

(* A cancellation only gives time back.                                     *)
LEMMA CancelKeeps ==
    ASSUME PeriodsOK, LedgerOK, NEW u \in Users, NEW id \in Ids,
           expiry' = [expiry EXCEPT ![u][id] = now], UNCHANGED <<bought, served, now>>
    PROVE  PeriodsOK'
<1>1. expiry' \in [Users -> [Ids -> Nat]]
  BY PeriodFacts DEF PeriodsOK
<1>2. ASSUME NEW v \in Users, NEW j \in Ids PROVE PeriodOK(v, j)'
  <2>1. CASE v = u /\ j = id
    <3>1. expiry'[v][j] = now
      BY <2>1 DEF PeriodsOK
    <3>2. Left(now, served[v][j]) = 0
      BY PeriodFacts DEF Left
    <3>3. Left(expiry[v][j], served[v][j]) >= 0
      BY PeriodFacts DEF Left
    <3>4. Cardinality(served[v][j]) <= bought[v][j]
      <4>1. Left(expiry[v][j], served[v][j]) \in Int
        BY PeriodFacts DEF Left
      <4> QED BY <3>3, <4>1, PeriodFacts
    <3>5. Cardinality(served[v][j]) + Left(now, served[v][j]) <= bought[v][j]
      BY <3>2, <3>4, PeriodFacts
    <3> QED BY <3>1, <3>5 DEF PeriodsOK, PeriodOK, Left
  <2>2. CASE ~(v = u /\ j = id)
    <3>1. expiry'[v][j] = expiry[v][j]
      BY <2>2 DEF PeriodsOK
    <3> QED BY <3>1 DEF PeriodsOK, PeriodOK, Left
  <2> QED BY <2>1, <2>2
<1> QED BY <1>1, <1>2 DEF PeriodsOK

(* An execution uses one of the moments that are left, or the present one   *)
(* again.                                                                   *)
LEMMA ServeKeeps ==
    ASSUME PeriodsOK, LedgerOK, NEW u \in Users, NEW id \in Ids, Live(expiry[u][id]),
           served' = [served EXCEPT ![u][id] = served[u][id] \cup {now}],
           UNCHANGED <<expiry, bought, now>>
    PROVE  PeriodsOK'
<1> DEFINE s == served[u][id]
           s2 == s \cup {now}
<1>1. /\ now \in Nat /\ expiry[u][id] \in Nat /\ bought[u][id] \in Nat
      /\ s \in SUBSET (0..now) /\ IsFiniteSet(s) /\ Cardinality(s) \in Nat
      /\ Cardinality(s) + Left(expiry[u][id], s) <= bought[u][id] /\ expiry[u][id] > now
  BY PeriodFacts DEF Live
<1>2. IsFiniteSet(s2) /\ Cardinality(s2) = IF now \in s THEN Cardinality(s) ELSE Cardinality(s) + 1
  <2> HIDE DEF s
  <2>1. CASE now \in s
    <3>1. s2 = s
      BY <2>1
    <3> QED BY <1>1, <2>1, <3>1
  <2>2. CASE now \notin s
    <3>1. IsFiniteSet(s \cup {now}) /\ Cardinality(s \cup {now}) = Cardinality(s) + 1
      BY <1>1, <2>2, FS_AddElement
    <3> QED BY <2>2, <3>1
  <2> QED BY <2>1, <2>2
<1>3. now \in s2 /\ s2 \in SUBSET (0..now) /\ s2 \in SUBSET Times
  BY <1>1 DEF LedgerOK, PeriodsOK
<1> HIDE DEF s, s2
<1>4. Cardinality(s2) + Left(expiry[u][id], s2) <= bought[u][id]
  <2>1. Left(expiry[u][id], s2) = expiry[u][id] - now - 1
    BY <1>1, <1>3 DEF Left
  <2>2. CASE now \in s
    <3>1. Left(expiry[u][id], s) = expiry[u][id] - now - 1
      BY <1>1, <2>2 DEF Left
    <3> QED BY <1>1, <1>2, <2>1, <2>2, <3>1
  <2>3. CASE now \notin s
    <3>1. Left(expiry[u][id], s) = expiry[u][id] - now
      BY <1>1, <2>3 DEF Left
    <3> QED BY <1>1, <1>2, <2>1, <2>3, <3>1
  <2> QED BY <2>2, <2>3
<1>5. served' = [served EXCEPT ![u][id] = s2]
  BY DEF s, s2
<1>6. served' \in [Users -> [Ids -> SUBSET Times]]
  BY <1>3, <1>5 DEF PeriodsOK
<1>7. ASSUME NEW v \in Users, NEW j \in Ids PROVE PeriodOK(v, j)'
  <2>1. CASE v = u /\ j = id
    <3>1. served'[v][j] = s2
      BY <2>1, <1>5 DEF PeriodsOK
    <3> QED BY <2>1, <3>1, <1>2, <1>3, <1>4 DEF PeriodOK, Left
  <2>2. CASE ~(v = u /\ j = id)
    <3>1. served'[v][j] = served[v][j]
      BY <2>2, <1>5 DEF PeriodsOK
    <3> QED BY <3>1 DEF PeriodsOK, PeriodOK, Left
  <2> QED BY <2>1, <2>2
<1> QED BY <1>6, <1>7 DEF PeriodsOK

(* Time goes by: one moment less, used or not.                              *)
LEMMA TickKeeps ==
    ASSUME PeriodsOK, LedgerOK, now' = now + 1, UNCHANGED periodVars
    PROVE  PeriodsOK'
<1>1. ASSUME NEW u \in Users, NEW id \in Ids PROVE PeriodOK(u, id)'
  <2> DEFINE e == expiry[u][id]
             s == served[u][id]
  <2>1. /\ now \in Nat /\ e \in Nat /\ bought[u][id] \in Nat
        /\ s \in SUBSET (0..now) /\ IsFiniteSet(s) /\ Cardinality(s) \in Nat
        /\ Cardinality(s) + Left(e, s) <= bought[u][id]
    BY PeriodFacts
  <2> HIDE DEF e, s
  <2>2. now + 1 \notin s /\ s \in SUBSET (0..(now + 1))
    BY <2>1
  <2>3. Left(e, s)' <= Left(e, s) /\ Left(e, s)' \in Int /\ Left(e, s) \in Int
    <3>1. e' = e /\ s' = s
      BY DEF e, s, periodVars
    <3> QED BY <2>1, <2>2, <3>1 DEF Left
  <2>4. Cardinality(s) + Left(e, s)' <= bought[u][id]
    BY <2>1, <2>3
  <2> QED BY <2>1, <2>2, <2>4 DEF PeriodOK, periodVars, e, s
<1> QED BY <1>1 DEF PeriodsOK, periodVars

-----------------------------------------------------------------------------
(* The strategy contracts' steps.                                           *)
MarketInv == LedgerOK /\ TokensOK /\ ListingsOK /\ RoyaltiesOK /\ PeriodsOK

(* No call stops the clock, and only a purchase moves money and a listing.  *)
LEMMA MarketFrame ==
    ASSUME MarketNext \/ MarketHousekeeping
    PROVE  /\ now' = now
           /\ \/ listings' = listings \/ bal' = bal
              \/ \E u \in Users, id \in Ids, a \in Users \cup {Zero} : Buy(u, id, a)
<1> DEFINE Still == now' = now /\ listings' = listings
<1>1. /\ \A part : Link(part) => Still
      /\ \A on : SetStrategyBinding(on) => Still
      /\ \A s, u : Register(s, u) => Still
      /\ \A s : RegisterReturns(s) => Still
  BY DEF Link, SetStrategyBinding, Register, RegisterReturns
<1>2. /\ \A u, s, v : UpgradeStrategy(u, s, v) => Still
      /\ \A bps : SetRoyaltyBps(bps) => Still
      /\ \A u, id, to : TransferToken(u, id, to) => Still
  BY DEF UpgradeStrategy, SetRoyaltyBps, TransferToken
<1>3. /\ \A u, t, c, a, n : ReceivePayment(u, t, c, a, n) => Still
      /\ \A u, t : ClaimRoyalty(u, t) => Still
      /\ \A a : SetProtocolTreasury(a) => Still
      /\ \A s : SetSplit(s) => Still
  BY DEF ReceivePayment, ClaimRoyalty, SetProtocolTreasury, SetSplit
<1>4. /\ \A u, id, d, t, n : Subscribe(u, id, d, t, n) => Still
      /\ \A u, id : CancelSubscription(u, id) => Still
      /\ \A u, id : ExecuteWithStrategy(u, id) => Still
  BY DEF Subscribe, CancelSubscription, ExecuteWithStrategy
<1>5. /\ \A u, id, t, n : ListToken(u, id, t, n) => now' = now /\ bal' = bal
      /\ \A u, id : CancelListing(u, id) => now' = now /\ bal' = bal
      /\ \A u, id, a : Buy(u, id, a) => now' = now
  BY DEF ListToken, CancelListing, Buy
<1> QED BY <1>1, <1>2, <1>3, <1>4, <1>5 DEF MarketNext, MarketHousekeeping

(* A purchase keeps the market's invariant.                                 *)
LEMMA BuyKeeps ==
    ASSUME MarketInv, NEW u \in Users, NEW id \in Ids, NEW a \in Users \cup {Zero}, Buy(u, id, a)
    PROVE  MarketInv'
<1> DEFINE l == listings[id]
           royalty == RoyaltyInfo(l.price)
           paid == Transfer(bal, l.token, u, marketplace, l.price)
           first == Transfer(paid, l.token, marketplace, distributor, royalty)
<1> USE DEF MarketInv
<1>1. id \in Minted /\ l.price \in Nat /\ royalty \in Nat
  BY ListingRoyalty DEF Buy, ListingsOK
<1>2. LedgerOK'
  <2>1. bal \in Ledgers /\ paid \in Ledgers
    BY <1>1, TransferOK DEF LedgerOK
  <2>2. first \in Ledgers
    <3> HIDE DEF paid, royalty
    <3> QED BY <1>1, <2>1, TransferOK
  <2>3. l.price - royalty \in Int
    BY <1>1
  <2>4. Transfer(first, l.token, marketplace, l.seller, l.price - royalty) \in Ledgers
    <3> HIDE DEF first, royalty
    <3> QED BY <2>2, <2>3, TransferOK
  <2> QED BY <2>4 DEF Buy, LedgerOK
<1>3. TokensOK' /\ Len(nft') = Len(nft)
  BY <1>1, HandedOn DEF Buy
<1>4. ListingsOK'
  BY <1>3, ListingWritten, UnlistedType DEF Buy
<1>5. RoyaltiesOK'
  <2>1. SharedOut(l.token, nft[id].creator, a, royalty) \in ClaimType
    <3> HIDE DEF royalty, l
    <3> QED BY <1>1, SharedOutType
  <2> QED BY <2>1 DEF Buy, RoyaltiesOK, SplitAllowed
<1>6. PeriodsOK'
  BY PeriodsStand DEF Buy
<1> QED BY <1>2, <1>3, <1>4, <1>5, <1>6

(* So does a subscription,                                                  *)
LEMMA SubscribeStep ==
    ASSUME MarketInv, NEW u \in Users, NEW id \in Ids, NEW d \in Durations, NEW t \in Tokens,
           NEW n \in Prices, Subscribe(u, id, d, t, n)
    PROVE  MarketInv'
<1> DEFINE paid == Transfer(bal, t, u, subscriptions, n)
<1> USE DEF MarketInv
<1>1. n \in Nat /\ d \in Nat /\ d > 0
  BY MarketAssumption DEF Subscribe
<1>2. LedgerOK'
  <2>1. paid \in Ledgers
    BY <1>1, TransferOK DEF LedgerOK
  <2>2. Transfer(paid, t, subscriptions, distributor, n) \in Ledgers
    <3> HIDE DEF paid
    <3> QED BY <1>1, <2>1, TransferOK
  <2> QED BY <2>2 DEF Subscribe, LedgerOK
<1>3. TokensOK' /\ ListingsOK'
  BY TokensStand, ListingsStand DEF Subscribe, tokenVars
<1>4. RoyaltiesOK'
  <2>1. SharedOut(t, nft[id].creator, Zero, n) \in ClaimType
    BY <1>1, SharedOutType
  <2> QED BY <2>1 DEF Subscribe, RoyaltiesOK, SplitAllowed
<1>5. PeriodsOK'
  BY <1>1, SubscribeKeeps DEF Subscribe
<1> QED BY <1>2, <1>3, <1>4, <1>5

(* and every step of the market.                                            *)
LEMMA MarketStep ==
    ASSUME MarketInv, MarketNext \/ MarketHousekeeping
    PROVE  MarketInv'
<1> USE DEF MarketInv
<1>1. ASSUME NEW part, Link(part) PROVE MarketInv'
  BY <1>1, LedgerStands, TokensStand, ListingsStand, RoyaltiesStand, PeriodsStand DEF Link, royaltyVars
<1>2. ASSUME NEW on, SetStrategyBinding(on) PROVE MarketInv'
  BY <1>2, LedgerStands, TokensStand, ListingsStand, RoyaltiesStand, PeriodsStand
     DEF SetStrategyBinding, royaltyVars
<1>3. ASSUME NEW s \in Strategies, NEW u \in Users, Register(s, u) PROVE MarketInv'
  <2>1. TokensOK'
    BY <1>3, RegisterTokens
  <2>2. Len(nft') = Len(nft) + 1
    BY <1>3 DEF Register, TokensOK
  <2>3. ListingsOK'
    BY <1>3, <2>1, <2>2, ListingsGrow DEF Register
  <2> QED BY <1>3, <2>1, <2>3, LedgerStands, RoyaltiesStand, PeriodsStand DEF Register, royaltyVars
<1>17. ASSUME NEW s \in Strategies, RegisterReturns(s) PROVE MarketInv'
  <2>1. TokensOK'
    BY <1>17, ReturnTokens
  <2> QED BY <1>17, <2>1, LedgerStands, ListingsStand, RoyaltiesStand, PeriodsStand
          DEF RegisterReturns, royaltyVars
<1>4. ASSUME NEW a \in Accounts, NEW t \in Tokens, ClaimRoyalty(a, t) PROVE MarketInv'
  <2>1. royalties[a][t] \in Nat
    BY DEF RoyaltiesOK, ClaimType
  <2>2. RoyaltiesOK'
    BY <1>4, ClaimedType DEF ClaimRoyalty, RoyaltiesOK, SplitAllowed
  <2>3. LedgerOK'
    BY <1>4, <2>1, TransferOK DEF ClaimRoyalty, LedgerOK
  <2> QED BY <1>4, <2>2, <2>3, TokensStand, ListingsStand, PeriodsStand DEF ClaimRoyalty, tokenVars
<1>5. ASSUME NEW u \in Users, NEW id \in Ids, CancelListing(u, id) PROVE MarketInv'
  <2>1. ListingsOK'
    BY <1>5, ListingWritten, UnlistedType DEF CancelListing, tokenVars
  <2> QED BY <1>5, <2>1, LedgerStands, TokensStand, RoyaltiesStand, PeriodsStand
          DEF CancelListing, tokenVars, royaltyVars
<1>6. ASSUME NEW u \in Users, NEW id \in Ids, CancelSubscription(u, id) PROVE MarketInv'
  <2>1. PeriodsOK'
    BY <1>6, CancelKeeps DEF CancelSubscription
  <2> QED BY <1>6, <2>1, LedgerStands, TokensStand, ListingsStand, RoyaltiesStand
          DEF CancelSubscription, tokenVars, royaltyVars
<1>7. ASSUME NEW u \in Users, NEW id \in Ids, ExecuteWithStrategy(u, id) PROVE MarketInv'
  <2>1. PeriodsOK'
    BY <1>7, ServeKeeps DEF ExecuteWithStrategy, BindingMet
  <2> QED BY <1>7, <2>1, LedgerStands, TokensStand, ListingsStand, RoyaltiesStand
          DEF ExecuteWithStrategy, tokenVars, royaltyVars
<1>8. ASSUME NEW u \in Users, NEW s \in Strategies, NEW v \in 1..MaxVersion, UpgradeStrategy(u, s, v)
      PROVE  MarketInv'
  <2>1. TokensOK' /\ Len(nft') = Len(nft)
    BY <1>8, UpgradeTokens
  <2> QED BY <1>8, <2>1, LedgerStands, ListingsStand, RoyaltiesStand, PeriodsStand
          DEF UpgradeStrategy, royaltyVars
<1>9. ASSUME NEW bps \in RoyaltyRates, SetRoyaltyBps(bps) PROVE MarketInv'
  <2>1. ListingsOK'
    BY <1>9, MarketAssumption DEF SetRoyaltyBps, ListingsOK, Minted, MAX_ROYALTY_BPS
  <2> QED BY <1>9, <2>1, LedgerStands, TokensStand, RoyaltiesStand, PeriodsStand
          DEF SetRoyaltyBps, royaltyVars
<1>10. ASSUME NEW a, SetProtocolTreasury(a) PROVE MarketInv'
  BY <1>10, LedgerStands, TokensStand, ListingsStand, RoyaltiesStand, PeriodsStand
     DEF SetProtocolTreasury, tokenVars
<1>11. ASSUME NEW x \in Splits, SetSplit(x) PROVE MarketInv'
  <2>1. RoyaltiesOK'
    BY <1>11, MarketAssumption DEF SetSplit, RoyaltiesOK, SplitAllowed
  <2> QED BY <1>11, <2>1, LedgerStands, TokensStand, ListingsStand, PeriodsStand DEF SetSplit, tokenVars
<1>12. ASSUME NEW u \in Users, NEW t \in Tokens, NEW n \in Prices, NEW c, NEW a, ReceivePayment(u, t, c, a, n)
       PROVE  MarketInv'
  <2>1. n \in Nat
    BY MarketAssumption
  <2>2. RoyaltiesOK'
    BY <1>12, <2>1, SharedOutType DEF ReceivePayment, RoyaltiesOK, SplitAllowed
  <2>3. LedgerOK'
    BY <1>12, <2>1, TransferOK DEF ReceivePayment, LedgerOK
  <2> QED BY <1>12, <2>2, <2>3, TokensStand, ListingsStand, PeriodsStand DEF ReceivePayment, tokenVars
<1>13. ASSUME NEW u \in Users, NEW id \in Ids, NEW to \in Users, TransferToken(u, id, to) PROVE MarketInv'
  <2>1. TokensOK' /\ Len(nft') = Len(nft)
    BY <1>13, HandedOn DEF TransferToken
  <2> QED BY <1>13, <2>1, LedgerStands, ListingsStand, RoyaltiesStand, PeriodsStand
          DEF TransferToken, royaltyVars
<1>14. ASSUME NEW u \in Users, NEW id \in Ids, NEW t \in Tokens, NEW n \in Prices, ListToken(u, id, t, n)
       PROVE  MarketInv'
  <2> DEFINE l == [seller |-> u, token |-> t, price |-> n]
  <2>1. l \in ListingType /\ l.token \in Tokens
    BY MarketAssumption DEF ListingType
  <2>2. listings' = [listings EXCEPT ![id] = l] /\ id \in Minted /\ UNCHANGED royaltyBps /\ Len(nft') = Len(nft)
    BY <1>14 DEF ListToken, tokenVars
  <2> HIDE DEF l
  <2>3. ListingsOK'
    BY <2>1, <2>2, ListingWritten
  <2> QED BY <1>14, <2>3, LedgerStands, TokensStand, RoyaltiesStand, PeriodsStand
          DEF ListToken, tokenVars, royaltyVars
<1>15. CASE MarketHousekeeping
  <2>1. Users \cup ProtocolTreasuries \subseteq Accounts
    BY ChainAssumption, MarketAssumption
  <2> QED BY <1>15, <2>1, <1>1, <1>3, <1>4, <1>5, <1>6, <1>7, <1>17 DEF MarketHousekeeping
<1>16. CASE MarketNext
  <2> HIDE DEF MarketInv
  <2> QED BY <1>16, <1>2, <1>8, <1>9, <1>10, <1>11, <1>12, <1>13, <1>14, BuyKeeps, SubscribeStep DEF MarketNext
<1> QED BY <1>15, <1>16

-----------------------------------------------------------------------------
(* The agent contracts' steps.                                              *)
AgentInv == LedgerOK /\ StakesOK /\ RevenueOK

(* A stake is locked from now on.                                           *)
LEMMA StakeKeeps ==
    ASSUME AgentInv, NEW u \in Users, NEW a \in Agents, NEW n \in Payments, Stake(u, a, n)
    PROVE  AgentInv'
<1> DEFINE x == [amount |-> stakes[a][u].amount + n, since |-> now]
<1> USE DEF AgentInv
<1>1. n \in Nat /\ now \in Times
  BY AgentAssumption DEF LedgerOK
<1>2. LedgerOK'
  BY <1>1, TransferOK DEF Stake, LedgerOK
<1>3. x \in [amount : Nat, since : Times]
  BY <1>1 DEF StakesOK
<1>4. x.since = now /\ x.amount = stakes[a][u].amount + n
  OBVIOUS
<1>5. stakes' = [stakes EXCEPT ![a][u] = x] /\ deposits' = [deposits EXCEPT ![a][u] = deposits[a][u] \cup {now}]
      /\ UNCHANGED <<now, lockPeriod, revenueVars>>
  BY DEF Stake, LockedSince, stakeRules
<1> HIDE DEF x
<1>6. stakes' \in [Agents -> [Users -> [amount : Nat, since : Times]]]
  BY <1>3, <1>5 DEF StakesOK
<1>7. deposits' \in [Agents -> [Users -> SUBSET Times]]
  BY <1>1, <1>5 DEF StakesOK
<1>8. ASSUME NEW b \in Agents, NEW v \in Users, NEW t \in deposits'[b][v]
      PROVE  t <= stakes'[b][v].since /\ t <= now
  <2>0. now \in Nat
    BY <1>1, ChainAssumption DEF Times
  <2>1. CASE b = a /\ v = u
    <3>1. stakes'[b][v] = x /\ deposits'[b][v] = deposits[b][v] \cup {now}
      BY <2>1, <1>5 DEF StakesOK
    <3> QED BY <2>0, <2>1, <3>1, <1>4 DEF StakesOK
  <2>2. CASE ~(b = a /\ v = u)
    <3>1. stakes'[b][v] = stakes[b][v] /\ deposits'[b][v] = deposits[b][v]
      BY <2>2, <1>5 DEF StakesOK
    <3> QED BY <3>1 DEF StakesOK
  <2> QED BY <2>1, <2>2
<1>9. StakesOK'
  BY <1>5, <1>6, <1>7, <1>8 DEF StakesOK
<1> QED BY <1>2, <1>5, <1>9, RevenueStand DEF revenueVars

(* A withdrawal of stake keeps what is locked.                              *)
LEMMA UnstakeKeeps ==
    ASSUME AgentInv, NEW u \in Users, NEW a \in Agents, NEW n \in Payments, Unstake(u, a, n)
    PROVE  AgentInv'
<1> DEFINE x == [stakes[a][u] EXCEPT !.amount = stakes[a][u].amount - n]
<1> USE DEF AgentInv
<1>0. stakes[a][u] \in [amount : Nat, since : Times]
  BY DEF StakesOK
<1>1. n \in Nat /\ stakes[a][u].amount - n \in Nat
  BY <1>0, AgentAssumption DEF Unstake
<1>2. LedgerOK'
  BY <1>1, TransferOK DEF Unstake, LedgerOK
<1>3. stakes' = [stakes EXCEPT ![a][u] = x] /\ UNCHANGED <<now, deposits, lockPeriod, revenueVars>>
  BY DEF Unstake, stakeRules
<1>4. x \in [amount : Nat, since : Times] /\ x.since = stakes[a][u].since
  BY <1>0, <1>1
<1> HIDE DEF x
<1>5. stakes' \in [Agents -> [Users -> [amount : Nat, since : Times]]]
  BY <1>3, <1>4 DEF StakesOK
<1>6. ASSUME NEW b \in Agents, NEW v \in Users PROVE stakes'[b][v].since = stakes[b][v].since
  <2>1. CASE b = a /\ v = u
    <3>1. stakes'[b][v] = x
      BY <2>1, <1>3 DEF StakesOK
    <3> QED BY <2>1, <3>1, <1>4
  <2>2. CASE ~(b = a /\ v = u)
    BY <2>2, <1>3 DEF StakesOK
  <2> QED BY <2>1, <2>2
<1>7. StakesOK'
  BY <1>3, <1>5, <1>6 DEF StakesOK
<1> QED BY <1>2, <1>3, <1>7, RevenueStand DEF revenueVars

(* Every step of the agent contracts keeps their invariant.                 *)
LEMMA AgentStep ==
    ASSUME AgentInv, AgentNext \/ AgentHousekeeping
    PROVE  AgentInv'
<1> USE DEF AgentInv
<1>1. ASSUME NEW u, NEW a, RegisterAgent(u, a) PROVE AgentInv'
  BY <1>1, LedgerStands, StakesStand, RevenueStand DEF RegisterAgent, revenueVars, stakeVars, stakeRules
<1>2. ASSUME NEW u, NEW a, CancelAgentSubscription(u, a) PROVE AgentInv'
  BY <1>2, LedgerStands, StakesStand, RevenueStand
     DEF CancelAgentSubscription, revenueVars, stakeVars, stakeRules
<1>3. ASSUME NEW u \in Accounts, NEW t \in Tokens, ClaimRevenue(u, t) PROVE AgentInv'
  <2>1. revenues[u][t] \in Nat
    BY DEF RevenueOK, ClaimType
  <2>2. RevenueOK'
    BY <1>3, ClaimedType DEF ClaimRevenue, RevenueOK, AgentSplitAllowed
  <2>3. LedgerOK'
    BY <1>3, <2>1, TransferOK DEF ClaimRevenue, LedgerOK
  <2> QED BY <1>3, <2>2, <2>3, StakesStand DEF ClaimRevenue, stakeVars, stakeRules
<1>4. ASSUME NEW u, NEW a, NEW on, UpdateAgent(u, a, on) PROVE AgentInv'
  BY <1>4, LedgerStands, StakesStand, RevenueStand DEF UpdateAgent, revenueVars, stakeVars, stakeRules
<1>5. ASSUME NEW u, NEW a, DeactivateAgent(u, a) PROVE AgentInv'
  BY <1>5, LedgerStands, StakesStand, RevenueStand DEF DeactivateAgent, revenueVars, stakeVars, stakeRules
<1>6. ASSUME NEW x \in AgentSplits, SetBps(x) PROVE AgentInv'
  <2>1. RevenueOK'
    BY <1>6, AgentAssumption DEF SetBps, RevenueOK, AgentSplitAllowed
  <2> QED BY <1>6, <2>1, LedgerStands, StakesStand DEF SetBps, stakeVars, stakeRules
<1>7. ASSUME NEW u \in Users, NEW a, NEW t \in Tokens, NEW n \in Payments, ReceiveRevenue(u, a, t, n)
      PROVE  AgentInv'
  <2>1. n \in Nat
    BY AgentAssumption
  <2>2. RevenueOK'
    BY <1>7, <2>1, RevenueSharedType DEF ReceiveRevenue, RevenueOK, AgentSplitAllowed
  <2>3. LedgerOK'
    BY <1>7, <2>1, TransferOK DEF ReceiveRevenue, LedgerOK
  <2> QED BY <1>7, <2>2, <2>3, StakesStand DEF ReceiveRevenue, stakeVars, stakeRules
<1>8. ASSUME NEW u \in Users, NEW a, NEW d, NEW t \in Tokens, NEW n \in Payments,
             SubscribeToAgent(u, a, d, t, n)
      PROVE  AgentInv'
  <2> DEFINE paid == Transfer(bal, t, u, agentSubscriptions, n)
  <2>1. n \in Nat
    BY AgentAssumption
  <2>2. RevenueOK'
    BY <1>8, <2>1, RevenueSharedType DEF SubscribeToAgent, RevenueOK, AgentSplitAllowed
  <2>3. paid \in Ledgers
    BY <2>1, TransferOK DEF LedgerOK
  <2>4. Transfer(paid, t, agentSubscriptions, revenue, n) \in Ledgers
    <3> HIDE DEF paid
    <3> QED BY <2>1, <2>3, TransferOK
  <2>5. LedgerOK'
    BY <1>8, <2>4 DEF SubscribeToAgent, LedgerOK
  <2> QED BY <1>8, <2>2, <2>5, StakesStand DEF SubscribeToAgent, stakeVars, stakeRules
<1>9. ASSUME NEW a, NEW n, SetMinimumStake(a, n) PROVE AgentInv'
  BY <1>9, LedgerStands, StakesStand, RevenueStand DEF SetMinimumStake, revenueVars, stakeVars
<1>10. ASSUME NEW n \in LockPeriods, SetLockPeriod(n) PROVE AgentInv'
  <2>1. StakesOK'
    BY <1>10, AgentAssumption DEF SetLockPeriod, StakesOK, stakeVars
  <2> QED BY <1>10, <2>1, LedgerStands, RevenueStand DEF SetLockPeriod, revenueVars
<1>11. ASSUME NEW a, NEW n, Slash(a, n) PROVE AgentInv'
  BY <1>11, LedgerStands, StakesStand, RevenueStand DEF Slash, revenueVars, stakeRules
<1>12. CASE AgentHousekeeping
  <2>1. Users \cup {agentTreasury} \subseteq Accounts
    BY ChainAssumption, AgentAssumption
  <2> QED BY <1>12, <2>1, <1>1, <1>2, <1>3 DEF AgentHousekeeping
<1>13. CASE AgentNext
  <2> HIDE DEF AgentInv
  <2> QED BY <1>13, <1>4, <1>5, <1>6, <1>7, <1>8, <1>9, <1>10, <1>11, StakeKeeps, UnstakeKeeps DEF AgentNext
<1> QED BY <1>12, <1>13

-----------------------------------------------------------------------------
(* The invariant holds of every behaviour.                                  *)

(* EInv holds at deployment.                                                *)
LEMMA InvInit == Init => EInv
<1> SUFFICES ASSUME Init PROVE EInv
  OBVIOUS
<1> USE DEF Init
<1>1. 0 \in Times
  BY ChainAssumption DEF Times
<1>2. LedgerOK
  <2>1. Funds \in Int
    BY EconomyAssumption
  <2> QED BY <1>1, <2>1 DEF LedgerOK, LedgersOver
<1>3. nft = << >> /\ Len(nft) = 0 /\ Minted = {}
  BY DEF MarketInit, Minted
<1>4. TokensOK
  <2>1. Unregistered \in RegisteredType(0) /\ Unregistered.id = 0 /\ Unregistered.creator = Zero
        /\ Unregistered.version = 0
    BY MarketAssumption DEF Unregistered, RegisteredType
  <2> QED BY <1>3, <2>1 DEF MarketInit, TokensOK, VersionsAgree
<1>5. ListingsOK
  <2>1. royaltyBps \in 0..MAX_ROYALTY_BPS
    BY MarketAssumption DEF MarketInit, MAX_ROYALTY_BPS
  <2> QED BY <2>1, UnlistedType DEF MarketInit, ListingsOK
<1>6. NoClaims \in ClaimType
  BY DEF NoClaims, ClaimType
<1>7. RoyaltiesOK
  BY <1>6, MarketAssumption DEF MarketInit, RoyaltiesOK
<1>8. PeriodsOK
  <2>1. ASSUME NEW u \in Users, NEW id \in Ids PROVE PeriodOK(u, id)
    <3>1. served[u][id] = {} /\ expiry[u][id] = 0 /\ bought[u][id] = 0 /\ now = 0
      BY DEF MarketInit
    <3>2. IsFiniteSet({}) /\ Cardinality({}) = 0
      BY FS_EmptySet
    <3> QED BY <3>1, <3>2 DEF PeriodOK, Left
  <2> QED BY <2>1 DEF MarketInit, PeriodsOK
<1>9. StakesOK
  BY <1>1, AgentAssumption DEF AgentInit, StakesOK
<1>10. RevenueOK
  BY <1>6 DEF AgentInit, RevenueOK, AgentSplitAllowed, MAX_AGENT_BPS, MAX_AGENT_PROTOCOL_BPS, BPS_DENOMINATOR
<1> QED BY <1>2, <1>4, <1>5, <1>7, <1>8, <1>9, <1>10 DEF EInv

(* Every step keeps it.                                                     *)
LEMMA InvNext == EInv /\ [Next]_vars => EInv'
<1> SUFFICES ASSUME EInv, [Next]_vars PROVE EInv'
  OBVIOUS
<1>1. MarketInv /\ AgentInv
  BY DEF EInv, MarketInv, AgentInv
<1>2. CASE (MarketNext \/ MarketHousekeeping) /\ UNCHANGED agentVars
  <2>1. MarketInv'
    BY <1>1, <1>2, MarketStep
  <2>2. UNCHANGED now
    BY <1>2, MarketFrame
  <2>3. StakesOK' /\ RevenueOK'
    BY <1>1, <1>2, <2>2, StakesStand, RevenueStand DEF AgentInv, agentVars, stakeVars, stakeRules, revenueVars
  <2> QED BY <2>1, <2>3 DEF EInv, MarketInv
<1>3. CASE (AgentNext \/ AgentHousekeeping) /\ UNCHANGED marketVars
  <2>1. AgentInv'
    BY <1>1, <1>3, AgentStep
  <2>2. UNCHANGED now
    BY <1>3 DEF AgentNext, AgentHousekeeping, UpdateAgent, Stake, Unstake, ReceiveRevenue, SubscribeToAgent,
                SetBps, DeactivateAgent, SetMinimumStake, Slash, SetLockPeriod, RegisterAgent,
                CancelAgentSubscription, ClaimRevenue
  <2>3. TokensOK' /\ ListingsOK' /\ RoyaltiesOK' /\ PeriodsOK'
    BY <1>1, <1>3, <2>2, TokensStand, ListingsStand, RoyaltiesStand, PeriodsStand
       DEF MarketInv, marketVars, tokenVars, royaltyVars
  <2> QED BY <2>1, <2>3 DEF EInv, AgentInv
<1>4. CASE Tick
  <2>1. now' = now + 1 /\ now' \in Times /\ UNCHANGED <<bal, marketVars, agentVars>>
    BY <1>1, <1>4, ChainAssumption DEF Tick, AdvanceTime, AgentInv, LedgerOK, Times
  <2>2. LedgerOK'
    BY <1>1, <2>1 DEF AgentInv, LedgerOK
  <2>3. TokensOK' /\ ListingsOK' /\ RoyaltiesOK'
    BY <1>1, <2>1, TokensStand, ListingsStand, RoyaltiesStand DEF MarketInv, marketVars, tokenVars, royaltyVars
  <2>4. PeriodsOK'
    BY <1>1, <2>1, TickKeeps DEF MarketInv, marketVars
  <2>5. StakesOK'
    <3>1. \A a \in Agents, u \in Users : \A t \in deposits[a][u] : t <= now + 1
      <4>1. now \in Nat
        BY <1>1, ChainAssumption DEF AgentInv, LedgerOK, Times
      <4>2. \A a \in Agents, u \in Users : \A t \in deposits[a][u] : t \in Nat /\ t <= now
        BY <1>1, ChainAssumption DEF AgentInv, StakesOK, Times
      <4> QED BY <4>1, <4>2
    <3> QED BY <1>1, <2>1, <3>1 DEF AgentInv, StakesOK, agentVars, stakeVars, stakeRules
  <2>6. RevenueOK'
    BY <1>1, <2>1, RevenueStand DEF AgentInv, agentVars, revenueVars
  <2> QED BY <2>2, <2>3, <2>4, <2>5, <2>6 DEF EInv
<1>5. CASE UNCHANGED vars
  BY <1>1, <1>5, LedgerStands, TokensStand, ListingsStand, RoyaltiesStand, PeriodsStand, StakesStand, RevenueStand
     DEF EInv, vars, MarketInv, AgentInv, marketVars, agentVars, tokenVars, royaltyVars, stakeVars, stakeRules,
         revenueVars
<1> QED BY <1>2, <1>3, <1>4, <1>5 DEF Next

(* EInv always holds.                                                       *)
LEMMA Invariance == Spec => []EInv
BY InvInit, InvNext, PTL DEF Spec

-----------------------------------------------------------------------------
(* The router's version check compares two copies that agree, whoever       *)
(* registers, upgrades and hands on what, unless the last upgrade came      *)
(* inside the mint: then the token is at version 1 until the next one.      *)
THEOREM VersionsAlwaysAgree == Spec => []VersionsAgree
<1>1. EInv => VersionsAgree
  BY DEF EInv, TokensOK
<1> QED BY <1>1, Invariance, PTL

(* Nobody executes under a binding at more moments than the time bought:    *)
(* the invariant counts what is left of the subscription as well.           *)
THEOREM NoFreeExecutions == Spec => []TimeIsPaidFor
<1>1. EInv => TimeIsPaidFor
  <2> SUFFICES ASSUME EInv, NEW u \in Users, NEW id \in Ids
               PROVE  Cardinality(served[u][id]) <= bought[u][id]
    BY DEF TimeIsPaidFor
  <2>1. PeriodsOK /\ LedgerOK
    BY DEF EInv
  <2>2. Left(expiry[u][id], served[u][id]) \in Nat
    BY <2>1, PeriodFacts DEF Left
  <2> QED BY <2>1, <2>2, PeriodFacts
<1> QED BY <1>1, Invariance, PTL

(* No token leaves a stake within the lock period of any of its deposits.   *)
THEOREM StakesAreLocked == Spec => LockedStaysIn
<1> DEFINE Locked(a, u) == stakes'[a][u].amount < stakes[a][u].amount =>
                               \A t \in deposits[a][u] : now >= t + lockPeriod
           Step == \A a \in Agents, u \in Users : Locked(a, u)
<1>1. EInv /\ [Next]_vars => [Step]_<<now, agentVars>>
  <2> SUFFICES ASSUME EInv, Next, NEW a \in Agents, NEW u \in Users,
                      stakes'[a][u].amount < stakes[a][u].amount, NEW t \in deposits[a][u]
               PROVE  now >= t + lockPeriod
    BY DEF vars, agentVars
  <2>1. stakes' # stakes
    <3> SUFFICES ASSUME stakes' = stakes PROVE FALSE
      OBVIOUS
    <3>1. stakes[a][u] \in [amount : Nat, since : Times]
      BY DEF EInv, StakesOK
    <3> QED BY <3>1
  <2>2. \/ \E v \in Users, b \in Agents, n \in Payments : Stake(v, b, n)
        \/ \E v \in Users, b \in Agents, n \in Payments : Unstake(v, b, n)
    BY <2>1 DEF Next, Tick, agentVars, stakeVars, MarketNext, AgentNext, AgentHousekeeping, UpdateAgent,
                ReceiveRevenue, SubscribeToAgent, SetBps, DeactivateAgent, SetMinimumStake, Slash,
                SetLockPeriod, RegisterAgent, CancelAgentSubscription, ClaimRevenue
  <2>3. /\ stakes[a][u] \in [amount : Nat, since : Times] /\ t \in Nat /\ t <= stakes[a][u].since
        /\ now \in Nat /\ lockPeriod \in Nat /\ stakes[a][u].since \in Nat
    BY ChainAssumption DEF EInv, StakesOK, LedgerOK, Times
  <2>4. CASE \E v \in Users, b \in Agents, n \in Payments : Stake(v, b, n)
    <3> PICK v \in Users, b \in Agents, n \in Payments : Stake(v, b, n)
      BY <2>4
    <3> DEFINE x == [amount |-> stakes[b][v].amount + n, since |-> LockedSince(b, v)]
    <3>1. stakes' = [stakes EXCEPT ![b][v] = x] /\ x.amount = stakes[b][v].amount + n
      BY DEF Stake
    <3> HIDE DEF x
    <3>2. n \in Nat
      BY AgentAssumption
    <3>3. CASE b = a /\ v = u
      <4>1. stakes'[a][u] = x
        BY <3>1, <3>3 DEF EInv, StakesOK
      <4> QED BY <2>3, <3>1, <3>2, <3>3, <4>1
    <3>4. CASE ~(b = a /\ v = u)
      <4>1. stakes'[a][u] = stakes[a][u]
        BY <3>1, <3>4 DEF EInv, StakesOK
      <4> QED BY <2>3, <4>1
    <3> QED BY <3>3, <3>4
  <2>5. CASE \E v \in Users, b \in Agents, n \in Payments : Unstake(v, b, n)
    <3> PICK v \in Users, b \in Agents, n \in Payments : Unstake(v, b, n)
      BY <2>5
    <3> DEFINE x == [stakes[b][v] EXCEPT !.amount = stakes[b][v].amount - n]
    <3>1. stakes' = [stakes EXCEPT ![b][v] = x] /\ now >= stakes[b][v].since + lockPeriod
      BY DEF Unstake
    <3> HIDE DEF x
    <3>2. CASE b = a /\ v = u
      BY <2>3, <3>1, <3>2
    <3>3. CASE ~(b = a /\ v = u)
      <4>1. stakes'[a][u] = stakes[a][u]
        BY <3>1, <3>3 DEF EInv, StakesOK
      <4> QED BY <2>3, <4>1
    <3> QED BY <3>2, <3>3
  <2> QED BY <2>2, <2>4, <2>5
<1> QED BY <1>1, Invariance, PTL DEF Spec, LockedStaysIn

(* What a purchase moves, whichever account buys.                           *)
LEMMA SaleMoves ==
    ASSUME MarketInv, NEW u \in Users, NEW id \in Ids, NEW a, Buy(u, id, a)
    PROVE  LET l == listings[id]
               royalty == RoyaltyInfo(l.price)
           IN /\ l.price \in Nat /\ royalty \in Nat /\ 4 * royalty <= l.price
              /\ bal \in Ledgers /\ l.token \in Assets /\ l.seller \in Accounts
              /\ u = l.seller => bal'[l.token][u] = bal[l.token][u] - royalty
              /\ u # l.seller => /\ bal'[l.token][l.seller] = bal[l.token][l.seller] + l.price - royalty
                                 /\ bal'[l.token][u] = bal[l.token][u] - l.price
<1> DEFINE l == listings[id]
           p == l.price
           r == RoyaltyInfo(p)
           tok == l.token
           s == l.seller
           paid == Transfer(bal, tok, u, marketplace, p)
           first == Transfer(paid, tok, marketplace, distributor, r)
           last == Transfer(first, tok, marketplace, s, p - r)
<1>1. p \in Nat /\ r \in Nat /\ 4 * r <= p /\ p - r \in Int
  BY ListingRoyalty DEF MarketInv
<1>2. s \in Users /\ tok \in Assets /\ bal \in Ledgers
  BY DEF Buy, MarketInv, ListingsOK, ListingType, LedgerOK, Assets
<1>3. /\ u \in Accounts /\ s \in Accounts /\ marketplace \in Accounts /\ distributor \in Accounts
      /\ u \notin {marketplace, distributor} /\ s \notin {marketplace, distributor}
      /\ marketplace # distributor
  BY <1>2, ChainAssumption, ClaimsAssumption, MarketAssumption
<1>4. bal' = last
  BY DEF Buy
<1> HIDE DEF p, r, tok, s
<1>5. paid \in Ledgers /\ paid[tok][u] = bal[tok][u] - p /\ (s # u => paid[tok][s] = bal[tok][s])
  BY <1>1, <1>2, <1>3, TransferOK
<1> HIDE DEF paid
<1>6. first \in Ledgers /\ first[tok][u] = paid[tok][u] /\ first[tok][s] = paid[tok][s]
  BY <1>1, <1>2, <1>3, <1>5, TransferOK
<1> HIDE DEF first
<1>7. last[tok][s] = first[tok][s] + (p - r) /\ (s # u => last[tok][u] = first[tok][u])
  BY <1>1, <1>2, <1>3, <1>6, TransferOK
<1> HIDE DEF last
<1>8. bal[tok][s] \in Int /\ bal[tok][u] \in Int
  BY <1>2, <1>3 DEF LedgersOver
<1>9. /\ u = s => last[tok][u] = bal[tok][u] - r
      /\ u # s => last[tok][s] = bal[tok][s] + p - r /\ last[tok][u] = bal[tok][u] - p
  BY <1>1, <1>5, <1>6, <1>7, <1>8
<1> QED BY <1>1, <1>2, <1>3, <1>4, <1>9 DEF p, r, tok, s

(* A sale takes the token from the holder who listed it, at the listed      *)
(* price, and at least three quarters of it arrives there.                  *)
THEOREM SalesAreFair == Spec => SoldByItsLister
<1> DEFINE Sold(id) ==
               LET l == listings[id] IN
               (l # listings'[id] /\ listings'[id] = Unlisted /\ bal' # bal) =>
                   /\ nft[id].owner = l.seller
                   /\ LET buyer == nft'[id].owner
                          got == bal'[l.token][l.seller] - bal[l.token][l.seller]
                      IN IF buyer = l.seller THEN got <= 0
                         ELSE /\ 4 * got >= 3 * l.price
                              /\ bal[l.token][buyer] - bal'[l.token][buyer] = l.price
           Step == \A id \in Ids : Sold(id)
<1>1. EInv /\ [Next]_vars => [Step]_<<bal, marketVars>>
  <2> SUFFICES ASSUME EInv, Next, NEW id \in Ids, listings[id] # listings'[id], bal' # bal
               PROVE  /\ nft[id].owner = listings[id].seller
                      /\ LET l == listings[id]
                             buyer == nft'[id].owner
                             got == bal'[l.token][l.seller] - bal[l.token][l.seller]
                         IN IF buyer = l.seller THEN got <= 0
                            ELSE /\ 4 * got >= 3 * l.price
                                 /\ bal[l.token][buyer] - bal'[l.token][buyer] = l.price
    BY DEF vars, marketVars
  <2>1. MarketInv
    BY DEF EInv, MarketInv
  <2>2. \E u \in Users, j \in Ids, a \in Users \cup {Zero} : Buy(u, j, a)
    BY MarketFrame DEF Next, Tick, marketVars
  <2> PICK u \in Users, j \in Ids, a \in Users \cup {Zero} : Buy(u, j, a)
    BY <2>2
  <2>3. j = id
    BY DEF EInv, ListingsOK, Buy
  <2>4. Buy(u, id, a)
    BY <2>3
  <2>5. nft[id].owner = listings[id].seller
    BY <2>4 DEF Buy
  <2>6. nft'[id].owner = u
    <3>1. id \in DOMAIN nft
      BY <2>4 DEF EInv, ListingsOK, TokensOK, Minted, Buy
    <3>2. nft[id] \in TokenType
      BY <3>1 DEF EInv, TokensOK
    <3>3. nft' = [nft EXCEPT ![id] = [nft[id] EXCEPT !.owner = u]]
      BY <2>4 DEF Buy
    <3>4. nft'[id] = [nft[id] EXCEPT !.owner = u]
      BY <3>1, <3>3 DEF EInv, TokensOK
    <3> QED BY <3>2, <3>4 DEF TokenType
  <2> DEFINE l == listings[id]
             royalty == RoyaltyInfo(l.price)
  <2>7. /\ l.price \in Nat /\ royalty \in Nat /\ 4 * royalty <= l.price
        /\ bal[l.token][l.seller] \in Int /\ bal[l.token][u] \in Int
        /\ u = l.seller => bal'[l.token][u] = bal[l.token][u] - royalty
        /\ u # l.seller => /\ bal'[l.token][l.seller] = bal[l.token][l.seller] + l.price - royalty
                           /\ bal'[l.token][u] = bal[l.token][u] - l.price
    BY <2>1, <2>4, SaleMoves, ChainAssumption DEF LedgersOver
  <2> HIDE DEF l, royalty
  <2>8. LET got == bal'[l.token][l.seller] - bal[l.token][l.seller]
        IN IF u = l.seller THEN got <= 0
           ELSE /\ 4 * got >= 3 * l.price
                /\ bal[l.token][u] - bal'[l.token][u] = l.price
    BY <2>7
  <2> QED BY <2>5, <2>6, <2>8 DEF l
<1> QED BY <1>1, Invariance, PTL DEF Spec, SoldByItsLister

-----------------------------------------------------------------------------
(* The money: a second invariant, on top of the first.                      *)

(* What is staked with an agent, and with all of them, by the table of      *)
(* stakes.                                                                  *)
StakeTable == [Agents -> [Users -> [amount : Nat, since : Times]]]
Staked(e, a) == MapThenSumSet(LAMBDA u : e[a][u].amount, Users)
AllStaked(e) == MapThenSumSet(LAMBDA a : Staked(e, a), Agents)

(* Nobody is overdrawn.                                                     *)
Covered == \A s \in Assets, x \in Accounts : bal[s][x] >= 0

StakesBacked == bal[stakingToken][staking] >= AllStaked(stakes)

(* What is staked and not slashed is the total the contract counts down.    *)
SumsOK ==
    /\ totalStake \in [Agents -> Nat] /\ slashed \in [Agents -> Nat]
    /\ \A a \in Agents : Staked(stakes, a) = totalStake[a] + slashed[a]

MInv == Covered /\ RoyaltiesSolvent /\ RevenuesSolvent /\ StakesBacked /\ SumsOK

(* Who is who: the contracts that hold money are different accounts, and    *)
(* no users.                                                                *)
LEMMA Parties ==
    /\ {marketplace, distributor, subscriptions, staking, revenue, agentSubscriptions} \subseteq Accounts
    /\ \A u \in Users : u \notin {marketplace, distributor, subscriptions, staking, revenue, agentSubscriptions}
    /\ marketplace # distributor /\ subscriptions \notin {marketplace, distributor}
    /\ staking # revenue /\ agentSubscriptions \notin {staking, revenue}
    /\ {marketplace, distributor, subscriptions} \cap {staking, revenue, agentSubscriptions} = {}
    /\ Users \subseteq Accounts /\ Tokens \subseteq Assets /\ stakingToken \in Tokens
    /\ Prices \subseteq Nat /\ Payments \subseteq Nat
    /\ IsFiniteSet(Accounts) /\ IsFiniteSet(Users) /\ IsFiniteSet(Agents)
<1>1. IsFiniteSet(Users)
  BY ChainAssumption, FS_Subset
<1>2. Prices \subseteq Nat /\ Payments \subseteq Nat /\ stakingToken \in Tokens /\ IsFiniteSet(Agents)
  BY MarketAssumption, AgentAssumption
<1>3. /\ {marketplace, distributor, subscriptions, staking, revenue, agentSubscriptions} \subseteq Accounts
      /\ \A u \in Users : u \notin {marketplace, distributor, subscriptions, staking, revenue, agentSubscriptions}
  BY ClaimsAssumption, MarketAssumption, AgentAssumption
<1>4. /\ marketplace # distributor /\ subscriptions \notin {marketplace, distributor}
      /\ staking # revenue /\ agentSubscriptions \notin {staking, revenue}
      /\ {marketplace, distributor, subscriptions} \cap {staking, revenue, agentSubscriptions} = {}
  BY MarketAssumption, AgentAssumption, EconomyAssumption
<1>5. Users \subseteq Accounts /\ Tokens \subseteq Assets /\ IsFiniteSet(Accounts)
  BY ChainAssumption DEF Assets
<1> QED BY <1>1, <1>2, <1>3, <1>4, <1>5

-----------------------------------------------------------------------------
(* What is owed.                                                            *)
LEMMA OwedSum ==
    ASSUME NEW c \in ClaimType, NEW t \in Tokens
    PROVE  /\ c \in LedgersOver(Accounts, Tokens)
           /\ Owed(c, t) = ColumnSum(c, t, Accounts) /\ Owed(c, t) \in Nat
           /\ \A a \in Accounts : c[a][t] \in Nat /\ c[a][t] <= Owed(c, t)
<1>1. c \in LedgersOver(Accounts, Tokens) /\ c \in [Accounts -> [Tokens -> Nat]]
  BY DEF ClaimType, LedgersOver
<1>2. Owed(c, t) = ColumnSum(c, t, Accounts)
  BY DEF Owed, ColumnSum, MapThenSumSet, MapThenFoldSet
<1>3. ColumnSum(c, t, Accounts) \in Nat /\ \A a \in Accounts : c[a][t] <= ColumnSum(c, t, Accounts)
  BY <1>1, ColumnNat, Parties
<1> QED BY <1>1, <1>2, <1>3

(* A credit adds at most itself: nothing when it is nobody's.               *)
LEMMA CreditedOwed ==
    ASSUME NEW c \in ClaimType, NEW a, NEW t \in Tokens, NEW n \in Nat, NEW s \in Tokens
    PROVE  /\ Credited(c, a, t, n) \in ClaimType
           /\ Owed(Credited(c, a, t, n), s) <= Owed(c, s) + (IF s = t THEN n ELSE 0)
<1> DEFINE d == Credited(c, a, t, n)
<1>1. d \in ClaimType
  BY CreditedType
<1>2. Owed(c, s) \in Nat
  BY OwedSum
<1>3. CASE a \in Accounts
  <2>1. d = Plus(c, a, t, n)
    BY DEF Credited, Plus
  <2>2. ColumnSum(Plus(c, a, t, n), s, Accounts) = ColumnSum(c, s, Accounts) + (IF s = t THEN n ELSE 0)
    BY <1>3, OwedSum, ColumnPlus, Parties
  <2>3. Owed(d, s) = Owed(c, s) + (IF s = t THEN n ELSE 0)
    <3> HIDE DEF d
    <3> QED BY <1>1, <2>1, <2>2, OwedSum
  <2> HIDE DEF d
  <2> QED BY <1>1, <1>2, <2>3 DEF d
<1>4. CASE a \notin Accounts
  <2>1. d = c
    BY <1>4 DEF Credited, ClaimType
  <2> HIDE DEF d
  <2> QED BY <1>1, <1>2, <2>1 DEF d
<1> QED BY <1>3, <1>4

(* A claim takes from what is owed what the claimer was owed.               *)
LEMMA ClaimedOwed ==
    ASSUME NEW c \in ClaimType, NEW a \in Accounts, NEW t \in Tokens, NEW s \in Tokens
    PROVE  Owed(Claimed(c, a, t), s) = Owed(c, s) - (IF s = t THEN c[a][t] ELSE 0)
<1> DEFINE n == c[a][t]
<1>1. n \in Nat /\ -n \in Int /\ n + (-n) = 0
  BY OwedSum
<1>2. Claimed(c, a, t) = Plus(c, a, t, -n) /\ Claimed(c, a, t) \in ClaimType
  BY <1>1, ClaimedType DEF Claimed, Plus
<1> HIDE DEF n
<1>3. ColumnSum(Plus(c, a, t, -n), s, Accounts) = ColumnSum(c, s, Accounts) + (IF s = t THEN -n ELSE 0)
  BY <1>1, OwedSum, ColumnPlus, Parties
<1>4. Owed(Claimed(c, a, t), s) = Owed(c, s) + (IF s = t THEN -n ELSE 0)
  BY <1>2, <1>3, OwedSum
<1>5. Owed(c, s) \in Nat
  BY OwedSum
<1> QED BY <1>1, <1>4, <1>5 DEF n

(* Shares that make up at most the whole, rounded down, are at most it.     *)
LEMMA SharesFit ==
    ASSUME NEW n \in Nat, NEW p \in Nat, NEW q \in Nat, NEW r \in Nat, p + q + r <= BPS_DENOMINATOR
    PROVE  Share(n, p) + Share(n, q) + Share(n, r) <= n
<1>1. \A x \in Nat : x \div 10000 \in Nat /\ (x \div 10000) * 10000 <= x
  OBVIOUS
<1>2. \A y, z \in Nat : y * z \in Nat
  OBVIOUS
<1>3. n * p \in Nat /\ n * q \in Nat /\ n * r \in Nat
  BY <1>2
<1>4. n * p + n * q + n * r <= n * 10000
  <2>1. 10000 - (p + q + r) \in Nat
    BY DEF BPS_DENOMINATOR
  <2>2. n * (10000 - (p + q + r)) \in Nat
    BY <1>2, <2>1
  <2>3. n * 10000 - (n * p + n * q + n * r) = n * (10000 - (p + q + r))
    OBVIOUS
  <2> QED BY <1>3, <2>2, <2>3
<1> DEFINE x == n * p
           y == n * q
           z == n * r
<1>5. x \in Nat /\ y \in Nat /\ z \in Nat /\ x + y + z <= n * 10000
  BY <1>3, <1>4
<1> HIDE DEF x, y, z
<1>6. (x \div 10000) + (y \div 10000) + (z \div 10000) <= n
  BY <1>1, <1>5
<1> QED BY <1>6 DEF x, y, z, Share, BPS_DENOMINATOR

(* A split royalty adds no more than the royalty to what is owed.           *)
LEMMA SharedOutOwed ==
    ASSUME RoyaltiesOK, NEW t \in Tokens, NEW c, NEW a, NEW n \in Nat, NEW s \in Tokens
    PROVE  /\ SharedOut(t, c, a, n) \in ClaimType
           /\ Owed(SharedOut(t, c, a, n), s) <= Owed(royalties, s) + (IF s = t THEN n ELSE 0)
<1> DEFINE i == Share(n, split[1])
           j == Share(n, split[2])
           k == Share(n, split[3])
           one == Credited(royalties, c, t, i)
           two == Credited(one, protocolTreasury, t, j)
           three == Credited(two, a, t, k)
<1>1. /\ split[1] \in Nat /\ split[2] \in Nat /\ split[3] \in Nat
      /\ split[1] + split[2] + split[3] <= BPS_DENOMINATOR /\ royalties \in ClaimType
  BY DEF RoyaltiesOK, SplitAllowed
<1>2. i \in Nat /\ j \in Nat /\ k \in Nat /\ i + j + k <= n
  BY <1>1, ShareNat, SharesFit
<1> HIDE DEF i, j, k
<1>3. one \in ClaimType /\ Owed(one, s) <= Owed(royalties, s) + (IF s = t THEN i ELSE 0)
  BY <1>1, <1>2, CreditedOwed
<1> HIDE DEF one
<1>4. two \in ClaimType /\ Owed(two, s) <= Owed(one, s) + (IF s = t THEN j ELSE 0)
  BY <1>2, <1>3, CreditedOwed
<1> HIDE DEF two
<1>5. three \in ClaimType /\ Owed(three, s) <= Owed(two, s) + (IF s = t THEN k ELSE 0)
  BY <1>2, <1>4, CreditedOwed
<1> HIDE DEF three
<1>6. Owed(royalties, s) \in Nat /\ Owed(one, s) \in Nat /\ Owed(two, s) \in Nat /\ Owed(three, s) \in Nat
  BY <1>1, <1>3, <1>4, <1>5, OwedSum
<1>7. /\ Owed(two, s) <= Owed(royalties, s) + (IF s = t THEN n ELSE 0)
      /\ Owed(three, s) <= Owed(royalties, s) + (IF s = t THEN n ELSE 0)
  BY <1>2, <1>3, <1>4, <1>5, <1>6
<1>8. SharedOut(t, c, a, n) = two \/ SharedOut(t, c, a, n) = three
  BY DEF SharedOut, i, j, k, one, two, three
<1> QED BY <1>4, <1>5, <1>7, <1>8

(* Shared revenue adds no more than the payment.                            *)
LEMMA RevenueSharedOwed ==
    ASSUME RevenueOK, NEW a, NEW t \in Tokens, NEW n \in Nat, NEW s \in Tokens
    PROVE  /\ RevenueShared(a, t, n) \in ClaimType
           /\ Owed(RevenueShared(a, t, n), s) <= Owed(revenues, s) + (IF s = t THEN n ELSE 0)
<1> DEFINE i == Share(n, agentSplit[1])
           j == Share(n, agentSplit[2])
           one == Credited(revenues, agents[a].creator, t, i)
           two == Credited(one, agentTreasury, t, j)
<1>1. /\ agentSplit[1] \in Nat /\ agentSplit[2] \in Nat
      /\ agentSplit[1] + agentSplit[2] + 0 <= BPS_DENOMINATOR /\ revenues \in ClaimType
  BY DEF RevenueOK, AgentSplitAllowed
<1>2. i \in Nat /\ j \in Nat /\ i + j <= n
  <2>1. Share(n, 0) \in Nat /\ i + j + Share(n, 0) <= n
    BY <1>1, ShareNat, SharesFit
  <2>2. i \in Nat /\ j \in Nat
    BY <1>1, ShareNat
  <2> HIDE DEF i, j
  <2> QED BY <2>1, <2>2
<1> HIDE DEF i, j
<1>3. one \in ClaimType /\ Owed(one, s) <= Owed(revenues, s) + (IF s = t THEN i ELSE 0)
  BY <1>1, <1>2, CreditedOwed
<1> HIDE DEF one
<1>4. two \in ClaimType /\ Owed(two, s) <= Owed(one, s) + (IF s = t THEN j ELSE 0)
  BY <1>2, <1>3, CreditedOwed
<1> HIDE DEF two
<1>5. Owed(revenues, s) \in Nat /\ Owed(one, s) \in Nat /\ Owed(two, s) \in Nat
  BY <1>1, <1>3, <1>4, OwedSum
<1>6. Owed(two, s) <= Owed(revenues, s) + (IF s = t THEN n ELSE 0)
  BY <1>2, <1>3, <1>4, <1>5
<1>7. RevenueShared(a, t, n) = two
  BY DEF RevenueShared, i, j, one, two
<1> QED BY <1>4, <1>6, <1>7
-----------------------------------------------------------------------------
(* What payments do to the balances.                                        *)
BalancesOK == bal \in Ledgers /\ Covered

(* Balances are not overdrawn.                                              *)
LEMMA Balance ==
    ASSUME BalancesOK, NEW s \in Assets, NEW x \in Accounts
    PROVE  bal[s][x] \in Int /\ bal[s][x] >= 0
BY DEF BalancesOK, Covered, LedgersOver

(* One payment, covered by its payer.                                       *)
LEMMA PaymentMoves ==
    ASSUME BalancesOK, NEW t \in Assets, NEW from \in Accounts, NEW to \in Accounts, NEW n \in Nat,
           bal[t][from] >= n, bal' = Transfer(bal, t, from, to, n)
    PROVE  /\ Covered'
           /\ \A s \in Assets, x \in Accounts :
                 /\ bal'[s][x] \in Int
                 /\ x # from => bal'[s][x] >= bal[s][x]
                 /\ x \notin {from, to} => bal'[s][x] = bal[s][x]
                 /\ x = to /\ from # to => bal'[s][x] = bal[s][x] + (IF s = t THEN n ELSE 0)
                 /\ x = from => bal'[s][x] >= bal[s][x] - (IF s = t THEN n ELSE 0)
<1>1. ASSUME NEW s \in Assets, NEW x \in Accounts
      PROVE  /\ bal[s][x] \in Int /\ bal[s][x] >= 0
             /\ bal'[s][x] = bal[s][x] - Flow(s, x, t, from, n) + Flow(s, x, t, to, n)
  BY Balance, TransferFlow DEF BalancesOK
<1>2. ASSUME NEW s \in Assets, NEW x \in Accounts
      PROVE  /\ bal'[s][x] \in Int /\ bal'[s][x] >= 0
             /\ x # from => bal'[s][x] >= bal[s][x]
             /\ x \notin {from, to} => bal'[s][x] = bal[s][x]
             /\ x = to /\ from # to => bal'[s][x] = bal[s][x] + (IF s = t THEN n ELSE 0)
             /\ x = from => bal'[s][x] >= bal[s][x] - (IF s = t THEN n ELSE 0)
  BY <1>1 DEF Flow
<1> QED BY <1>2 DEF Covered

(* A payment that a contract passes on, all of it.                          *)
LEMMA PassedOn ==
    ASSUME BalancesOK, NEW t \in Assets, NEW from \in Accounts, NEW via \in Accounts, NEW to \in Accounts,
           via \notin {from, to}, from # to, NEW n \in Nat, bal[t][from] >= n,
           bal' = Transfer(Transfer(bal, t, from, via, n), t, via, to, n)
    PROVE  /\ Covered'
           /\ \A s \in Assets, x \in Accounts :
                 /\ bal'[s][x] \in Int
                 /\ x \notin {from, to} => bal'[s][x] = bal[s][x]
                 /\ x = to => bal'[s][x] = bal[s][x] + (IF s = t THEN n ELSE 0)
<1> DEFINE one == Transfer(bal, t, from, via, n)
<1>1. ASSUME NEW s \in Assets, NEW x \in Accounts
      PROVE  /\ bal[s][x] \in Int /\ bal[s][x] >= 0
             /\ bal'[s][x] = bal[s][x] - Flow(s, x, t, from, n) + Flow(s, x, t, via, n)
                                       - Flow(s, x, t, via, n) + Flow(s, x, t, to, n)
  <2>1. one \in Ledgers /\ one[s][x] = bal[s][x] - Flow(s, x, t, from, n) + Flow(s, x, t, via, n)
    BY TransferFlow DEF BalancesOK
  <2>2. bal' = Transfer(one, t, via, to, n)
    OBVIOUS
  <2> HIDE DEF one
  <2>3. bal'[s][x] = one[s][x] - Flow(s, x, t, via, n) + Flow(s, x, t, to, n)
    BY <2>1, <2>2, TransferFlow
  <2>4. bal[s][x] \in Int /\ bal[s][x] >= 0
    BY Balance
  <2>5. Flow(s, x, t, from, n) \in Int /\ Flow(s, x, t, via, n) \in Int /\ Flow(s, x, t, to, n) \in Int
    BY FlowInt
  <2> QED BY ONLY <2>1, <2>3, <2>4, <2>5
<1>2. ASSUME NEW s \in Assets, NEW x \in Accounts
      PROVE  /\ bal'[s][x] \in Int /\ bal'[s][x] >= 0
             /\ x \notin {from, to} => bal'[s][x] = bal[s][x]
             /\ x = to => bal'[s][x] = bal[s][x] + (IF s = t THEN n ELSE 0)
  BY <1>1 DEF Flow
<1> QED BY <1>2 DEF Covered

(* A purchase: the price in three payments through the marketplace.         *)
LEMMA PurchaseMoves ==
    ASSUME BalancesOK, NEW t \in Assets, NEW u \in Users, NEW v \in Users, NEW p \in Nat, NEW r \in Nat,
           r <= p, bal[t][u] >= p,
           bal' = Transfer(Transfer(Transfer(bal, t, u, marketplace, p), t, marketplace, distributor, r),
                           t, marketplace, v, p - r)
    PROVE  /\ Covered'
           /\ \A s \in Assets, x \in Accounts :
                 /\ bal'[s][x] \in Int
                 /\ x \notin {u, v, distributor} => bal'[s][x] = bal[s][x]
                 /\ x = distributor => bal'[s][x] = bal[s][x] + (IF s = t THEN r ELSE 0)
<1> DEFINE one == Transfer(bal, t, u, marketplace, p)
           two == Transfer(one, t, marketplace, distributor, r)
<1>0. p - r \in Nat
  OBVIOUS
<1>1. ASSUME NEW s \in Assets, NEW x \in Accounts
      PROVE  /\ bal[s][x] \in Int /\ bal[s][x] >= 0
             /\ bal'[s][x] = bal[s][x] - Flow(s, x, t, u, p) + Flow(s, x, t, marketplace, p)
                                       - Flow(s, x, t, marketplace, r) + Flow(s, x, t, distributor, r)
                                       - Flow(s, x, t, marketplace, p - r) + Flow(s, x, t, v, p - r)
  <2>1. one \in Ledgers /\ one[s][x] = bal[s][x] - Flow(s, x, t, u, p) + Flow(s, x, t, marketplace, p)
    BY TransferFlow DEF BalancesOK
  <2> HIDE DEF one
  <2>2. two \in Ledgers /\ two[s][x] = one[s][x] - Flow(s, x, t, marketplace, r) + Flow(s, x, t, distributor, r)
    BY <2>1, TransferFlow
  <2>3. bal' = Transfer(two, t, marketplace, v, p - r)
    BY DEF one
  <2> HIDE DEF two
  <2>4. bal'[s][x] = two[s][x] - Flow(s, x, t, marketplace, p - r) + Flow(s, x, t, v, p - r)
    BY <1>0, <2>2, <2>3, TransferFlow
  <2>5. bal[s][x] \in Int /\ bal[s][x] >= 0
    BY Balance
  <2>6. \A y, m : m \in Int => Flow(s, x, t, y, m) \in Int
    BY FlowInt
  <2> QED BY ONLY <2>1, <2>2, <2>4, <2>5, <2>6, <1>0
<1>2. ASSUME NEW s \in Assets, NEW x \in Accounts
      PROVE  /\ bal'[s][x] \in Int /\ bal'[s][x] >= 0
             /\ x \notin {u, v, distributor} => bal'[s][x] = bal[s][x]
             /\ x = distributor => bal'[s][x] = bal[s][x] + (IF s = t THEN r ELSE 0)
  <2>1. u \notin {marketplace, distributor} /\ v \notin {marketplace, distributor} /\ marketplace # distributor
    BY Parties
  <2> QED BY <1>0, <1>1, <2>1 DEF Flow
<1> QED BY <1>2 DEF Covered

-----------------------------------------------------------------------------
(* What the strategy contracts' steps do to the money, and leave alone of   *)
(* the agent contracts'.                                                    *)
MarketFunded ==
    /\ Covered' /\ RoyaltiesSolvent'
    /\ \A t \in Tokens : /\ bal'[t][revenue] >= bal[t][revenue] /\ bal'[t][staking] >= bal[t][staking]
                         /\ bal'[t][agentSubscriptions] = bal[t][agentSubscriptions]

(* A payment of n that reaches the distributor and is shared out.           *)
LEMMA RoyaltyFunded ==
    ASSUME BalancesOK, RoyaltiesOK, RoyaltiesSolvent, NEW t \in Tokens, NEW n \in Nat, NEW c, NEW a,
           Covered', \A s \in Assets, x \in Accounts : bal'[s][x] \in Int,
           \A s \in Tokens : /\ bal'[s][distributor] = bal[s][distributor] + (IF s = t THEN n ELSE 0)
                             /\ bal'[s][marketplace] = bal[s][marketplace]
                             /\ bal'[s][subscriptions] = bal[s][subscriptions],
           royalties' = SharedOut(t, c, a, n)
    PROVE  RoyaltiesSolvent'
<1>1. ASSUME NEW s \in Tokens PROVE bal'[s][distributor] >= Owed(royalties', s)
  <2>1. /\ royalties' \in ClaimType /\ royalties \in ClaimType
        /\ Owed(royalties', s) <= Owed(royalties, s) + (IF s = t THEN n ELSE 0)
    BY SharedOutOwed DEF RoyaltiesOK
  <2>2. Owed(royalties', s) \in Nat /\ Owed(royalties, s) \in Nat
    BY <2>1, OwedSum
  <2>3. bal[s][distributor] >= Owed(royalties, s) /\ bal[s][distributor] \in Int
    BY Balance, Parties DEF RoyaltiesSolvent
  <2> QED BY <2>1, <2>2, <2>3
<1> QED BY <1>1 DEF RoyaltiesSolvent

(* The distributor still holds what it owes after a claim,                  *)
LEMMA ClaimRoyaltyFunds ==
    ASSUME BalancesOK, RoyaltiesOK, RoyaltiesSolvent,
           NEW a \in (Users \cup ProtocolTreasuries) \ Contracts, NEW t \in Tokens, ClaimRoyalty(a, t)
    PROVE  MarketFunded
<1> DEFINE n == royalties[a][t]
<1>0. /\ a \in Accounts /\ t \in Assets /\ distributor \in Accounts
      /\ a \notin {marketplace, distributor, subscriptions}
  BY Parties, MarketAssumption, AgentAssumption
<1>1. n \in Nat /\ bal[t][distributor] >= n /\ bal' = Transfer(bal, t, distributor, a, n)
  BY <1>0, OwedSum DEF ClaimRoyalty, Has, RoyaltiesOK
<1>2. royalties' = Claimed(royalties, a, t)
  BY DEF ClaimRoyalty
<1>3. \A s \in Tokens : Owed(royalties', s) = Owed(royalties, s) - (IF s = t THEN n ELSE 0)
  BY <1>0, <1>2, ClaimedOwed DEF RoyaltiesOK
<1> HIDE DEF n
<1>4. /\ Covered'
      /\ \A s \in Assets, x \in Accounts :
            /\ bal'[s][x] \in Int
            /\ x # distributor => bal'[s][x] >= bal[s][x]
            /\ x \notin {distributor, a} => bal'[s][x] = bal[s][x]
            /\ x = distributor => bal'[s][x] >= bal[s][x] - (IF s = t THEN n ELSE 0)
  BY <1>0, <1>1, PaymentMoves
<1>5. ASSUME NEW s \in Tokens
      PROVE  /\ bal'[s][distributor] >= Owed(royalties', s)
             /\ bal'[s][marketplace] = 0 /\ bal'[s][subscriptions] = 0
  <2>1. bal[s][distributor] >= Owed(royalties, s) /\ bal[s][marketplace] = 0 /\ bal[s][subscriptions] = 0
    BY DEF RoyaltiesSolvent
  <2>2. Owed(royalties, s) \in Nat /\ s \in Assets
    BY OwedSum, Parties DEF RoyaltiesOK
  <2>3. bal[s][distributor] \in Int /\ bal'[s][distributor] \in Int
        /\ bal'[s][distributor] >= bal[s][distributor] - (IF s = t THEN n ELSE 0)
    BY <1>0, <1>4, <2>2, Balance
  <2>4. bal'[s][marketplace] = 0 /\ bal'[s][subscriptions] = 0
    BY <1>0, <1>4, <2>1, <2>2, Parties
  <2> QED BY <1>1, <1>3, <2>1, <2>2, <2>3, <2>4
<1>6. ASSUME NEW s \in Tokens
      PROVE  /\ bal'[s][revenue] >= bal[s][revenue] /\ bal'[s][staking] >= bal[s][staking]
             /\ bal'[s][agentSubscriptions] = bal[s][agentSubscriptions]
  <2>1. a # agentSubscriptions
    BY AgentAssumption
  <2> QED BY <1>4, <2>1, Parties
<1> QED BY <1>4, <1>5, <1>6 DEF MarketFunded, RoyaltiesSolvent

(* a payment,                                                               *)
LEMMA ReceivePaymentFunds ==
    ASSUME BalancesOK, RoyaltiesOK, RoyaltiesSolvent, NEW u \in Users, NEW t \in Tokens, NEW n \in Prices,
           NEW c, NEW a, ReceivePayment(u, t, c, a, n)
    PROVE  MarketFunded
<1>1. /\ n \in Nat /\ t \in Assets /\ u \in Accounts /\ distributor \in Accounts /\ u # distributor
      /\ bal[t][u] >= n /\ bal' = Transfer(bal, t, u, distributor, n)
  BY Parties DEF ReceivePayment, Has
<1>2. /\ Covered'
      /\ \A s \in Assets, x \in Accounts :
            /\ bal'[s][x] \in Int
            /\ x \notin {u, distributor} => bal'[s][x] = bal[s][x]
            /\ x = distributor => bal'[s][x] = bal[s][x] + (IF s = t THEN n ELSE 0)
  BY <1>1, PaymentMoves
<1>3. ASSUME NEW s \in Tokens
      PROVE  /\ bal'[s][distributor] = bal[s][distributor] + (IF s = t THEN n ELSE 0)
             /\ \A x \in {marketplace, subscriptions, staking, revenue, agentSubscriptions} :
                   bal'[s][x] = bal[s][x] /\ bal[s][x] \in Int
  BY <1>1, <1>2, Parties, Balance
<1>4. royalties' = SharedOut(t, c, a, n)
  BY DEF ReceivePayment
<1>5. RoyaltiesSolvent'
  BY <1>1, <1>2, <1>3, <1>4, RoyaltyFunded
<1> QED BY <1>2, <1>3, <1>5 DEF MarketFunded

(* a subscription, which is paid to it,                                     *)
LEMMA SubscribeFunds ==
    ASSUME BalancesOK, RoyaltiesOK, RoyaltiesSolvent, NEW u \in Users, NEW id, NEW d, NEW t \in Tokens,
           NEW n \in Prices, Subscribe(u, id, d, t, n)
    PROVE  MarketFunded
<1>1. /\ n \in Nat /\ t \in Assets /\ u \in Accounts /\ distributor \in Accounts /\ u # distributor
      /\ subscriptions \in Accounts /\ subscriptions \notin {u, distributor} /\ bal[t][u] >= n
      /\ bal' = Transfer(Transfer(bal, t, u, subscriptions, n), t, subscriptions, distributor, n)
  BY Parties DEF Subscribe, Has
<1>2. /\ Covered'
      /\ \A s \in Assets, x \in Accounts :
            /\ bal'[s][x] \in Int
            /\ x \notin {u, distributor} => bal'[s][x] = bal[s][x]
            /\ x = distributor => bal'[s][x] = bal[s][x] + (IF s = t THEN n ELSE 0)
  BY <1>1, PassedOn
<1>3. ASSUME NEW s \in Tokens
      PROVE  /\ bal'[s][distributor] = bal[s][distributor] + (IF s = t THEN n ELSE 0)
             /\ \A x \in {marketplace, subscriptions, staking, revenue, agentSubscriptions} :
                   bal'[s][x] = bal[s][x] /\ bal[s][x] \in Int
  BY <1>1, <1>2, Parties, Balance
<1>4. royalties' = SharedOut(t, nft[id].creator, Zero, n)
  BY DEF Subscribe
<1>5. RoyaltiesSolvent'
  BY <1>1, <1>2, <1>3, <1>4, RoyaltyFunded
<1> QED BY <1>2, <1>3, <1>5 DEF MarketFunded

(* and a sale with its royalty.                                             *)
LEMMA BuyFunds ==
    ASSUME MarketInv, Covered, RoyaltiesSolvent, NEW u \in Users, NEW id \in Ids, NEW a, Buy(u, id, a)
    PROVE  MarketFunded
<1> DEFINE l == listings[id]
           t == l.token
           p == l.price
           r == RoyaltyInfo(p)
           v == l.seller
<1>0. BalancesOK /\ RoyaltiesOK
  BY DEF MarketInv, LedgerOK, BalancesOK
<1>1. /\ p \in Nat /\ r \in Nat /\ r <= p /\ t \in Tokens /\ t \in Assets /\ v \in Users /\ bal[t][u] >= p
  <2>1. p \in Nat /\ r \in Nat /\ 4 * r <= p
    BY ListingRoyalty DEF MarketInv
  <2>2. t \in Tokens /\ v \in Users
    BY DEF MarketInv, ListingsOK, ListingType, Buy
  <2>3. bal[t][u] >= p
    BY DEF Buy, Has
  <2> HIDE DEF p, r, t, v
  <2> QED BY <2>1, <2>2, <2>3, Parties
<1>2. bal' = Transfer(Transfer(Transfer(bal, t, u, marketplace, p), t, marketplace, distributor, r),
                      t, marketplace, v, p - r)
  BY DEF Buy
<1>3. royalties' = IF r = 0 THEN royalties ELSE SharedOut(t, nft[id].creator, a, r)
  BY DEF Buy
<1> HIDE DEF l, t, p, r, v
<1>4. /\ Covered'
      /\ \A s \in Assets, x \in Accounts :
            /\ bal'[s][x] \in Int
            /\ x \notin {u, v, distributor} => bal'[s][x] = bal[s][x]
            /\ x = distributor => bal'[s][x] = bal[s][x] + (IF s = t THEN r ELSE 0)
  BY <1>0, <1>1, <1>2, PurchaseMoves
<1>5. ASSUME NEW s \in Tokens
      PROVE  /\ bal'[s][distributor] = bal[s][distributor] + (IF s = t THEN r ELSE 0)
             /\ \A x \in {marketplace, subscriptions, staking, revenue, agentSubscriptions} :
                   bal'[s][x] = bal[s][x] /\ bal[s][x] \in Int
  <2>1. /\ s \in Assets /\ distributor \in Accounts
        /\ \A x \in {marketplace, subscriptions, staking, revenue, agentSubscriptions} :
              x \in Accounts /\ x \notin {u, v, distributor}
    BY <1>1, Parties
  <2> QED BY <1>0, <1>4, <2>1, Balance
<1>6. RoyaltiesSolvent'
  <2>1. CASE r = 0
    <3>1. \A s \in Tokens : bal'[s][distributor] = bal[s][distributor] /\ royalties' = royalties
      BY <1>0, <1>3, <1>5, <2>1, Balance, Parties
    <3> QED BY <1>5, <3>1 DEF RoyaltiesSolvent
  <2>2. CASE r # 0
    <3>1. royalties' = SharedOut(t, nft[id].creator, a, r)
      BY <1>3, <2>2
    <3> QED BY <1>0, <1>1, <1>4, <1>5, <3>1, RoyaltyFunded
  <2> QED BY <2>1, <2>2
<1> QED BY <1>4, <1>5, <1>6 DEF MarketFunded

(* Every step of the market leaves it solvent.                              *)
LEMMA MarketMoney ==
    ASSUME MarketInv, Covered, RoyaltiesSolvent, MarketNext \/ MarketHousekeeping
    PROVE  MarketFunded
<1>0. BalancesOK /\ RoyaltiesOK
  BY DEF MarketInv, LedgerOK, BalancesOK
<1>1. ASSUME UNCHANGED <<bal, royalties>> PROVE MarketFunded
  <2>1. \A t \in Tokens, x \in {revenue, staking} : bal[t][x] >= bal[t][x]
    BY <1>0, Balance, Parties
  <2> QED BY <1>1, <2>1 DEF MarketFunded, Covered, RoyaltiesSolvent
<1>2. /\ \A part : Link(part) => MarketFunded
      /\ \A on : SetStrategyBinding(on) => MarketFunded
      /\ \A s, u : Register(s, u) => MarketFunded
      /\ \A s : RegisterReturns(s) => MarketFunded
  BY <1>1 DEF Link, SetStrategyBinding, Register, RegisterReturns, royaltyVars
<1>3. /\ \A u, s, v : UpgradeStrategy(u, s, v) => MarketFunded
      /\ \A bps : SetRoyaltyBps(bps) => MarketFunded
      /\ \A u, id, to : TransferToken(u, id, to) => MarketFunded
  BY <1>1 DEF UpgradeStrategy, SetRoyaltyBps, TransferToken, royaltyVars
<1>4. /\ \A x : SetProtocolTreasury(x) => MarketFunded
      /\ \A x : SetSplit(x) => MarketFunded
      /\ \A u, id, t, n : ListToken(u, id, t, n) => MarketFunded
      /\ \A u, id : CancelListing(u, id) => MarketFunded
  BY <1>1 DEF SetProtocolTreasury, SetSplit, ListToken, CancelListing, royaltyVars
<1>5. /\ \A u, id : CancelSubscription(u, id) => MarketFunded
      /\ \A u, id : ExecuteWithStrategy(u, id) => MarketFunded
  BY <1>1 DEF CancelSubscription, ExecuteWithStrategy, royaltyVars
<1> HIDE DEF MarketFunded
<1>6. CASE MarketHousekeeping
  BY <1>0, <1>2, <1>4, <1>5, <1>6, ClaimRoyaltyFunds DEF MarketHousekeeping
<1>7. CASE MarketNext
  BY <1>0, <1>2, <1>3, <1>4, <1>7, ReceivePaymentFunds, BuyFunds, SubscribeFunds DEF MarketNext
<1> QED BY <1>6, <1>7

-----------------------------------------------------------------------------
(* What is staked, as sums whose parts can be taken out: with one agent.    *)
LEMMA StakedTotal ==
    ASSUME NEW e, NEW a
    PROVE  Staked(e, a) = Total([u \in Users |-> e[a][u].amount], Users)
<1> DEFINE f == [u \in Users |-> e[a][u].amount]
           Is(g) == g = [s \in SUBSET Users |-> IF s = {} THEN 0 ELSE e[a][Pick(s)].amount + g[s \ {Pick(s)}]]
           h == CHOOSE g : Is(g)
<1>1. Staked(e, a) = h[Users]
  BY DEF Staked, MapThenSumSet, MapThenFoldSet, Pick
<1>2. ASSUME NEW g PROVE Is(g) <=> IsSum(g, f, Users)
  <2>1. \A s \in SUBSET Users : s # {} => f[Pick(s)] = e[a][Pick(s)].amount
    BY Pickable
  <2> HIDE DEF f
  <2> QED BY <2>1 DEF IsSum
<1> HIDE DEF f
<1>3. \E g : Is(g)
  BY <1>2, SumExists, Parties
<1>4. Is(h)
  BY <1>3
<1> HIDE DEF h, Is
<1>5. IsSum(h, f, Users)
  BY <1>2, <1>4
<1>6. PICK g : IsSum(g, f, Users) /\ Total(f, Users) = g[Users]
  BY <1>5, TotalOfSum
<1>7. h[Users] = g[Users]
  BY <1>5, <1>6, SumUnique, Parties
<1> QED BY <1>1, <1>6, <1>7 DEF f

(* And with all of them.                                                    *)
LEMMA AllStakedTotal ==
    ASSUME NEW e
    PROVE  AllStaked(e) = Total([a \in Agents |-> Staked(e, a)], Agents)
<1> DEFINE f == [a \in Agents |-> Staked(e, a)]
           Is(g) == g = [s \in SUBSET Agents |-> IF s = {} THEN 0 ELSE Staked(e, Pick(s)) + g[s \ {Pick(s)}]]
           h == CHOOSE g : Is(g)
<1>1. AllStaked(e) = h[Agents]
  BY DEF AllStaked, MapThenSumSet, MapThenFoldSet, Pick
<1>2. ASSUME NEW g PROVE Is(g) <=> IsSum(g, f, Agents)
  <2>1. \A s \in SUBSET Agents : s # {} => f[Pick(s)] = Staked(e, Pick(s))
    BY Pickable
  <2> HIDE DEF f
  <2> QED BY <2>1 DEF IsSum
<1> HIDE DEF f
<1>3. \E g : Is(g)
  BY <1>2, SumExists, Parties
<1>4. Is(h)
  BY <1>3
<1> HIDE DEF h, Is
<1>5. IsSum(h, f, Agents)
  BY <1>2, <1>4
<1>6. PICK g : IsSum(g, f, Agents) /\ Total(f, Agents) = g[Agents]
  BY <1>5, TotalOfSum
<1>7. h[Agents] = g[Agents]
  BY <1>5, <1>6, SumUnique, Parties
<1> QED BY <1>1, <1>6, <1>7 DEF f

(* No staker has more than all of an agent's stakers, no agent more than    *)
(* all agents.                                                              *)
LEMMA StakedNat ==
    ASSUME NEW e \in StakeTable, NEW a \in Agents
    PROVE  /\ Staked(e, a) \in Nat /\ AllStaked(e) \in Nat /\ Staked(e, a) <= AllStaked(e)
           /\ \A u \in Users : e[a][u].amount \in Nat /\ e[a][u].amount <= Staked(e, a)
<1>1. \A b \in Agents : \A u \in Users : e[b][u].amount \in Nat
  BY DEF StakeTable
<1>2. ASSUME NEW b \in Agents
      PROVE  Staked(e, b) \in Nat /\ \A u \in Users : e[b][u].amount <= Staked(e, b)
  <2> DEFINE f == [u \in Users |-> e[b][u].amount]
  <2>1. \A u \in Users : f[u] \in Nat /\ f[u] = e[b][u].amount
    BY <1>1
  <2>2. Staked(e, b) = Total(f, Users)
    BY StakedTotal
  <2> HIDE DEF f
  <2> QED BY <2>1, <2>2, TotalNat, Parties
<1>3. AllStaked(e) \in Nat /\ \A b \in Agents : Staked(e, b) <= AllStaked(e)
  <2> DEFINE f == [b \in Agents |-> Staked(e, b)]
  <2>1. \A b \in Agents : f[b] \in Nat /\ f[b] = Staked(e, b)
    BY <1>2
  <2>2. AllStaked(e) = Total(f, Agents)
    BY AllStakedTotal
  <2> HIDE DEF f
  <2> QED BY <2>1, <2>2, TotalNat, Parties
<1> QED BY <1>1, <1>2, <1>3

(* One stake changes, and the sums by as much.                              *)
LEMMA StakeChange ==
    ASSUME NEW e \in StakeTable, NEW d \in StakeTable, NEW a \in Agents, NEW u \in Users, NEW n \in Int,
           d[a][u].amount = e[a][u].amount + n,
           \A b \in Agents, v \in Users : b # a \/ v # u => d[b][v].amount = e[b][v].amount
    PROVE  /\ Staked(d, a) = Staked(e, a) + n
           /\ \A b \in Agents : b # a => Staked(d, b) = Staked(e, b)
           /\ AllStaked(d) = AllStaked(e) + n
<1>1. \A b \in Agents, v \in Users : e[b][v].amount \in Nat /\ d[b][v].amount \in Nat
  BY StakedNat
<1>2. Staked(d, a) = Staked(e, a) + n
  <2> DEFINE f == [v \in Users |-> e[a][v].amount]
             h == [v \in Users |-> d[a][v].amount]
  <2>1. /\ \A v \in Users : f[v] \in Int /\ h[v] \in Int
        /\ \A v \in Users \ {u} : f[v] = h[v]
        /\ h[u] = f[u] + n
    BY <1>1
  <2>2. Staked(e, a) = Total(f, Users) /\ Staked(d, a) = Total(h, Users)
    BY StakedTotal
  <2> HIDE DEF f, h
  <2>3. Total(h, Users) = Total(f, Users) + h[u] - f[u]
    BY <2>1, TotalChange, Parties
  <2>4. Total(f, Users) \in Int
    BY <2>1, TotalInt, Parties
  <2> QED BY <2>1, <2>2, <2>3, <2>4
<1>3. ASSUME NEW b \in Agents, b # a PROVE Staked(d, b) = Staked(e, b)
  <2> DEFINE f == [v \in Users |-> e[b][v].amount]
             h == [v \in Users |-> d[b][v].amount]
  <2>1. \A v \in Users : f[v] = h[v]
    BY <1>3
  <2>2. Staked(e, b) = Total(f, Users) /\ Staked(d, b) = Total(h, Users)
    BY StakedTotal
  <2> HIDE DEF f, h
  <2> QED BY <2>1, <2>2, TotalSame, Parties
<1>4. AllStaked(d) = AllStaked(e) + n
  <2> DEFINE f == [b \in Agents |-> Staked(e, b)]
             h == [b \in Agents |-> Staked(d, b)]
  <2>0. \A b \in Agents : Staked(e, b) \in Int /\ Staked(d, b) \in Int
    BY StakedNat
  <2>1. /\ \A b \in Agents : f[b] \in Int /\ h[b] \in Int
        /\ \A b \in Agents \ {a} : f[b] = h[b]
        /\ h[a] = f[a] + n
    BY <1>2, <1>3, <2>0
  <2>2. AllStaked(e) = Total(f, Agents) /\ AllStaked(d) = Total(h, Agents)
    BY AllStakedTotal
  <2> HIDE DEF f, h
  <2>3. Total(h, Agents) = Total(f, Agents) + h[a] - f[a]
    BY <2>1, TotalChange, Parties
  <2>4. Total(f, Agents) \in Int
    BY <2>1, TotalInt, Parties
  <2> QED BY <2>1, <2>2, <2>3, <2>4
<1> QED BY <1>2, <1>3, <1>4

-----------------------------------------------------------------------------
(* What the agent contracts' steps do to the money, and leave alone of the  *)
(* strategy contracts'.                                                     *)
AgentFunded ==
    /\ Covered' /\ RevenuesSolvent' /\ StakesBacked' /\ SumsOK'
    /\ \A t \in Tokens :
          /\ bal'[t][distributor] >= bal[t][distributor]
          /\ bal'[t][marketplace] = bal[t][marketplace] /\ bal'[t][subscriptions] = bal[t][subscriptions]

AgentMoney == BalancesOK /\ RevenueOK /\ StakesOK /\ RevenuesSolvent /\ StakesBacked /\ SumsOK

(* Steps that leave the stakes alone, and what was staked where it was.     *)
LEMMA StakesLeft ==
    ASSUME AgentMoney, UNCHANGED stakeVars, bal'[stakingToken][staking] \in Int,
           bal'[stakingToken][staking] >= bal[stakingToken][staking]
    PROVE  StakesBacked' /\ SumsOK'
<1>1. AllStaked(stakes) \in Nat \/ Agents = {}
  BY StakedNat DEF AgentMoney, StakesOK, StakeTable
<1>2. AllStaked(stakes) \in Int
  <2>1. CASE Agents = {}
    BY <2>1, AllStakedTotal, TotalInt, Parties
  <2> QED BY <1>1, <2>1
<1>3. bal[stakingToken][staking] \in Int /\ bal[stakingToken][staking] >= AllStaked(stakes)
  BY Parties, Balance DEF AgentMoney, StakesBacked
<1>4. StakesBacked'
  BY <1>2, <1>3 DEF stakeVars, StakesBacked
<1>5. SumsOK'
  BY DEF stakeVars, AgentMoney, SumsOK
<1> QED BY <1>4, <1>5

(* A payment of n that reaches the revenue distributor and is shared.       *)
LEMMA RevenueFunded ==
    ASSUME AgentMoney, NEW t \in Tokens, NEW n \in Nat, NEW a, NEW u \in Users,
           Covered', UNCHANGED stakeVars, revenues' = RevenueShared(a, t, n),
           \A s \in Assets, x \in Accounts :
              /\ bal'[s][x] \in Int
              /\ x \notin {u, revenue} => bal'[s][x] = bal[s][x]
              /\ x = revenue => bal'[s][x] = bal[s][x] + (IF s = t THEN n ELSE 0)
    PROVE  AgentFunded
<1>0. RevenueOK /\ BalancesOK /\ RevenuesSolvent
  BY DEF AgentMoney
<1>1. ASSUME NEW s \in Tokens
      PROVE  /\ bal'[s][revenue] = bal[s][revenue] + (IF s = t THEN n ELSE 0)
             /\ \A x \in {agentSubscriptions, staking, marketplace, subscriptions, distributor} :
                   bal'[s][x] = bal[s][x] /\ bal[s][x] \in Int
  <2>1. /\ s \in Assets /\ revenue \in Accounts
        /\ \A x \in {agentSubscriptions, staking, marketplace, subscriptions, distributor} :
              x \in Accounts /\ x \notin {u, revenue}
    BY Parties
  <2> QED BY <1>0, <2>1, Balance
<1>2. ASSUME NEW s \in Tokens
      PROVE  bal'[s][revenue] >= Owed(revenues', s) /\ bal'[s][agentSubscriptions] = 0
  <2>1. /\ revenues' \in ClaimType /\ revenues \in ClaimType
        /\ Owed(revenues', s) <= Owed(revenues, s) + (IF s = t THEN n ELSE 0)
    BY <1>0, RevenueSharedOwed DEF RevenueOK
  <2>2. Owed(revenues', s) \in Nat /\ Owed(revenues, s) \in Nat
    BY <2>1, OwedSum
  <2>3. bal[s][revenue] >= Owed(revenues, s) /\ bal[s][revenue] \in Int /\ bal[s][agentSubscriptions] = 0
    BY <1>0, Balance, Parties DEF RevenuesSolvent
  <2> QED BY <1>1, <2>1, <2>2, <2>3
<1>3. StakesBacked' /\ SumsOK'
  <2>1. bal'[stakingToken][staking] = bal[stakingToken][staking] /\ bal[stakingToken][staking] \in Int
    BY <1>1, Parties
  <2> QED BY <2>1, StakesLeft
<1> QED BY <1>1, <1>2, <1>3 DEF AgentFunded, RevenuesSolvent

(* The revenue contract still holds what it owes after a claim,             *)
LEMMA ClaimRevenueFunds ==
    ASSUME AgentMoney, NEW a \in (Users \cup {agentTreasury}) \ Contracts, NEW t \in Tokens, ClaimRevenue(a, t)
    PROVE  AgentFunded
<1> DEFINE n == revenues[a][t]
<1>0. /\ a \in Accounts /\ t \in Assets /\ revenue \in Accounts
      /\ a \notin {revenue, staking, agentSubscriptions, marketplace, distributor, subscriptions}
  BY Parties, MarketAssumption, AgentAssumption
<1>1. n \in Nat /\ bal[t][revenue] >= n /\ bal' = Transfer(bal, t, revenue, a, n)
  BY <1>0, OwedSum DEF ClaimRevenue, Has, AgentMoney, RevenueOK
<1>2. revenues' = Claimed(revenues, a, t) /\ UNCHANGED stakeVars /\ BalancesOK
  BY DEF ClaimRevenue, AgentMoney
<1>3. \A s \in Tokens : Owed(revenues', s) = Owed(revenues, s) - (IF s = t THEN n ELSE 0)
  BY <1>0, <1>2, ClaimedOwed DEF AgentMoney, RevenueOK
<1> HIDE DEF n
<1>4. /\ Covered'
      /\ \A s \in Assets, x \in Accounts :
            /\ bal'[s][x] \in Int
            /\ x # revenue => bal'[s][x] >= bal[s][x]
            /\ x \notin {revenue, a} => bal'[s][x] = bal[s][x]
            /\ x = revenue => bal'[s][x] >= bal[s][x] - (IF s = t THEN n ELSE 0)
  BY <1>0, <1>1, <1>2, PaymentMoves
<1>5. ASSUME NEW s \in Tokens
      PROVE  bal'[s][revenue] >= Owed(revenues', s) /\ bal'[s][agentSubscriptions] = 0
  <2>1. bal[s][revenue] >= Owed(revenues, s) /\ bal[s][agentSubscriptions] = 0
    BY DEF AgentMoney, RevenuesSolvent
  <2>2. Owed(revenues, s) \in Nat /\ s \in Assets
    BY OwedSum, Parties DEF AgentMoney, RevenueOK
  <2>3. bal[s][revenue] \in Int /\ bal'[s][revenue] \in Int
        /\ bal'[s][revenue] >= bal[s][revenue] - (IF s = t THEN n ELSE 0)
    BY <1>0, <1>2, <1>4, <2>2, Balance
  <2>4. bal'[s][agentSubscriptions] = 0
    BY <1>0, <1>4, <2>1, <2>2, Parties
  <2> QED BY <1>1, <1>3, <2>1, <2>2, <2>3, <2>4
<1>6. ASSUME NEW s \in Tokens
      PROVE  /\ bal'[s][distributor] >= bal[s][distributor]
             /\ bal'[s][marketplace] = bal[s][marketplace] /\ bal'[s][subscriptions] = bal[s][subscriptions]
             /\ bal'[s][staking] \in Int /\ bal'[s][staking] >= bal[s][staking]
  <2>1. /\ s \in Assets
        /\ \A x \in {distributor, marketplace, subscriptions, staking} : x \in Accounts /\ x \notin {revenue, a}
    BY <1>0, Parties
  <2> QED BY <1>4, <2>1
<1>7. StakesBacked' /\ SumsOK'
  BY <1>2, <1>6, StakesLeft, Parties
<1> QED BY <1>4, <1>5, <1>6, <1>7 DEF AgentFunded, RevenuesSolvent

(* a payment,                                                               *)
LEMMA ReceiveRevenueFunds ==
    ASSUME AgentMoney, NEW u \in Users, NEW a, NEW t \in Tokens, NEW n \in Payments, ReceiveRevenue(u, a, t, n)
    PROVE  AgentFunded
<1>1. /\ n \in Nat /\ t \in Assets /\ u \in Accounts /\ revenue \in Accounts /\ u # revenue
      /\ bal[t][u] >= n /\ bal' = Transfer(bal, t, u, revenue, n) /\ BalancesOK
  BY Parties DEF ReceiveRevenue, Has, AgentMoney
<1>2. /\ Covered'
      /\ \A s \in Assets, x \in Accounts :
            /\ bal'[s][x] \in Int
            /\ x \notin {u, revenue} => bal'[s][x] = bal[s][x]
            /\ x = revenue => bal'[s][x] = bal[s][x] + (IF s = t THEN n ELSE 0)
  BY <1>1, PaymentMoves
<1>3. revenues' = RevenueShared(a, t, n) /\ UNCHANGED stakeVars
  BY DEF ReceiveRevenue
<1> QED BY <1>1, <1>2, <1>3, RevenueFunded

(* and a subscription.                                                      *)
LEMMA SubscribeToAgentFunds ==
    ASSUME AgentMoney, NEW u \in Users, NEW a, NEW d, NEW t \in Tokens, NEW n \in Payments,
           SubscribeToAgent(u, a, d, t, n)
    PROVE  AgentFunded
<1>1. /\ n \in Nat /\ t \in Assets /\ u \in Accounts /\ revenue \in Accounts /\ u # revenue
      /\ agentSubscriptions \in Accounts /\ agentSubscriptions \notin {u, revenue} /\ bal[t][u] >= n
      /\ bal' = Transfer(Transfer(bal, t, u, agentSubscriptions, n), t, agentSubscriptions, revenue, n)
      /\ BalancesOK
  BY Parties DEF SubscribeToAgent, Has, AgentMoney
<1>2. /\ Covered'
      /\ \A s \in Assets, x \in Accounts :
            /\ bal'[s][x] \in Int
            /\ x \notin {u, revenue} => bal'[s][x] = bal[s][x]
            /\ x = revenue => bal'[s][x] = bal[s][x] + (IF s = t THEN n ELSE 0)
  BY <1>1, PassedOn
<1>3. revenues' = RevenueShared(a, t, n) /\ UNCHANGED stakeVars
  BY DEF SubscribeToAgent
<1> QED BY <1>1, <1>2, <1>3, RevenueFunded

(* A payment of n between a user and the staking contract.                  *)
LEMMA StakeMoves ==
    ASSUME AgentMoney, NEW u \in Users, NEW n \in Nat, NEW from \in {u, staking}, NEW to \in {u, staking},
           from # to, bal[stakingToken][from] >= n, bal' = Transfer(bal, stakingToken, from, to, n),
           UNCHANGED revenues
    PROVE  /\ Covered' /\ RevenuesSolvent'
           /\ \A t \in Tokens :
                 /\ bal'[t][distributor] >= bal[t][distributor]
                 /\ bal'[t][marketplace] = bal[t][marketplace]
                 /\ bal'[t][subscriptions] = bal[t][subscriptions]
           /\ bal[stakingToken][staking] \in Int
           /\ bal'[stakingToken][staking] =
                 bal[stakingToken][staking] + (IF to = staking THEN n ELSE -n)
<1>1. /\ u \in Accounts /\ staking \in Accounts /\ stakingToken \in Assets /\ stakingToken \in Tokens
      /\ from \in Accounts /\ to \in Accounts /\ BalancesOK /\ u # staking
  BY Parties DEF AgentMoney
<1>2. ASSUME NEW s \in Assets, NEW x \in Accounts
      PROVE  /\ bal[s][x] \in Int /\ bal[s][x] >= 0
             /\ bal'[s][x] = bal[s][x] - Flow(s, x, stakingToken, from, n) + Flow(s, x, stakingToken, to, n)
  BY <1>1, Balance, TransferFlow DEF BalancesOK
<1>3. Covered'
  BY <1>1, PaymentMoves
<1>4. ASSUME NEW s \in Tokens, NEW x \in {revenue, agentSubscriptions, distributor, marketplace, subscriptions}
      PROVE  bal'[s][x] = bal[s][x] /\ bal[s][x] \in Int
  <2>1. s \in Assets /\ x \in Accounts /\ x \notin {u, staking}
    BY Parties
  <2> QED BY <1>2, <2>1 DEF Flow
<1>5. RevenuesSolvent'
  BY <1>4 DEF AgentMoney, RevenuesSolvent
<1>6. /\ bal[stakingToken][staking] \in Int
      /\ bal'[stakingToken][staking] = bal[stakingToken][staking] + (IF to = staking THEN n ELSE -n)
  BY <1>1, <1>2 DEF Flow
<1>7. \A t \in Tokens : /\ bal'[t][distributor] >= bal[t][distributor]
                        /\ bal'[t][marketplace] = bal[t][marketplace]
                        /\ bal'[t][subscriptions] = bal[t][subscriptions]
  BY <1>4
<1> QED BY <1>3, <1>5, <1>6, <1>7

(* The staking contract still holds all stakes after a deposit,             *)
LEMMA StakeFunds ==
    ASSUME AgentMoney, StakesOK', NEW u \in Users, NEW a \in Agents, NEW n \in Payments, Stake(u, a, n)
    PROVE  AgentFunded
<1>1. /\ n \in Nat /\ u # staking /\ bal[stakingToken][u] >= n /\ UNCHANGED <<revenues, slashed>>
      /\ bal' = Transfer(bal, stakingToken, u, staking, n)
  BY Parties DEF Stake, Has, revenueVars
<1>2. stakes \in StakeTable /\ stakes' \in StakeTable /\ totalStake \in [Agents -> Nat] /\ slashed \in [Agents -> Nat]
  BY DEF AgentMoney, StakesOK, StakeTable, SumsOK
<1>3. /\ stakes'[a][u].amount = stakes[a][u].amount + n
      /\ \A b \in Agents, v \in Users : b # a \/ v # u => stakes'[b][v].amount = stakes[b][v].amount
  <2> DEFINE x == [amount |-> stakes[a][u].amount + n, since |-> LockedSince(a, u)]
  <2>1. stakes' = [stakes EXCEPT ![a][u] = x] /\ x.amount = stakes[a][u].amount + n
    BY DEF Stake
  <2> HIDE DEF x
  <2> QED BY <1>2, <2>1 DEF StakeTable
<1>4. /\ Staked(stakes', a) = Staked(stakes, a) + n
      /\ \A b \in Agents : b # a => Staked(stakes', b) = Staked(stakes, b)
      /\ AllStaked(stakes') = AllStaked(stakes) + n
  BY <1>1, <1>2, <1>3, StakeChange
<1>5. /\ Covered' /\ RevenuesSolvent'
      /\ \A t \in Tokens :
            /\ bal'[t][distributor] >= bal[t][distributor]
            /\ bal'[t][marketplace] = bal[t][marketplace]
            /\ bal'[t][subscriptions] = bal[t][subscriptions]
      /\ bal[stakingToken][staking] \in Int
      /\ bal'[stakingToken][staking] = bal[stakingToken][staking] + n
  BY <1>1, StakeMoves
<1>6. StakesBacked'
  <2>1. AllStaked(stakes) \in Nat /\ bal[stakingToken][staking] >= AllStaked(stakes)
    BY <1>2, StakedNat DEF AgentMoney, StakesBacked
  <2> QED BY <1>1, <1>4, <1>5, <2>1 DEF StakesBacked
<1>7. SumsOK'
  <2>1. totalStake'[a] = totalStake[a] + n /\ \A b \in Agents : b # a => totalStake'[b] = totalStake[b]
    BY <1>2 DEF Stake
  <2>2. totalStake' \in [Agents -> Nat]
    BY <1>1, <1>2 DEF Stake
  <2>3. \A b \in Agents : totalStake[b] \in Nat /\ slashed[b] \in Nat /\ Staked(stakes, b) = totalStake[b] + slashed[b]
    BY <1>2 DEF AgentMoney, SumsOK
  <2>4. \A b \in Agents : Staked(stakes', b) = totalStake'[b] + slashed[b]
    BY <1>1, <1>4, <2>1, <2>3
  <2> QED BY <1>1, <1>2, <2>2, <2>4 DEF SumsOK
<1> QED BY <1>5, <1>6, <1>7 DEF AgentFunded

(* a withdrawal, which leaves what was slashed,                             *)
LEMMA UnstakeFunds ==
    ASSUME AgentMoney, StakesOK', NEW u \in Users, NEW a \in Agents, NEW n \in Payments, Unstake(u, a, n)
    PROVE  AgentFunded
<1>1. /\ n \in Nat /\ -n \in Int /\ u # staking /\ UNCHANGED <<revenues, slashed>>
      /\ bal' = Transfer(bal, stakingToken, staking, u, n)
  BY Parties DEF Unstake, revenueVars
<1>2. stakes \in StakeTable /\ stakes' \in StakeTable /\ totalStake \in [Agents -> Nat] /\ slashed \in [Agents -> Nat]
  BY DEF AgentMoney, StakesOK, StakeTable, SumsOK
<1>3. /\ stakes'[a][u].amount = stakes[a][u].amount + (-n)
      /\ \A b \in Agents, v \in Users : b # a \/ v # u => stakes'[b][v].amount = stakes[b][v].amount
  <2>1. stakes[a][u] \in [amount : Nat, since : Times]
    BY <1>2 DEF StakeTable
  <2> DEFINE x == [stakes[a][u] EXCEPT !.amount = stakes[a][u].amount - n]
  <2>2. stakes' = [stakes EXCEPT ![a][u] = x] /\ x.amount = stakes[a][u].amount - n
    BY <2>1 DEF Unstake
  <2> HIDE DEF x
  <2>3. stakes'[a][u] = x /\ \A b \in Agents, v \in Users : b # a \/ v # u => stakes'[b][v] = stakes[b][v]
    BY <1>2, <2>2 DEF StakeTable
  <2>4. stakes[a][u].amount \in Nat
    BY <2>1
  <2> QED BY <1>1, <2>2, <2>3, <2>4
<1>4. /\ Staked(stakes', a) = Staked(stakes, a) + (-n)
      /\ \A b \in Agents : b # a => Staked(stakes', b) = Staked(stakes, b)
      /\ AllStaked(stakes') = AllStaked(stakes) + (-n)
  BY <1>1, <1>2, <1>3, StakeChange
<1>5. AllStaked(stakes) \in Nat /\ bal[stakingToken][staking] >= AllStaked(stakes)
  BY <1>2, StakedNat DEF AgentMoney, StakesBacked
<1>6. bal[stakingToken][staking] >= n
  <2>1. /\ stakes[a][u].amount \in Nat /\ n <= stakes[a][u].amount
        /\ Staked(stakes, a) \in Nat /\ stakes[a][u].amount <= Staked(stakes, a)
        /\ Staked(stakes, a) <= AllStaked(stakes)
    BY <1>1, <1>2, StakedNat DEF Unstake
  <2>2. bal[stakingToken][staking] \in Int
    BY Parties, Balance DEF AgentMoney
  <2> QED BY <1>1, <1>5, <2>1, <2>2
<1>7. /\ Covered' /\ RevenuesSolvent'
      /\ \A t \in Tokens :
            /\ bal'[t][distributor] >= bal[t][distributor]
            /\ bal'[t][marketplace] = bal[t][marketplace]
            /\ bal'[t][subscriptions] = bal[t][subscriptions]
      /\ bal[stakingToken][staking] \in Int
      /\ bal'[stakingToken][staking] = bal[stakingToken][staking] + (-n)
  BY <1>1, <1>6, StakeMoves
<1>8. StakesBacked'
  BY <1>1, <1>4, <1>5, <1>7 DEF StakesBacked
<1>9. SumsOK'
  <2>1. /\ totalStake'[a] = totalStake[a] - n /\ totalStake[a] >= n
        /\ \A b \in Agents : b # a => totalStake'[b] = totalStake[b]
    BY <1>2 DEF Unstake
  <2>2. totalStake' \in [Agents -> Nat]
    <3>1. totalStake[a] - n \in Nat
      BY <1>1, <1>2, <2>1
    <3> QED BY <1>2, <3>1 DEF Unstake
  <2>3. \A b \in Agents : totalStake[b] \in Nat /\ slashed[b] \in Nat /\ Staked(stakes, b) = totalStake[b] + slashed[b]
    BY <1>2 DEF AgentMoney, SumsOK
  <2>4. \A b \in Agents : Staked(stakes', b) = totalStake'[b] + slashed[b]
    BY <1>1, <1>4, <2>1, <2>3
  <2> QED BY <1>1, <1>2, <2>2, <2>4 DEF SumsOK
<1> QED BY <1>7, <1>8, <1>9 DEF AgentFunded

(* What is not changed is funded as before.                                 *)
LEMMA Untouched ==
    ASSUME AgentMoney, UNCHANGED <<bal, revenues>>
    PROVE  /\ Covered' /\ RevenuesSolvent'
           /\ \A t \in Tokens :
                 /\ bal'[t][distributor] >= bal[t][distributor]
                 /\ bal'[t][marketplace] = bal[t][marketplace]
                 /\ bal'[t][subscriptions] = bal[t][subscriptions]
<1>1. \A t \in Tokens : bal[t][distributor] >= bal[t][distributor]
  BY Balance, Parties DEF AgentMoney
<1> QED BY <1>1 DEF AgentMoney, BalancesOK, Covered, RevenuesSolvent

(* and a slash.                                                             *)
LEMMA SlashFunds ==
    ASSUME AgentMoney, NEW a \in Agents, NEW n \in Payments, Slash(a, n)
    PROVE  AgentFunded
<1> DEFINE m == SlashedAmount(a, n)
<1>1. totalStake \in [Agents -> Nat] /\ slashed \in [Agents -> Nat] /\ n \in Nat
  BY Parties DEF AgentMoney, SumsOK
<1>2. m \in Nat /\ m <= totalStake[a] /\ totalStake[a] \in Nat /\ slashed[a] \in Nat
  BY <1>1 DEF SlashedAmount
<1>3. /\ totalStake' = [totalStake EXCEPT ![a] = totalStake[a] - m] /\ slashed' = [slashed EXCEPT ![a] = slashed[a] + m]
      /\ UNCHANGED <<bal, revenues, stakes>>
  BY DEF Slash, revenueVars
<1> HIDE DEF m
<1>4. totalStake[a] - m \in Nat /\ slashed[a] + m \in Nat
  BY <1>2
<1>5. SumsOK'
  <2>1. totalStake' \in [Agents -> Nat] /\ slashed' \in [Agents -> Nat]
    BY <1>1, <1>3, <1>4
  <2>2. ASSUME NEW b \in Agents PROVE totalStake'[b] + slashed'[b] = totalStake[b] + slashed[b]
    BY <1>1, <1>2, <1>3
  <2> QED BY <1>3, <2>1, <2>2 DEF AgentMoney, SumsOK
<1>6. StakesBacked'
  BY <1>3 DEF AgentMoney, StakesBacked
<1> QED BY <1>3, <1>5, <1>6, Untouched DEF AgentFunded

(* Every step of the agent contracts leaves them solvent.                   *)
LEMMA AgentMoneyStep ==
    ASSUME AgentMoney, StakesOK', AgentNext \/ AgentHousekeeping
    PROVE  AgentFunded
<1>1. ASSUME UNCHANGED <<bal, revenues, stakeVars>> PROVE AgentFunded
  <2>1. StakesBacked' /\ SumsOK'
    BY <1>1 DEF AgentMoney, stakeVars, StakesBacked, SumsOK
  <2> QED BY <1>1, <2>1, Untouched DEF AgentFunded
<1>2. /\ \A u, a : RegisterAgent(u, a) => AgentFunded
      /\ \A u, a : CancelAgentSubscription(u, a) => AgentFunded
      /\ \A u, a, on : UpdateAgent(u, a, on) => AgentFunded
      /\ \A u, a : DeactivateAgent(u, a) => AgentFunded
  BY <1>1 DEF RegisterAgent, CancelAgentSubscription, UpdateAgent, DeactivateAgent, revenueVars
<1>3. /\ \A s : SetBps(s) => AgentFunded
      /\ \A a, n : SetMinimumStake(a, n) => AgentFunded
      /\ \A n : SetLockPeriod(n) => AgentFunded
  BY <1>1 DEF SetBps, SetMinimumStake, SetLockPeriod, revenueVars
<1> HIDE DEF AgentFunded
<1>4. CASE AgentHousekeeping
  BY <1>2, <1>4, ClaimRevenueFunds DEF AgentHousekeeping
<1>5. CASE AgentNext
  BY <1>2, <1>3, <1>5, StakeFunds, UnstakeFunds, ReceiveRevenueFunds, SubscribeToAgentFunds, SlashFunds
     DEF AgentNext
<1> QED BY <1>4, <1>5

-----------------------------------------------------------------------------
(* The money invariant holds of every behaviour.                            *)

(* MInv holds at deployment.                                                *)
LEMMA MoneyInit == Init => MInv
<1> SUFFICES ASSUME Init PROVE MInv
  OBVIOUS
<1> USE DEF Init
<1>1. EInv
  BY InvInit
<1>2. \A s \in Assets, x \in Accounts : bal[s][x] \in Nat
  BY EconomyAssumption
<1>3. \A t \in Tokens : Owed(NoClaims, t) = 0
  <2>1. NoClaims \in ClaimType /\ \A t \in Tokens, x \in Accounts : NoClaims[x][t] = 0
    BY DEF NoClaims, ClaimType
  <2> QED BY <2>1, OwedSum, ColumnZero, Parties
<1>4. \A t \in Tokens, x \in {distributor, marketplace, subscriptions, revenue, agentSubscriptions} :
          bal[t][x] = 0
  BY Parties
<1>5. RoyaltiesSolvent /\ RevenuesSolvent
  <2>1. royalties = NoClaims /\ revenues = NoClaims
    BY DEF MarketInit, AgentInit
  <2> QED BY <1>2, <1>3, <1>4, <2>1 DEF RoyaltiesSolvent, RevenuesSolvent
<1>6. ASSUME NEW a \in Agents PROVE Staked(stakes, a) = 0
  <2> DEFINE f == [u \in Users |-> stakes[a][u].amount]
  <2>1. \A u \in Users : f[u] = 0
    BY DEF AgentInit
  <2>2. Staked(stakes, a) = Total(f, Users)
    BY StakedTotal
  <2> HIDE DEF f
  <2> QED BY <2>1, <2>2, TotalZero, Parties
<1>7. StakesBacked
  <2> DEFINE f == [a \in Agents |-> Staked(stakes, a)]
  <2>1. \A a \in Agents : f[a] = 0
    BY <1>6
  <2>2. AllStaked(stakes) = Total(f, Agents)
    BY AllStakedTotal
  <2> HIDE DEF f
  <2>3. AllStaked(stakes) = 0
    BY <2>1, <2>2, TotalZero, Parties
  <2>4. bal[stakingToken][staking] \in Nat
    BY <1>2, Parties
  <2> QED BY <2>3, <2>4 DEF StakesBacked
<1>8. SumsOK
  BY <1>6 DEF AgentInit, SumsOK
<1> QED BY <1>2, <1>5, <1>7, <1>8 DEF MInv, Covered

(* A step of one half leaves the other half's promises funded.              *)
LEMMA MoneyNext == EInv /\ EInv' /\ MInv /\ [Next]_vars => MInv'
<1> SUFFICES ASSUME EInv, EInv', MInv, [Next]_vars PROVE MInv'
  OBVIOUS
<1>1. MarketInv /\ BalancesOK /\ AgentMoney /\ Covered /\ RoyaltiesSolvent /\ RevenuesSolvent /\ StakesOK'
  BY DEF EInv, MInv, MarketInv, BalancesOK, LedgerOK, AgentMoney
<1>2. CASE (MarketNext \/ MarketHousekeeping) /\ UNCHANGED agentVars
  <2>1. MarketFunded
    BY <1>1, <1>2, MarketMoney
  <2>2. UNCHANGED <<revenues, stakeVars, stakes, totalStake, slashed>>
    BY <1>2 DEF agentVars, revenueVars, stakeVars
  <2>3. RevenuesSolvent'
    <3>1. \A t \in Tokens :
             /\ bal[t][revenue] \in Int /\ bal'[t][revenue] \in Int /\ Owed(revenues, t) \in Nat
             /\ bal[t][revenue] >= Owed(revenues, t) /\ bal[t][agentSubscriptions] = 0
      BY <1>1, Balance, Parties, OwedSum
         DEF EInv, LedgerOK, LedgersOver, RevenuesSolvent, RevenueOK
    <3> QED BY <2>1, <2>2, <3>1 DEF MarketFunded, RevenuesSolvent
  <2>4. bal'[stakingToken][staking] \in Int /\ bal'[stakingToken][staking] >= bal[stakingToken][staking]
    BY <2>1, Parties DEF MarketFunded, EInv, LedgerOK, LedgersOver
  <2>5. StakesBacked' /\ SumsOK'
    BY <1>1, <2>2, <2>4, StakesLeft
  <2> QED BY <2>1, <2>3, <2>5 DEF MarketFunded, MInv
<1>3. CASE (AgentNext \/ AgentHousekeeping) /\ UNCHANGED marketVars
  <2>1. AgentFunded
    BY <1>1, <1>3, AgentMoneyStep
  <2>2. UNCHANGED royalties
    BY <1>3 DEF marketVars, royaltyVars
  <2>3. RoyaltiesSolvent'
    <3>1. \A t \in Tokens :
             /\ bal[t][distributor] \in Int /\ bal'[t][distributor] \in Int /\ Owed(royalties, t) \in Nat
             /\ bal[t][distributor] >= Owed(royalties, t) /\ bal[t][marketplace] = 0
             /\ bal[t][subscriptions] = 0
      BY <1>1, Balance, Parties, OwedSum
         DEF EInv, LedgerOK, LedgersOver, RoyaltiesSolvent, RoyaltiesOK
    <3> QED BY <2>1, <2>2, <3>1 DEF AgentFunded, RoyaltiesSolvent
  <2> QED BY <2>1, <2>3 DEF AgentFunded, MInv
<1>4. CASE UNCHANGED <<bal, marketVars, agentVars>>
  BY <1>4 DEF MInv, Covered, RoyaltiesSolvent, RevenuesSolvent, StakesBacked, SumsOK, marketVars, royaltyVars,
              agentVars, revenueVars, stakeVars
<1>5. Tick \/ UNCHANGED vars => UNCHANGED <<bal, marketVars, agentVars>>
  BY DEF Tick, vars
<1> QED BY <1>2, <1>3, <1>4, <1>5 DEF Next

(* EInv and MInv always hold.                                               *)
LEMMA MoneyInvariance == Spec => [](EInv /\ MInv)
<1>1. Init => EInv /\ MInv
  BY InvInit, MoneyInit
<1>2. (EInv /\ MInv) /\ [Next]_vars => (EInv /\ MInv)'
  BY InvNext, MoneyNext
<1> QED BY <1>1, <1>2, PTL DEF Spec

(* Royalties and agents' revenue can be claimed in whatever order: their    *)
(* distributors hold what they owe, and the contracts that payments pass    *)
(* through keep nothing.                                                    *)
THEOREM ClaimsAreFunded == Spec => []ClaimsFunded
<1>1. EInv /\ MInv => ClaimsFunded
  BY DEF MInv, ClaimsFunded
<1> QED BY <1>1, MoneyInvariance, PTL

(* A slash is final, and every stake is backed by tokens in the contract.   *)
THEOREM SlashesAreFinal == Spec => []SlashIsFinal
<1>1. EInv /\ MInv => SlashIsFinal
  <2> SUFFICES ASSUME EInv, MInv PROVE SlashIsFinal
    OBVIOUS
  <2>1. \A a \in Agents : Staked(stakes, a) >= slashed[a]
    <3>1. \A a \in Agents : totalStake[a] \in Nat /\ slashed[a] \in Nat
      BY DEF MInv, SumsOK
    <3> QED BY <3>1 DEF MInv, SumsOK
  <2>2. bal[stakingToken][staking] >= AllStaked(stakes)
    BY DEF MInv, StakesBacked
  <2> QED BY <2>1, <2>2 DEF SlashIsFinal, Staked, AllStaked
<1> QED BY <1>1, MoneyInvariance, PTL

-----------------------------------------------------------------------------
(* What the two invariants leave out of the types.                          *)
AgentType == [creator : Users \cup {Zero}, active : BOOLEAN]

RecordsOK ==
    /\ linked \subseteq {"registry", "nft", "router"}
    /\ agents \in [Agents -> AgentType] /\ \A a \in Agents : agents[a].active => agents[a].creator # Zero
    /\ minimumStake \in [Agents -> Nat] /\ lockPeriod \in LockPeriods
    /\ agentExpiry \in [Users -> [Agents -> Nat]]
    /\ calls \in 0..MaxCalls

(* The remaining records are well typed at deployment.                      *)
LEMMA RecordsInit == Init => RecordsOK
BY AgentAssumption, EconomyAssumption DEF Init, MarketInit, AgentInit, RecordsOK, AgentType

(* Agents: registered once, updated by their creators, deactivated.         *)
AgentRecords ==
    /\ agents \in [Agents -> AgentType] /\ \A a \in Agents : agents[a].active => agents[a].creator # Zero
    /\ minimumStake \in [Agents -> Nat] /\ lockPeriod \in LockPeriods
    /\ agentExpiry \in [Users -> [Agents -> Nat]]

(* An agent's record written with a good one.                               *)
LEMMA AgentWritten ==
    ASSUME AgentRecords, NEW a \in Agents, NEW x \in AgentType, x.active => x.creator # Zero,
           agents' = [agents EXCEPT ![a] = x], UNCHANGED <<minimumStake, lockPeriod, agentExpiry>>
    PROVE  AgentRecords'
<1>1. agents' \in [Agents -> AgentType]
  BY DEF AgentRecords
<1>2. \A b \in Agents : agents'[b] = IF b = a THEN x ELSE agents[b]
  BY DEF AgentRecords
<1> QED BY <1>1, <1>2 DEF AgentRecords

(* A subscription to an agent written.                                      *)
LEMMA ExpiryWritten ==
    ASSUME AgentRecords, NEW u \in Users, NEW a \in Agents, NEW n \in Nat,
           agentExpiry' = [agentExpiry EXCEPT ![u][a] = n], UNCHANGED <<minimumStake, lockPeriod, agents>>
    PROVE  AgentRecords'
<1>1. agentExpiry' \in [Users -> [Agents -> Nat]]
  BY DEF AgentRecords
<1> QED BY <1>1 DEF AgentRecords

(* Every step of the agent contracts keeps the records.                     *)
LEMMA AgentRecordsStep ==
    ASSUME AgentRecords, now \in Nat, AgentNext \/ AgentHousekeeping
    PROVE  AgentRecords'
<1>1. ASSUME UNCHANGED <<agents, stakeRules, agentExpiry>> PROVE AgentRecords'
  BY <1>1 DEF AgentRecords, stakeRules
<1>2. ASSUME NEW u \in Users, NEW a \in Agents, RegisterAgent(u, a) PROVE AgentRecords'
  <2> DEFINE x == [creator |-> u, active |-> TRUE]
  <2>1. x \in AgentType /\ x.creator # Zero
    BY ChainAssumption DEF AgentType
  <2>2. agents' = [agents EXCEPT ![a] = x] /\ UNCHANGED <<minimumStake, lockPeriod, agentExpiry>>
    BY <1>2 DEF RegisterAgent, stakeRules
  <2> HIDE DEF x
  <2> QED BY <2>1, <2>2, AgentWritten
<1>3. ASSUME NEW u, NEW a \in Agents, NEW on \in BOOLEAN,
             (UpdateAgent(u, a, on) /\ u # Zero) \/ (DeactivateAgent(u, a) /\ on = FALSE)
      PROVE  AgentRecords'
  <2> DEFINE x == [agents[a] EXCEPT !.active = on]
  <2>1. agents[a] \in AgentType
    BY DEF AgentRecords
  <2>2. agents[a].creator # Zero
    BY <1>3 DEF UpdateAgent, DeactivateAgent
  <2>3. x \in AgentType /\ x.creator # Zero
    BY <2>1, <2>2 DEF AgentType
  <2>4. agents' = [agents EXCEPT ![a] = x] /\ UNCHANGED <<minimumStake, lockPeriod, agentExpiry>>
    BY <1>3 DEF UpdateAgent, DeactivateAgent, stakeRules
  <2> HIDE DEF x
  <2> QED BY <2>3, <2>4, AgentWritten
<1>4. ASSUME NEW u \in Users, NEW a \in Agents, CancelAgentSubscription(u, a) PROVE AgentRecords'
  BY <1>4, ExpiryWritten DEF CancelAgentSubscription, stakeRules
<1>5. ASSUME NEW u \in Users, NEW a \in Agents, NEW d \in Periods, NEW t, NEW n, SubscribeToAgent(u, a, d, t, n)
      PROVE  AgentRecords'
  <2>1. agentExpiry[u][a] \in Nat /\ d \in Nat
    BY AgentAssumption DEF AgentRecords
  <2>2. Extended(agentExpiry[u][a], d) \in Nat
    BY <2>1 DEF Extended
  <2>3. agentExpiry' = [agentExpiry EXCEPT ![u][a] = Extended(agentExpiry[u][a], d)]
        /\ UNCHANGED <<minimumStake, lockPeriod, agents>>
    BY <1>5 DEF SubscribeToAgent, stakeRules
  <2> QED BY <2>2, <2>3, ExpiryWritten
<1>6. ASSUME NEW a \in Agents, NEW n \in MinimumStakes, SetMinimumStake(a, n) PROVE AgentRecords'
  BY <1>6, AgentAssumption DEF SetMinimumStake, AgentRecords
<1>7. ASSUME NEW n \in LockPeriods, SetLockPeriod(n) PROVE AgentRecords'
  BY <1>7 DEF SetLockPeriod, AgentRecords
<1>8. /\ \A s : SetBps(s) => AgentRecords'
      /\ \A u, a, t, n : ReceiveRevenue(u, a, t, n) => AgentRecords'
      /\ \A u, t : ClaimRevenue(u, t) => AgentRecords'
      /\ \A u, a, n : Stake(u, a, n) => AgentRecords'
      /\ \A u, a, n : Unstake(u, a, n) => AgentRecords'
      /\ \A a, n : Slash(a, n) => AgentRecords'
  BY <1>1 DEF SetBps, ReceiveRevenue, ClaimRevenue, Stake, Unstake, Slash
<1>9. CASE AgentHousekeeping
  BY <1>2, <1>4, <1>8, <1>9 DEF AgentHousekeeping
<1>10. ASSUME NEW u \in Users, NEW a \in Agents, UpdateAgent(u, a, ~agents[a].active) PROVE AgentRecords'
  <2> DEFINE on == ~agents[a].active
  <2>1. u # Zero /\ on \in BOOLEAN /\ UpdateAgent(u, a, on)
    BY <1>10, ChainAssumption
  <2> HIDE DEF on
  <2> QED BY <1>3, <2>1
<1>11. ASSUME NEW u, NEW a \in Agents, DeactivateAgent(u, a) PROVE AgentRecords'
  BY <1>3, <1>11
<1> HIDE DEF AgentRecords
<1>12. CASE AgentNext
  BY <1>5, <1>6, <1>7, <1>8, <1>10, <1>11, <1>12 DEF AgentNext
<1> QED BY <1>9, <1>12

(* Every step keeps the records.                                            *)
LEMMA RecordsNext == EInv /\ RecordsOK /\ [Next]_vars => RecordsOK'
<1> SUFFICES ASSUME EInv, RecordsOK, [Next]_vars PROVE RecordsOK'
  OBVIOUS
<1>1. now \in Nat /\ AgentRecords
  BY ChainAssumption DEF EInv, LedgerOK, Times, RecordsOK, AgentRecords
<1>2. calls' \in 0..MaxCalls
  <2>1. calls \in 0..MaxCalls /\ MaxCalls \in Nat
    BY EconomyAssumption DEF RecordsOK
  <2>2. UNCHANGED calls \/ (calls < MaxCalls /\ calls' = calls + 1)
    BY DEF Next, Tick, vars
  <2> QED BY <2>1, <2>2
<1>3. CASE (MarketNext \/ MarketHousekeeping) /\ UNCHANGED agentVars
  <2>1. linked' \subseteq {"registry", "nft", "router"}
    <3>1. CASE \E part \in {"registry", "nft"} : Link(part)
      BY <3>1 DEF Link, RecordsOK
    <3>2. CASE SetStrategyBinding("router" \notin linked)
      BY <3>2 DEF SetStrategyBinding, RecordsOK
    <3>3. CASE UNCHANGED linked
      BY <3>3 DEF RecordsOK
    <3>4. CASE MarketHousekeeping
      BY <3>1, <3>3, <3>4 DEF MarketHousekeeping, Register, RegisterReturns, ClaimRoyalty, CancelListing, CancelSubscription,
                              ExecuteWithStrategy, tokenVars
    <3>5. /\ \A u, s, v : UpgradeStrategy(u, s, v) => UNCHANGED linked
          /\ \A bps : SetRoyaltyBps(bps) => UNCHANGED linked
          /\ \A x : SetProtocolTreasury(x) => UNCHANGED linked
          /\ \A x : SetSplit(x) => UNCHANGED linked
          /\ \A u, t, c, a, n : ReceivePayment(u, t, c, a, n) => UNCHANGED linked
      BY DEF UpgradeStrategy, SetRoyaltyBps, SetProtocolTreasury, SetSplit, ReceivePayment, tokenVars
    <3>6. /\ \A u, id, to : TransferToken(u, id, to) => UNCHANGED linked
          /\ \A u, id, a : Buy(u, id, a) => UNCHANGED linked
          /\ \A u, id, t, n : ListToken(u, id, t, n) => UNCHANGED linked
          /\ \A u, id, d, t, n : Subscribe(u, id, d, t, n) => UNCHANGED linked
      BY DEF TransferToken, Buy, ListToken, Subscribe, tokenVars
    <3>7. CASE MarketNext
      BY <3>2, <3>3, <3>5, <3>6, <3>7 DEF MarketNext
    <3> QED BY <1>3, <3>4, <3>7
  <2> QED BY <1>2, <1>3, <2>1 DEF RecordsOK, agentVars, stakeRules
<1>4. CASE (AgentNext \/ AgentHousekeeping) /\ UNCHANGED marketVars
  <2>1. AgentRecords'
    BY <1>1, <1>4, AgentRecordsStep
  <2> QED BY <1>2, <1>4, <2>1 DEF RecordsOK, AgentRecords, marketVars, tokenVars
<1>5. CASE UNCHANGED <<marketVars, agentVars>>
  BY <1>2, <1>5 DEF RecordsOK, marketVars, tokenVars, agentVars, stakeRules
<1>6. Tick \/ UNCHANGED vars => UNCHANGED <<marketVars, agentVars>>
  BY DEF Tick, vars
<1> QED BY <1>3, <1>4, <1>5, <1>6 DEF Next

(* A capped rate is in its range.                                           *)
LEMMA WithinCap == \A x, y \in Nat : x <= y => x \in 0..y
OBVIOUS

(* Every variable of both halves keeps its type: nobody is overdrawn, no    *)
(* stake, claim or total goes below zero, rates stay within their caps.     *)
THEOREM TypesHold == Spec => []EconomyTypeOK
<1>1. Init => RecordsOK
  BY RecordsInit
<1>2. EInv /\ RecordsOK /\ [Next]_vars => RecordsOK'
  BY RecordsNext
<1>3. Spec => []RecordsOK
  BY <1>1, <1>2, Invariance, PTL DEF Spec
<1>4. EInv /\ MInv /\ RecordsOK => EconomyTypeOK
  <2> SUFFICES ASSUME EInv, MInv, RecordsOK PROVE EconomyTypeOK
    OBVIOUS
  <2>1. ChainTypeOK
    <3>1. \A s \in Assets, x \in Accounts : bal[s][x] \in Nat
      BY DEF EInv, LedgerOK, LedgersOver, MInv, Covered
    <3> QED BY <3>1 DEF EInv, LedgerOK, LedgersOver, ChainTypeOK
  <2>2. MarketTypeOK
    <3>1. /\ split[1] \in 0..MAX_CREATOR_BPS /\ split[2] \in 0..MAX_PROTOCOL_BPS
          /\ split[3] \in 0..MAX_AFFILIATE_BPS
      <4>1. split[1] \in Nat /\ split[2] \in Nat /\ split[3] \in Nat
        BY DEF EInv, RoyaltiesOK
      <4>2. /\ split[1] <= MAX_CREATOR_BPS /\ split[2] <= MAX_PROTOCOL_BPS /\ split[3] <= MAX_AFFILIATE_BPS
        BY DEF EInv, RoyaltiesOK, SplitAllowed
      <4>3. MAX_CREATOR_BPS \in Nat /\ MAX_PROTOCOL_BPS \in Nat /\ MAX_AFFILIATE_BPS \in Nat
        BY DEF MAX_CREATOR_BPS, MAX_PROTOCOL_BPS, MAX_AFFILIATE_BPS
      <4> QED BY <4>1, <4>2, <4>3, WithinCap
    <3> QED BY <3>1 DEF EInv, RecordsOK, TokensOK, ListingsOK, RoyaltiesOK, PeriodsOK, TokenType, RegisteredType,
                        ListingType, ClaimType, MarketTypeOK
  <2>3. AgentTypeOK
    <3>1. agentSplit[1] \in 0..MAX_AGENT_BPS /\ agentSplit[2] \in 0..MAX_AGENT_PROTOCOL_BPS
      <4>1. agentSplit[1] \in Nat /\ agentSplit[2] \in Nat
        BY DEF EInv, RevenueOK
      <4>2. agentSplit[1] <= MAX_AGENT_BPS /\ agentSplit[2] <= MAX_AGENT_PROTOCOL_BPS
        BY DEF EInv, RevenueOK, AgentSplitAllowed
      <4>3. MAX_AGENT_BPS \in Nat /\ MAX_AGENT_PROTOCOL_BPS \in Nat
        BY DEF MAX_AGENT_BPS, MAX_AGENT_PROTOCOL_BPS
      <4> QED BY <4>1, <4>2, <4>3, WithinCap
    <3> QED BY <3>1 DEF EInv, MInv, SumsOK, RecordsOK, StakesOK, RevenueOK, ClaimType, AgentType, AgentTypeOK
  <2> QED BY <2>1, <2>2, <2>3 DEF RecordsOK, EconomyTypeOK
<1> QED BY <1>3, <1>4, MoneyInvariance, PTL
==============================================================================
