---------------------------- MODULE StrategyMarket ----------------------------
(***************************************************************************)
(* Strategies as tokens: contracts/strategy/StrategyNFT.sol and            *)
(* StrategyRegistry.sol, marketplace/StrategyMarketplace.sol, royalty/     *)
(* RoyaltyDistributor.sol, subscription/StrategySubscriptionManager.sol    *)
(* and the router's strategy binding.                                      *)
(*                                                                         *)
(* Every holder has approved the marketplace for its tokens, now and after *)
(* it gets one back (setApprovalForAll).  Token ids count from 1; 0 is no  *)
(* token.                                                                  *)
(***************************************************************************)
EXTENDS Claims, Sequences

CONSTANTS
    Strategies,               \* addresses of strategies
    marketplace, distributor, subscriptions,   \* the contracts' own accounts
    Prices, Durations,        \* what sellers and subscribers ask for
    RoyaltyRates,             \* royaltyBps values the NFT's owner tries
    Splits,                   \* <<creator, protocol, affiliate>> tried
    ProtocolTreasuries,       \* treasuries tried
    InitialRoyalty, InitialSplit, InitialTreasury,   \* what they are deployed with
    MaxVersion                \* bound: versions of a strategy

ASSUME MarketAssumption ==
    /\ {marketplace, distributor, subscriptions} \subseteq Contracts
    /\ marketplace # distributor /\ subscriptions \notin {marketplace, distributor}
    /\ Prices \subseteq Nat /\ Durations \subseteq Nat /\ RoyaltyRates \subseteq Nat
    /\ Splits \subseteq Nat \X Nat \X Nat
    /\ ProtocolTreasuries \subseteq Accounts
    /\ InitialRoyalty \in RoyaltyRates /\ InitialSplit \in Splits
    /\ InitialTreasury \in ProtocolTreasuries
    /\ MaxVersion \in Nat \ {0}

VARIABLES
    nft,             \* tokens minted: strategy, creator, version, owner
    registered,      \* per strategy: creator, activeVersion, tokenId
    linked,          \* what setRegistry, setStrategyNFT and setStrategyBinding connected
    royaltyBps,
    early,           \* history: strategies last upgraded while their token was being minted
    listings,        \* per token id
    split, protocolTreasury, royalties,
    expiry,          \* subscriptionExpiry[user][strategy's token]
    bought,          \* history: time paid for, per user and token
    served           \* history: times of executions under the binding

tokenVars == <<nft, registered, linked, royaltyBps, early>>
royaltyVars == <<split, protocolTreasury, royalties>>
periodVars == <<expiry, bought, served>>
marketVars == <<tokenVars, listings, royaltyVars, periodVars>>

MAX_ROYALTY_BPS == 2500
MAX_CREATOR_BPS == 1000
MAX_PROTOCOL_BPS == 500
MAX_AFFILIATE_BPS == 500

Ids == 1..Cardinality(Strategies)
Minted == 1..Len(nft)

Unregistered == [creator |-> Zero, version |-> 0, id |-> 0]
Unlisted == [seller |-> Zero, token |-> Zero, price |-> 0]

(* A registration stands between the mint, which calls a creator that is a  *)
(* contract back, and the line that stores the token's id.                  *)
Minting == \E s \in Strategies : registered[s].version > 0 /\ registered[s].id = 0

(* Tokens and strategies point at each other one to one, rates stay within  *)
(* their caps and nobody is owed by anybody but the distributor.            *)
MarketTypeOK ==
    /\ nft \in Seq([strategy : Strategies, creator : Users, version : 1..MaxVersion,
                    owner : Users])
    /\ registered \in [Strategies -> [creator : Users \cup {Zero}, version : 0..MaxVersion,
                                      id : 0..Len(nft)]]
    /\ linked \subseteq {"registry", "nft", "router"}
    /\ royaltyBps \in 0..MAX_ROYALTY_BPS /\ early \subseteq Strategies
    /\ listings \in [Ids -> [seller : Users \cup {Zero}, token : Tokens \cup {Zero}, price : Nat]]
    /\ \A id \in Ids : listings[id].seller # Zero => id \in Minted
    /\ split[1] \in 0..MAX_CREATOR_BPS /\ split[2] \in 0..MAX_PROTOCOL_BPS
    /\ split[3] \in 0..MAX_AFFILIATE_BPS
    /\ royalties \in [Accounts -> [Tokens -> Nat]]
    /\ expiry \in [Users -> [Ids -> Nat]] /\ bought \in [Users -> [Ids -> Nat]]
    /\ served \in [Users -> [Ids -> SUBSET Times]]

SplitAllowed(s) ==
    /\ s[1] <= MAX_CREATOR_BPS /\ s[2] <= MAX_PROTOCOL_BPS /\ s[3] <= MAX_AFFILIATE_BPS
    /\ s[1] + s[2] + s[3] <= BPS_DENOMINATOR

MarketInit ==
    /\ nft = << >> /\ linked = {} /\ early = {}
    /\ registered = [s \in Strategies |-> Unregistered]
    /\ royaltyBps = InitialRoyalty /\ royaltyBps <= MAX_ROYALTY_BPS
    /\ listings = [id \in Ids |-> Unlisted]
    /\ split = InitialSplit /\ SplitAllowed(split)
    /\ protocolTreasury = InitialTreasury
    /\ royalties = NoClaims
    /\ expiry = [u \in Users |-> [id \in Ids |-> 0]]
    /\ bought = [u \in Users |-> [id \in Ids |-> 0]]
    /\ served = [u \in Users |-> [id \in Ids |-> {}]]

-----------------------------------------------------------------------------
(* StrategyNFT and StrategyRegistry.                                       *)

(* NFT.setRegistry and registry.setStrategyNFT, once each.                  *)
Link(part) ==
    /\ part \notin linked
    /\ linked' = linked \cup {part}
    /\ UNCHANGED <<bal, now, nft, registered, royaltyBps, early, listings, royaltyVars, periodVars>>

(* router.setStrategyBinding, with the three contracts or with address(0).  *)
SetStrategyBinding(on) ==
    /\ linked' = IF on THEN linked \cup {"router"} ELSE linked \ {"router"}
    /\ UNCHANGED <<bal, now, nft, registered, royaltyBps, early, listings, royaltyVars, periodVars>>

(* register up to the callback of _safeMint, onERC721Received: whatever the *)
(* creator and other contracts do there happens before RegisterReturns.     *)
(* The owner does not register inside a registration.                       *)
Register(strategy, creator) ==
    /\ {"registry", "nft"} \subseteq linked
    /\ registered[strategy].id = 0 /\ ~Minting
    /\ nft' = Append(nft, [strategy |-> strategy, creator |-> creator, version |-> 1,
                           owner |-> creator])
    /\ registered' = [registered EXCEPT ![strategy] =
                         [creator |-> creator, version |-> 1, id |-> 0]]
    /\ UNCHANGED <<bal, now, linked, royaltyBps, early, listings, royaltyVars, periodVars>>

(* register after it.                                                       *)
RegisterReturns(strategy) ==
    /\ registered[strategy].version > 0 /\ registered[strategy].id = 0
    /\ registered' = [registered EXCEPT ![strategy].id = Len(nft)]
    /\ UNCHANGED <<bal, now, nft, linked, royaltyBps, early, listings, royaltyVars, periodVars>>

(* Mutant: the token keeps its version.                                     *)
UpgradeOnlyRegistry(sender, strategy, version) ==
    /\ registered[strategy].creator = sender
    /\ version > registered[strategy].version
    /\ registered' = [registered EXCEPT ![strategy].version = version]
    /\ early' = IF registered[strategy].id = 0 THEN early \cup {strategy} ELSE early \ {strategy}
    /\ UNCHANGED <<bal, now, nft, linked, royaltyBps, listings, royaltyVars, periodVars>>

(* Inside the callback the token's id is not stored yet: setVersion writes  *)
(* the version of token 0.                                                  *)
UpgradeStrategy(sender, strategy, version) ==
    LET id == registered[strategy].id IN
    /\ registered[strategy].creator = sender
    /\ version > registered[strategy].version
    /\ registered' = [registered EXCEPT ![strategy].version = version]
    /\ IF id = 0 THEN nft' = nft /\ early' = early \cup {strategy}
       ELSE nft' = [nft EXCEPT ![id].version = version] /\ early' = early \ {strategy}
    /\ UNCHANGED <<bal, now, linked, royaltyBps, listings, royaltyVars, periodVars>>

SetRoyaltyBps(bps) ==
    /\ bps <= MAX_ROYALTY_BPS
    /\ royaltyBps' = bps
    /\ UNCHANGED <<bal, now, nft, registered, linked, early, listings, royaltyVars, periodVars>>

RoyaltyInfo(price) == Share(price, royaltyBps)

(* ERC-721 transferFrom by the owner: the listing stays.                    *)
TransferToken(sender, id, to) ==
    /\ id \in Minted /\ nft[id].owner = sender
    /\ nft' = [nft EXCEPT ![id].owner = to]
    /\ UNCHANGED <<bal, now, registered, linked, royaltyBps, early, listings, royaltyVars, periodVars>>

-----------------------------------------------------------------------------
(* RoyaltyDistributor.                                                     *)

(* The parts nobody is named for stay in the distributor.                   *)
SharedOut(t, creator, affiliate, n) ==
    LET others == Credited(Credited(royalties, creator, t, Share(n, split[1])),
                           protocolTreasury, t, Share(n, split[2]))
    IN IF affiliate = Zero THEN others ELSE Credited(others, affiliate, t, Share(n, split[3]))

ReceivePayment(sender, t, creator, affiliate, n) ==
    /\ Has(bal, t, sender, n)
    /\ bal' = Transfer(bal, t, sender, distributor, n)
    /\ royalties' = SharedOut(t, creator, affiliate, n)
    /\ UNCHANGED <<now, tokenVars, listings, split, protocolTreasury, periodVars>>

(* Mutant: the claimed balance is not reset.                                *)
ClaimRoyaltyAgain(sender, t) ==
    LET n == royalties[sender][t] IN
    /\ n > 0
    /\ Has(bal, t, distributor, n)
    /\ bal' = Transfer(bal, t, distributor, sender, n)
    /\ UNCHANGED <<now, tokenVars, listings, royaltyVars, periodVars>>

ClaimRoyalty(sender, t) ==
    LET n == royalties[sender][t] IN
    /\ n > 0
    /\ royalties' = Claimed(royalties, sender, t)
    /\ Has(bal, t, distributor, n)
    /\ bal' = Transfer(bal, t, distributor, sender, n)
    /\ UNCHANGED <<now, tokenVars, listings, split, protocolTreasury, periodVars>>

SetProtocolTreasury(a) ==
    /\ protocolTreasury' = a
    /\ UNCHANGED <<bal, now, tokenVars, listings, split, royalties, periodVars>>

SetSplit(s) ==
    /\ SplitAllowed(s)
    /\ split' = s
    /\ UNCHANGED <<bal, now, tokenVars, listings, protocolTreasury, royalties, periodVars>>

-----------------------------------------------------------------------------
(* StrategyMarketplace.                                                    *)

ListToken(sender, id, t, price) ==
    /\ id \in Minted /\ nft[id].owner = sender
    /\ listings' = [listings EXCEPT ![id] = [seller |-> sender, token |-> t, price |-> price]]
    /\ UNCHANGED <<bal, now, tokenVars, royaltyVars, periodVars>>

CancelListing(sender, id) ==
    /\ listings[id].seller = sender
    /\ listings' = [listings EXCEPT ![id] = Unlisted]
    /\ UNCHANGED <<bal, now, tokenVars, royaltyVars, periodVars>>

(* Mutant: the token moves whoever owns it.                                 *)
BuyFromAnyOwner(buyer, id, affiliate) ==
    LET l == listings[id]
        royalty == RoyaltyInfo(l.price)
    IN /\ l.seller # Zero /\ l.price > 0
       /\ Has(bal, l.token, buyer, l.price)
       /\ listings' = [listings EXCEPT ![id] = Unlisted]
       /\ bal' = Transfer(Transfer(bal, l.token, buyer, distributor, royalty),
                          l.token, buyer, l.seller, l.price - royalty)
       /\ royalties' = IF royalty = 0 THEN royalties
                       ELSE SharedOut(l.token, nft[id].creator, affiliate, royalty)
       /\ nft' = [nft EXCEPT ![id].owner = buyer]
       /\ UNCHANGED <<now, registered, linked, royaltyBps, early, split, protocolTreasury, periodVars>>

(* The price passes through the marketplace; the token comes from the       *)
(* recorded seller, and the call reverts when that is not its owner.        *)
Buy(buyer, id, affiliate) ==
    LET l == listings[id]
        royalty == RoyaltyInfo(l.price)
        paid == Transfer(bal, l.token, buyer, marketplace, l.price)
    IN /\ l.seller # Zero /\ l.price > 0
       /\ Has(bal, l.token, buyer, l.price)
       /\ listings' = [listings EXCEPT ![id] = Unlisted]
       /\ bal' = Transfer(Transfer(paid, l.token, marketplace, distributor, royalty),
                          l.token, marketplace, l.seller, l.price - royalty)
       /\ royalties' = IF royalty = 0 THEN royalties
                       ELSE SharedOut(l.token, nft[id].creator, affiliate, royalty)
       /\ nft[id].owner = l.seller
       /\ nft' = [nft EXCEPT ![id].owner = buyer]
       /\ UNCHANGED <<now, registered, linked, royaltyBps, early, split, protocolTreasury, periodVars>>

-----------------------------------------------------------------------------
(* StrategySubscriptionManager and the binding.                            *)

Subscribe(user, id, duration, t, n) ==
    LET paid == Transfer(bal, t, user, subscriptions, n) IN
    /\ duration > 0 /\ n > 0
    /\ id \in Minted
    /\ Has(bal, t, user, n)
    /\ bal' = Transfer(paid, t, subscriptions, distributor, n)
    /\ royalties' = SharedOut(t, nft[id].creator, Zero, n)
    /\ expiry' = [expiry EXCEPT ![user][id] = Extended(@, duration)]
    /\ bought' = [bought EXCEPT ![user][id] = @ + duration]
    /\ UNCHANGED <<now, tokenVars, listings, split, protocolTreasury, served>>

CancelSubscription(user, id) ==
    /\ Live(expiry[user][id])
    /\ expiry' = [expiry EXCEPT ![user][id] = now]
    /\ UNCHANGED <<bal, now, tokenVars, listings, royaltyVars, bought, served>>

(* _requireStrategyBinding, once the binding is set.                        *)
BindingMet(owner, id) ==
    /\ id \in Minted /\ nft[id].owner = owner
    /\ Live(expiry[owner][id])
    /\ registered[nft[id].strategy].version = nft[id].version

(* executeExactInputSingleWithStrategy; the swap is ExecutionRouter's.      *)
ExecuteWithStrategy(owner, id) ==
    /\ "router" \in linked
    /\ BindingMet(owner, id)
    /\ served' = [served EXCEPT ![owner][id] = @ \cup {now}]
    /\ UNCHANGED <<bal, now, tokenVars, listings, royaltyVars, expiry, bought>>

-----------------------------------------------------------------------------
(* Calls that move no money in, and those that do or change a rule.  A      *)
(* setting is set to something else than it was, and nobody is creator and  *)
(* affiliate of one payment.                                                *)
MarketHousekeeping ==
    \/ \E part \in {"registry", "nft"} : Link(part)
    \/ \E s \in Strategies : RegisterReturns(s) \/ \E u \in Users : Register(s, u)
    \/ \E a \in (Users \cup ProtocolTreasuries) \ Contracts, t \in Tokens : ClaimRoyalty(a, t)
    \/ \E u \in Users, id \in Ids :
          CancelListing(u, id) \/ CancelSubscription(u, id) \/ ExecuteWithStrategy(u, id)

MarketNext ==
    \/ SetStrategyBinding("router" \notin linked)
    \/ \E s \in Strategies, u \in Users, v \in 1..MaxVersion : UpgradeStrategy(u, s, v)
    \/ \E bps \in RoyaltyRates \ {royaltyBps} : SetRoyaltyBps(bps)
    \/ \E a \in ProtocolTreasuries \ {protocolTreasury} : SetProtocolTreasury(a)
    \/ \E s \in Splits \ {split} : SetSplit(s)
    \/ \E u \in Users, t \in Tokens, n \in Prices, c \in Users :
          \E a \in (Users \ {c}) \cup {Zero} : ReceivePayment(u, t, c, a, n)
    \/ \E u \in Users, id \in Ids :
          \/ \E to \in Users \ {u} : TransferToken(u, id, to)
          \/ \E a \in Users \cup {Zero} : Buy(u, id, a)
          \/ \E t \in Tokens, n \in Prices :
                ListToken(u, id, t, n) \/ \E d \in Durations : Subscribe(u, id, d, t, n)

-----------------------------------------------------------------------------
(* The distributor always holds what it owes, whatever is paid in by sales, *)
(* subscriptions and others under whatever splits, and claimed in whatever  *)
(* order; the contracts that pass payments on keep nothing.                 *)
RoyaltiesSolvent ==
    \A t \in Tokens :
        /\ bal[t][distributor] >= Owed(royalties, t)
        /\ bal[t][marketplace] = 0 /\ bal[t][subscriptions] = 0

(* Tokens and strategies belong to each other one to one, with the same     *)
(* creator, and the two copies of a version, which the router compares,     *)
(* agree, whoever upgrades when: except that a token whose strategy was     *)
(* upgraded inside its own mint stays at version 1 until the next upgrade.  *)
VersionsAgree ==
    \A id \in Minted :
        LET s == nft[id].strategy
            r == registered[s]
        IN /\ r.id = id \/ (r.id = 0 /\ id = Len(nft))
           /\ r.creator = nft[id].creator
           /\ nft[id].version = IF s \in early THEN 1 ELSE r.version

(* A sale takes the token from the very holder who listed it, at that       *)
(* price, and at least 75% of it arrives there, although tokens are handed  *)
(* on, listings outlive that and the royalty changes in between.            *)
SoldByItsLister ==
    [][\A id \in Ids :
          LET l == listings[id] IN
          (l # listings'[id] /\ listings'[id] = Unlisted /\ bal' # bal) =>
              /\ nft[id].owner = l.seller
              /\ LET buyer == nft'[id].owner
                     got == bal'[l.token][l.seller] - bal[l.token][l.seller]
                 IN IF buyer = l.seller THEN got <= 0
                    ELSE /\ 4 * got >= 3 * l.price
                         /\ bal[l.token][buyer] - bal'[l.token][buyer] = l.price]_<<bal, marketVars>>

(* Executions under the binding are paid for: nobody executes at more       *)
(* moments than the time bought for that token, however subscriptions are   *)
(* extended, cancelled and bought again while the token changes hands.      *)
TimeIsPaidFor ==
    \A u \in Users, id \in Ids : Cardinality(served[u][id]) <= bought[u][id]
=============================================================================
