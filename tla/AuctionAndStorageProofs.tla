----------------------- MODULE AuctionAndStorageProofs -----------------------
(***************************************************************************)
(* Two parts that share nothing but the lemmas about sums.                 *)
(*                                                                         *)
(* Proofs about the Auction for any bidders, assets, bids, configurations  *)
(* and number of tokens, over any token that may refuse it.                *)
(*                                                                         *)
(* Proofs about the renewal of storage: of shared code, for any releases,  *)
(* DAOs and failures, and of what a DAO owns, for any inventory of keys    *)
(* and any lives of its entries.                                           *)
(***************************************************************************)
EXTENDS Auction, Renewal, CodeRenewal, Sums, SequenceTheorems, FiniteSetTheorems, TLAPS

-----------------------------------------------------------------------------
(* The next token, and the next bid.                                       *)

\* The next token to be minted is one that nobody holds.
LEMMA NextToken ==
    ASSUME NEW held, NEW n \in 0 .. MaxTokens, Minted(held) = 0 .. n - 1
    PROVE  Cardinality(Minted(held)) = n
  <1>1. Cardinality(0 .. n - 1) = IF 0 > n - 1 THEN 0 ELSE n - 1 - 0 + 1
    BY AuctionAssumption, FS_Interval
  <1>2. Cardinality(0 .. n - 1) = n
    BY <1>1, AuctionAssumption
  <1> QED BY <1>2, Zenon

\* The percentage of a bid at or above the least reserve price never rounds
\* down to nothing.
LEMMA IncrementIsPositive ==
    ASSUME NEW bid \in Nat, bid >= MinReserve, NEW increment \in 1 .. PercentDenominator
    PROVE  (bid * increment) \div PercentDenominator \in Nat \ {0}
  <1> DEFINE q == (bid * increment) \div PercentDenominator
  <1>1. /\ PercentDenominator \in Nat \ {0} /\ bid >= PercentDenominator
        /\ MinReserve \in Nat
    BY AuctionAssumption
  <1>2. bid * increment \in Nat /\ bid * increment >= bid
    <2>1. bid * (increment - 1) \in Nat
      BY <1>1
    <2> QED BY <1>1, <2>1
  <1>3. q \in Nat /\ bid * increment < q * PercentDenominator + PercentDenominator
    BY <1>1, <1>2
  <1>4. q # 0
    BY <1>1, <1>2, <1>3
  <1> QED BY <1>3, <1>4

\* validate_bid_amount lets through only what is more than the leading bid, and
\* at least the least reserve price.
LEMMA BidsRise ==
    ASSUME TypeOK, BidsAreSerious, auction # NoAuction, NEW amount \in Nat, EnoughBid(amount)
    PROVE  amount >= MinReserve /\ amount > auction.bid
  <1>1. /\ auction \in Auctions /\ config \in Configs
        /\ MinReserve \in Nat
    BY AuctionAssumption DEF TypeOK
  <1>2. /\ auction.bid \in Nat /\ config.increment \in 1 .. PercentDenominator
        /\ config.reserve \in Nat /\ config.reserve >= MinReserve
    BY <1>1 DEF Auctions, Configs
  <1>3. CASE auction.bidder = None
    BY <1>1, <1>2, <1>3 DEF EnoughBid, BidsAreSerious
  <1>4. CASE auction.bidder # None
    <2> DEFINE q == (auction.bid * config.increment) \div PercentDenominator
    <2>1. auction.bid >= MinReserve
      BY <1>4 DEF BidsAreSerious
    <2>2. q \in Nat \ {0}
      BY <1>2, <2>1, IncrementIsPositive
    <2>3. amount >= auction.bid + q
      BY <1>4 DEF EnoughBid
    <2> HIDE DEF q
    <2> QED BY <1>1, <1>2, <2>1, <2>2, <2>3
  <1> QED BY <1>3, <1>4

-----------------------------------------------------------------------------
(* Money.                                                                  *)

\* What is kept for a bidder in an asset.
Kept(b, a) == IF a = config.asset THEN pending[b] ELSE 0

\* A refund, pushed or kept, is worth what was bid, to nobody but the bidder.
\* P and E are the purses and the escrow before it.
Refunded(owed, refund, P) ==
    /\ purse' \in [Bidders -> [Assets -> Nat]]
    /\ escrow' \in [Assets -> Nat]
    /\ pending' \in [Bidders -> Nat]
    /\ \A b \in Bidders : b # owed => pending'[b] = pending[b]
    /\ \A b \in Bidders, a \in Assets :
          b # owed \/ a # config.asset => purse'[b][a] = P[b][a]
    /\ owed # None =>
          purse'[owed][config.asset] + pending'[owed]
              = P[owed][config.asset] + pending[owed] + refund

\* Pushed or kept as pending, the whole refund reaches the bidder who was owed it.
LEMMA RefundIsWhole ==
    ASSUME NEW owed \in Bidders \cup {None}, NEW refund \in Nat,
           NEW P \in [Bidders -> [Assets -> Nat]], NEW E \in [Assets -> Nat],
           pending \in [Bidders -> Nat], config.asset \in Assets,
           RefundBid(owed, refund, P, E)
    PROVE  Refunded(owed, refund, P)
  <1>1. None \notin Bidders
    BY AuctionAssumption
  <1>2. CASE owed = None
    BY <1>1, <1>2 DEF RefundBid, Refunded
  <1>3. ASSUME owed # None,
               purse' = [P EXCEPT ![owed][config.asset] = @ + refund],
               E[config.asset] >= refund,
               escrow' = [E EXCEPT ![config.asset] = @ - refund],
               pending' = pending
        PROVE  Refunded(owed, refund, P)
    BY <1>3 DEF Refunded
  <1>4. ASSUME owed # None,
               pending' = [pending EXCEPT ![owed] = @ + refund],
               purse' = P, escrow' = E
        PROVE  Refunded(owed, refund, P)
    BY <1>4 DEF Refunded
  <1> QED BY <1>2, <1>3, <1>4 DEF RefundBid

\* Paying out a winner moves the winning bid, and no other, to the proceeds.
LEMMA PayOutIsWhole ==
    ASSUME TypeOK, Open, PayOut
    PROVE  /\ escrow' \in [Assets -> Nat]
           /\ proceeds' \in [Bidders -> [Assets -> Nat]]
           /\ pending' = pending /\ purse' = purse
           /\ \A b \in Bidders, a \in Assets :
                 proceeds'[b][a] = proceeds[b][a]
                     + IF a = config.asset THEN Leading(b) ELSE 0
  <1>1. /\ auction \in Auctions /\ config \in Configs /\ None \notin Bidders
        /\ escrow \in [Assets -> Nat] /\ proceeds \in [Bidders -> [Assets -> Nat]]
    BY AuctionAssumption DEF TypeOK, Open, NoAuction
  <1>2. auction.bid \in Nat /\ auction.bidder \in Bidders \cup {None} /\ config.asset \in Assets
    BY <1>1 DEF Auctions, Configs
  <1>3. CASE auction.bidder = None
    BY <1>1, <1>2, <1>3 DEF PayOut, moneyVars, Leading
  <1>4. CASE auction.bidder # None
    <2>1. /\ escrow[config.asset] >= auction.bid
          /\ escrow' = [escrow EXCEPT ![config.asset] = @ - auction.bid]
          /\ proceeds' = [proceeds EXCEPT ![auction.bidder][config.asset] = @ + auction.bid]
          /\ pending' = pending /\ purse' = purse
      BY <1>4 DEF PayOut
    <2>2. escrow' \in [Assets -> Nat] /\ proceeds' \in [Bidders -> [Assets -> Nat]]
      BY <1>1, <1>2, <1>4, <2>1
    <2>3. \A b \in Bidders, a \in Assets :
             proceeds'[b][a] = proceeds[b][a]
                 + IF b = auction.bidder /\ a = config.asset THEN auction.bid ELSE 0
      BY <1>1, <1>2, <1>4, <2>1
    <2> QED BY <2>1, <2>2, <2>3, <1>1, <1>2 DEF Leading
  <1> QED BY <1>3, <1>4

-----------------------------------------------------------------------------
(* Tokens.                                                                 *)

Holders == Bidders \cup {None, Self, Treasury}

\* Handing over the token for sale leaves the Auction with none.
LEMMA HandOver ==
    ASSUME IndInv, Open, NEW to \in Bidders \cup {Treasury}
    PROVE  LET h == [holder EXCEPT ![auction.tokenId] = to]
           IN  /\ h \in [TokenIds -> Holders]
               /\ \A t \in TokenIds : h[t] # Self
               /\ Minted(h) = Minted(holder)
  <1> DEFINE h == [holder EXCEPT ![auction.tokenId] = to]
  <1>1. /\ holder \in [TokenIds -> Holders] /\ auction \in Auctions
        /\ to # Self /\ to # None /\ Self # None
    BY AuctionAssumption DEF IndInv, TypeOK, Holders, Open, NoAuction
  <1>2. /\ auction.tokenId \in TokenIds
        /\ \A t \in TokenIds : holder[t] = Self <=> auction.tokenId = t
    BY <1>1 DEF IndInv, HoldsWhatItSells, Auctions
  <1>3. h \in [TokenIds -> Holders]
    BY <1>1 DEF Holders
  <1>4. \A t \in TokenIds : h[t] # Self /\ (h[t] # None <=> holder[t] # None)
    BY <1>1, <1>2
  <1>5. Minted(h) = Minted(holder)
    BY <1>4 DEF Minted
  <1> QED BY <1>3, <1>4, <1>5

\* create_auction mints a token that nobody held, and sells it and no other.
LEMMA CreateAuctionInv ==
    ASSUME TypeOK, NEW held \in [TokenIds -> Holders], \A t \in TokenIds : held[t] # Self,
           NEW n \in 0 .. MaxTokens, Minted(held) = 0 .. n - 1, CreateAuction(held)
    PROVE  /\ auction' \in Auctions /\ auction'.state = "open"
           /\ auction'.bidder = None /\ auction'.bid = 0 /\ auction'.tokenId = n
           /\ auction'.start = now /\ auction'.end = now + config.duration
           /\ auction'.extensions = 0
           /\ holder' \in [TokenIds -> Holders]
           /\ announced' = config
           /\ held[n] = None
           /\ HoldsWhatItSells' /\ MintedInOrder'
  <1>1. /\ n \in TokenIds /\ holder' = [held EXCEPT ![n] = Self] /\ announced' = config
        /\ auction' = [state |-> "open", tokenId |-> n, bid |-> 0, bidder |-> None,
                       start |-> now, end |-> now + config.duration, extensions |-> 0]
    BY NextToken DEF CreateAuction
  <1>2. now \in Nat /\ config.duration \in Nat /\ Self # None /\ MaxTokens \in Nat \ {0}
    BY AuctionAssumption DEF TypeOK, Configs
  <1>3. /\ auction' \in Auctions /\ auction'.state = "open"
        /\ auction'.bidder = None /\ auction'.bid = 0 /\ auction'.tokenId = n
        /\ auction'.start = now /\ auction'.end = now + config.duration
        /\ auction'.extensions = 0
    BY <1>1, <1>2 DEF Auctions
  <1>4. holder' \in [TokenIds -> Holders]
    BY <1>1 DEF Holders
  <1>5. held[n] = None
    BY <1>1 DEF Minted
  <1>6. HoldsWhatItSells'
    BY <1>1, <1>3 DEF HoldsWhatItSells, Open
  <1>7. Minted(holder)' = 0 .. n /\ n + 1 \in 0 .. MaxTokens
    <2>1. \A t \in TokenIds : holder'[t] # None <=> t = n \/ held[t] # None
      BY <1>1, <1>2
    <2>2. \A t \in TokenIds : held[t] # None <=> t \in 0 .. n - 1
      BY DEF Minted
    <2> QED BY <1>1, <1>2, <2>1, <2>2 DEF Minted, TokenIds
  <1>8. MintedInOrder'
    <2>1. 0 .. n = 0 .. (n + 1) - 1
      BY <1>2
    <2> QED BY <1>7, <2>1 DEF MintedInOrder
  <1> QED BY <1>1, <1>3, <1>4, <1>5, <1>6, <1>8

-----------------------------------------------------------------------------
(* One lemma per kind of step.                                             *)

\* Nothing is lost if, for every bidder and asset, what a step takes from one
\* place it puts in another.
Worth(b, a) ==
    purse[b][a] + proceeds[b][a] + Kept(b, a) + IF a = config.asset THEN Leading(b) ELSE 0

\* Nothing is lost if what each bidder has in all places adds up to the budget.
LEMMA WorthIsBudget ==
    ASSUME TypeOK
    PROVE  NothingLost <=> \A b \in Bidders, a \in Assets : Worth(b, a) = Budget
  <1>1. ASSUME NEW b \in Bidders, NEW a \in Assets
        PROVE  Worth(b, a) = purse[b][a] + proceeds[b][a]
                               + IF a = config.asset THEN pending[b] + Leading(b) ELSE 0
    <2>1. /\ purse[b][a] \in Nat /\ proceeds[b][a] \in Nat /\ pending[b] \in Nat
          /\ auction \in Auctions \cup {NoAuction}
      BY DEF TypeOK
    <2>2. Leading(b) \in Nat
      BY <2>1 DEF Leading, Open, Auctions, NoAuction
    <2> QED BY <2>1, <2>2 DEF Worth, Kept
  <1> QED BY <1>1 DEF NothingLost

\* A step that only moves money between the places loses nothing.
LEMMA WorthKept ==
    ASSUME IndInv, TypeOK', \A b \in Bidders, a \in Assets : Worth(b, a)' = Worth(b, a)
    PROVE  NothingLost'
  <1>1. \A b \in Bidders, a \in Assets : Worth(b, a)' = Budget
    BY WorthIsBudget DEF IndInv
  <1>2. ASSUME NEW b \in Bidders, NEW a \in Assets
        PROVE  Worth(b, a)' = purse'[b][a] + proceeds'[b][a]
                 + IF a = config'.asset THEN pending'[b] + Leading(b)' ELSE 0
    <2>1. /\ purse'[b][a] \in Nat /\ proceeds'[b][a] \in Nat /\ pending'[b] \in Nat
          /\ auction' \in Auctions \cup {NoAuction}
      BY DEF TypeOK
    <2>2. Leading(b)' \in Nat
      BY <2>1 DEF Leading, Open, Auctions, NoAuction
    <2> QED BY <2>1, <2>2 DEF Worth, Kept
  <1> QED BY <1>1, <1>2 DEF NothingLost

\* Steps that touch neither the auction nor money: they may change the payment
\* asset only while there is none of it.
LEMMA QuietInv ==
    ASSUME IndInv, TypeOK', IdleUntilLive', UnpausedIsOpen',
           UNCHANGED <<assetLocked, auction, moneyVars, holder>>,
           config'.asset = config.asset \/ ~assetLocked
    PROVE  IndInv'
  <1>1. /\ auction' = auction /\ pending' = pending /\ purse' = purse
        /\ proceeds' = proceeds /\ holder' = holder /\ assetLocked' = assetLocked
    BY DEF moneyVars
  <1>2. HoldsWhatItSells' /\ MintedInOrder' /\ AssetLockedByMoney' /\ EndBounded'
        /\ BidsAreSerious'
    BY <1>1 DEF IndInv, HoldsWhatItSells, MintedInOrder, Minted, AssetLockedByMoney,
                EndBounded, BidsAreSerious, Open
  <1>3. ASSUME NEW b \in Bidders, NEW a \in Assets
        PROVE  Worth(b, a)' = Worth(b, a)
    <2>1. Leading(b)' = Leading(b)
      BY <1>1 DEF Leading, Open
    <2>2. CASE config'.asset = config.asset
      BY <1>1, <2>1, <2>2 DEF Worth, Kept
    <2>3. CASE ~assetLocked
      <3>1. pending[b] = 0 /\ Leading(b) = 0
        BY <2>3, AuctionAssumption
           DEF IndInv, AssetLockedByMoney, Leading, Open, NoAuction
      <3>2. Kept(b, a) = 0 /\ Kept(b, a)' = 0
        BY <1>1, <3>1 DEF Kept
      <3> QED BY <1>1, <2>1, <3>1, <3>2 DEF Worth
    <2> QED BY <2>2, <2>3
  <1>4. NothingLost'
    BY <1>3, WorthKept
  <1> QED BY <1>2, <1>4 DEF IndInv

\* An auction is created after what led the last one has been paid out.
LEMMA FreshInv ==
    ASSUME IndInv, NEW held \in [TokenIds -> Holders], \A t \in TokenIds : held[t] # Self,
           Minted(held) = Minted(holder), CreateAuction(held),
           UNCHANGED <<config, assetLocked, now, pending, purse, mayMint, mayPass>>,
           live' = TRUE, paused' \in BOOLEAN, admin' \in {LaunchAdmin, Treasury},
           escrow' \in [Assets -> Nat], proceeds' \in [Bidders -> [Assets -> Nat]],
           \A b \in Bidders, a \in Assets :
               proceeds'[b][a] = proceeds[b][a] + IF a = config.asset THEN Leading(b) ELSE 0
    PROVE  IndInv'
  <1>1. TypeOK
    BY DEF IndInv
  <1>2. PICK n \in 0 .. MaxTokens : Minted(held) = 0 .. n - 1
    BY DEF IndInv, MintedInOrder
  <1>3. /\ auction' \in Auctions /\ auction'.state = "open"
        /\ auction'.bidder = None /\ auction'.bid = 0
        /\ auction'.start = now /\ auction'.end = now + config.duration
        /\ auction'.extensions = 0
        /\ holder' \in [TokenIds -> Holders]
        /\ announced' = config
        /\ HoldsWhatItSells' /\ MintedInOrder'
    BY <1>1, <1>2, CreateAuctionInv
  <1>4. live' \in BOOLEAN
    BY <1>1, <1>3 DEF TypeOK, CreateAuction
  <1>5. TypeOK'
    BY <1>1, <1>3, <1>4 DEF TypeOK, Holders
  <1>6. IdleUntilLive' /\ UnpausedIsOpen' /\ BidsAreSerious'
    BY <1>3 DEF IdleUntilLive, UnpausedIsOpen, BidsAreSerious, Open
  <1>7. EndBounded'
    <2>1. /\ now \in Nat /\ config.duration \in 1 .. MaxDuration
          /\ MaxDuration \in Nat /\ MaxBuffer \in Nat /\ MaxExtensions \in Nat
      BY <1>1, AuctionAssumption DEF TypeOK, Configs
    <2> QED BY <1>3, <2>1 DEF EndBounded
  <1>8. AssetLockedByMoney'
    BY <1>3 DEF IndInv, AssetLockedByMoney
  <1>9. ASSUME NEW b \in Bidders, NEW a \in Assets
        PROVE  Worth(b, a)' = Worth(b, a)
    <2>1. Leading(b)' = 0
      BY <1>3, AuctionAssumption DEF Leading
    <2>2. Kept(b, a)' = Kept(b, a) /\ Kept(b, a) \in Nat
      BY <1>1 DEF Kept, TypeOK
    <2>3. Leading(b) \in Nat
      BY <1>1 DEF TypeOK, Leading, Open, Auctions, NoAuction
    <2>4. purse[b][a] \in Nat /\ proceeds[b][a] \in Nat
      BY <1>1 DEF TypeOK
    <2> QED BY <2>1, <2>2, <2>3, <2>4 DEF Worth
  <1>10. NothingLost'
    BY <1>5, <1>9, WorthKept
  <1> QED BY <1>3, <1>5, <1>6, <1>7, <1>8, <1>10 DEF IndInv

\* An auction is closed: its token goes to somebody, and so does its bid.
LEMMA ClosedInv ==
    ASSUME IndInv, Open, paused, NEW to \in Bidders \cup {Treasury},
           holder' = [holder EXCEPT ![auction.tokenId] = to],
           auction' = [auction EXCEPT !.state = "settled"],
           UNCHANGED <<phaseVars, config, assetLocked, now, mayMint, mayPass, announced>>,
           purse' \in [Bidders -> [Assets -> Nat]], escrow' \in [Assets -> Nat],
           pending' \in [Bidders -> Nat], proceeds' \in [Bidders -> [Assets -> Nat]],
           ~assetLocked => pending' = pending,
           \A b \in Bidders, a \in Assets :
               purse'[b][a] + proceeds'[b][a] + Kept(b, a)' =
                   purse[b][a] + proceeds[b][a] + Kept(b, a)
                     + IF a = config.asset THEN Leading(b) ELSE 0
    PROVE  IndInv'
  <1>1. TypeOK /\ auction \in Auctions
    BY DEF IndInv, TypeOK, Open, NoAuction
  <1>2. /\ auction' \in Auctions /\ auction'.state = "settled"
        /\ auction'.bidder = auction.bidder /\ auction'.bid = auction.bid
        /\ auction # NoAuction
    <2>1. auction # NoAuction
      BY DEF Open, NoAuction
    <2>2. /\ auction' \in Auctions /\ auction'.state = "settled"
          /\ auction'.bidder = auction.bidder /\ auction'.bid = auction.bid
      BY <1>1 DEF Auctions
    <2> QED BY <2>1, <2>2
  <1>3. /\ holder' \in [TokenIds -> Holders]
        /\ \A t \in TokenIds : holder'[t] # Self
        /\ Minted(holder)' = Minted(holder)
    BY HandOver DEF Minted
  <1>4. TypeOK'
    BY <1>1, <1>2, <1>3 DEF TypeOK, phaseVars, Holders
  <1>5. ~Open'
    BY <1>2 DEF Open
  <1>6. HoldsWhatItSells' /\ MintedInOrder' /\ EndBounded'
    BY <1>3, <1>5 DEF IndInv, HoldsWhatItSells, MintedInOrder, EndBounded
  <1>7. BidsAreSerious'
    BY <1>2 DEF IndInv, BidsAreSerious
  <1>8. IdleUntilLive' /\ UnpausedIsOpen'
    BY <1>2 DEF IndInv, IdleUntilLive, UnpausedIsOpen, phaseVars
  <1>9. AssetLockedByMoney'
    BY <1>2 DEF IndInv, AssetLockedByMoney
  <1>10. ASSUME NEW b \in Bidders, NEW a \in Assets
         PROVE  Worth(b, a)' = Worth(b, a)
    <2>1. Leading(b)' = 0
      BY <1>5 DEF Leading
    <2>2. /\ purse'[b][a] \in Nat /\ proceeds'[b][a] \in Nat /\ Kept(b, a)' \in Nat
          /\ purse[b][a] \in Nat /\ proceeds[b][a] \in Nat /\ Kept(b, a) \in Nat
          /\ Leading(b) \in Nat
      BY <1>1, <1>4 DEF Kept, TypeOK, Leading, Open, Auctions, NoAuction
    <2> QED BY <2>1, <2>2 DEF Worth
  <1>11. NothingLost'
    BY <1>4, <1>10, WorthKept
  <1> QED BY <1>4, <1>6, <1>7, <1>8, <1>9, <1>11 DEF IndInv

-----------------------------------------------------------------------------
(* One lemma per operation.                                                *)

\* create_bid: the new bid comes in, the old one is refunded, and only the
\* bid, its bidder, the end and the count of extensions change.
LEMMA BidChanges ==
    ASSUME IndInv, NEW bidder \in Bidders, NEW amount \in Nat,
           CreateBid(bidder, auction.tokenId, amount)
    PROVE  /\ Open /\ auction \in Auctions /\ auction' \in Auctions
           /\ auction'.state = "open" /\ auction'.tokenId = auction.tokenId
           /\ auction'.start = auction.start
           /\ auction'.bid = amount /\ auction'.bidder = bidder
           /\ amount >= MinReserve /\ amount > auction.bid
           /\ \/ auction'.end = auction.end /\ auction'.extensions = auction.extensions
              \/ /\ auction.extensions < MaxExtensions
                 /\ auction'.extensions = auction.extensions + 1
                 /\ auction'.end = now + config.buffer
                 /\ auction.end < now + config.buffer
                 /\ now < auction.end
  <1>1. TypeOK /\ BidsAreSerious
    BY DEF IndInv
  <1>2. Open /\ auction # NoAuction /\ EnoughBid(amount) /\ now < auction.end
    BY DEF CreateBid, IndInv, UnpausedIsOpen
  <1>3. auction \in Auctions
    BY <1>1, <1>2 DEF TypeOK
  <1>4. amount >= MinReserve /\ amount > auction.bid
    BY <1>1, <1>2, BidsRise
  <1>5. /\ now \in Nat /\ config.buffer \in Nat /\ MaxExtensions \in Nat
        /\ auction.end \in Nat /\ auction.extensions \in Nat
    BY <1>1, <1>3, AuctionAssumption DEF TypeOK, Configs, Auctions
  <1> DEFINE e == IF Extends THEN now + config.buffer ELSE auction.end
             x == IF Extends THEN auction.extensions + 1 ELSE auction.extensions
  <1>6. /\ auction' = [auction EXCEPT !.bid = amount, !.bidder = bidder,
                                      !.end = e, !.extensions = x]
        /\ e \in Nat /\ x \in Nat
        /\ \/ e = auction.end /\ x = auction.extensions
           \/ /\ auction.extensions < MaxExtensions
              /\ x = auction.extensions + 1
              /\ e = now + config.buffer
              /\ auction.end < now + config.buffer
    <2>1. auction' = [auction EXCEPT
                        !.bid = amount, !.bidder = bidder,
                        !.end = IF Extends THEN now + config.buffer ELSE @,
                        !.extensions = IF Extends THEN @ + 1 ELSE @]
      BY DEF CreateBid
    <2>2. auction' = [auction EXCEPT !.bid = amount, !.bidder = bidder,
                                     !.end = e, !.extensions = x]
      BY <1>3, <2>1 DEF Auctions
    <2>3. Extends => /\ auction.extensions < MaxExtensions
                     /\ auction.end < now + config.buffer
      BY <1>5 DEF Extends
    <2> QED BY <1>5, <2>2, <2>3
  <1> HIDE DEF e, x
  <1>7. /\ auction' \in Auctions /\ auction'.state = "open"
        /\ auction'.tokenId = auction.tokenId /\ auction'.start = auction.start
        /\ auction'.bid = amount /\ auction'.bidder = bidder
        /\ auction'.end = e /\ auction'.extensions = x
    BY <1>2, <1>3, <1>6 DEF Auctions, Open
  <1> QED BY <1>2, <1>3, <1>4, <1>6, <1>7

\* A bid keeps the invariant, refund of the bid before included.
LEMMA CreateBidInv ==
    ASSUME IndInv, NEW bidder \in Bidders, NEW tokenId, NEW amount \in Nat,
           CreateBid(bidder, tokenId, amount)
    PROVE  IndInv'
  <1>1. /\ TypeOK /\ None \notin Bidders /\ MinReserve \in Nat /\ MaxBuffer \in Nat
        /\ MaxDuration \in Nat /\ MaxExtensions \in Nat
        /\ config.asset \in Assets /\ config.buffer \in 1 .. MaxBuffer
        /\ now \in Nat
    BY AuctionAssumption DEF IndInv, TypeOK, Configs
  <1>2. /\ tokenId = auction.tokenId /\ purse[bidder][config.asset] >= amount
        /\ assetLocked' = TRUE
        /\ RefundBid(auction.bidder, auction.bid,
                     [purse EXCEPT ![bidder][config.asset] = @ - amount],
                     [escrow EXCEPT ![config.asset] = @ + amount])
        /\ UNCHANGED <<live, admin, paused, config, now, proceeds, holder, mayMint,
                       mayPass, announced>>
    BY DEF CreateBid, phaseVars, tokenVars
  <1>3. /\ Open /\ auction \in Auctions /\ auction' \in Auctions
        /\ auction'.state = "open" /\ auction'.tokenId = auction.tokenId
        /\ auction'.start = auction.start
        /\ auction'.bid = amount /\ auction'.bidder = bidder
        /\ amount >= MinReserve
        /\ \/ auction'.end = auction.end /\ auction'.extensions = auction.extensions
           \/ /\ auction.extensions < MaxExtensions
              /\ auction'.extensions = auction.extensions + 1
              /\ auction'.end = now + config.buffer
              /\ now < auction.end
    BY <1>2, BidChanges
  <1>4. auction.bid \in Nat /\ auction.bidder \in Bidders \cup {None}
    BY <1>3 DEF Auctions
  <1>5. PICK P \in [Bidders -> [Assets -> Nat]] :
           /\ Refunded(auction.bidder, auction.bid, P)
           /\ P[bidder][config.asset] + amount = purse[bidder][config.asset]
           /\ \A b \in Bidders, a \in Assets :
                 b # bidder \/ a # config.asset => P[b][a] = purse[b][a]
    <2> DEFINE R == [purse[bidder] EXCEPT ![config.asset] = @ - amount]
               P == [purse EXCEPT ![bidder] = R]
               E == [escrow EXCEPT ![config.asset] = @ + amount]
    <2>1. /\ purse \in [Bidders -> [Assets -> Nat]] /\ escrow \in [Assets -> Nat]
          /\ pending \in [Bidders -> Nat]
      BY <1>1 DEF TypeOK
    <2>2. /\ R \in [Assets -> Nat]
          /\ R[config.asset] + amount = purse[bidder][config.asset]
          /\ \A a \in Assets : a # config.asset => R[a] = purse[bidder][a]
      BY <1>1, <1>2, <2>1
    <2>3. RefundBid(auction.bidder, auction.bid, P, E)
      BY <1>2, <2>1
    <2>4. E \in [Assets -> Nat]
      BY <1>1, <2>1
    <2> HIDE DEF R, E
    <2>5. /\ P \in [Bidders -> [Assets -> Nat]]
          /\ P[bidder] = R
          /\ \A b \in Bidders : b # bidder => P[b] = purse[b]
      BY <2>1, <2>2
    <2> HIDE DEF P
    <2>6. Refunded(auction.bidder, auction.bid, P)
      BY <1>1, <1>4, <2>1, <2>3, <2>4, <2>5, RefundIsWhole
    <2> QED BY <2>2, <2>5, <2>6
  <1>6. /\ purse' \in [Bidders -> [Assets -> Nat]] /\ escrow' \in [Assets -> Nat]
        /\ pending' \in [Bidders -> Nat]
    BY <1>5 DEF Refunded
  <1>7. TypeOK'
    BY <1>1, <1>2, <1>3, <1>6 DEF TypeOK
  <1>8. ASSUME NEW b \in Bidders, NEW a \in Assets
        PROVE  Worth(b, a)' = Worth(b, a)
    <2>1. /\ purse[b][a] \in Nat /\ proceeds[b][a] \in Nat /\ pending[b] \in Nat
          /\ purse'[b][a] \in Nat /\ pending'[b] \in Nat /\ P[b][a] \in Nat
          /\ proceeds'[b][a] = proceeds[b][a] /\ config' = config
      BY <1>1, <1>2, <1>6 DEF TypeOK
    <2>2. CASE a # config.asset
      <3>1. purse'[b][a] = purse[b][a]
        BY <1>5, <2>2 DEF Refunded
      <3> QED BY <2>1, <2>2, <3>1 DEF Worth, Kept
    <2>3. CASE a = config.asset
      <3>1. /\ Worth(b, a) = purse[b][a] + proceeds[b][a] + pending[b] + Leading(b)
            /\ Worth(b, a)' = purse'[b][a] + proceeds[b][a] + pending'[b] + Leading(b)'
        BY <2>1, <2>3 DEF Worth, Kept
      <3>2. /\ b = auction.bidder => Leading(b) = auction.bid
            /\ b # auction.bidder => Leading(b) = 0
            /\ b = bidder => Leading(b)' = amount
            /\ b # bidder => Leading(b)' = 0
        BY <1>3 DEF Leading, Open
      <3>3. /\ b = auction.bidder =>
                 purse'[b][a] + pending'[b] = P[b][a] + pending[b] + auction.bid
            /\ b # auction.bidder => purse'[b][a] = P[b][a] /\ pending'[b] = pending[b]
        BY <1>1, <1>5, <2>3 DEF Refunded
      <3>4. /\ b = bidder => P[b][a] + amount = purse[b][a]
            /\ b # bidder => P[b][a] = purse[b][a]
        BY <1>5, <2>3
      <3>5. purse'[b][a] + pending'[b] + Leading(b)'
              = P[b][a] + pending[b] + Leading(b) + Leading(b)'
        BY <1>4, <2>1, <3>2, <3>3
      <3>6. P[b][a] + Leading(b)' = purse[b][a]
        BY <2>1, <3>2, <3>4
      <3>7. Leading(b) \in Nat /\ Leading(b)' \in Nat
        BY <1>4, <3>2
      <3> QED BY <2>1, <3>1, <3>5, <3>6, <3>7, Z3
    <2> QED BY <2>2, <2>3
  <1>9. NothingLost'
    BY <1>7, <1>8, WorthKept
  <1>10. BidsAreSerious' /\ AssetLockedByMoney'
    BY <1>1, <1>2, <1>3 DEF BidsAreSerious, AssetLockedByMoney
  <1>11. EndBounded'
    <2>1. /\ auction.end \in Nat /\ auction.start \in Nat /\ auction.extensions \in Nat
          /\ auction.end <= auction.start + MaxDuration + auction.extensions * MaxBuffer
          /\ auction.extensions <= MaxExtensions
      BY <1>3 DEF IndInv, EndBounded, Auctions
    <2>2. (auction.extensions + 1) * MaxBuffer = auction.extensions * MaxBuffer + MaxBuffer
          /\ auction.extensions * MaxBuffer \in Nat
      BY <1>1, <2>1
    <2> QED BY <1>1, <1>3, <2>1, <2>2 DEF EndBounded
  <1>12. HoldsWhatItSells'
    BY <1>2, <1>3 DEF IndInv, HoldsWhatItSells, Open
  <1>13. MintedInOrder'
    BY <1>2 DEF IndInv, MintedInOrder, Minted
  <1>14. IdleUntilLive' /\ UnpausedIsOpen'
    BY <1>2, <1>3 DEF CreateBid, IndInv, IdleUntilLive, UnpausedIsOpen, Open
  <1> QED BY <1>7, <1>9, <1>10, <1>11, <1>12, <1>13, <1>14 DEF IndInv

\* settle_current_and_create_new_auction.
LEMMA SettleAndCreateNewInv ==
    ASSUME IndInv, SettleAndCreateNew
    PROVE  IndInv'
  <1> DEFINE to == IF auction.bidder = None THEN Treasury ELSE auction.bidder
             held == [holder EXCEPT ![auction.tokenId] = to]
  <1>1. /\ TypeOK /\ Open /\ ~paused /\ PayOut /\ CreateAuction(held)
        /\ UNCHANGED <<live, admin, paused, config, assetLocked, now, mayMint, mayPass>>
    BY DEF IndInv, SettleAndCreateNew, HeldAfterSettling, phaseVars
  <1>2. to \in Bidders \cup {Treasury}
    BY <1>1 DEF TypeOK, Open, Auctions, NoAuction
  <1>3. /\ held \in [TokenIds -> Holders] /\ Minted(held) = Minted(holder)
        /\ \A t \in TokenIds : held[t] # Self
    BY <1>1, <1>2, HandOver
  <1>4. /\ escrow' \in [Assets -> Nat]
        /\ proceeds' \in [Bidders -> [Assets -> Nat]]
        /\ pending' = pending /\ purse' = purse
        /\ \A b \in Bidders, a \in Assets :
              proceeds'[b][a] = proceeds[b][a]
                  + IF a = config.asset THEN Leading(b) ELSE 0
    BY <1>1, PayOutIsWhole
  <1>5. live' = TRUE /\ paused' \in BOOLEAN /\ admin' \in {LaunchAdmin, Treasury}
    BY <1>1 DEF IndInv, TypeOK, UnpausedIsOpen
  <1> HIDE DEF held
  <1> QED BY <1>1, <1>3, <1>4, <1>5, FreshInv

\* settle_auction.
LEMMA SettleAuctionInv ==
    ASSUME IndInv, SettleAuction
    PROVE  IndInv'
  <1> DEFINE to == IF auction.bidder = None THEN Treasury ELSE auction.bidder
  <1>1. /\ TypeOK /\ Open /\ paused /\ PayOut
        /\ holder' = [holder EXCEPT ![auction.tokenId] = to]
        /\ auction' = [auction EXCEPT !.state = "settled"]
        /\ UNCHANGED <<phaseVars, config, assetLocked, now, mayMint, mayPass, announced>>
    BY DEF IndInv, SettleAuction, HeldAfterSettling
  <1>2. to \in Bidders \cup {Treasury}
    BY <1>1 DEF TypeOK, Open, Auctions, NoAuction
  <1>3. /\ escrow' \in [Assets -> Nat]
        /\ proceeds' \in [Bidders -> [Assets -> Nat]]
        /\ pending' = pending /\ purse' = purse
        /\ \A b \in Bidders, a \in Assets :
              proceeds'[b][a] = proceeds[b][a]
                  + IF a = config.asset THEN Leading(b) ELSE 0
    BY <1>1, PayOutIsWhole
  <1>4. /\ purse' \in [Bidders -> [Assets -> Nat]] /\ pending' \in [Bidders -> Nat]
        /\ config' = config
    BY <1>1, <1>3 DEF TypeOK
  <1>5. ASSUME NEW b \in Bidders, NEW a \in Assets
        PROVE  purse'[b][a] + proceeds'[b][a] + Kept(b, a)' =
                   purse[b][a] + proceeds[b][a] + Kept(b, a)
                     + IF a = config.asset THEN Leading(b) ELSE 0
    <2>1. Kept(b, a)' = Kept(b, a) /\ Kept(b, a) \in Nat
      BY <1>1, <1>3, <1>4 DEF Kept, TypeOK
    <2>2. purse[b][a] \in Nat /\ proceeds[b][a] \in Nat /\ Leading(b) \in Nat
      BY <1>1 DEF TypeOK, Leading, Open, Auctions, NoAuction
    <2> QED BY <1>3, <2>1, <2>2
  <1> HIDE DEF to
  <1> QED BY <1>1, <1>2, <1>3, <1>4, <1>5, ClosedInv

\* cancel_auction.
LEMMA CancelAuctionInv ==
    ASSUME IndInv, NEW caller, CancelAuction(caller)
    PROVE  IndInv'
  <1>1. /\ TypeOK /\ Open /\ paused /\ auction \in Auctions
        /\ RefundBid(auction.bidder, auction.bid, purse, escrow)
        /\ holder' = [holder EXCEPT ![auction.tokenId] = Treasury]
        /\ auction' = [auction EXCEPT !.state = "settled"]
        /\ UNCHANGED <<phaseVars, config, assetLocked, now, mayMint, mayPass, announced>>
        /\ proceeds' = proceeds
    BY DEF IndInv, TypeOK, CancelAuction, Open, NoAuction
  <1>2. /\ auction.bidder \in Bidders \cup {None} /\ auction.bid \in Nat
        /\ config.asset \in Assets /\ config' = config
    BY <1>1 DEF Auctions, TypeOK, Configs
  <1>3. Refunded(auction.bidder, auction.bid, purse)
    <2>1. /\ pending \in [Bidders -> Nat]
          /\ purse \in [Bidders -> [Assets -> Nat]] /\ escrow \in [Assets -> Nat]
      BY <1>1 DEF TypeOK
    <2> QED BY <1>1, <1>2, <2>1, RefundIsWhole
  <1>4. ~assetLocked => pending' = pending
    BY <1>1 DEF IndInv, AssetLockedByMoney, Open, NoAuction, RefundBid
  <1>5. ASSUME NEW b \in Bidders, NEW a \in Assets
        PROVE  purse'[b][a] + proceeds'[b][a] + Kept(b, a)' =
                   purse[b][a] + proceeds[b][a] + Kept(b, a)
                     + IF a = config.asset THEN Leading(b) ELSE 0
    <2>1. /\ purse[b][a] \in Nat /\ proceeds[b][a] \in Nat /\ pending[b] \in Nat
          /\ purse'[b][a] \in Nat /\ pending'[b] \in Nat
          /\ proceeds'[b][a] = proceeds[b][a]
      BY <1>1, <1>3 DEF TypeOK, Refunded
    <2>2. CASE a # config.asset
      <3>1. purse'[b][a] = purse[b][a]
        BY <1>3, <2>2 DEF Refunded
      <3> QED BY <1>2, <2>1, <2>2, <3>1 DEF Kept
    <2>3. CASE a = config.asset
      <3>1. Kept(b, a)' = pending'[b] /\ Kept(b, a) = pending[b]
        BY <1>2, <2>3 DEF Kept
      <3>2. /\ b = auction.bidder => Leading(b) = auction.bid
            /\ b # auction.bidder => Leading(b) = 0
        BY <1>1 DEF Leading
      <3>3. /\ b = auction.bidder =>
                 purse'[b][a] + pending'[b] = purse[b][a] + pending[b] + auction.bid
            /\ b # auction.bidder => purse'[b][a] = purse[b][a] /\ pending'[b] = pending[b]
        BY <1>3, <2>3, AuctionAssumption DEF Refunded
      <3> QED BY <1>2, <2>1, <2>3, <3>1, <3>2, <3>3
    <2> QED BY <2>2, <2>3
  <1>6. /\ proceeds' \in [Bidders -> [Assets -> Nat]] /\ escrow' \in [Assets -> Nat]
        /\ purse' \in [Bidders -> [Assets -> Nat]] /\ pending' \in [Bidders -> Nat]
    BY <1>1, <1>3 DEF TypeOK, Refunded
  <1> QED BY <1>1, <1>4, <1>5, <1>6, ClosedInv

\* withdraw_refund.
LEMMA WithdrawRefundInv ==
    ASSUME IndInv, NEW bidder \in Bidders, WithdrawRefund(bidder)
    PROVE  IndInv'
  <1> DEFINE r == pending[bidder]
             R == [purse[bidder] EXCEPT ![config.asset] = @ + r]
  <1>1. /\ TypeOK /\ config.asset \in Assets
        /\ purse \in [Bidders -> [Assets -> Nat]] /\ escrow \in [Assets -> Nat]
        /\ pending \in [Bidders -> Nat] /\ r \in Nat
    BY DEF IndInv, TypeOK, Configs
  <1>2. /\ r > 0 /\ pending' = [pending EXCEPT ![bidder] = 0]
        /\ escrow[config.asset] >= r
        /\ escrow' = [escrow EXCEPT ![config.asset] = @ - r]
        /\ purse' = [purse EXCEPT ![bidder][config.asset] = @ + r]
        /\ UNCHANGED <<live, admin, paused, config, assetLocked, auction, now, proceeds,
                       holder, mayMint, mayPass, announced>>
    BY DEF WithdrawRefund, phaseVars, tokenVars
  <1>3. /\ R \in [Assets -> Nat] /\ R[config.asset] = purse[bidder][config.asset] + r
        /\ \A a \in Assets : a # config.asset => R[a] = purse[bidder][a]
        /\ purse' = [purse EXCEPT ![bidder] = R]
    BY <1>1, <1>2
  <1>4. escrow' \in [Assets -> Nat] /\ pending' \in [Bidders -> Nat] /\ pending'[bidder] = 0
        /\ \A b \in Bidders : b # bidder => pending'[b] = pending[b]
    BY <1>1, <1>2
  <1> HIDE DEF R
  <1>5. /\ purse' \in [Bidders -> [Assets -> Nat]] /\ purse'[bidder] = R
        /\ \A b \in Bidders : b # bidder => purse'[b] = purse[b]
    BY <1>1, <1>3
  <1>6. TypeOK'
    BY <1>1, <1>2, <1>4, <1>5 DEF TypeOK
  <1>7. ASSUME NEW b \in Bidders, NEW a \in Assets
        PROVE  Worth(b, a)' = Worth(b, a)
    <2>1. Leading(b)' = Leading(b) /\ config' = config /\ proceeds' = proceeds
      BY <1>2 DEF Leading, Open
    <2>2. CASE b # bidder
      BY <1>4, <1>5, <2>1, <2>2 DEF Worth, Kept
    <2>3. CASE b = bidder /\ a # config.asset
      BY <1>3, <1>5, <2>1, <2>3 DEF Worth, Kept
    <2>4. CASE b = bidder /\ a = config.asset
      <3>1. purse'[b][a] = purse[b][a] + r /\ pending'[b] = 0
        BY <1>3, <1>4, <1>5, <2>4
      <3>2. Kept(b, a) = r /\ Kept(b, a)' = 0
        BY <2>1, <2>4, <3>1 DEF Kept
      <3>3. /\ Worth(b, a) = purse[b][a] + proceeds[b][a] + r + Leading(b)
            /\ Worth(b, a)' = purse[b][a] + r + proceeds[b][a] + 0 + Leading(b)
        BY <2>1, <2>4, <3>1, <3>2 DEF Worth
      <3>4. purse[b][a] \in Nat /\ proceeds[b][a] \in Nat /\ Leading(b) \in Nat
        BY <1>1 DEF TypeOK, Leading, Open, Auctions, NoAuction
      <3> QED BY <1>1, <3>3, <3>4, Z3
    <2> QED BY <2>2, <2>3, <2>4
  <1>8. NothingLost'
    BY <1>6, <1>7, WorthKept
  <1>9. AssetLockedByMoney'
    BY <1>1, <1>2 DEF IndInv, AssetLockedByMoney
  <1>10. HoldsWhatItSells' /\ MintedInOrder'
    BY <1>2 DEF IndInv, HoldsWhatItSells, MintedInOrder, Minted, Open
  <1>11. EndBounded' /\ BidsAreSerious' /\ IdleUntilLive' /\ UnpausedIsOpen'
    BY <1>2 DEF IndInv, EndBounded, BidsAreSerious, IdleUntilLive, UnpausedIsOpen, Open
  <1> QED BY <1>6, <1>8, <1>9, <1>10, <1>11 DEF IndInv

\* unpause: the one entry point, besides launch, that puts up a first token.
LEMMA UnpauseInv ==
    ASSUME IndInv, NEW caller, Unpause(caller)
    PROVE  IndInv'
  <1>1. /\ TypeOK /\ live
        /\ paused' = FALSE
        /\ UNCHANGED <<live, admin, config, assetLocked, now, moneyVars, mayMint, mayPass>>
    BY DEF Unpause, IndInv
  <1>2. CASE ~Open /\ CreateAuction(holder)
    <2>1. holder \in [TokenIds -> Holders] /\ \A t \in TokenIds : holder[t] # Self
      BY <1>1, <1>2 DEF TypeOK, Holders, IndInv, HoldsWhatItSells
    <2>2. /\ escrow' \in [Assets -> Nat] /\ proceeds' \in [Bidders -> [Assets -> Nat]]
          /\ pending' = pending /\ purse' = purse /\ proceeds' = proceeds
      BY <1>1 DEF TypeOK, moneyVars
    <2>3. \A b \in Bidders, a \in Assets :
             proceeds'[b][a] = proceeds[b][a] + IF a = config.asset THEN Leading(b) ELSE 0
      BY <1>1, <1>2, <2>2 DEF TypeOK, Leading
    <2>4. live' = TRUE /\ paused' \in BOOLEAN /\ admin' \in {LaunchAdmin, Treasury}
      BY <1>1 DEF TypeOK
    <2> QED BY <1>1, <1>2, <2>1, <2>2, <2>3, <2>4, FreshInv
  <1>3. CASE Open /\ UNCHANGED <<auction, holder, announced>>
    <2>1. TypeOK' /\ IdleUntilLive' /\ UnpausedIsOpen'
      BY <1>1, <1>3 DEF TypeOK, moneyVars, IdleUntilLive, UnpausedIsOpen, Open
    <2> QED BY <1>1, <1>3, <2>1, QuietInv
  <1> QED BY <1>2, <1>3 DEF Unpause

\* launch: with a first auction, or without.
LEMMA LaunchInv ==
    ASSUME IndInv, NEW caller, NEW start, Launch(caller, Treasury, start)
    PROVE  IndInv'
  <1>1. /\ TypeOK /\ ~live /\ paused /\ auction = NoAuction /\ ~Open
        /\ live' = TRUE /\ admin' = Treasury
        /\ UNCHANGED <<config, assetLocked, now, moneyVars, mayMint, mayPass>>
    BY DEF Launch, IndInv, IdleUntilLive, Open, NoAuction
  <1>2. CASE paused' = FALSE /\ CreateAuction(holder)
    <2>1. holder \in [TokenIds -> Holders] /\ \A t \in TokenIds : holder[t] # Self
      BY <1>1, <1>2 DEF TypeOK, Holders, IndInv, HoldsWhatItSells
    <2>2. /\ escrow' \in [Assets -> Nat] /\ proceeds' \in [Bidders -> [Assets -> Nat]]
          /\ pending' = pending /\ purse' = purse /\ proceeds' = proceeds
      BY <1>1 DEF TypeOK, moneyVars
    <2>3. \A b \in Bidders, a \in Assets :
             proceeds'[b][a] = proceeds[b][a] + IF a = config.asset THEN Leading(b) ELSE 0
      BY <1>1, <1>2, <2>2 DEF TypeOK, Leading
    <2> QED BY <1>1, <1>2, <2>1, <2>2, <2>3, FreshInv
  <1>3. CASE UNCHANGED <<paused, auction, holder, announced>>
    <2>1. TypeOK' /\ IdleUntilLive' /\ UnpausedIsOpen'
      BY <1>1, <1>3 DEF TypeOK, moneyVars, IdleUntilLive, UnpausedIsOpen
    <2> QED BY <1>1, <1>3, <2>1, QuietInv
  <1> QED BY <1>1, <1>2, <1>3 DEF Launch

\* The other steps touch neither the auction nor money.
LEMMA OtherInv ==
    ASSUME IndInv,
           \/ \E caller \in Callers : Pause(caller)
           \/ Configuring
           \/ \E caller \in Callers : Handoff(caller, Treasury)
           \/ TokenChanges
           \/ Tick
           \/ UNCHANGED vars
    PROVE  IndInv'
  <1>1. UNCHANGED <<assetLocked, auction, moneyVars, holder, live, announced>>
    BY DEF Pause, Configuring, SetConfig, SetPaymentToken, Handoff, TokenChanges, Tick, vars,
           phaseVars, tokenVars
  <1>2. TypeOK
    BY DEF IndInv
  <1>3. (paused' = TRUE \/ paused' = paused) /\ admin' \in {LaunchAdmin, Treasury}
    BY <1>2 DEF TypeOK, Pause, Configuring, SetConfig, SetPaymentToken, Handoff, TokenChanges,
                Tick, vars, phaseVars
  <1>4. /\ config' \in Configs
        /\ config'.asset = config.asset \/ ~assetLocked
    <2>1. config' = config \/ Configuring
      BY DEF Pause, Handoff, TokenChanges, Tick, vars
    <2>2. ASSUME NEW caller \in Callers,
                 NEW name \in {"duration", "reserve", "increment", "buffer"}, NEW v \in Values,
                 SetConfig(caller, name, v)
          PROVE  config' \in Configs /\ config'.asset = config.asset
      BY <1>2, <2>2 DEF SetConfig, TypeOK, Configs
    <2>3. ASSUME NEW caller \in Callers, NEW asset \in Assets, SetPaymentToken(caller, asset)
          PROVE  config' \in Configs /\ ~assetLocked
      BY <1>2, <2>3 DEF SetPaymentToken, TypeOK, Configs
    <2> QED BY <1>2, <2>1, <2>2, <2>3 DEF Configuring, TypeOK
  <1>5. now' \in Nat
    <2>1. now' = now \/ now' = now + 1
      BY DEF Pause, Configuring, SetConfig, SetPaymentToken, Handoff, TokenChanges, Tick, vars
    <2> QED BY <1>2, <2>1 DEF TypeOK
  <1>6. mayMint' \in BOOLEAN /\ mayPass' \in BOOLEAN
    BY <1>2 DEF TypeOK, Pause, Configuring, SetConfig, SetPaymentToken, Handoff, TokenChanges,
                Tick, vars, tokenVars
  <1>7. TypeOK'
    BY <1>1, <1>2, <1>3, <1>4, <1>5, <1>6 DEF TypeOK, moneyVars
  <1>8. IdleUntilLive' /\ UnpausedIsOpen'
    BY <1>1, <1>3 DEF IndInv, IdleUntilLive, UnpausedIsOpen, Open
  <1> QED BY <1>1, <1>4, <1>7, <1>8, QuietInv

-----------------------------------------------------------------------------
(* The books: what the Auction holds is what it owes, in all.              *)

\* The bid that leads, whoever's it is.
Lead(a) == IF a.state = "open" /\ a.bidder # None THEN a.bid ELSE 0

\* Solvent, with the leading bid told apart from the refunds that are kept.
Books ==
    \A a \in Assets : escrow[a] =
        IF a = config.asset THEN SumFunctionOnSet(pending, Bidders) + Lead(auction) ELSE 0

\* What is owed to all bidders is the pending refunds and the leading bid.
LEMMA OwedAltogether ==
    ASSUME NEW a \in Auctions \cup {NoAuction}, NEW p \in [Bidders -> Nat]
    PROVE  SumFunction([b \in Bidders |->
                          (IF a.state = "open" /\ a.bidder = b THEN a.bid ELSE 0) + p[b]])
             = SumFunctionOnSet(p, Bidders) + Lead(a)
  <1> DEFINE owed == [b \in Bidders |->
                        (IF a.state = "open" /\ a.bidder = b THEN a.bid ELSE 0) + p[b]]
  <1>1. SumFunction(owed) = SumFunctionOnSet(owed, Bidders)
    BY DEF SumFunction
  <1>2. /\ IsFiniteSet(Bidders) /\ None \notin Bidders
        /\ a.state = "open" => a.bid \in Nat /\ a.bidder \in Bidders \cup {None}
    BY AuctionAssumption DEF Auctions, NoAuction
  <1>3. SumFunctionOnSet(p, Bidders) \in Int
    BY <1>2, SumInt
  <1>4. ASSUME a.state = "open", a.bidder # None
        PROVE  SumFunctionOnSet(owed, Bidders) = SumFunctionOnSet(p, Bidders) + Lead(a)
    <2>1. /\ \A b \in Bidders : p[b] \in Int /\ owed[b] \in Int
          /\ \A b \in Bidders : b # a.bidder => p[b] = owed[b]
          /\ a.bidder \in Bidders /\ owed[a.bidder] = a.bid + p[a.bidder]
      BY <1>2, <1>4
    <2> HIDE DEF owed
    <2>2. SumFunctionOnSet(owed, Bidders)
            = SumFunctionOnSet(p, Bidders) - p[a.bidder] + owed[a.bidder]
      BY <1>2, <2>1, SumUpdate
    <2>3. p[a.bidder] \in Int /\ a.bid \in Int
      BY <1>2, <1>4, <2>1
    <2> QED BY <1>3, <1>4, <2>1, <2>2, <2>3 DEF Lead
  <1>5. ASSUME ~(a.state = "open" /\ a.bidder # None)
        PROVE  SumFunctionOnSet(owed, Bidders) = SumFunctionOnSet(p, Bidders) + Lead(a)
    <2>1. \A b \in Bidders : owed[b] = p[b]
      BY <1>2, <1>5
    <2> HIDE DEF owed
    <2>2. SumFunctionOnSet(owed, Bidders) = SumFunctionOnSet(p, Bidders)
      BY <1>2, <2>1, SumSame
    <2> QED BY <1>3, <1>5, <2>2 DEF Lead
  <1>6. SumFunction(owed) = SumFunctionOnSet(p, Bidders) + Lead(a)
    <2> HIDE DEF owed
    <2> QED BY <1>1, <1>4, <1>5
  <1> QED BY <1>6

\* Solvency, stated over the bidders, is the books stated as one sum.
LEMMA SolventIsBooks == ASSUME TypeOK PROVE Solvent <=> Books
  BY OwedAltogether, Zenon DEF Solvent, Books, Leading, Open, TypeOK

\* What is held in the asset changes by as much as is owed does.
LEMMA BooksChange ==
    ASSUME TypeOK, Books, config' = config, NEW d \in Int,
           SumFunctionOnSet(pending', Bidders) + Lead(auction')
               = SumFunctionOnSet(pending, Bidders) + Lead(auction) + d,
           \A a \in Assets : escrow'[a] = escrow[a] + IF a = config.asset THEN d ELSE 0
    PROVE  Books'
  <1>1. Lead(auction) \in Int /\ SumFunctionOnSet(pending, Bidders) \in Int
    <2>1. auction \in Auctions \cup {NoAuction} /\ pending \in [Bidders -> Nat]
      BY DEF TypeOK
    <2>2. Lead(auction) \in Int
      BY <2>1 DEF Lead, Auctions, NoAuction
    <2> QED BY <2>1, <2>2, SumInt, AuctionAssumption
  <1>2. ASSUME NEW a \in Assets, a = config.asset
        PROVE  escrow'[a] = SumFunctionOnSet(pending', Bidders) + Lead(auction')
    <2>1. escrow[a] = SumFunctionOnSet(pending, Bidders) + Lead(auction)
      BY <1>2 DEF Books
    <2> QED BY <1>1, <1>2, <2>1
  <1>3. ASSUME NEW a \in Assets, a # config.asset
        PROVE  escrow'[a] = 0
    <2>1. escrow[a] = 0
      BY <1>3 DEF Books
    <2> QED BY <1>3, <2>1
  <1> QED BY <1>2, <1>3 DEF Books

\* One refund that is kept changes, and all of them by as much.
LEMMA PendingSum ==
    ASSUME NEW p \in [Bidders -> Nat], NEW q \in [Bidders -> Nat], NEW b \in Bidders,
           \A c \in Bidders : c # b => p[c] = q[c]
    PROVE  SumFunctionOnSet(q, Bidders) = SumFunctionOnSet(p, Bidders) - p[b] + q[b]
  <1>1. \A c \in Bidders : p[c] \in Int /\ q[c] \in Int
    OBVIOUS
  <1> QED BY <1>1, SumUpdate, AuctionAssumption

\* What is refunded, l, leaves the Auction, or is kept, and is owed.  E is the
\* escrow before it.
RefundBooked(l, E) ==
    \E k \in Int :
        /\ SumFunctionOnSet(pending', Bidders) = SumFunctionOnSet(pending, Bidders) + k
        /\ \A a \in Assets : escrow'[a] = E[a] + IF a = config.asset THEN k - l ELSE 0

\* A refund, pushed or pending, is entered in full.
LEMMA RefundOnTheBooks ==
    ASSUME NEW owed \in Bidders \cup {None}, NEW refund \in Nat, NEW P,
           NEW E \in [Assets -> Nat], pending \in [Bidders -> Nat], config.asset \in Assets,
           RefundBid(owed, refund, P, E)
    PROVE  RefundBooked(IF owed = None THEN 0 ELSE refund, E)
  <1>1. IsFiniteSet(Bidders) /\ SumFunctionOnSet(pending, Bidders) \in Int
    BY SumInt, AuctionAssumption
  <1>2. CASE owed = None
    <2>1. pending' = pending /\ escrow' = E
      BY <1>2 DEF RefundBid
    <2>2. /\ SumFunctionOnSet(pending', Bidders) = SumFunctionOnSet(pending, Bidders) + 0
          /\ \A a \in Assets : escrow'[a] = E[a] + IF a = config.asset THEN 0 - 0 ELSE 0
      BY <1>1, <2>1
    <2> QED BY <1>2, <2>2 DEF RefundBooked
  <1>3. ASSUME owed # None, escrow' = [E EXCEPT ![config.asset] = @ - refund],
               pending' = pending
        PROVE  RefundBooked(refund, E)
    <2>1. /\ SumFunctionOnSet(pending', Bidders) = SumFunctionOnSet(pending, Bidders) + 0
          /\ \A a \in Assets : escrow'[a] = E[a] + IF a = config.asset THEN 0 - refund ELSE 0
      BY <1>1, <1>3
    <2> QED BY <2>1 DEF RefundBooked
  <1>4. ASSUME owed # None, escrow' = E, pending' = [pending EXCEPT ![owed] = @ + refund]
        PROVE  RefundBooked(refund, E)
    <2>1. /\ owed \in Bidders /\ pending' \in [Bidders -> Nat]
          /\ \A b \in Bidders : b # owed => pending[b] = pending'[b]
          /\ pending'[owed] = pending[owed] + refund
      BY <1>4
    <2>2. SumFunctionOnSet(pending', Bidders)
            = SumFunctionOnSet(pending, Bidders) - pending[owed] + pending'[owed]
      BY <2>1, PendingSum
    <2>3. SumFunctionOnSet(pending', Bidders) = SumFunctionOnSet(pending, Bidders) + refund
      BY <1>1, <2>1, <2>2
    <2>4. \A a \in Assets : escrow'[a] = E[a] + IF a = config.asset THEN refund - refund ELSE 0
      BY <1>4
    <2> QED BY <2>3, <2>4 DEF RefundBooked
  <1> QED BY <1>2, <1>3, <1>4 DEF RefundBid

\* What leads is paid out, and leads no more.
LEMMA PayOutOnTheBooks ==
    ASSUME TypeOK, Books, Open, PayOut, config' = config, Lead(auction') = 0
    PROVE  Books'
  <1> DEFINE l == Lead(auction)
             s == SumFunctionOnSet(pending, Bidders)
  <1>1. /\ auction \in Auctions /\ config.asset \in Assets /\ escrow \in [Assets -> Nat]
        /\ pending \in [Bidders -> Nat] /\ s \in Int
    <2>1. pending \in [Bidders -> Nat]
      BY DEF TypeOK
    <2> QED BY <2>1, SumInt, AuctionAssumption DEF TypeOK, Open, NoAuction, Configs
  <1>2. l \in Int
    BY <1>1 DEF Lead, Auctions
  <1>3. pending' = pending
    BY DEF PayOut, moneyVars
  <1>4. \A a \in Assets : escrow'[a] = escrow[a] + IF a = config.asset THEN 0 - l ELSE 0
    <2>1. CASE auction.bidder = None
      BY <1>1, <2>1 DEF PayOut, moneyVars, Lead
    <2>2. CASE auction.bidder # None
      <3>1. escrow' = [escrow EXCEPT ![config.asset] = @ - auction.bid]
        BY <2>2 DEF PayOut
      <3>2. l = auction.bid /\ l \in Int
        BY <2>2, <1>2 DEF Open, Lead
      <3> HIDE DEF l
      <3> QED BY <1>1, <3>1, <3>2
    <2> QED BY <2>1, <2>2
  <1>5. s + Lead(auction') = s + l + (0 - l)
    <2> HIDE DEF l, s
    <2> QED BY <1>1, <1>2
  <1> QED BY <1>2, <1>3, <1>4, <1>5, BooksChange

\* create_bid: what is paid in leads, and what led is refunded.
LEMMA CreateBidOnTheBooks ==
    ASSUME IndInv, Books, NEW bidder \in Bidders, NEW amount \in Nat,
           CreateBid(bidder, auction.tokenId, amount)
    PROVE  Books'
  <1> DEFINE E == [escrow EXCEPT ![config.asset] = @ + amount]
             l == Lead(auction)
             s == SumFunctionOnSet(pending, Bidders)
  <1>1. /\ TypeOK /\ config' = config /\ config.asset \in Assets
        /\ escrow \in [Assets -> Nat] /\ pending \in [Bidders -> Nat]
    BY DEF IndInv, TypeOK, Configs, CreateBid
  <1>2. /\ Open /\ auction \in Auctions /\ auction'.state = "open"
        /\ auction'.bid = amount /\ auction'.bidder = bidder
    BY BidChanges
  <1>3. auction.bid \in Nat /\ auction.bidder \in Bidders \cup {None} /\ bidder # None
    BY <1>2, AuctionAssumption DEF Auctions
  <1>4. l = (IF auction.bidder = None THEN 0 ELSE auction.bid) /\ Lead(auction') = amount
    BY <1>2, <1>3 DEF Lead, Open
  <1>5. E \in [Assets -> Nat]
    BY <1>1
  <1>6. PICK k \in Int :
           /\ SumFunctionOnSet(pending', Bidders) = s + k
           /\ \A a \in Assets : escrow'[a] = E[a] + IF a = config.asset THEN k - l ELSE 0
    <2> HIDE DEF E, l
    <2>1. \E P : RefundBid(auction.bidder, auction.bid, P, E)
      BY DEF CreateBid, E
    <2>2. RefundBooked(l, E)
      BY <1>1, <1>3, <1>4, <1>5, <2>1, RefundOnTheBooks
    <2> QED BY <2>2 DEF RefundBooked
  <1>7. l \in Int /\ s \in Int
    BY <1>1, <1>3, <1>4, SumInt, AuctionAssumption
  <1> HIDE DEF l, s
  <1>8. \A a \in Assets :
           escrow'[a] = escrow[a] + IF a = config.asset THEN k - l + amount ELSE 0
    BY <1>1, <1>6, <1>7
  <1>9. SumFunctionOnSet(pending', Bidders) + Lead(auction') = s + l + (k - l + amount)
    BY <1>4, <1>6, <1>7
  <1>10. k - l + amount \in Int
    BY <1>7
  <1> QED BY <1>1, <1>8, <1>9, <1>10, BooksChange DEF l, s

\* cancel_auction: what led is refunded.
LEMMA CancelOnTheBooks ==
    ASSUME IndInv, Books, NEW caller, CancelAuction(caller)
    PROVE  Books'
  <1> DEFINE l == Lead(auction)
             s == SumFunctionOnSet(pending, Bidders)
  <1>1. /\ TypeOK /\ config' = config /\ config.asset \in Assets /\ auction \in Auctions
        /\ escrow \in [Assets -> Nat] /\ pending \in [Bidders -> Nat]
        /\ RefundBid(auction.bidder, auction.bid, purse, escrow)
        /\ auction' = [auction EXCEPT !.state = "settled"] /\ Open
    BY DEF IndInv, TypeOK, Configs, CancelAuction, Open, NoAuction
  <1>2. auction.bid \in Nat /\ auction.bidder \in Bidders \cup {None}
    BY <1>1 DEF Auctions
  <1>3. l = (IF auction.bidder = None THEN 0 ELSE auction.bid) /\ Lead(auction') = 0
    BY <1>1 DEF Lead, Open, Auctions
  <1>4. PICK k \in Int :
           /\ SumFunctionOnSet(pending', Bidders) = s + k
           /\ \A a \in Assets : escrow'[a] = escrow[a] + IF a = config.asset THEN k - l ELSE 0
    <2> HIDE DEF l
    <2>1. RefundBooked(l, escrow)
      BY <1>1, <1>2, <1>3, RefundOnTheBooks
    <2> QED BY <2>1 DEF RefundBooked
  <1>5. l \in Int /\ s \in Int
    BY <1>1, <1>2, <1>3, SumInt, AuctionAssumption
  <1> HIDE DEF l, s
  <1>6. SumFunctionOnSet(pending', Bidders) + Lead(auction') = s + l + (k - l) /\ k - l \in Int
    BY <1>3, <1>4, <1>5
  <1> QED BY <1>1, <1>4, <1>6, BooksChange DEF l, s

\* withdraw_refund: what was kept leaves.
LEMMA WithdrawOnTheBooks ==
    ASSUME IndInv, Books, NEW bidder \in Bidders, WithdrawRefund(bidder)
    PROVE  Books'
  <1> DEFINE l == Lead(auction)
             s == SumFunctionOnSet(pending, Bidders)
             r == pending[bidder]
  <1>1. /\ TypeOK /\ config' = config /\ auction' = auction /\ config.asset \in Assets
        /\ escrow \in [Assets -> Nat] /\ pending \in [Bidders -> Nat] /\ r \in Nat
        /\ pending' = [pending EXCEPT ![bidder] = 0]
        /\ escrow' = [escrow EXCEPT ![config.asset] = @ - r]
    BY DEF IndInv, TypeOK, Configs, WithdrawRefund
  <1>2. /\ l \in Int /\ s \in Int /\ IsFiniteSet(Bidders)
    BY <1>1, SumInt, AuctionAssumption DEF Lead, TypeOK, Auctions, NoAuction
  <1>3. /\ pending' \in [Bidders -> Nat] /\ pending'[bidder] = 0
        /\ \A b \in Bidders : b # bidder => pending[b] = pending'[b]
    BY <1>1
  <1>4. SumFunctionOnSet(pending', Bidders)
          = SumFunctionOnSet(pending, Bidders) - pending[bidder] + pending'[bidder]
    BY <1>1, <1>3, PendingSum
  <1> HIDE DEF r
  <1>5. \A a \in Assets : escrow'[a] = escrow[a] + IF a = config.asset THEN 0 - r ELSE 0
    BY <1>1
  <1> HIDE DEF l, s
  <1>6. SumFunctionOnSet(pending', Bidders) + l = s + l + (0 - r) /\ 0 - r \in Int
    BY <1>1, <1>2, <1>3, <1>4 DEF r, s
  <1>7. Lead(auction') = l
    BY <1>1 DEF l
  <1> QED BY <1>1, <1>5, <1>6, <1>7, BooksChange DEF l, s

\* The other steps move nothing; they may change the asset only while there is
\* nothing in it.
LEMMA NothingMoves ==
    ASSUME IndInv, Books, pending' = pending, escrow' = escrow, Lead(auction') = Lead(auction),
           config'.asset = config.asset \/ ~assetLocked
    PROVE  Books'
  <1>1. CASE config'.asset = config.asset
    BY <1>1 DEF Books
  <1>2. CASE ~assetLocked
    <2>1. \A b \in Bidders : pending[b] = 0
      BY <1>2 DEF IndInv, AssetLockedByMoney
    <2>2. SumFunctionOnSet(pending, Bidders) = 0
      BY <2>1, SumZero, AuctionAssumption
    <2>3. Lead(auction) = 0
      BY <1>2 DEF IndInv, AssetLockedByMoney, Lead, NoAuction
    <2> QED BY <2>2, <2>3 DEF Books
  <1> QED BY <1>1, <1>2

\* The books start balanced.
LEMMA InitBooks == Init => Books
  <1> SUFFICES ASSUME Init PROVE Books
    OBVIOUS
  <1>1. /\ \A b \in Bidders : pending[b] = 0
        /\ \A a \in Assets : escrow[a] = 0
        /\ Lead(auction) = 0
    BY DEF Init, Lead, NoAuction
  <1>2. SumFunctionOnSet(pending, Bidders) = 0
    BY <1>1, SumZero, AuctionAssumption
  <1> QED BY <1>1, <1>2 DEF Books

\* Every step keeps the books.
LEMMA NextBooks ==
    ASSUME IndInv, Books, [Next]_vars
    PROVE  Books'
  <1>1. ASSUME NEW b \in Bidders, NEW t \in TokenIds, NEW amount \in Bids,
               CreateBid(b, t, amount)
        PROVE  Books'
    <2>1. t = auction.tokenId /\ amount \in Nat
      BY <1>1, AuctionAssumption DEF CreateBid
    <2> QED BY <1>1, <2>1, CreateBidOnTheBooks
  <1>2. CASE Settling
    <2>1. TypeOK /\ Open /\ PayOut /\ config' = config
      BY <1>2 DEF Settling, SettleAuction, SettleAndCreateNew, IndInv
    <2>2. Lead(auction') = 0
      <3>1. auction \in Auctions
        BY <2>1 DEF TypeOK, Open, NoAuction
      <3> QED BY <1>2, <3>1
              DEF Settling, SettleAuction, SettleAndCreateNew, CreateAuction, Lead, Auctions
    <2> QED BY <2>1, <2>2, PayOutOnTheBooks
  <1>3. CASE Cancelling
    BY <1>3, CancelOnTheBooks DEF Cancelling
  <1>4. CASE Withdrawing
    BY <1>4, WithdrawOnTheBooks DEF Withdrawing
  <1>5. CASE Pausing \/ Launching
    <2>1. UNCHANGED <<config, pending, escrow>>
      BY <1>5 DEF Pausing, Pause, Unpause, Launching, Handoff, Launch, moneyVars
    <2>2. auction' = auction \/ (~Open /\ CreateAuction(holder))
      <3>1. auction = NoAuction => ~Open
        BY DEF Open, NoAuction
      <3> QED BY <1>5, <3>1 DEF Pausing, Pause, Unpause, Launching, Handoff, Launch
    <2>3. Lead(auction') = Lead(auction)
      BY <2>2 DEF CreateAuction, Lead, Open
    <2> QED BY <2>1, <2>3, NothingMoves
  <1>6. CASE Configuring
    <2>1. UNCHANGED <<auction, pending, escrow>>
      BY <1>6 DEF Configuring, SetConfig, SetPaymentToken, moneyVars
    <2>2. config'.asset = config.asset \/ ~assetLocked
      <3>1. ASSUME NEW name \in {"duration", "reserve", "increment", "buffer"}, NEW v,
                   config' = [config EXCEPT ![name] = v]
            PROVE  config'.asset = config.asset
        BY <3>1 DEF IndInv, TypeOK, Configs
      <3> QED BY <1>6, <3>1 DEF Configuring, SetConfig, SetPaymentToken
    <2> QED BY <2>1, <2>2, NothingMoves
  <1>7. CASE TokenChanges \/ Tick \/ UNCHANGED vars
    <2>1. UNCHANGED <<config, auction, pending, escrow>>
      BY <1>7 DEF TokenChanges, Tick, vars, moneyVars
    <2> QED BY <2>1, NothingMoves
  <1> QED BY <1>1, <1>2, <1>3, <1>4, <1>5, <1>6, <1>7 DEF Next, Bidding

-----------------------------------------------------------------------------
(* The invariant.                                                          *)

\* At deployment nothing is minted, bid or held.
LEMMA InitInv == Init => IndInv
  <1> SUFFICES ASSUME Init PROVE IndInv
    OBVIOUS
  <1>1. /\ live = FALSE /\ paused = TRUE /\ auction = NoAuction
        /\ pending = [b \in Bidders |-> 0]
        /\ purse = [b \in Bidders |-> [a \in Assets |-> Budget]]
        /\ proceeds = [b \in Bidders |-> [a \in Assets |-> 0]]
        /\ holder = [t \in TokenIds |-> None]
    BY DEF Init
  <1>2. ~Open
    BY <1>1 DEF Open, NoAuction
  <1>3. /\ Budget \in Nat /\ Self # None /\ MaxTokens \in Nat
    BY AuctionAssumption
  <1>4. TypeOK
    BY <1>3, AuctionAssumption DEF Init, TypeOK
  <1>5. HoldsWhatItSells
    BY <1>1, <1>2, <1>3 DEF HoldsWhatItSells
  <1>6. MintedInOrder
    <2>1. Minted(holder) = {}
      BY <1>1 DEF Minted
    <2>2. 0 .. 0 - 1 = {} /\ 0 \in 0 .. MaxTokens
      BY <1>3
    <2> QED BY <2>1, <2>2 DEF MintedInOrder
  <1>7. NothingLost
    BY <1>1, <1>2, <1>3 DEF NothingLost, Leading
  <1>8. IdleUntilLive /\ UnpausedIsOpen /\ AssetLockedByMoney /\ EndBounded /\ BidsAreSerious
    BY <1>1, <1>2 DEF IdleUntilLive, UnpausedIsOpen, AssetLockedByMoney, EndBounded,
                      BidsAreSerious
  <1> QED BY <1>4, <1>5, <1>6, <1>7, <1>8 DEF IndInv

\* Every step keeps it.
LEMMA NextInv ==
    ASSUME IndInv, [Next]_vars
    PROVE  IndInv'
  <1>1. CASE Bidding
    BY <1>1, CreateBidInv, AuctionAssumption DEF Bidding
  <1>2. CASE Settling
    BY <1>2, SettleAuctionInv, SettleAndCreateNewInv DEF Settling
  <1>3. CASE Cancelling
    BY <1>3, CancelAuctionInv DEF Cancelling
  <1>4. CASE Withdrawing
    BY <1>4, WithdrawRefundInv DEF Withdrawing
  <1>5. CASE Pausing
    BY <1>5, UnpauseInv, OtherInv DEF Pausing
  <1>6. CASE Launching
    BY <1>6, LaunchInv, OtherInv DEF Launching
  <1>7. CASE Configuring \/ TokenChanges \/ Tick \/ UNCHANGED vars
    BY <1>7, OtherInv
  <1> QED BY <1>1, <1>2, <1>3, <1>4, <1>5, <1>6, <1>7 DEF Next

\* The inductive invariant of the Auction: money accounted for, one token held
\* while it is sold, times bounded, all of them together.
THEOREM AuctionInvariant == Spec => []IndInv
  <1>1. Init => IndInv
    BY InitInv
  <1>2. IndInv /\ [Next]_vars => IndInv'
    BY NextInv
  <1> QED BY <1>1, <1>2, PTL DEF Spec

\* Configuration stays within the limits of the setters, and no balance, held
\* or owed, goes below zero.
THEOREM AuctionTypes == Spec => []TypeOK
  BY AuctionInvariant, PTL DEF IndInv

\* create_bid checks neither the lifecycle nor that the auction is still open;
\* it need not, for whenever it is not paused there is an open auction.
THEOREM UnpausedAlwaysOpen == Spec => []UnpausedIsOpen
  BY AuctionInvariant, PTL DEF IndInv

\* What a bidder had is in their purse, owed to them, leading, or paid for a
\* token: whatever refunds fail, auctions are cancelled or assets are changed.
THEOREM MoneyIsNeverLost == Spec => []NothingLost
  BY AuctionInvariant, PTL DEF IndInv

\* The Auction can always pay what it owes, and holds nothing else: however many
\* bidders there are, whichever refunds fail, and whenever the asset is changed.
THEOREM AlwaysSolvent == Spec => []Solvent
  <1>1. Init => IndInv /\ Books
    BY InitInv, InitBooks
  <1>2. IndInv /\ Books /\ [Next]_vars => IndInv' /\ Books'
    BY NextInv, NextBooks
  <1>3. IndInv /\ Books => Solvent
    BY SolventIsBooks DEF IndInv
  <1> QED BY <1>1, <1>2, <1>3, PTL DEF Spec

\* The contract holds a token exactly while it auctions it.
THEOREM HoldsOnlyWhatItSells == Spec => []HoldsWhatItSells
  BY AuctionInvariant, PTL DEF IndInv

\* An auction's end is at most its start plus the longest duration and the
\* extensions it had, of which there are at most MAX_AUCTION_EXTENSIONS.
THEOREM EndIsBounded == Spec => []EndBounded
  BY AuctionInvariant, PTL DEF IndInv

\* A leader is replaced by a strictly higher bid only, since the increment of a
\* bid never rounds down to zero, and no bid brings an auction's end closer.
THEOREM BidsOnlyRise == Spec => Progressing
  <1> DEFINE Rises ==
               Open /\ auction' # auction /\ auction'.state = "open"
                   /\ auction'.tokenId = auction.tokenId =>
                 /\ auction'.bid > auction.bid
                 /\ auction'.end >= auction.end
  <1>1. ASSUME IndInv, [Next]_vars
        PROVE  [Rises]_vars
    <2> SUFFICES ASSUME Open, auction' # auction, auction'.state = "open",
                        auction'.tokenId = auction.tokenId
                 PROVE  auction'.bid > auction.bid /\ auction'.end >= auction.end
      OBVIOUS
    <2>1. auction \in Auctions /\ TypeOK
      BY <1>1 DEF IndInv, TypeOK, Open, NoAuction
    <2>2. CASE Bidding
      <3>1. PICK b \in Bidders, amount \in Nat : CreateBid(b, auction.tokenId, amount)
        BY <2>2, AuctionAssumption DEF Bidding, CreateBid
      <3>2. /\ auction'.bid = amount /\ amount > auction.bid
            /\ \/ auction'.end = auction.end
               \/ /\ auction'.end = now + config.buffer
                  /\ auction.end < now + config.buffer
        BY <1>1, <3>1, BidChanges
      <3>3. auction.end \in Nat /\ now \in Nat /\ config.buffer \in Nat
        BY <2>1, AuctionAssumption DEF Auctions, TypeOK, Configs
      <3> QED BY <3>2, <3>3
    <2>3. CASE SettleAndCreateNew
      <3> DEFINE to == IF auction.bidder = None THEN Treasury ELSE auction.bidder
                 held == [holder EXCEPT ![auction.tokenId] = to]
      <3>1. to \in Bidders \cup {Treasury}
        BY <2>1 DEF Auctions
      <3>2. /\ held \in [TokenIds -> Holders] /\ Minted(held) = Minted(holder)
            /\ \A t \in TokenIds : held[t] # Self
        BY <1>1, <3>1, HandOver
      <3>3. CreateAuction(held)
        BY <2>3 DEF SettleAndCreateNew, HeldAfterSettling
      <3>4. PICK n \in 0 .. MaxTokens : Minted(held) = 0 .. n - 1
        BY <1>1, <3>2 DEF IndInv, MintedInOrder
      <3> HIDE DEF held
      <3>5. auction'.tokenId = n /\ held[n] = None
        BY <2>1, <3>2, <3>3, <3>4, CreateAuctionInv
      <3>6. auction.tokenId \in TokenIds /\ holder \in [TokenIds -> Holders]
        BY <2>1 DEF Auctions, TypeOK, Holders
      <3>7. held[auction.tokenId] # None
        BY <3>1, <3>6, AuctionAssumption DEF held
      <3> QED BY <3>5, <3>7
    <2>4. CASE SettleAuction \/ Cancelling
      <3>1. auction' = [auction EXCEPT !.state = "settled"]
        BY <2>4 DEF SettleAuction, Cancelling, CancelAuction
      <3>2. auction'.state = "settled"
        BY <2>1, <3>1 DEF Auctions
      <3> QED BY <3>2
    <2>5. CASE Withdrawing \/ Pausing \/ Configuring \/ TokenChanges \/ Tick \/ UNCHANGED vars
      BY <2>5 DEF Withdrawing, WithdrawRefund, Pausing, Pause, Unpause, Configuring, SetConfig,
                  SetPaymentToken, TokenChanges, Tick, vars
    <2>6. CASE Launching
      <3>1. ~live => auction = NoAuction
        BY <1>1 DEF IndInv, IdleUntilLive
      <3> QED BY <2>6, <3>1 DEF Launching, Handoff, Launch, Open, NoAuction
    <2> QED BY <1>1, <2>2, <2>3, <2>4, <2>5, <2>6 DEF Next, Settling
  <1> QED BY <1>1, AuctionInvariant, PTL DEF Spec, Progressing

-----------------------------------------------------------------------------
(* Recursive functions.                                                    *)

\* f starts with a and goes on with the steps in g.
Goes(f, N, a, g) == f[0] = a /\ \A n \in 1 .. N : f[n] = g[n][f[n - 1]]

\* A recursion over the first N numbers, each step a function on X, defines a function.
LEMMA Iterates ==
    ASSUME NEW N \in Nat, NEW X, NEW a \in X, NEW g \in [1 .. N -> [X -> X]]
    PROVE  \E f \in [0 .. N -> X] : Goes(f, N, a, g)
  <1> USE DEF Goes
  <1> DEFINE T == {m \in Nat : m <= N => \E f \in [0 .. m -> X] : Goes(f, m, a, g)}
  <1>1. 0 \in T
    <2>1. Goes([n \in 0 .. 0 |-> a], 0, a, g)
      OBVIOUS
    <2> QED BY <2>1
  <1>2. ASSUME NEW m \in T PROVE m + 1 \in T
    <2>1. m \in Nat
      OBVIOUS
    <2>2. SUFFICES ASSUME m + 1 <= N PROVE \E f \in [0 .. m + 1 -> X] : Goes(f, m + 1, a, g)
      BY <2>1
    <2>3. PICK f \in [0 .. m -> X] : Goes(f, m, a, g)
      BY <2>1, <2>2
    <2> DEFINE h == [n \in 0 .. m + 1 |-> IF n = m + 1 THEN g[m + 1][f[m]] ELSE f[n]]
    <2>4. g[m + 1][f[m]] \in X
      BY <2>1, <2>2
    <2>5. h \in [0 .. m + 1 -> X]
      BY <2>1, <2>4
    <2>6. h[0] = a
      BY <2>1, <2>3
    <2>7. ASSUME NEW n \in 1 .. m + 1 PROVE h[n] = g[n][h[n - 1]]
      <3>1. CASE n = m + 1
        BY <3>1, <2>1
      <3>2. CASE n # m + 1
        BY <3>2, <2>1, <2>3
      <3> QED BY <3>1, <3>2
    <2> HIDE DEF h
    <2> QED BY <2>5, <2>6, <2>7
  <1>3. T = Nat
    <2> HIDE DEF T
    <2>1. T \in SUBSET Nat
      BY DEF T
    <2> QED BY <1>1, <1>2, <2>1, Naturals
  <1> QED BY <1>3

-----------------------------------------------------------------------------
(* The renewal of shared code.                                             *)

\* A nonempty set of numbers has a least one.
LEMMA Least == ASSUME NEW S \in SUBSET Nat, S # {} PROVE Min(S) \in S
  <1> DEFINE T == {n \in Nat : \A m \in 0 .. n : m \notin S}
  <1>1. SUFFICES ASSUME \A x \in S : \E y \in S : y < x PROVE FALSE
    <2>1. (\E x \in S : \A y \in S : x <= y) => Min(S) \in S
      BY DEF Min
    <2>2. (~ \E x \in S : \A y \in S : x <= y) => \A x \in S : \E y \in S : y < x
      OBVIOUS
    <2> QED BY <2>1, <2>2
  <1>2. 0 \in T
    BY <1>1
  <1>3. ASSUME NEW n \in T PROVE n + 1 \in T
    BY <1>1
  <1>4. T = Nat
    BY <1>2, <1>3, Naturals
  <1>5. PICK x \in S : TRUE
    OBVIOUS
  <1>6. x \in T /\ x \in 0 .. x
    BY <1>4
  <1> QED BY <1>6

\* The targets are numbers of days that grow no longer.
LEMMA ShorterTypes == \A n \in 0 .. Days : Shorter[n] \in 0 .. Days
  <1> DEFINE X == 0 .. Days
             g == [n \in 1 .. Days |-> [x \in X |-> (x * 6) \div 10]]
  <1>1. Days \in Nat
    BY CodeRenewalAssumption
  <1>2. Days \in X /\ g \in [1 .. Days -> [X -> X]]
    <2>1. \A x \in X : (x * 6) \div 10 \in X
      BY <1>1
    <2> QED BY <1>1, <2>1
  <1>3. PICK f \in [0 .. Days -> X] : Goes(f, Days, Days, g)
    <2>1. Days \in X
      BY <1>2
    <2>2. g \in [1 .. Days -> [X -> X]]
      BY <1>2
    <2> HIDE DEF g, X
    <2> QED BY <1>1, <2>1, <2>2, Iterates
  <1>4. f = [n \in 0 .. Days |-> IF n = 0 THEN Days ELSE (f[n - 1] * 6) \div 10]
    <2>1. ASSUME NEW n \in 1 .. Days PROVE f[n] = (f[n - 1] * 6) \div 10
      <3>1. n - 1 \in 0 .. Days
        BY <1>1
      <3>2. f[n] = g[n][f[n - 1]]
        BY <1>3, Zenon DEF Goes
      <3>3. f[n - 1] \in X
        BY <3>1
      <3> QED BY <3>2, <3>3
    <2> QED BY <1>1, <1>3, <2>1 DEF Goes
  <1>5. Shorter = [n \in 0 .. Days |-> IF n = 0 THEN Days ELSE (Shorter[n - 1] * 6) \div 10]
    BY <1>4, Zenon DEF Shorter
  <1> DEFINE T == {n \in Nat : n <= Days => Shorter[n] \in X}
  <1>6. 0 \in T
    BY <1>1, <1>5
  <1>7. ASSUME NEW n \in T PROVE n + 1 \in T
    <2>1. SUFFICES ASSUME n + 1 <= Days PROVE Shorter[n + 1] \in X
      OBVIOUS
    <2>2. Shorter[n] \in X /\ n + 1 \in 0 .. Days /\ n + 1 # 0 /\ n + 1 - 1 = n
      BY <1>1, <2>1
    <2>3. \A k \in 0 .. Days : Shorter[k] = IF k = 0 THEN Days ELSE (Shorter[k - 1] * 6) \div 10
      BY <1>5, Zenon
    <2>4. Shorter[n + 1] = (Shorter[n] * 6) \div 10
      BY <2>2, <2>3
    <2>5. \A x \in 0 .. Days : (x * 6) \div 10 \in 0 .. Days
      BY <1>1
    <2> QED BY <2>2, <2>4, <2>5
  <1>8. T = Nat
    <2> HIDE DEF T
    <2>1. T \in SUBSET Nat
      BY DEF T
    <2> QED BY <1>6, <1>7, <2>1, Naturals
  <1> QED BY <1>1, <1>8

\* An extension that can be paid for is to a number of days.
LEMMA TargetTypes ==
    ASSUME NEW h, Affordable(h) # {}
    PROVE  NextExtendTarget(h) \in 0 .. Days
  <1>1. Affordable(h) \subseteq 0 .. Days /\ 0 .. Days \subseteq Nat
    BY CodeRenewalAssumption DEF Affordable, Tried
  <1>2. Min(Affordable(h)) \in 0 .. Days
    BY <1>1, Least
  <1> QED BY <1>2, ShorterTypes DEF NextExtendTarget

-----------------------------------------------------------------------------
(* What keeps the code alive. *)

\* The newest release, and what DAOs run that are seen, or that a run that is answered reads.
KeptCode == {newest} \cup {runs[d] : d \in {x \in Daos : sight[x] = "seen"}}
CodeInSight == {newest} \cup {runs[d] : d \in {x \in Daos : sight[x] # "moved"}}

\* What is kept has lost no more days than passed since the last run that read and extended
\* everything.
Lasting == \A h \in KeptCode : left[h] + since >= Days

\* Between runs nothing is left to extend. During one that was answered and has not failed,
\* what is neither extended nor at work is still to be extended.
Sweeping ==
    /\ phase = "off" => todo = {} /\ entry = NoEntry
    /\ phase = "extending" /\ answered /\ failures = 0 =>
          \A h \in CodeInSight : h \in todo \/ h = entry \/ left[h] = Days

\* Each hash fails once at most.
AtWork == IF entry = NoEntry THEN 0 ELSE 1
Counted == failures + AtWork + Cardinality(todo) <= Cardinality(Hashes)

CodeInd == CodeTypes /\ Lasting /\ Sweeping /\ Counted

\* What DAOs run, and what is newest, are hashes; what is kept is in sight.
LEMMA KeptCodeHashes ==
    ASSUME CodeTypes
    PROVE  /\ CodeInSight \subseteq Hashes /\ KeptCode \subseteq CodeInSight
           /\ newest \in KeptCode
           /\ \A d \in Daos : sight[d] = "seen" => runs[d] \in KeptCode
  BY CodeRenewalAssumption DEF CodeTypes, KeptCode, CodeInSight

\* Where neither the releases nor what DAOs run changes, nor what was seen of them, the same
\* hashes are kept and in sight.
LEMMA SameKeptCode ==
    ASSUME UNCHANGED <<newest, runs, sight>>
    PROVE  KeptCode' = KeptCode /\ CodeInSight' = CodeInSight
  BY DEF KeptCode, CodeInSight

\* Sets of hashes are finite, and taking one out takes one away.
LEMMA HashSets ==
    /\ Cardinality(Hashes) \in Nat
    /\ \A S \in SUBSET Hashes :
         /\ Cardinality(S) \in Nat /\ Cardinality(S) <= Cardinality(Hashes)
         /\ \A h \in S : Cardinality(S \ {h}) = Cardinality(S) - 1
  BY CodeRenewalAssumption, FS_CardinalityType, FS_Subset, FS_RemoveElement

\* At the start one release is extended to the full number of days.
LEMMA CodeInitInd == CodeInit => CodeInd
  <1> SUFFICES ASSUME CodeInit PROVE CodeInd
    OBVIOUS
  <1> USE CodeRenewalAssumption
  <1>1. PICK h \in Hashes :
          /\ released = {h} /\ newest = h
          /\ left = [x \in Hashes |-> IF x = h THEN Days ELSE 0]
          /\ runs = [d \in Daos |-> h]
          /\ since = 0 /\ phase = "off" /\ todo = {} /\ entry = NoEntry /\ attempt = 0
          /\ failures = 0 /\ outcome = "none"
          /\ answered = FALSE /\ sight = [d \in Daos |-> "seen"]
    BY DEF CodeInit
  <1>2. CodeTypes
    <2>1. left \in [Hashes -> 0 .. Days] /\ runs \in [Daos -> released]
      BY <1>1
    <2>2. sight \in [Daos -> {"moved", "reading", "seen"}]
      BY <1>1
    <2>3. /\ released \subseteq Hashes /\ newest \in released
          /\ since \in 0 .. Period /\ attempt \in 0 .. Attempts - 1
          /\ failures \in 0 .. Cardinality(Hashes)
      BY <1>1, HashSets
    <2> QED BY <1>1, <2>1, <2>2, <2>3 DEF CodeTypes
  <1>3. KeptCode = {h}
    BY <1>1 DEF KeptCode
  <1>4. Lasting /\ Sweeping
    BY <1>1, <1>3 DEF Lasting, Sweeping
  <1>5. Counted
    BY <1>1, HashSets, FS_EmptySet DEF Counted, AtWork
  <1> QED BY <1>2, <1>4, <1>5 DEF CodeInd

\* A new release lives all its days.
LEMMA ReleaseInd ==
    ASSUME CodeInd, NEW h \in Hashes, Release(h)
    PROVE  CodeInd'
  <1> USE CodeRenewalAssumption
  <1>1. CodeTypes'
    BY DEF CodeInd, CodeTypes, Release, script, codeHistory
  <1>2. KeptCode' \subseteq KeptCode \cup {h}
    BY DEF Release, KeptCode, codeHistory
  <1>3. KeptCode \subseteq Hashes
    BY KeptCodeHashes DEF CodeInd
  <1>4. \A x \in KeptCode : x # h => left'[x] = left[x]
    BY <1>3 DEF CodeInd, CodeTypes, Release
  <1>5. left'[h] = Days /\ since' = since /\ since \in Nat
    BY DEF CodeInd, CodeTypes, Release
  <1>6. Lasting'
    BY <1>2, <1>4, <1>5 DEF CodeInd, Lasting
  <1>7. Sweeping' /\ Counted'
    BY DEF CodeInd, Sweeping, Counted, AtWork, Release, script
  <1> QED BY <1>1, <1>6, <1>7 DEF CodeInd

\* A DAO upgrades to the newest release, which is kept, or it has to be seen again.
LEMMA UpgradeInd ==
    ASSUME CodeInd, NEW d \in Daos, NEW h \in Hashes, Upgrade(d, h)
    PROVE  CodeInd'
  <1> USE CodeRenewalAssumption
  <1>1. CodeTypes'
    BY DEF CodeInd, CodeTypes, Upgrade, script
  <1>2. \A x \in Daos : IF x = d
                         THEN runs'[x] = h /\ sight'[x] = IF h = newest THEN "seen" ELSE "moved"
                         ELSE runs'[x] = runs[x] /\ sight'[x] = sight[x]
    BY DEF CodeInd, CodeTypes, Upgrade
  <1>3. KeptCode' \subseteq KeptCode /\ CodeInSight' \subseteq CodeInSight
    BY <1>2 DEF Upgrade, KeptCode, CodeInSight
  <1>4. Lasting'
    BY <1>3 DEF CodeInd, Lasting, Upgrade
  <1>5. Sweeping' /\ Counted'
    BY <1>3 DEF CodeInd, Sweeping, Counted, AtWork, Upgrade, script
  <1> QED BY <1>1, <1>4, <1>5 DEF CodeInd

\* A day that passes is a day since the last run, and one less to live.
LEMMA DayPassesInd ==
    ASSUME CodeInd, DayPasses
    PROVE  CodeInd'
  <1> USE CodeRenewalAssumption
  <1>1. CodeTypes'
    BY DEF CodeInd, CodeTypes, DayPasses, script, codeHistory
  <1>2. KeptCode' = KeptCode /\ CodeInSight' = CodeInSight /\ KeptCode \subseteq Hashes
    BY KeptCodeHashes, SameKeptCode DEF DayPasses, CodeInd, codeHistory
  <1>3. \A h \in Hashes : left[h] \in Nat /\ left'[h] >= left[h] - 1
    BY DEF CodeInd, CodeTypes, DayPasses
  <1>4. since \in Nat /\ since' = since + 1 /\ Days \in Nat
    BY DEF CodeInd, CodeTypes, DayPasses
  <1>5. \A h \in Hashes : left'[h] \in Nat
    BY <1>1 DEF CodeTypes
  <1>6. Lasting'
    <2>1. ASSUME NEW h \in KeptCode PROVE left'[h] + since' >= Days
      <3>1. h \in Hashes /\ left[h] + since >= Days
        BY <1>2 DEF CodeInd, Lasting
      <3> QED BY <3>1, <1>3, <1>4, <1>5
    <2> QED BY <2>1, <1>2 DEF Lasting
  <1>7. Sweeping' /\ Counted'
    BY DEF CodeInd, Sweeping, Counted, AtWork, DayPasses, script
  <1> QED BY <1>1, <1>6, <1>7 DEF CodeInd

\* A run that is answered begins with everything in sight; what moved before is in sight now.
LEMMA StartInd ==
    ASSUME CodeInd, Start
    PROVE  CodeInd'
  <1> USE CodeRenewalAssumption
  <1>1. PICK names \in BOOLEAN, read \in SUBSET Daos, more \in SUBSET Hashes :
          /\ phase' = "extending" /\ todo' = Collected(names, read, more)
          /\ entry' = NoEntry /\ attempt' = 0 /\ failures' = 0 /\ outcome' = "none"
          /\ answered' = (names /\ read = Daos)
          /\ sight' = [d \in Daos |-> IF sight[d] = "moved" THEN "reading" ELSE sight[d]]
          /\ UNCHANGED codeChain
    BY DEF Start
  <1>2. todo' \subseteq Hashes
    BY <1>1 DEF Collected, CodeInd, CodeTypes
  <1>3. \A d \in Daos : (sight'[d] = "seen") = (sight[d] = "seen")
    BY <1>1
  <1>4. CodeTypes'
    BY <1>1, <1>2, HashSets DEF CodeInd, CodeTypes, codeChain
  <1>5. KeptCode' = KeptCode
    BY <1>1, <1>3 DEF KeptCode, codeChain
  <1>6. Lasting'
    BY <1>1, <1>5 DEF CodeInd, Lasting, codeChain
  <1>7. Sweeping'
    <2>1. ASSUME answered' PROVE CodeInSight' \subseteq todo'
      BY <1>1, <2>1 DEF CodeInSight, Collected, codeChain
    <2> QED BY <1>1, <2>1 DEF Sweeping
  <1>8. Counted'
    BY <1>1, <1>2, HashSets DEF Counted, AtWork
  <1> QED BY <1>4, <1>6, <1>7, <1>8 DEF CodeInd

\* A run that the Manager does not answer changes nothing.
LEMMA RefusesInd ==
    ASSUME CodeInd, Refuses
    PROVE  CodeInd'
  <1>1. KeptCode' = KeptCode /\ CodeInSight' = CodeInSight
    BY SameKeptCode DEF Refuses, codeChain, codeHistory
  <1> QED BY <1>1
        DEF CodeInd, CodeTypes, Lasting, Sweeping, Counted, AtWork, Refuses, codeChain, codeHistory

\* An entry that is picked is at work.
LEMMA PickEntryInd ==
    ASSUME CodeInd, NEW h \in Hashes, PickEntry(h)
    PROVE  CodeInd'
  <1> USE CodeRenewalAssumption
  <1>1. CodeTypes'
    BY DEF CodeInd, CodeTypes, PickEntry, codeChain, codeHistory
  <1>2. KeptCode' = KeptCode /\ CodeInSight' = CodeInSight
    BY SameKeptCode DEF PickEntry, codeChain, codeHistory
  <1>3. Lasting'
    BY <1>2 DEF CodeInd, Lasting, PickEntry, codeChain
  <1>4. Sweeping'
    <2>1. CodeInSight \subseteq Hashes
      BY KeptCodeHashes DEF CodeInd
    <2>2. SUFFICES ASSUME answered, failures = 0, NEW x \in CodeInSight
                   PROVE  x \in todo' \/ x = entry' \/ left'[x] = Days
      BY <1>2 DEF Sweeping, PickEntry, codeChain, codeHistory
    <2>3. phase = "extending" /\ entry = NoEntry /\ entry' = h /\ todo' = todo \ {h} /\ left' = left
      BY DEF PickEntry, codeChain
    <2>4. x \in todo \/ left[x] = Days
      BY <2>1, <2>2, <2>3 DEF CodeInd, Sweeping
    <2> QED BY <2>3, <2>4
  <1>5. Counted'
    <2>1. /\ todo \in SUBSET Hashes /\ h \in todo /\ failures \in Nat
          /\ failures + Cardinality(todo) <= Cardinality(Hashes)
      BY HashSets DEF CodeInd, CodeTypes, Counted, AtWork, PickEntry
    <2>2. Cardinality(todo \ {h}) = Cardinality(todo) - 1 /\ Cardinality(todo) \in Nat
      BY <2>1, HashSets
    <2>3. AtWork' = 1 /\ failures' = failures /\ todo' = todo \ {h}
      BY DEF AtWork, PickEntry
    <2> QED BY <2>1, <2>2, <2>3, HashSets DEF Counted
  <1> QED BY <1>1, <1>3, <1>4, <1>5 DEF CodeInd

\* A failure takes the place of the entry that was at work.
LEMMA FailureCounted ==
    ASSUME CodeInd, entry # NoEntry
    PROVE  failures + 1 + Cardinality(todo) <= Cardinality(Hashes) /\ failures + 1 \in 0 .. Cardinality(Hashes)
  <1>1. /\ failures \in Nat /\ Cardinality(todo) \in Nat /\ Cardinality(Hashes) \in Nat
        /\ failures + 1 + Cardinality(todo) <= Cardinality(Hashes)
    BY HashSets DEF CodeInd, CodeTypes, Counted, AtWork
  <1> QED BY <1>1

\* An extension adds days to one entry, which is done when it has them all.
LEMMA ExtendInd ==
    ASSUME CodeInd, Extend
    PROVE  CodeInd'
  <1> USE CodeRenewalAssumption
  <1> DEFINE days == NextExtendTarget(entry)
             last == attempt = Attempts - 1
  <1>1. /\ phase = "extending" /\ entry # NoEntry /\ Affordable(entry) # {}
        /\ left' = [left EXCEPT ![entry] = IF days > @ THEN days ELSE @]
        /\ \/ /\ days = Days \/ last
              /\ entry' = NoEntry /\ attempt' = 0
           \/ /\ days # Days /\ ~last
              /\ entry' = entry /\ attempt' = attempt + 1
        /\ failures' = IF days # Days /\ last THEN failures + 1 ELSE failures
        /\ UNCHANGED <<released, newest, runs, since, phase, todo, outcome, codeHistory>>
    BY Zenon DEF Extend
  <1>2. days \in 0 .. Days
    BY <1>1, TargetTypes
  <1> HIDE DEF days
  <1>3. entry \in Hashes /\ left \in [Hashes -> 0 .. Days] /\ Days \in Nat
    BY <1>1 DEF CodeInd, CodeTypes
  <1>4. /\ left' \in [Hashes -> 0 .. Days]
        /\ \A h \in Hashes : left'[h] >= left[h] /\ (h # entry => left'[h] = left[h])
        /\ days = Days => left'[entry] = Days
    BY <1>1, <1>2, <1>3
  <1>5. KeptCode' = KeptCode /\ CodeInSight' = CodeInSight /\ KeptCode \subseteq CodeInSight /\ CodeInSight \subseteq Hashes
    BY <1>1, KeptCodeHashes, SameKeptCode DEF CodeInd, codeHistory
  <1>6. failures' \in 0 .. Cardinality(Hashes)
    BY <1>1, FailureCounted DEF CodeInd, CodeTypes
  <1>7. attempt' \in 0 .. Attempts - 1 /\ entry' \in Hashes \cup {NoEntry}
    BY <1>1, <1>3 DEF CodeInd, CodeTypes
  <1>8. CodeTypes'
    BY <1>1, <1>4, <1>6, <1>7 DEF CodeInd, CodeTypes, codeHistory
  <1>9. Lasting'
    <2>1. ASSUME NEW h \in KeptCode PROVE left'[h] + since' >= Days
      <3>1. h \in Hashes /\ left[h] + since >= Days /\ since' = since /\ since \in Nat
        BY <1>1, <1>5 DEF CodeInd, CodeTypes, Lasting
      <3>2. left[h] \in Nat /\ left'[h] \in Nat
        BY <3>1, <1>3, <1>4
      <3> QED BY <3>1, <3>2, <1>3, <1>4
    <2> QED BY <2>1, <1>5 DEF Lasting
  <1>10. Sweeping'
    <2>1. SUFFICES ASSUME answered, failures' = 0, NEW h \in CodeInSight, h \notin todo
                   PROVE  h = entry' \/ left'[h] = Days
      BY <1>1, <1>5 DEF Sweeping, codeHistory
    <2>2. failures = 0 /\ ~(days # Days /\ last)
      BY <1>1, <2>1, FailureCounted DEF CodeInd, CodeTypes
    <2>3. h = entry \/ left[h] = Days
      BY <1>1, <2>1, <2>2 DEF CodeInd, Sweeping
    <2> QED BY <1>1, <1>4, <1>5, <2>1, <2>2, <2>3
  <1>11. Counted'
    <2>1. failures + 1 + Cardinality(todo) <= Cardinality(Hashes)
      BY <1>1, FailureCounted
    <2>2. /\ failures' + AtWork' <= failures + 1 /\ todo' = todo
          /\ failures \in Nat /\ failures' + AtWork' \in Nat
      BY <1>1 DEF AtWork, CodeInd, CodeTypes
    <2>3. Cardinality(todo) \in Nat /\ Cardinality(Hashes) \in Nat
      BY HashSets DEF CodeInd, CodeTypes
    <2> QED BY <2>1, <2>2, <2>3 DEF Counted
  <1> QED BY <1>8, <1>9, <1>10, <1>11 DEF CodeInd

\* An entry that is given up is counted.
LEMMA ExtendFailsInd ==
    ASSUME CodeInd, ExtendFails
    PROVE  CodeInd'
  <1> USE CodeRenewalAssumption
  <1>1. KeptCode' = KeptCode
    BY SameKeptCode DEF ExtendFails, GivesUp, codeChain, codeHistory
  <1>2. CodeTypes'
    BY FailureCounted DEF CodeInd, CodeTypes, ExtendFails, GivesUp, codeChain, codeHistory
  <1>3. Lasting'
    BY <1>1 DEF CodeInd, Lasting, ExtendFails, GivesUp, codeChain
  <1>4. failures' # 0 /\ phase' = "extending"
    BY DEF CodeInd, CodeTypes, ExtendFails, GivesUp
  <1>5. Sweeping'
    BY <1>4 DEF Sweeping
  <1>6. Counted'
    <2>1. AtWork' = 0 /\ failures' = failures + 1 /\ todo' = todo
      BY DEF AtWork, ExtendFails, GivesUp
    <2>2. failures + 1 + Cardinality(todo) <= Cardinality(Hashes) /\ failures \in Nat
      BY FailureCounted DEF ExtendFails, CodeInd, CodeTypes
    <2> QED BY <2>1, <2>2 DEF Counted
  <1> QED BY <1>2, <1>3, <1>5, <1>6 DEF CodeInd

\* A run that was answered and ends without a failure has extended everything in sight.
LEMMA FinishInd ==
    ASSUME CodeInd, Finish
    PROVE  CodeInd'
  <1> USE CodeRenewalAssumption
  <1>1. CodeTypes'
    BY DEF CodeInd, CodeTypes, Finish
  <1>2. Lasting'
    <2>1. CASE failures = 0 /\ answered
      <3>1. KeptCode' \subseteq CodeInSight
        BY <2>1 DEF Finish, KeptCode, CodeInSight
      <3>2. \A h \in CodeInSight : left[h] = Days
        BY <2>1, KeptCodeHashes DEF Finish, CodeInd, Sweeping
      <3>3. since' = 0 /\ left' = left
        BY <2>1 DEF Finish
      <3> QED BY <3>1, <3>2, <3>3 DEF Lasting
    <2>2. CASE ~(failures = 0 /\ answered)
      <3>1. UNCHANGED <<newest, runs, sight, left, since>>
        BY <2>2 DEF Finish
      <3> QED BY <3>1, SameKeptCode DEF CodeInd, Lasting
    <2> QED BY <2>1, <2>2
  <1>3. Sweeping' /\ Counted'
    BY DEF CodeInd, Sweeping, Counted, AtWork, Finish
  <1> QED BY <1>1, <1>2, <1>3 DEF CodeInd

\* Every step keeps the invariant.
LEMMA CodeNextInd ==
    ASSUME CodeInd, [CodeNext]_codeVars
    PROVE  CodeInd'
  <1>1. CASE UNCHANGED codeVars
    <2>1. KeptCode' = KeptCode /\ CodeInSight' = CodeInSight
      BY <1>1, SameKeptCode DEF codeVars, codeChain, codeHistory
    <2> QED BY <1>1, <2>1
          DEF CodeInd, CodeTypes, Lasting, Sweeping, Counted, AtWork, codeVars, codeChain, script,
              codeHistory
  <1>2. CASE CodeNext
    BY <1>2, ReleaseInd, PickEntryInd, UpgradeInd, DayPassesInd, StartInd, RefusesInd, ExtendInd,
       ExtendFailsInd, FinishInd DEF CodeNext
  <1> QED BY <1>1, <1>2

\* The script's invariant holds, whatever is released and upgraded and whichever lookups and
\* extensions fail.
THEOREM CodeInvariant == CodeSpec => []CodeInd
  <1>1. CodeInd /\ [CodeNext]_codeVars => CodeInd'
    BY CodeNextInd
  <1> QED BY <1>1, CodeInitInd, PTL DEF CodeSpec

\* When a run that reads and extends everything is made before what the last such run extended
\* lapses, no DAO the script knows loses its code, however many releases and DAOs there are and
\* whatever other runs miss: one that moved to an older release from the next such run on, and
\* every other one throughout.
THEOREM CodeNeverLapses == Period < Days => (CodeSpec => []CodeAlive)
  <1> SUFFICES ASSUME Period < Days PROVE CodeSpec => []CodeAlive
    OBVIOUS
  <1>1. ASSUME CodeInd PROVE CodeAlive
    <2>1. ASSUME NEW d \in Daos, sight[d] = "seen" PROVE left[runs[d]] > 0
      <3>1. runs[d] \in Hashes /\ left[runs[d]] + since >= Days
        BY <1>1, <2>1, KeptCodeHashes DEF CodeInd, Lasting
      <3>2. left[runs[d]] \in Nat /\ since \in 0 .. Period /\ Days \in Nat /\ Period \in Nat
        BY <1>1, <3>1, CodeRenewalAssumption DEF CodeInd, CodeTypes
      <3> QED BY <3>1, <3>2
    <2> QED BY <1>1, <2>1 DEF CodeAlive, CodeStaysAlive, CodeInd
  <1> QED BY <1>1, CodeInvariant, PTL

-----------------------------------------------------------------------------
(* The keys of a set, as the inventory lists them. *)

\* InOrder's recursion.
ChosenUpTo(chosen, S) ==
    chosen = [n \in 0 .. Len(Order) |->
                IF n = 0 THEN <<>>
                ELSE IF Order[n] \in S THEN Append(chosen[n - 1], Order[n]) ELSE chosen[n - 1]]

Chosen(S) == CHOOSE chosen : ChosenUpTo(chosen, S)

\* InOrder is the end of that recursion.
LEMMA InOrderIsChosen == ASSUME NEW S PROVE InOrder(S) = Chosen(S)[Len(Order)]
  BY Zenon DEF InOrder, Chosen, ChosenUpTo

\* It has one.
LEMMA ChosenExists == ASSUME NEW S PROVE ChosenUpTo(Chosen(S), S)
  <1> DEFINE X == Seq(Keys)
             g == [n \in 1 .. Len(Order) |-> [x \in X |-> IF Order[n] \in S THEN Append(x, Order[n]) ELSE x]]
  <1>1. Order \in Seq(Keys) /\ Len(Order) \in Nat
    BY RenewalAssumption
  <1>2. <<>> \in X
    OBVIOUS
  <1>3. g \in [1 .. Len(Order) -> [X -> X]]
    <2>1. \A n \in 1 .. Len(Order) : Order[n] \in Keys
      BY <1>1
    <2>2. \A n \in 1 .. Len(Order) : \A x \in X : Append(x, Order[n]) \in X
      BY <2>1
    <2> QED BY <2>2
  <1>4. PICK f \in [0 .. Len(Order) -> X] : Goes(f, Len(Order), <<>>, g)
    <2> HIDE DEF X, g
    <2> QED BY <1>1, <1>2, <1>3, Iterates
  <1>5. ASSUME NEW n \in 1 .. Len(Order)
        PROVE  f[n] = IF Order[n] \in S THEN Append(f[n - 1], Order[n]) ELSE f[n - 1]
    <2>1. n - 1 \in 0 .. Len(Order)
      BY <1>1
    <2>2. f[n] = g[n][f[n - 1]]
      BY <1>4, Zenon DEF Goes
    <2>3. f[n - 1] \in X
      BY <2>1
    <2> QED BY <2>2, <2>3
  <1>6. ChosenUpTo(f, S)
    <2>1. ASSUME NEW n \in 0 .. Len(Order)
          PROVE  f[n] = IF n = 0 THEN <<>>
                        ELSE IF Order[n] \in S THEN Append(f[n - 1], Order[n]) ELSE f[n - 1]
      <3>1. f[0] = <<>>
        BY <1>4 DEF Goes
      <3>2. n # 0 => n \in 1 .. Len(Order)
        BY <1>1
      <3> QED BY <1>5, <3>1, <3>2
    <2> QED BY <2>1 DEF ChosenUpTo
  <1> QED BY <1>6 DEF Chosen

\* x is an element of the sequence s.
Has(s, x) == \E i \in DOMAIN s : s[i] = x

\* A sequence with one element more.
LEMMA HasAppend ==
    ASSUME NEW T, NEW s \in Seq(T), NEW y \in T
    PROVE  /\ Append(s, y) \in Seq(T) /\ Has(Append(s, y), y)
           /\ \A x : Has(s, x) => Has(Append(s, y), x)
           /\ \A x : Has(Append(s, y), x) => Has(s, x) \/ x = y
  <1>1. /\ Append(s, y) \in Seq(T) /\ Len(Append(s, y)) = Len(s) + 1
        /\ DOMAIN s = 1 .. Len(s) /\ DOMAIN Append(s, y) = 1 .. Len(s) + 1 /\ Len(s) \in Nat
        /\ \A i \in 1 .. Len(s) : Append(s, y)[i] = s[i]
        /\ Append(s, y)[Len(s) + 1] = y
    BY AppendProperties
  <1> QED BY <1>1 DEF Has

\* InOrder(S) is a sequence of keys that has every key of S.
LEMMA InOrderHas ==
    ASSUME NEW S
    PROVE  InOrder(S) \in Seq(Keys) /\ \A k \in S \cap Keys : Has(InOrder(S), k)
  <1> DEFINE c == Chosen(S)
             P(n) == c[n] \in Seq(Keys) /\ \A m \in 1 .. n : Order[m] \in S => Has(c[n], Order[m])
             T == {n \in Nat : n <= Len(Order) => P(n)}
  <1>1. Order \in Seq(Keys) /\ Len(Order) \in Nat /\ ToSet(Order) = Keys
    BY RenewalAssumption
  <1>2. \A n \in 0 .. Len(Order) : c[n] =
            IF n = 0 THEN <<>>
            ELSE IF Order[n] \in S THEN Append(c[n - 1], Order[n]) ELSE c[n - 1]
    BY ChosenExists, Zenon DEF ChosenUpTo
  <1> HIDE DEF c
  <1>3. 0 \in T
    <2>1. c[0] = <<>>
      BY <1>1, <1>2
    <2>2. c[0] \in Seq(Keys) /\ 1 .. 0 = {}
      BY <2>1
    <2> QED BY <2>2
  <1>4. ASSUME NEW n \in T PROVE n + 1 \in T
    <2>1. SUFFICES ASSUME n + 1 <= Len(Order) PROVE P(n + 1)
      OBVIOUS
    <2>2. n + 1 \in 0 .. Len(Order) /\ n + 1 # 0 /\ n + 1 - 1 = n /\ P(n) /\ Order[n + 1] \in Keys
      BY <1>1, <2>1
    <2>3. c[n + 1] = IF Order[n + 1] \in S THEN Append(c[n], Order[n + 1]) ELSE c[n]
      BY <1>2, <2>2
    <2>4. c[n + 1] \in Seq(Keys)
      BY <2>2, <2>3
    <2>5. ASSUME NEW m \in 1 .. n + 1, Order[m] \in S PROVE Has(c[n + 1], Order[m])
      <3>1. CASE m = n + 1
        BY <2>2, <2>3, <2>5, <3>1, HasAppend
      <3>2. CASE m # n + 1
        <4>1. Has(c[n], Order[m])
          BY <2>2, <2>5, <3>2
        <4> QED BY <2>2, <2>3, <4>1, HasAppend
      <3> QED BY <3>1, <3>2
    <2> QED BY <2>4, <2>5
  <1>5. T = Nat
    <2> HIDE DEF T
    <2>1. T \in SUBSET Nat
      BY DEF T
    <2> QED BY <1>3, <1>4, <2>1, Naturals
  <1>6. P(Len(Order))
    BY <1>1, <1>5
  <1>7. ASSUME NEW k \in S \cap Keys PROVE \E m \in 1 .. Len(Order) : Order[m] = k
    BY <1>1 DEF ToSet
  <1> QED BY <1>6, <1>7, InOrderIsChosen DEF c

-----------------------------------------------------------------------------
(* Flattening batch after batch. *)

\* FlattenSeq's recursion.
Flattens(f, ss) == f = [i \in 1 .. Len(ss) |-> IF i = 1 THEN ss[i] ELSE f[i - 1] \o ss[i]]

Flat(ss) == CHOOSE f : Flattens(f, ss)

\* FlattenSeq is the end of that recursion.
LEMMA FlattenIsFlat == ASSUME NEW ss PROVE FlattenSeq(ss) = IF Len(ss) = 0 THEN ss ELSE Flat(ss)[Len(ss)]
  BY Zenon DEF FlattenSeq, Flat, Flattens

\* It has one.
LEMMA FlatExists ==
    ASSUME NEW ss \in Seq(Seq(Keys)), ss # <<>>
    PROVE  Flattens(Flat(ss), ss) /\ \A i \in 1 .. Len(ss) : Flat(ss)[i] \in Seq(Keys)
  <1> DEFINE X == Seq(Keys)
             N == Len(ss) - 1
             g == [n \in 1 .. N |-> [x \in X |-> x \o ss[n + 1]]]
  <1>1. Len(ss) \in Nat /\ N \in Nat /\ \A i \in 1 .. Len(ss) : ss[i] \in X
    OBVIOUS
  <1>2. ss[1] \in X
    BY <1>1
  <1>3. g \in [1 .. N -> [X -> X]]
    <2>1. \A n \in 1 .. N : ss[n + 1] \in X
      BY <1>1
    <2>2. \A n \in 1 .. N : \A x \in X : x \o ss[n + 1] \in X
      BY <2>1, ConcatProperties
    <2> QED BY <2>2
  <1>4. PICK e \in [0 .. N -> X] : Goes(e, N, ss[1], g)
    <2> HIDE DEF X, g, N
    <2> QED BY <1>1, <1>2, <1>3, Iterates
  <1> DEFINE f == [i \in 1 .. Len(ss) |-> e[i - 1]]
  <1>6. ASSUME NEW i \in 1 .. Len(ss) PROVE f[i] = IF i = 1 THEN ss[i] ELSE f[i - 1] \o ss[i]
    <2>1. CASE i = 1
      <3>1. e[0] = ss[1]
        BY <1>4 DEF Goes
      <3> QED BY <2>1, <3>1
    <2>2. CASE i # 1
      <3>1. i - 1 \in 1 .. N /\ i - 1 \in 1 .. Len(ss) /\ i - 1 - 1 \in 0 .. N
        BY <1>1, <2>2
      <3>2. e[i - 1] = g[i - 1][e[i - 1 - 1]]
        BY <3>1, <1>4, Zenon DEF Goes
      <3>3. g[i - 1] = [x \in X |-> x \o ss[i - 1 + 1]]
        BY <3>1
      <3>4. e[i - 1 - 1] \in X
        <4> HIDE DEF X
        <4> QED BY <3>1
      <3>7. i - 1 + 1 = i
        BY <1>1
      <3>5. e[i - 1] = e[i - 1 - 1] \o ss[i]
        BY <3>2, <3>3, <3>4, <3>7
      <3>6. f[i] = e[i - 1] /\ f[i - 1] = e[i - 1 - 1]
        BY <3>1
      <3> QED BY <2>2, <3>5, <3>6
    <2> QED BY <2>1, <2>2
  <1>7. Flattens(f, ss)
    <2>1. f = [i \in 1 .. Len(ss) |-> f[i]]
      OBVIOUS
    <2> HIDE DEF f
    <2> QED BY <1>6, <2>1 DEF Flattens
  <1>8. Flattens(Flat(ss), ss)
    <2> HIDE DEF f
    <2> QED BY <1>7 DEF Flat
  <1> DEFINE h == Flat(ss)
             T == {n \in Nat : n \in 1 .. Len(ss) => h[n] \in X}
  <1>9. \A i \in 1 .. Len(ss) : h[i] = IF i = 1 THEN ss[i] ELSE h[i - 1] \o ss[i]
    BY <1>8, Zenon DEF Flattens
  <1> HIDE DEF h, f
  <1>10. 0 \in T
    OBVIOUS
  <1>11. ASSUME NEW n \in T PROVE n + 1 \in T
    <2>1. SUFFICES ASSUME n + 1 \in 1 .. Len(ss) PROVE h[n + 1] \in X
      OBVIOUS
    <2>2. ss[n + 1] \in X /\ n + 1 - 1 = n /\ n \in Nat
      BY <2>1, <1>1
    <2>3. h[n + 1] = IF n = 0 THEN ss[n + 1] ELSE h[n] \o ss[n + 1]
      BY <1>9, <2>1, <2>2
    <2>4. n # 0 => h[n] \in X
      BY <1>1, <2>1, <2>2
    <2> QED BY <2>2, <2>3, <2>4, ConcatProperties
  <1>12. T = Nat
    <2> HIDE DEF T
    <2>1. T \in SUBSET Nat
      BY DEF T
    <2> QED BY <1>10, <1>11, <2>1, Naturals
  <1>13. \A i \in 1 .. Len(ss) : h[i] \in X
    <2>1. \A i \in 1 .. Len(ss) : i \in T
      <3> HIDE DEF T
      <3> QED BY <1>1, <1>12
    <2> QED BY <2>1
  <1> QED BY <1>8, <1>13 DEF h

\* One more batch is put at the end.
LEMMA FlattenAppend ==
    ASSUME NEW ss \in Seq(Seq(Keys)), NEW s \in Seq(Keys)
    PROVE  FlattenSeq(ss) \in Seq(Keys) /\ FlattenSeq(Append(ss, s)) = FlattenSeq(ss) \o s
  <1> DEFINE L == Len(ss)
             r == Append(ss, s)
             f == Flat(ss)
             h == Flat(r)
  <1>1. /\ r \in Seq(Seq(Keys)) /\ r # <<>> /\ Len(r) = L + 1 /\ L \in Nat
        /\ \A i \in 1 .. L : r[i] = ss[i]
        /\ r[L + 1] = s
    BY AppendProperties
  <1>2. Flattens(h, r)
    BY <1>1, FlatExists
  <1> HIDE DEF r
  <1>3. \A i \in 1 .. L + 1 : h[i] = IF i = 1 THEN r[i] ELSE h[i - 1] \o r[i]
    <2>1. \A i \in 1 .. Len(r) : h[i] = IF i = 1 THEN r[i] ELSE h[i - 1] \o r[i]
      BY <1>2, Zenon DEF Flattens
    <2> QED BY <1>1, <2>1
  <1>4. FlattenSeq(r) = h[L + 1]
    BY <1>1, FlattenIsFlat
  <1>5. CASE ss = <<>>
    <2>1. L = 0 /\ FlattenSeq(ss) = <<>>
      BY <1>5, FlattenIsFlat
    <2>2. h[1] = s
      BY <1>1, <1>3, <2>1
    <2>3. FlattenSeq(r) = s
      BY <1>4, <2>1, <2>2
    <2> QED BY <2>1, <2>3, ConcatEmptySeq DEF r
  <1>6. CASE ss # <<>>
    <2>1. Flattens(f, ss) /\ \A i \in 1 .. L : f[i] \in Seq(Keys)
      BY <1>6, FlatExists
    <2>2. \A i \in 1 .. L : f[i] = IF i = 1 THEN ss[i] ELSE f[i - 1] \o ss[i]
      BY <2>1, Zenon DEF Flattens
    <2> DEFINE T == {n \in Nat : n \in 1 .. L => f[n] = h[n]}
    <2> HIDE DEF f, h
    <2>3. 0 \in T
      OBVIOUS
    <2>4. ASSUME NEW n \in T PROVE n + 1 \in T
      <3>1. SUFFICES ASSUME n + 1 \in 1 .. L PROVE f[n + 1] = h[n + 1]
        OBVIOUS
      <3>2. n + 1 \in 1 .. L + 1 /\ n + 1 - 1 = n /\ r[n + 1] = ss[n + 1]
        BY <1>1, <3>1
      <3>3. n # 0 => f[n] = h[n]
        BY <1>1, <3>1
      <3>4. f[n + 1] = IF n + 1 = 1 THEN ss[n + 1] ELSE f[n] \o ss[n + 1]
        BY <2>2, <3>1, <3>2
      <3>5. h[n + 1] = IF n + 1 = 1 THEN ss[n + 1] ELSE h[n] \o ss[n + 1]
        BY <1>3, <3>1, <3>2
      <3> QED BY <3>3, <3>4, <3>5
    <2>5. T = Nat
      <3> HIDE DEF T
      <3>1. T \in SUBSET Nat
        BY DEF T
      <3> QED BY <2>3, <2>4, <3>1, Naturals
    <2>6. L # 0 /\ L \in 1 .. L /\ L + 1 \in 1 .. L + 1 /\ L + 1 # 1 /\ L + 1 - 1 = L
      BY <1>1, <1>6
    <2>7. f[L] = h[L]
      BY <2>5, <2>6, <1>1
    <2>8. h[L + 1] = h[L] \o r[L + 1]
      <3>1. \A i \in 1 .. L + 1 : i # 1 => h[i] = h[i - 1] \o r[i]
        BY <1>3
      <3>2. PICK i : i = L + 1
        OBVIOUS
      <3>3. i \in 1 .. L + 1 /\ i # 1 /\ i - 1 = L
        BY <1>1, <2>6, <3>2
      <3>4. h[i] = h[i - 1] \o r[i]
        BY <3>1, <3>3, Zenon
      <3>5. h[i] = h[L] \o r[i]
        BY <3>3, <3>4, Zenon
      <3> QED BY <3>2, <3>5, Zenon
    <2>9. FlattenSeq(ss) = f[L]
      BY <2>6, FlattenIsFlat DEF f
    <2> QED BY <1>1, <1>4, <2>1, <2>6, <2>7, <2>8, <2>9 DEF r
  <1> QED BY <1>5, <1>6

-----------------------------------------------------------------------------
(* Batches. *)

\* A sequence that is not empty is its front and its last element.
LEMMA FrontAndLast ==
    ASSUME NEW T, NEW s \in Seq(T), s # <<>>
    PROVE  Front(s) \in Seq(T) /\ Last(s) \in T /\ s = Append(Front(s), Last(s))
  <1>1. PICK r \in Seq(T), e \in T : s = Append(r, e)
    BY SequenceEmptyOrAppend
  <1>2. /\ Len(s) = Len(r) + 1 /\ Len(r) \in Nat /\ s[Len(r) + 1] = e
        /\ \A i \in 1 .. Len(r) : s[i] = r[i]
    BY <1>1, AppendProperties
  <1>3. Last(s) = e
    BY <1>2 DEF Last
  <1>4. Front(s) = SubSeq(s, 1, Len(r))
    BY <1>2 DEF Front
  <1>5. /\ SubSeq(s, 1, Len(r)) \in Seq(T) /\ Len(SubSeq(s, 1, Len(r))) = Len(r)
        /\ \A i \in 1 .. Len(r) : SubSeq(s, 1, Len(r))[i] = r[i]
    <2>1. \A i \in 1 .. Len(r) : s[i] \in T
      BY <1>2, ElementOfSeq
    <2>2. /\ SubSeq(s, 1, Len(r)) \in Seq(T)
          /\ Len(SubSeq(s, 1, Len(r))) = IF 1 <= Len(r) THEN Len(r) - 1 + 1 ELSE 0
          /\ \A i \in 1 .. Len(r) - 1 + 1 : SubSeq(s, 1, Len(r))[i] = s[1 + i - 1]
      BY <1>2, <2>1, SubSeqProperties
    <2>3. Len(r) - 1 + 1 = Len(r) /\ \A i \in 1 .. Len(r) : 1 + i - 1 = i
      BY <1>2
    <2>4. Len(SubSeq(s, 1, Len(r))) = Len(r)
      BY <1>2, <2>2
    <2> QED BY <1>2, <2>2, <2>3, <2>4
  <1>6. SubSeq(s, 1, Len(r)) = r
    BY <1>5, SeqEqual
  <1> QED BY <1>1, <1>3, <1>4, <1>6

\* A batch weighs a number of bytes, and one more key adds no more than its own.
LEMMA Weights ==
    ASSUME NEW s \in Seq(Keys), NEW k \in Keys
    PROVE  /\ Weight(s) \in Nat /\ Weight(Append(s, k)) \in Nat
           /\ Weight(Append(s, k)) <= Weight(s) + Bytes[k]
  <1>1. /\ Order \in Seq(Keys) /\ ToSet(Order) = Keys /\ Bytes \in [Keys -> Nat]
    BY RenewalAssumption
  <1>2. IsFiniteSet(Keys)
    <2>1. Order \in [1 .. Len(Order) -> Keys] /\ Len(Order) \in Nat
      BY <1>1
    <2>2. \A x \in Keys : \E i \in 1 .. Len(Order) : Order[i] = x
      BY <1>1 DEF ToSet
    <2>3. Order \in Surjection(1 .. Len(Order), Keys)
      BY <2>1, <2>2 DEF Surjection
    <2>4. IsFiniteSet(1 .. Len(Order))
      BY <2>1, FS_Interval
    <2> QED BY <2>3, <2>4, FS_Surjection
  <1>3. ASSUME NEW r \in Seq(Keys) PROVE ToSet(r) \subseteq Keys
    BY DEF ToSet
  <1>4. ToSet(Append(s, k)) = ToSet(s) \cup {k} /\ Append(s, k) \in Seq(Keys)
    <2>1. \A x : x \in ToSet(s) <=> Has(s, x)
      BY DEF ToSet, Has
    <2>2. \A x : x \in ToSet(Append(s, k)) <=> Has(Append(s, k), x)
      BY DEF ToSet, Has
    <2>3. /\ Append(s, k) \in Seq(Keys) /\ Has(Append(s, k), k)
          /\ \A x : Has(s, x) => Has(Append(s, k), x)
          /\ \A x : Has(Append(s, k), x) => Has(s, x) \/ x = k
      BY HasAppend
    <2> QED BY <2>1, <2>2, <2>3
  <1>5. /\ IsFiniteSet(ToSet(s)) /\ IsFiniteSet(ToSet(Append(s, k)))
        /\ \A x \in ToSet(s) : Bytes[x] \in Nat /\ Bytes[x] \in Int
        /\ \A x \in ToSet(Append(s, k)) : Bytes[x] \in Nat
    BY <1>1, <1>2, <1>3, <1>4, FS_Subset
  <1>6. Weight(s) \in Nat /\ Weight(Append(s, k)) \in Nat
    BY <1>5, SumNat DEF Weight
  <1>7. CASE k \in ToSet(s)
    <2>1. Weight(Append(s, k)) = Weight(s)
      <3>1. ToSet(s) \cup {k} = ToSet(s)
        BY <1>7
      <3> QED BY <1>4, <3>1 DEF Weight
    <2> QED BY <1>1, <1>6, <2>1
  <1>8. CASE k \notin ToSet(s)
    <2>1. Bytes[k] \in Nat /\ Bytes[k] \in Int
      BY <1>1
    <2>2. SumFunctionOnSet(Bytes, ToSet(s) \cup {k}) = Bytes[k] + SumFunctionOnSet(Bytes, ToSet(s))
      BY <1>5, <1>8, <2>1, SumAdd
    <2>3. Weight(Append(s, k)) = Bytes[k] + Weight(s)
      BY <1>4, <2>2 DEF Weight
    <2> QED BY <1>6, <2>1, <2>3
  <1> QED BY <1>6, <1>7, <1>8

\* What one transaction may carry.
BatchFits(s) == s \in Seq(Keys) /\ Len(s) <= BatchEntries /\ (Len(s) = 1 \/ Weight(s) <= BatchBytes)

\* Every batch fits.
AllFit(b) == b \in Seq(Seq(Keys)) /\ \A s : Has(b, s) => BatchFits(s)

\* A key is in a batch.
Within(b, x) == \E s : Has(b, s) /\ Has(s, x)

\* planBatches' step: a key that does not fit starts the next batch.
Placed(b, k) ==
    IF b # <<>> /\ Fits(Last(b), k) THEN Append(Front(b), Append(Last(b), k)) ELSE Append(b, <<k>>)

\* A key is placed at the end, in a batch it fits, and no key is lost.
LEMMA PlacedFits ==
    ASSUME NEW b, AllFit(b), NEW k \in Keys
    PROVE  /\ AllFit(Placed(b, k)) /\ FlattenSeq(Placed(b, k)) = Append(FlattenSeq(b), k)
           /\ Within(Placed(b, k), k) /\ \A x : Within(b, x) => Within(Placed(b, k), x)
  <1>1. b \in Seq(Seq(Keys)) /\ \A s : Has(b, s) => BatchFits(s)
    BY DEF AllFit
  <1>2. CASE ~(b # <<>> /\ Fits(Last(b), k))
    <2>1. Placed(b, k) = Append(b, <<k>>)
      BY <1>2 DEF Placed
    <2>2. <<k>> \in Seq(Keys) /\ Len(<<k>>) = 1 /\ Has(<<k>>, k)
      BY DEF Has
    <2>3. BatchFits(<<k>>)
      BY <2>2, RenewalAssumption DEF BatchFits
    <2>4. /\ Append(b, <<k>>) \in Seq(Seq(Keys)) /\ Has(Append(b, <<k>>), <<k>>)
          /\ \A s : Has(b, s) => Has(Append(b, <<k>>), s)
          /\ \A s : Has(Append(b, <<k>>), s) => Has(b, s) \/ s = <<k>>
      BY <1>1, <2>2, HasAppend
    <2>5. AllFit(Placed(b, k))
      BY <1>1, <2>1, <2>3, <2>4 DEF AllFit
    <2>6. FlattenSeq(b) \in Seq(Keys) /\ FlattenSeq(Append(b, <<k>>)) = FlattenSeq(b) \o <<k>>
      BY <1>1, <2>2, FlattenAppend
    <2>7. FlattenSeq(Placed(b, k)) = Append(FlattenSeq(b), k)
      BY <2>1, <2>6, AppendIsConcat
    <2>8. Within(Placed(b, k), k) /\ \A x : Within(b, x) => Within(Placed(b, k), x)
      BY <2>1, <2>2, <2>4 DEF Within
    <2> QED BY <2>5, <2>7, <2>8
  <1>3. CASE b # <<>> /\ Fits(Last(b), k)
    <2> DEFINE f == Front(b)
               l == Last(b)
               m == Append(l, k)
    <2>1. Placed(b, k) = Append(f, m)
      BY <1>3 DEF Placed
    <2>2. f \in Seq(Seq(Keys)) /\ l \in Seq(Keys) /\ b = Append(f, l)
      BY <1>1, <1>3, FrontAndLast
    <2>3. Len(l) < BatchEntries /\ Weight(l) + Bytes[k] <= BatchBytes
      BY <1>3 DEF Fits
    <2> HIDE DEF f, l
    <2>4. /\ m \in Seq(Keys) /\ Has(m, k) /\ \A x : Has(l, x) => Has(m, x)
      BY <2>2, HasAppend
    <2>5. BatchFits(m)
      <3>1. Len(m) = Len(l) + 1 /\ Len(l) \in Nat
        BY <2>2, AppendProperties
      <3>2. Weight(m) <= Weight(l) + Bytes[k] /\ Weight(m) \in Nat /\ Weight(l) \in Nat
        BY <2>2, Weights
      <3>3. Bytes[k] \in Nat /\ BatchBytes \in Nat /\ BatchEntries \in Nat
        BY RenewalAssumption
      <3>4. Len(m) <= BatchEntries
        BY <2>3, <3>1, <3>3
      <3>5. Weight(m) <= BatchBytes
        BY <2>3, <3>2, <3>3
      <3> QED BY <2>4, <3>4, <3>5 DEF BatchFits
    <2>6. \A s : Has(b, s) <=> Has(f, s) \/ s = l
      BY <2>2, HasAppend
    <2> HIDE DEF m
    <2>7. /\ Append(f, m) \in Seq(Seq(Keys)) /\ Has(Append(f, m), m)
          /\ \A s : Has(f, s) => Has(Append(f, m), s)
          /\ \A s : Has(Append(f, m), s) => Has(f, s) \/ s = m
      BY <2>2, <2>4, HasAppend
    <2>8. AllFit(Placed(b, k))
      BY <1>1, <2>1, <2>5, <2>6, <2>7 DEF AllFit
    <2>9. FlattenSeq(Placed(b, k)) = Append(FlattenSeq(b), k)
      <3>1. /\ FlattenSeq(f) \in Seq(Keys) /\ FlattenSeq(b) = FlattenSeq(f) \o l
            /\ FlattenSeq(Append(f, m)) = FlattenSeq(f) \o m
        BY <2>2, <2>4, FlattenAppend
      <3>2. m = l \o <<k>> /\ <<k>> \in Seq(Keys)
        BY <2>2, AppendIsConcat DEF m
      <3>3. FlattenSeq(f) \o (l \o <<k>>) = (FlattenSeq(f) \o l) \o <<k>>
        BY <2>2, <3>1, <3>2, ConcatAssociative
      <3>4. FlattenSeq(b) \in Seq(Keys)
        BY <2>2, <3>1, ConcatProperties
      <3>5. Append(FlattenSeq(b), k) = FlattenSeq(b) \o <<k>>
        BY <3>4, AppendIsConcat
      <3> QED BY <2>1, <3>1, <3>2, <3>3, <3>5
    <2>10. Within(Placed(b, k), k)
      BY <2>1, <2>4, <2>7 DEF Within
    <2>11. ASSUME NEW x, Within(b, x) PROVE Within(Placed(b, k), x)
      <3>1. PICK s : Has(b, s) /\ Has(s, x)
        BY <2>11 DEF Within
      <3>2. CASE s = l
        BY <2>1, <2>4, <2>7, <3>1, <3>2 DEF Within
      <3>3. CASE s # l
        BY <2>1, <2>6, <2>7, <3>1, <3>3 DEF Within
      <3> QED BY <3>2, <3>3
    <2> QED BY <2>8, <2>9, <2>10, <2>11
  <1> QED BY <1>2, <1>3

\* PlanBatches' recursion.
PlansUpTo(plan, keys) ==
    plan = [n \in 0 .. Len(keys) |->
              IF n = 0 THEN <<>>
              ELSE LET before == plan[n - 1]
                   IN  IF before # <<>> /\ Fits(Last(before), keys[n])
                       THEN Append(Front(before), Append(Last(before), keys[n]))
                       ELSE Append(before, <<keys[n]>>)]

Plan(keys) == CHOOSE plan : PlansUpTo(plan, keys)

\* PlanBatches is the end of that recursion.
LEMMA PlanBatchesIsPlan == ASSUME NEW keys PROVE PlanBatches(keys) = Plan(keys)[Len(keys)]
  BY Zenon DEF PlanBatches, Plan, PlansUpTo

\* A key is placed among batches of keys.
LEMMA PlacedTypes ==
    ASSUME NEW b \in Seq(Seq(Keys)), NEW k \in Keys
    PROVE  Placed(b, k) \in Seq(Seq(Keys))
  <1>1. CASE b # <<>> /\ Fits(Last(b), k)
    <2>1. Front(b) \in Seq(Seq(Keys)) /\ Last(b) \in Seq(Keys)
      BY <1>1, FrontAndLast
    <2>2. Append(Last(b), k) \in Seq(Keys)
      BY <2>1, AppendProperties
    <2>3. Append(Front(b), Append(Last(b), k)) \in Seq(Seq(Keys))
      BY <2>1, <2>2, AppendProperties
    <2> QED BY <1>1, <2>3 DEF Placed
  <1>2. CASE ~(b # <<>> /\ Fits(Last(b), k))
    <2>1. <<k>> \in Seq(Keys)
      OBVIOUS
    <2>2. Append(b, <<k>>) \in Seq(Seq(Keys))
      BY <2>1, AppendProperties
    <2> QED BY <1>2, <2>2 DEF Placed
  <1> QED BY <1>1, <1>2

\* The recursion has a function, which places key after key.
LEMMA PlanExists ==
    ASSUME NEW keys \in Seq(Keys)
    PROVE  /\ Plan(keys)[0] = <<>>
           /\ \A n \in 1 .. Len(keys) : Plan(keys)[n] = Placed(Plan(keys)[n - 1], keys[n])
  <1> DEFINE X == Seq(Seq(Keys))
             N == Len(keys)
             g == [n \in 1 .. N |-> [x \in X |-> Placed(x, keys[n])]]
  <1>1. N \in Nat /\ \A n \in 1 .. N : keys[n] \in Keys
    OBVIOUS
  <1>2. <<>> \in X
    OBVIOUS
  <1>3. g \in [1 .. N -> [X -> X]]
    BY <1>1, PlacedTypes
  <1>4. PICK f \in [0 .. N -> X] : Goes(f, N, <<>>, g)
    <2> HIDE DEF X, g, N
    <2> QED BY <1>1, <1>2, <1>3, Iterates
  <1>5. ASSUME NEW n \in 0 .. N
        PROVE  f[n] = IF n = 0 THEN <<>> ELSE Placed(f[n - 1], keys[n])
    <2>1. CASE n = 0
      BY <1>4, <2>1 DEF Goes
    <2>2. CASE n # 0
      <3>1. n \in 1 .. N /\ n - 1 \in 0 .. N
        BY <1>1, <2>2
      <3>2. f[n] = g[n][f[n - 1]]
        BY <1>4, <3>1, Zenon DEF Goes
      <3>3. g[n] = [x \in X |-> Placed(x, keys[n])]
        BY <3>1
      <3>4. f[n - 1] \in X
        <4> HIDE DEF X
        <4> QED BY <3>1
      <3>5. f[n] = Placed(f[n - 1], keys[n])
        BY <3>2, <3>3, <3>4
      <3> QED BY <2>2, <3>5
    <2> QED BY <2>1, <2>2
  <1>6. PlansUpTo(f, keys)
    <2>1. f = [n \in 0 .. N |-> f[n]]
      OBVIOUS
    <2>2. f = [n \in 0 .. N |-> IF n = 0 THEN <<>> ELSE Placed(f[n - 1], keys[n])]
      BY <1>5, <2>1
    <2> QED BY <2>2, Zenon DEF PlansUpTo, Placed
  <1>7. PlansUpTo(Plan(keys), keys)
    BY <1>6 DEF Plan
  <1>8. \A n \in 0 .. N : Plan(keys)[n] = IF n = 0 THEN <<>> ELSE Placed(Plan(keys)[n - 1], keys[n])
    <2> DEFINE p == Plan(keys)
    <2> HIDE DEF p
    <2>1. PlansUpTo(p, keys)
      BY <1>7 DEF p
    <2>2. p = [n \in 0 .. N |-> IF n = 0 THEN <<>> ELSE Placed(p[n - 1], keys[n])]
      BY <2>1, Zenon DEF PlansUpTo, Placed
    <2>3. \A n \in 0 .. N : p[n] = IF n = 0 THEN <<>> ELSE Placed(p[n - 1], keys[n])
      BY <2>2, Zenon
    <2> QED BY <2>3 DEF p
  <1> HIDE DEF N
  <1>9. ASSUME NEW n \in 1 .. N PROVE n \in 0 .. N /\ n # 0
    BY <1>1
  <1>10. 0 \in 0 .. N
    BY <1>1
  <1> QED BY <1>8, <1>9, <1>10 DEF N

\* The batches fit, hold every key, and put together are the keys as they came.
LEMMA PlannedFits ==
    ASSUME NEW keys \in Seq(Keys)
    PROVE  /\ AllFit(PlanBatches(keys)) /\ FlattenSeq(PlanBatches(keys)) = keys
           /\ \A x : Has(keys, x) => Within(PlanBatches(keys), x)
  <1> DEFINE p == Plan(keys)
             N == Len(keys)
             P(n) == /\ AllFit(p[n]) /\ FlattenSeq(p[n]) = SubSeq(keys, 1, n)
                     /\ \A m \in 1 .. n : Within(p[n], keys[m])
             T == {n \in Nat : n <= N => P(n)}
  <1>1. N \in Nat /\ \A n \in 1 .. N : keys[n] \in Keys
    OBVIOUS
  <1>2. p[0] = <<>> /\ \A n \in 1 .. N : p[n] = Placed(p[n - 1], keys[n])
    BY PlanExists
  <1> HIDE DEF p, N
  <1>3. 0 \in T
    <2>1. AllFit(p[0])
      BY <1>2 DEF AllFit, Has
    <2>2. FlattenSeq(p[0]) = <<>>
      BY <1>2, FlattenIsFlat
    <2>3. SubSeq(keys, 1, 0) = <<>>
      BY SubSeqEmpty
    <2>4. 1 .. 0 = {}
      OBVIOUS
    <2> QED BY <2>1, <2>2, <2>3, <2>4
  <1>4. ASSUME NEW n \in T PROVE n + 1 \in T
    <2>1. SUFFICES ASSUME n + 1 <= N PROVE P(n + 1)
      OBVIOUS
    <2>2. n \in Nat /\ n + 1 \in 1 .. N /\ P(n) /\ keys[n + 1] \in Keys /\ n + 1 - 1 = n
      BY <1>1, <2>1
    <2>3. p[n + 1] = Placed(p[n], keys[n + 1])
      BY <1>2, <2>2
    <2>4. /\ AllFit(p[n + 1]) /\ FlattenSeq(p[n + 1]) = Append(FlattenSeq(p[n]), keys[n + 1])
          /\ Within(p[n + 1], keys[n + 1]) /\ \A x : Within(p[n], x) => Within(p[n + 1], x)
      <3> DEFINE b == p[n]
                 k == keys[n + 1]
      <3>1. AllFit(b) /\ k \in Keys
        BY <2>2
      <3> HIDE DEF b, k
      <3>2. /\ AllFit(Placed(b, k)) /\ FlattenSeq(Placed(b, k)) = Append(FlattenSeq(b), k)
            /\ Within(Placed(b, k), k) /\ \A x : Within(b, x) => Within(Placed(b, k), x)
        BY <3>1, PlacedFits
      <3> QED BY <2>3, <3>2, Zenon DEF b, k
    <2>5. FlattenSeq(p[n + 1]) = SubSeq(keys, 1, n + 1)
      <3>1. SubSeq(keys, 1, n) \in Seq(Keys)
        <4>1. \A i \in 1 .. n : keys[i] \in Keys
          BY <1>1, <2>2
        <4> QED BY <2>2, <4>1, SubSeqProperties
      <3>2. Append(SubSeq(keys, 1, n), keys[n + 1]) = SubSeq(keys, 1, n) \o <<keys[n + 1]>>
        BY <2>2, <3>1, AppendIsConcat
      <3>3. SubSeq(keys, 1, n + 1) = SubSeq(keys, 1, n + 1 - 1) \o <<keys[n + 1]>>
        <4>1. 1 \in 1 .. Len(keys) /\ n + 1 \in 1 .. Len(keys)
          BY <1>1, <2>2 DEF N
        <4> QED BY <4>1, SubSeqRecursiveSecond
      <3> QED BY <2>2, <2>4, <3>2, <3>3
    <2>6. ASSUME NEW m \in 1 .. n + 1 PROVE Within(p[n + 1], keys[m])
      <3>1. m = n + 1 \/ m \in 1 .. n
        BY <2>2
      <3> QED BY <2>2, <2>4, <3>1
    <2> QED BY <2>4, <2>5, <2>6
  <1>5. T = Nat
    <2> HIDE DEF T
    <2>1. T \in SUBSET Nat
      BY DEF T
    <2> QED BY <1>3, <1>4, <2>1, Naturals
  <1>6. P(N)
    BY <1>1, <1>5
  <1>7. SubSeq(keys, 1, N) = keys
    BY SubSeqFull DEF N
  <1>8. PlanBatches(keys) = p[N]
    BY PlanBatchesIsPlan DEF p, N
  <1>9. \A x : Has(keys, x) => \E m \in 1 .. N : keys[m] = x
    BY DEF Has, N
  <1> QED BY <1>6, <1>7, <1>8, <1>9

-----------------------------------------------------------------------------
(* What the tab knows while it renews. *)

Inventories == [present : SUBSET Keys, missing : SUBSET Keys, uncovered : SUBSET Keys, bootstrap : BOOLEAN]

Sendable == [kind : {"restore", "extend"}, keys : Seq(Keys)]

RecordTypes == RenewalTypes /\ ledger >= 2 /\ report \in Inventories /\ txs \in Seq(Sendable)

\* What was never written, or was removed, of what is required stays so.
Names(p) == {k \in Keys : Under[k] = p /\ k # p /\ (k \in Required => liveUntil[k] # 0)}

\* While reading: what an entry names is to be read as soon as the entry was found, and
\* what was found is what lives, unless the entry was evicted, removed or written since.
Reading ==
    step = "reading" =>
        /\ asked \subseteq listed
        /\ asked # {} => latest > 0
        /\ \A k \in Keys \ asked : found[k] = 0
        /\ \A p \in asked \ NoPages : found[p] > 0 => Names(p) \subseteq listed
        /\ \A k \in asked \ Temporary :
              found[k] = liveUntil[k] \/ k \in evicted \/ liveUntil[k] = 0 \/ liveUntil[k] >= MaxLedger

\* NothingOverlooked, of the report a quote was made from as well.
Complete ==
    (step \in {"report", "quote"} /\ ~report.bootstrap /\ latest = ledger) =>
        \A k \in Keys :
            (/\ Under[k] \in report.present \ NoPages
             /\ (k \in Required /\ Exists(k)) \/ (Archived(k) /\ k \notin evicted))
            => k \in report.present \cup report.missing

\* A quote is what its report asks for.
Quoted ==
    IF step \in {"quote", "sending", "stopped", "renewed"}
    THEN \E inventory \in {report} : txs = Transactions(inventory)
    ELSE txs = <<>>

\* What the ledger took of the quote has been paid for as many days as were asked.
Paid ==
    \A i \in 1 .. used : txs[i].kind = "extend" =>
        \A j \in DOMAIN txs[i].keys :
            txs[i].keys[j] \in Required /\ Live(txs[i].keys[j]) =>
                liveUntil[txs[i].keys[j]] >= latest + ExtendTo

\* What was sent by this attempt is what the ledger took of the quote.
Sent == (sent > 0 => used = sent) /\ (step = "renewed" => sent = Len(txs))

RenewalInd == RecordTypes /\ Reading /\ Complete /\ Quoted /\ Paid /\ Sent

\* What is missing comes first, in one transaction.
Restores(inventory) == IF inventory.missing = {} THEN 0 ELSE 1

\* What a quote is made of.
LEMMA TransactionsAre ==
    ASSUME NEW inventory \in Inventories, NEW t, t = Transactions(inventory),
           NEW P, P = PlanBatches(InOrder(inventory.present)), NEW r, r = Restores(inventory)
    PROVE  /\ t \in Seq(Sendable) /\ Len(t) = r + Len(P) /\ r \in {0, 1}
           /\ r = 1 => t[1].kind = "restore" /\ t[1].keys = InOrder(inventory.missing)
           /\ \A i \in 1 .. Len(P) : t[i + r].kind = "extend" /\ t[i + r].keys = P[i]
  <1>1. InOrder(inventory.missing) \in Seq(Keys) /\ InOrder(inventory.present) \in Seq(Keys)
    BY InOrderHas
  <1>2. P \in Seq(Seq(Keys)) /\ Len(P) \in Nat /\ \A i \in 1 .. Len(P) : P[i] \in Seq(Keys)
    <2>1. AllFit(PlanBatches(InOrder(inventory.present)))
      BY <1>1, PlannedFits
    <2>2. P \in Seq(Seq(Keys))
      BY <2>1 DEF AllFit
    <2> QED BY <2>2
  <1> DEFINE e == [i \in DOMAIN P |-> [kind |-> "extend", keys |-> P[i]]]
             s == <<[kind |-> "restore", keys |-> InOrder(inventory.missing)]>>
  <1>3. e \in Seq(Sendable) /\ Len(e) = Len(P)
    <2>1. DOMAIN P = 1 .. Len(P)
      BY <1>2
    <2>2. \A i \in 1 .. Len(P) : [kind |-> "extend", keys |-> P[i]] \in Sendable
      BY <1>2 DEF Sendable
    <2>3. e \in [1 .. Len(P) -> Sendable]
      BY <2>1, <2>2
    <2>4. DOMAIN e = 1 .. Len(P)
      BY <2>3
    <2> HIDE DEF e
    <2>5. Len(P) \in Nat
      BY <1>2
    <2>6. e \in Seq(Sendable)
      BY <2>3, <2>5, SeqDef
    <2> QED BY <2>4, <2>5, <2>6
  <1>4. \A i \in 1 .. Len(P) : e[i].kind = "extend" /\ e[i].keys = P[i]
    BY <1>2
  <1>5. s \in Seq(Sendable) /\ Len(s) = 1 /\ s[1].kind = "restore" /\ s[1].keys = InOrder(inventory.missing)
    <2>1. [kind |-> "restore", keys |-> InOrder(inventory.missing)] \in Sendable
      BY <1>1 DEF Sendable
    <2> QED BY <2>1
  <1>6. t = (IF inventory.missing = {} THEN <<>> ELSE s) \o e
    BY Zenon DEF Transactions
  <1> HIDE DEF e, s
  <1>7. CASE inventory.missing = {}
    <2>1. t = e
      BY <1>3, <1>6, <1>7, ConcatEmptySeq
    <2>2. r = 0
      BY <1>7 DEF Restores
    <2> QED BY <1>2, <1>3, <1>4, <2>1, <2>2
  <1>8. CASE inventory.missing # {}
    <2>1. t = s \o e /\ r = 1
      BY <1>6, <1>8 DEF Restores
    <2>2. /\ t \in Seq(Sendable) /\ Len(t) = 1 + Len(P)
          /\ \A i \in 1 .. 1 + Len(P) : t[i] = IF i <= 1 THEN s[i] ELSE e[i - 1]
      <3>1. /\ s \o e \in Seq(Sendable) /\ Len(s \o e) = Len(s) + Len(e)
            /\ \A i \in 1 .. Len(s) + Len(e) : (s \o e)[i] = IF i <= Len(s) THEN s[i] ELSE e[i - Len(s)]
        BY <1>3, <1>5, ConcatProperties
      <3> QED BY <1>3, <1>5, <2>1, <3>1
    <2>3. t[1] = s[1]
      BY <1>2, <2>2
    <2>4. ASSUME NEW i \in 1 .. Len(P) PROVE t[i + 1] = e[i]
      <3>1. i + 1 \in 1 .. 1 + Len(P) /\ ~(i + 1 <= 1) /\ i + 1 - 1 = i
        BY <1>2
      <3> QED BY <2>2, <3>1
    <2>5. \A i \in 1 .. Len(P) : t[i + 1].kind = "extend" /\ t[i + 1].keys = P[i]
      BY <1>4, <2>4
    <2> QED BY <1>5, <2>1, <2>2, <2>3, <2>5
  <1> QED BY <1>7, <1>8

\* A quote fits, and has all that the report asks for.
LEMMA QuotedFits ==
    ASSUME RecordTypes, Quoted
    PROVE  BatchesFit
  <1> DEFINE P == PlanBatches(InOrder(report.present))
             r == Restores(report)
             keys == [i \in 1 .. Len(txs) - r |-> txs[i + r].keys]
  <1> SUFFICES ASSUME step = "quote" PROVE BatchesFit
    BY DEF BatchesFit
  <1>1. report \in Inventories /\ txs = Transactions(report)
    BY DEF RecordTypes, Quoted
  <1>2. /\ txs \in Seq(Sendable) /\ Len(txs) = r + Len(P) /\ r \in {0, 1}
        /\ r = 1 => txs[1].kind = "restore" /\ txs[1].keys = InOrder(report.missing)
        /\ \A i \in 1 .. Len(P) : txs[i + r].kind = "extend" /\ txs[i + r].keys = P[i]
    <2>1. P = PlanBatches(InOrder(report.present)) /\ r = Restores(report)
      OBVIOUS
    <2> HIDE DEF P, r
    <2> QED BY <1>1, <2>1, TransactionsAre
  <1>3. AllFit(P) /\ FlattenSeq(P) = InOrder(report.present)
    BY InOrderHas, PlannedFits
  <1> HIDE DEF P, r
  <1>4. P \in Seq(Seq(Keys)) /\ Len(P) \in Nat
    BY <1>3 DEF AllFit
  <1>5. keys = P
    <2>1. Len(txs) - r = Len(P)
      BY <1>2, <1>4
    <2>2. P = [i \in 1 .. Len(P) |-> P[i]]
      BY <1>4
    <2>3. \A i \in 1 .. Len(P) : txs[i + r].keys = P[i]
      BY <1>2
    <2> QED BY <2>1, <2>2, <2>3
  <1>6. ASSUME NEW i \in 1 .. Len(txs) PROVE txs[i].kind = IF i <= r THEN "restore" ELSE "extend"
    <2>1. CASE i <= r
      <3>1. i = 1 /\ r = 1
        BY <1>2, <2>1
      <3> QED BY <1>2, <3>1
    <2>2. CASE ~(i <= r)
      <3>1. i - r \in 1 .. Len(P) /\ i - r + r = i
        BY <1>2, <1>4, <2>2
      <3>2. txs[i - r + r].kind = "extend"
        BY <1>2, <3>1
      <3> QED BY <2>2, <3>1, <3>2
    <2> QED BY <2>1, <2>2
  <1>7. \A i \in DOMAIN P : Len(P[i]) <= BatchEntries /\ (Len(P[i]) = 1 \/ Weight(P[i]) <= BatchBytes)
    BY <1>3 DEF AllFit, BatchFits, Has
  <1>8. DOMAIN txs = 1 .. Len(txs)
    BY <1>2
  <1> HIDE DEF keys
  <1>9. BatchesFit <=>
            /\ \A i \in DOMAIN txs : txs[i].kind = IF i <= r THEN "restore" ELSE "extend"
            /\ r = 1 => txs[1].keys = InOrder(report.missing)
            /\ FlattenSeq(keys) = InOrder(report.present)
            /\ \A i \in DOMAIN keys :
                   /\ Len(keys[i]) <= BatchEntries
                   /\ Len(keys[i]) = 1 \/ Weight(keys[i]) <= BatchBytes
    BY Zenon DEF BatchesFit, keys, r, Restores
  <1> QED BY <1>2, <1>3, <1>5, <1>6, <1>7, <1>8, <1>9

-----------------------------------------------------------------------------
(* The invariant of the tab, step by step. *)

\* What is assumed of the constants.
LEMMA Bounds ==
    /\ MaxLedger \in Nat /\ MinTtl \in Nat /\ ExtendTo \in Nat /\ MaxLedger <= 2 + MinTtl /\ 2 <= MaxLedger
    /\ Token \in Keys /\ Required \subseteq Keys /\ Temporary \subseteq Keys /\ Known \subseteq Keys
    /\ Required \cap Temporary = {} /\ Under \in [Keys -> Keys] /\ Lives \subseteq Nat
  BY RenewalAssumption

\* What is not temporary exists unless it was never written, or removed.
LEMMA ExistsIs ==
    ASSUME RecordTypes, NEW k \in Keys \ Temporary
    PROVE  Exists(k) <=> liveUntil[k] # 0
  BY Bounds DEF Exists, Live, Archived, RecordTypes, RenewalTypes

\* Nothing has been read, quoted or sent.
LEMMA RenewalInitInd == RenewalInit => RenewalInd
  <1> SUFFICES ASSUME RenewalInit PROVE RenewalInd
    OBVIOUS
  <1>1. RecordTypes
    <2>1. liveUntil \in [Keys -> Nat] /\ evicted \subseteq Keys
      BY Bounds DEF RenewalInit
    <2>2. report \in Inventories
      BY DEF RenewalInit, NoReport, Inventories
    <2>3. txs \in Seq(Sendable) /\ Len(txs) = 0 /\ sent = 0 /\ used = 0
      BY DEF RenewalInit
    <2>4. ledger \in 1 .. MaxLedger /\ ledger >= 2 /\ latest \in 0 .. ledger
      BY Bounds DEF RenewalInit
    <2>5. found \in [Keys -> Nat]
      BY DEF RenewalInit, NothingFound
    <2>6. step = "idle" /\ asked = {} /\ listed = {} /\ report = NoReport
      BY DEF RenewalInit
    <2>7. report.present \cup report.missing \cup report.uncovered \subseteq Keys
      BY <2>6 DEF NoReport
    <2> QED BY <2>1, <2>2, <2>3, <2>4, <2>5, <2>6, <2>7 DEF RecordTypes, RenewalTypes
  <1>2. step = "idle" /\ txs = <<>> /\ used = 0 /\ sent = 0
    BY DEF RenewalInit
  <1>3. Reading /\ Complete /\ Quoted /\ Paid /\ Sent
    BY <1>2 DEF Reading, Complete, Quoted, Paid, Sent
  <1> QED BY <1>1, <1>3 DEF RenewalInd

\* A quote stays what its report asked for.
LEMMA QuotedStays ==
    ASSUME Quoted, UNCHANGED <<report, txs>>,
           step \in {"quote", "sending", "stopped", "renewed"} <=>
               step' \in {"quote", "sending", "stopped", "renewed"}
    PROVE  Quoted'
  BY DEF Quoted

\* Without a quote nothing has been sent.
LEMMA NothingSent ==
    ASSUME RecordTypes, txs = <<>>
    PROVE  sent = 0 /\ used = 0
  BY DEF RecordTypes, RenewalTypes

\* What the ledger does by itself and what contracts write: it never makes a required
\* entry live, never changes its life, and what it writes outlives the tab.
LEMMA LedgerInd ==
    ASSUME RenewalInd,
           CloseLedger \/ \E k \in Keys : Evict(k) \/ WriteRecord(k) \/ RemoveRecord(k)
    PROVE  RenewalInd'
  <1>1. RecordTypes /\ Reading /\ Complete /\ Quoted /\ Paid /\ Sent
    BY DEF RenewalInd
  <1>2. UNCHANGED <<step, asked, listed, found, latest, report, txs, sent, used>>
    BY DEF CloseLedger, Evict, WriteRecord, RemoveRecord, loading, quoting
  <1>3. /\ ledger' \in 1 .. MaxLedger /\ ledger \in 1 .. MaxLedger /\ ledger' >= ledger
        /\ liveUntil \in [Keys -> Nat] /\ liveUntil' \in [Keys -> Nat]
        /\ evicted' \subseteq Keys /\ evicted \subseteq evicted'
        /\ ledger' = ledger \/ ledger' = ledger + 1
    <2>1. /\ ledger \in 1 .. MaxLedger /\ MaxLedger \in Nat /\ MinTtl \in Nat /\ evicted \subseteq Keys
          /\ liveUntil \in [Keys -> Nat]
      BY <1>1, Bounds DEF RecordTypes, RenewalTypes
    <2>2. CASE CloseLedger
      BY <2>1, <2>2 DEF CloseLedger
    <2>3. CASE \E k \in Keys : Evict(k)
      BY <2>1, <2>3 DEF Evict
    <2>4. CASE \E k \in Keys : WriteRecord(k)
      BY <2>1, <2>4 DEF WriteRecord
    <2>5. CASE \E k \in Keys : RemoveRecord(k)
      BY <2>1, <2>5 DEF RemoveRecord
    <2> QED BY <2>2, <2>3, <2>4, <2>5
  <1>4. \A k \in Keys :
           \/ liveUntil'[k] = liveUntil[k]
           \/ k \notin Required /\ liveUntil'[k] = 0
           \/ k \notin Required /\ liveUntil'[k] >= MaxLedger /\ liveUntil'[k] >= ledger' /\ ledger' = ledger
    <2>1. CASE CloseLedger
      BY <2>1 DEF CloseLedger
    <2>2. CASE \E k \in Keys : Evict(k)
      BY <2>2 DEF Evict
    <2>3. ASSUME NEW w \in Keys, WriteRecord(w)
          PROVE  /\ w \notin Required /\ \A k \in Keys : k # w => liveUntil'[k] = liveUntil[k]
                 /\ liveUntil'[w] >= MaxLedger /\ liveUntil'[w] >= ledger' /\ ledger' = ledger
      <3>1. w \notin Required /\ liveUntil' = [liveUntil EXCEPT ![w] = ledger + MinTtl] /\ ledger' = ledger /\ Live(Under[w])
        BY <2>3 DEF WriteRecord
      <3>2. liveUntil'[w] = ledger + MinTtl /\ \A k \in Keys : k # w => liveUntil'[k] = liveUntil[k]
        BY <1>3, <3>1
      <3>3. ledger >= 2
        BY <1>1 DEF RecordTypes
      <3> QED BY <1>3, <3>1, <3>2, <3>3, Bounds
    <2>4. ASSUME NEW w \in Keys, RemoveRecord(w)
          PROVE  w \notin Required /\ \A k \in Keys : IF k = w THEN liveUntil'[k] = 0 ELSE liveUntil'[k] = liveUntil[k]
      BY <1>3, <2>4 DEF RemoveRecord
    <2> QED BY <2>1, <2>2, <2>3, <2>4
  <1>5. RecordTypes'
    BY <1>1, <1>2, <1>3 DEF RecordTypes, RenewalTypes
  <1>6. \A k \in Required : k \in Keys /\ liveUntil'[k] = liveUntil[k]
    BY <1>4, Bounds
  <1>7. Reading'
    <2>1. SUFFICES ASSUME step = "reading"
                   PROVE  /\ asked \subseteq listed
                          /\ asked # {} => latest > 0
                          /\ \A k \in Keys \ asked : found[k] = 0
                          /\ \A p \in asked \ NoPages : found[p] > 0 => Names(p)' \subseteq listed
                          /\ \A k \in asked \ Temporary :
                                \/ found[k] = liveUntil'[k] \/ k \in evicted' \/ liveUntil'[k] = 0
                                \/ liveUntil'[k] >= MaxLedger
      BY <1>2 DEF Reading
    <2>2. /\ asked \subseteq listed
          /\ asked # {} => latest > 0
          /\ \A k \in Keys \ asked : found[k] = 0
          /\ \A p \in asked \ NoPages : found[p] > 0 => Names(p) \subseteq listed
          /\ \A k \in asked \ Temporary :
                found[k] = liveUntil[k] \/ k \in evicted \/ liveUntil[k] = 0 \/ liveUntil[k] >= MaxLedger
      BY <1>1, <2>1 DEF Reading
    <2>3. \A p : Names(p)' \subseteq Names(p)
      BY <1>6 DEF Names
    <2>4. asked \subseteq Keys
      BY <1>1 DEF RecordTypes, RenewalTypes
    <2>5. ASSUME NEW k \in asked \ Temporary
          PROVE  \/ found[k] = liveUntil'[k] \/ k \in evicted' \/ liveUntil'[k] = 0
                 \/ liveUntil'[k] >= MaxLedger
      BY <1>3, <1>4, <2>2, <2>4
    <2> QED BY <2>2, <2>3, <2>5
  <1>8. Complete'
    <2>1. SUFFICES ASSUME step \in {"report", "quote"}, ~report.bootstrap, latest = ledger',
                          NEW k \in Keys, Under[k] \in report.present \ NoPages,
                          (k \in Required /\ Exists(k)') \/ (Archived(k)' /\ k \notin evicted')
                   PROVE  k \in report.present \cup report.missing
      BY <1>2, Zenon DEF Complete
    <2>2. latest = ledger /\ ledger' = ledger
      BY <1>1, <1>3, <2>1 DEF RecordTypes, RenewalTypes
    <2>3. k \in Required /\ Exists(k)' => Exists(k)
      BY <1>6, <2>2 DEF Exists, Live, Archived
    <2>4. Archived(k)' => Archived(k)
      <3>1. SUFFICES ASSUME Archived(k)' PROVE Archived(k)
        OBVIOUS
      <3>2. liveUntil'[k] # 0 /\ k \notin Temporary /\ ~(liveUntil'[k] >= ledger')
        BY <3>1 DEF Archived, Live
      <3>3. liveUntil'[k] = liveUntil[k]
        BY <1>4, <3>2
      <3> QED BY <2>2, <3>2, <3>3 DEF Archived, Live
    <2>5. (k \in Required /\ Exists(k)) \/ (Archived(k) /\ k \notin evicted)
      BY <1>3, <2>1, <2>3, <2>4
    <2> QED BY <1>1, <2>1, <2>2, <2>5, Zenon DEF Complete
  <1>9. Quoted'
    BY <1>1, <1>2, QuotedStays
  <1>10. Paid'
    <2>1. SUFFICES ASSUME NEW i \in 1 .. used, txs[i].kind = "extend", NEW j \in DOMAIN txs[i].keys,
                          txs[i].keys[j] \in Required, liveUntil'[txs[i].keys[j]] >= ledger'
                   PROVE  liveUntil'[txs[i].keys[j]] >= latest + ExtendTo
      BY <1>2 DEF Paid, Live
    <2> DEFINE k == txs[i].keys[j]
    <2>2. k \in Keys /\ liveUntil'[k] = liveUntil[k]
      BY <1>6, <2>1
    <2>3. liveUntil[k] >= ledger
      BY <1>3, <2>1, <2>2
    <2>4. liveUntil[k] >= latest + ExtendTo
      BY <1>1, <2>1, <2>3 DEF Paid, Live
    <2> QED BY <2>2, <2>4
  <1>11. Sent'
    BY <1>1, <1>2 DEF Sent
  <1> QED BY <1>5, <1>7, <1>8, <1>9, <1>10, <1>11 DEF RenewalInd

\* While the tab loads and quotes nothing moves on the ledger; without a quote nothing
\* was sent.
LEMMA BeginLoadInd ==
    ASSUME RenewalInd, BeginLoad
    PROVE  RenewalInd'
  <1>1. RecordTypes /\ Quoted /\ txs = <<>>
    BY DEF RenewalInd, BeginLoad, Quoted
  <1>2. sent = 0 /\ used = 0
    BY <1>1, NothingSent
  <1>3. RecordTypes'
    <2>1. NothingFound \in [Keys -> Nat] /\ NoReport \in Inventories
      BY DEF NothingFound, NoReport, Inventories
    <2>2. NoReport.present \cup NoReport.missing \cup NoReport.uncovered \subseteq Keys
      BY DEF NoReport
    <2> QED BY <1>1, <2>1, <2>2, Bounds DEF RecordTypes, RenewalTypes, BeginLoad, chain, quoting
  <1>4. Reading'
    BY DEF Reading, BeginLoad, NothingFound
  <1>5. Complete' /\ Quoted'
    BY <1>1 DEF Complete, Quoted, BeginLoad, quoting
  <1>6. Paid' /\ Sent'
    BY <1>2 DEF Paid, Sent, BeginLoad, quoting
  <1> QED BY <1>3, <1>4, <1>5, <1>6 DEF RenewalInd

\* A round of reads reads all that is listed.
LEMMA FetchInd ==
    ASSUME RenewalInd, Fetch
    PROVE  RenewalInd'
  <1>1. RecordTypes /\ Reading /\ Quoted /\ txs = <<>> /\ step = "reading"
    BY DEF RenewalInd, Fetch, Quoted
  <1>2. sent = 0 /\ used = 0
    BY <1>1, NothingSent
  <1> DEFINE batch == listed \ asked
             got == {k \in batch : Returned(k)}
  <1>3. /\ latest' = ledger /\ asked' = listed /\ listed' = listed \cup UNION {NamedBy(k) : k \in got}
        /\ found' = [k \in Keys |-> IF k \in got THEN liveUntil[k] ELSE found[k]]
        /\ UNCHANGED <<ledger, liveUntil, evicted, step, report, txs, sent, used>>
    BY DEF Fetch, chain, quoting
  <1>4. /\ asked \subseteq listed /\ listed \subseteq Keys /\ ledger \in Nat /\ ledger >= 2
        /\ found \in [Keys -> Nat] /\ liveUntil \in [Keys -> Nat]
    BY <1>1 DEF RecordTypes, RenewalTypes, Reading
  <1>5. RecordTypes'
    <2>1. \A k : NamedBy(k) \subseteq Keys
      BY DEF NamedBy
    <2>2. listed' \subseteq Keys
      BY <1>3, <1>4, <2>1
    <2>3. found' \in [Keys -> Nat]
      BY <1>3, <1>4
    <2> QED BY <1>1, <1>3, <1>4, <2>2, <2>3 DEF RecordTypes, RenewalTypes
  <1>6. Reading'
    <2>1. ASSUME NEW p \in listed \ NoPages, found'[p] > 0 PROVE Names(p)' \subseteq listed'
      <3>1. Names(p)' = Names(p)
        BY <1>3 DEF Names
      <3>2. CASE p \in got
        <4>1. Names(p) \subseteq NamedBy(p)
          <5>1. \A k \in Required : k \in Keys \ Temporary
            BY Bounds
          <5>2. \A k \in Required : liveUntil[k] # 0 => Exists(k)
            BY <1>1, <5>1, ExistsIs
          <5> QED BY <2>1, <5>2 DEF Names, NamedBy
        <4> QED BY <1>3, <3>1, <3>2, <4>1
      <3>3. CASE p \notin got
        <4>1. found[p] > 0
          BY <1>3, <1>4, <2>1, <3>3
        <4>2. p \in asked
          <5>1. p \in batch => found[p] = 0
            BY <1>1, <1>4 DEF Reading
          <5> QED BY <1>4, <2>1, <4>1, <5>1
        <4>3. Names(p) \subseteq listed
          BY <1>1, <2>1, <4>1, <4>2 DEF Reading
        <4> QED BY <1>3, <3>1, <4>3
      <3> QED BY <3>2, <3>3
    <2>2. ASSUME NEW k \in listed \ Temporary
          PROVE  \/ found'[k] = liveUntil'[k] \/ k \in evicted' \/ liveUntil'[k] = 0
                 \/ liveUntil'[k] >= MaxLedger
      <3>1. CASE k \in got
        BY <1>3, <1>4, <3>1
      <3>2. CASE k \in batch \ got
        <4>1. ~Exists(k) \/ k \in evicted
          BY <3>2 DEF Returned
        <4>2. ~Exists(k) => liveUntil[k] = 0
          BY <1>1, <1>4, <2>2, ExistsIs
        <4> QED BY <1>3, <4>1, <4>2
      <3>3. CASE k \in asked
        <4>1. k \notin got /\ k \in Keys
          BY <1>4, <3>3
        <4>2. found'[k] = found[k]
          BY <1>3, <4>1
        <4> QED BY <1>1, <1>3, <2>2, <3>3, <4>2 DEF Reading
      <3> QED BY <2>2, <3>1, <3>2, <3>3
    <2>3. asked' \subseteq listed' /\ latest' > 0
      BY <1>3, <1>4
    <2>4. ASSUME NEW k \in Keys \ listed PROVE found'[k] = 0
      BY <1>1, <1>3, <1>4, <2>4 DEF Reading
    <2> QED BY <1>3, <2>1, <2>2, <2>3, <2>4 DEF Reading
  <1>7. Complete' /\ Quoted'
    BY <1>1, <1>3 DEF Complete, Quoted
  <1>8. Paid' /\ Sent'
    BY <1>1, <1>2, <1>3 DEF Paid, Sent
  <1> QED BY <1>5, <1>6, <1>7, <1>8 DEF RenewalInd

\* The report of an inventory names what is alive or archived.
LEMMA ListedInd ==
    ASSUME RenewalInd, Listed
    PROVE  RenewalInd'
  <1>1. RecordTypes /\ Reading /\ Quoted /\ txs = <<>> /\ step = "reading"
    BY DEF RenewalInd, Listed, Quoted
  <1>2. sent = 0 /\ used = 0
    BY <1>1, NothingSent
  <1>3. /\ listed = asked /\ step' = "report" /\ asked' = {} /\ listed' = {} /\ found' = NothingFound
        /\ report' = [present |-> Present, missing |-> Missing,
                      uncovered |-> {k \in asked \cap NoPages : found[k] > 0}, bootstrap |-> FALSE]
        /\ UNCHANGED <<ledger, liveUntil, evicted, latest, txs, sent, used>>
    BY DEF Listed, chain, quoting
  <1>4. /\ asked \subseteq Keys /\ ledger \in 1 .. MaxLedger /\ latest \in 0 .. ledger
        /\ found \in [Keys -> Nat] /\ liveUntil \in [Keys -> Nat]
    BY <1>1 DEF RecordTypes, RenewalTypes
  <1>5. RecordTypes'
    <2>1. Present \subseteq Keys /\ Missing \subseteq Keys
      BY <1>4 DEF Present, Missing
    <2>2. report' \in Inventories
      BY <1>3, <1>4, <2>1 DEF Inventories
    <2>3. found' \in [Keys -> Nat]
      BY <1>3 DEF NothingFound
    <2>4. report'.present \cup report'.missing \cup report'.uncovered \subseteq Keys
      BY <2>2 DEF Inventories
    <2> QED BY <1>1, <1>3, <2>2, <2>3, <2>4 DEF RecordTypes, RenewalTypes
  <1>6. Complete'
    <2>1. SUFFICES ASSUME latest = ledger, NEW k \in Keys, Under[k] \in Present \ NoPages,
                          (k \in Required /\ Exists(k)') \/ (Archived(k)' /\ k \notin evicted)
                   PROVE  k \in Present \cup Missing
      BY <1>3 DEF Complete
    <2>2. (k \in Required /\ Exists(k)) \/ (Archived(k) /\ k \notin evicted)
      BY <1>3, <2>1 DEF Exists, Archived, Live
    <2> DEFINE p == Under[k]
    <2>3. p \in asked \ NoPages /\ found[p] >= latest
      BY <2>1 DEF Present
    <2>4. latest > 0 /\ found[p] > 0
      BY <1>1, <1>4, <2>3 DEF Reading
    <2>5. CASE k = p
      BY <2>1, <2>5
    <2>6. CASE k # p
      <3>1. k \notin Temporary
        BY <2>2, Bounds DEF Archived
      <3>2. k \in Required => liveUntil[k] # 0
        BY <1>1, <2>2, <3>1, ExistsIs DEF Archived
      <3>3. k \in asked
        BY <1>1, <1>3, <2>3, <2>4, <2>6, <3>2 DEF Reading, Names
      <3>4. k \in Required \/ found[k] > 0
        <4>1. SUFFICES ASSUME Archived(k), k \notin evicted PROVE found[k] > 0
          BY <2>2
        <4>2. liveUntil[k] # 0 /\ ~(liveUntil[k] >= ledger)
          BY <4>1 DEF Archived, Live
        <4>3. \/ found[k] = liveUntil[k] \/ k \in evicted \/ liveUntil[k] = 0
              \/ liveUntil[k] >= MaxLedger
          BY <1>1, <3>1, <3>3 DEF Reading
        <4>4. liveUntil[k] \in Nat /\ MaxLedger \in Nat /\ ledger \in Nat /\ ledger <= MaxLedger
          BY <1>4, Bounds
        <4> QED BY <4>1, <4>2, <4>3, <4>4
      <3>5. found[k] \in Nat /\ latest \in Nat
        BY <1>4, <3>3
      <3> QED BY <3>1, <3>3, <3>4, <3>5 DEF Present, Missing
    <2> QED BY <2>5, <2>6
  <1>7. Reading' /\ Quoted'
    BY <1>1, <1>3 DEF Reading, Quoted
  <1>8. Paid' /\ Sent'
    BY <1>2, <1>3 DEF Paid, Sent
  <1> QED BY <1>5, <1>6, <1>7, <1>8 DEF RenewalInd

\* When the Token's own instance is gone, the report only restores what is known.
LEMMA BootstrapInd ==
    ASSUME RenewalInd, Bootstrap
    PROVE  RenewalInd'
  <1>1. RecordTypes /\ Quoted /\ txs = <<>>
    BY DEF RenewalInd, Bootstrap, Quoted
  <1>2. sent = 0 /\ used = 0
    BY <1>1, NothingSent
  <1>3. /\ step' = "report" /\ asked' = {} /\ listed' = {} /\ found' = NothingFound
        /\ report' = [NoReport EXCEPT !.missing = Known \cup {Token}, !.bootstrap = TRUE]
        /\ UNCHANGED <<ledger, liveUntil, evicted, latest, txs, sent, used>>
    BY DEF Bootstrap, chain, quoting
  <1>4. report' = [present |-> {}, missing |-> Known \cup {Token}, uncovered |-> {}, bootstrap |-> TRUE]
    BY <1>3 DEF NoReport
  <1>5. RecordTypes'
    <2>1. report' \in Inventories /\ report'.present \cup report'.missing \cup report'.uncovered \subseteq Keys
      BY <1>4, Bounds DEF Inventories
    <2>2. found' \in [Keys -> Nat]
      BY <1>3 DEF NothingFound
    <2> QED BY <1>1, <1>3, <2>1, <2>2 DEF RecordTypes, RenewalTypes
  <1>6. Complete' /\ Reading' /\ Quoted'
    BY <1>1, <1>3, <1>4 DEF Complete, Reading, Quoted
  <1>7. Paid' /\ Sent'
    BY <1>2, <1>3 DEF Paid, Sent
  <1> QED BY <1>5, <1>6, <1>7 DEF RenewalInd

\* A load that fails leaves nothing.
LEMMA LoadFailsInd ==
    ASSUME RenewalInd, LoadFails
    PROVE  RenewalInd'
  <1>1. RecordTypes /\ Quoted /\ txs = <<>>
    BY DEF RenewalInd, LoadFails, Quoted
  <1>2. sent = 0 /\ used = 0
    BY <1>1, NothingSent
  <1>3. /\ step' = "idle" /\ asked' = {} /\ listed' = {} /\ found' = NothingFound /\ latest' = 0
        /\ UNCHANGED <<ledger, liveUntil, evicted, report, txs, sent, used>>
    BY DEF LoadFails, chain, quoting
  <1>4. RecordTypes'
    <2>1. found' \in [Keys -> Nat]
      BY <1>3 DEF NothingFound
    <2> QED BY <1>1, <1>3, <2>1 DEF RecordTypes, RenewalTypes
  <1>5. Complete' /\ Reading' /\ Quoted'
    BY <1>1, <1>3 DEF Complete, Reading, Quoted
  <1>6. Paid' /\ Sent'
    BY <1>2, <1>3 DEF Paid, Sent
  <1> QED BY <1>4, <1>5, <1>6 DEF RenewalInd

\* A quote is made of the report.
LEMMA QuoteRenewalInd ==
    ASSUME RenewalInd, QuoteRenewal
    PROVE  RenewalInd'
  <1>1. RecordTypes /\ Complete /\ step = "report"
    BY DEF RenewalInd, QuoteRenewal
  <1>2. /\ step' = "quote" /\ sent' = 0 /\ used' = 0 /\ txs' = Transactions(report)
        /\ UNCHANGED <<ledger, liveUntil, evicted, asked, listed, found, latest, report>>
    BY DEF QuoteRenewal, chain, loading
  <1>3. txs' \in Seq(Sendable)
    <2>1. report \in Inventories
      BY <1>1 DEF RecordTypes
    <2> QED BY <1>2, <2>1, TransactionsAre
  <1>4. RecordTypes'
    BY <1>1, <1>2, <1>3 DEF RecordTypes, RenewalTypes
  <1>5. Complete'
    BY <1>1, <1>2 DEF Complete, Exists, Archived, Live
  <1>6. Quoted'
    <2>1. PICK r : r = report /\ txs' = Transactions(r)
      BY <1>2
    <2> QED BY <1>2, <2>1 DEF Quoted
  <1>7. Reading' /\ Paid' /\ Sent'
    BY <1>2 DEF Reading, Paid, Sent
  <1> QED BY <1>4, <1>5, <1>6, <1>7 DEF RenewalInd

\* A quote is dropped with what was sent of it.
LEMMA DropQuoteInd ==
    ASSUME RenewalInd, DropQuote
    PROVE  RenewalInd'
  <1>1. RecordTypes /\ Complete /\ step \in {"quote", "stopped"}
    BY DEF RenewalInd, DropQuote
  <1>2. /\ step' = IF step = "quote" THEN "report" ELSE "idle"
        /\ txs' = <<>> /\ sent' = 0 /\ used' = 0
        /\ UNCHANGED <<ledger, liveUntil, evicted, asked, listed, found, latest, report>>
    BY DEF DropQuote, chain, loading
  <1>3. RecordTypes'
    BY <1>1, <1>2 DEF RecordTypes, RenewalTypes
  <1>4. Complete'
    BY <1>1, <1>2 DEF Complete, Exists, Archived, Live
  <1>5. Reading' /\ Quoted' /\ Paid' /\ Sent'
    BY <1>1, <1>2 DEF Reading, Quoted, Paid, Sent
  <1> QED BY <1>3, <1>4, <1>5 DEF RenewalInd

\* What does not touch the ledger, the report and what was used keeps what was paid.
LEMMA PaidStays ==
    ASSUME Paid, UNCHANGED <<ledger, liveUntil, latest, txs, used>>
    PROVE  Paid'
  BY DEF Paid, Live

\* A renewal starts with the first transaction.
LEMMA RenewInd ==
    ASSUME RenewalInd, Renew
    PROVE  RenewalInd'
  <1>1. RecordTypes /\ Quoted /\ Paid /\ step \in {"quote", "stopped"}
    BY DEF RenewalInd, Renew
  <1>2. /\ step' = "sending" /\ sent' = 0
        /\ UNCHANGED <<ledger, liveUntil, evicted, asked, listed, found, latest, report, txs, used>>
    BY DEF Renew, chain, loading
  <1>3. RecordTypes'
    BY <1>1, <1>2 DEF RecordTypes, RenewalTypes
  <1>4. Quoted' /\ Paid'
    BY <1>1, <1>2, QuotedStays, PaidStays
  <1>5. Reading' /\ Complete' /\ Sent'
    BY <1>2 DEF Reading, Complete, Sent
  <1> QED BY <1>3, <1>4, <1>5 DEF RenewalInd

\* All was sent.
LEMMA AllSentInd ==
    ASSUME RenewalInd, AllSent
    PROVE  RenewalInd'
  <1>1. RecordTypes /\ Quoted /\ Paid /\ Sent /\ step = "sending"
    BY DEF RenewalInd, AllSent
  <1>2. /\ step' = "renewed" /\ sent = Len(txs)
        /\ UNCHANGED <<ledger, liveUntil, evicted, asked, listed, found, latest, report, txs, sent, used>>
    BY DEF AllSent, chain, loading, quoting
  <1>3. RecordTypes'
    BY <1>1, <1>2 DEF RecordTypes, RenewalTypes
  <1>4. Quoted' /\ Paid'
    BY <1>1, <1>2, QuotedStays, PaidStays
  <1>5. Reading' /\ Complete' /\ Sent'
    BY <1>1, <1>2 DEF Reading, Complete, Sent
  <1> QED BY <1>3, <1>4, <1>5 DEF RenewalInd

\* After a renewal the tab starts again.
LEMMA AfterRenewedInd ==
    ASSUME RenewalInd, AfterRenewed
    PROVE  RenewalInd'
  <1>1. RecordTypes
    BY DEF RenewalInd
  <1>2. /\ step' = "idle" /\ txs' = <<>> /\ sent' = 0 /\ used' = 0 /\ report' = NoReport /\ latest' = 0
        /\ UNCHANGED <<ledger, liveUntil, evicted, asked, listed, found>>
    BY DEF AfterRenewed, chain
  <1>3. RecordTypes'
    <2>1. NoReport \in Inventories
          /\ NoReport.present \cup NoReport.missing \cup NoReport.uncovered \subseteq Keys
      BY DEF NoReport, Inventories
    <2> QED BY <1>1, <1>2, <2>1 DEF RecordTypes, RenewalTypes
  <1>4. Reading' /\ Complete' /\ Quoted' /\ Paid' /\ Sent'
    BY <1>2 DEF Reading, Complete, Quoted, Paid, Sent
  <1> QED BY <1>3, <1>4 DEF RenewalInd

\* Only the first transaction of a quote restores.
LEMMA RestoresFirst ==
    ASSUME RecordTypes, Quoted, step = "sending", NEW i \in 1 .. Len(txs), txs[i].kind = "restore"
    PROVE  i = 1
  <1>1. PICK P : P = PlanBatches(InOrder(report.present))
    OBVIOUS
  <1>2. PICK r : r = Restores(report)
    OBVIOUS
  <1>3. report \in Inventories /\ txs = Transactions(report)
    BY DEF RecordTypes, Quoted
  <1>4. /\ Len(txs) = r + Len(P) /\ r \in {0, 1}
        /\ \A n \in 1 .. Len(P) : txs[n + r].kind = "extend"
    BY <1>1, <1>2, <1>3, TransactionsAre
  <1>5. Len(P) \in Nat
    <2>1. InOrder(report.present) \in Seq(Keys)
      BY InOrderHas
    <2>2. AllFit(PlanBatches(InOrder(report.present)))
      BY <2>1, PlannedFits
    <2>3. P \in Seq(Seq(Keys))
      BY <1>1, <2>2 DEF AllFit
    <2> QED BY <2>3
  <1>6. SUFFICES ASSUME i # 1 PROVE FALSE
    OBVIOUS
  <1>7. i - r \in 1 .. Len(P) /\ i - r + r = i
    BY <1>4, <1>5, <1>6
  <1>8. txs[i - r + r].kind = "extend"
    BY <1>4, <1>7
  <1> QED BY <1>7, <1>8

\* A transaction the ledger takes, on which nothing was sent that was not used.
LEMMA AppliedInd ==
    ASSUME RecordTypes, Quoted, Paid, step = "sending", used < Len(txs),
           Applied(txs[used + 1]), used' = used + 1, UNCHANGED <<ledger, latest, txs>>
    PROVE  Paid' /\ liveUntil' \in [Keys -> Nat] /\ evicted' \subseteq Keys
  <1> DEFINE tx == txs[used + 1]
             mine == ToSet(tx.keys)
  <1>1. /\ txs \in Seq(Sendable) /\ used \in 0 .. Len(txs) /\ liveUntil \in [Keys -> Nat]
        /\ ledger \in Nat /\ latest \in Nat /\ latest <= ledger /\ evicted \subseteq Keys
    BY Bounds DEF RecordTypes, RenewalTypes
  <1>2. used + 1 \in 1 .. Len(txs) /\ used \in Nat
    BY <1>1
  <1>3. tx \in Sendable
    BY <1>1, <1>2
  <1>4. tx.kind \in {"restore", "extend"}
    BY <1>3 DEF Sendable
  <1> HIDE DEF tx
  <1>5. CASE tx.kind = "restore"
    <2>1. /\ liveUntil' = [k \in Keys |-> IF k \in mine /\ Archived(k) THEN ledger + MinTtl ELSE liveUntil[k]]
          /\ evicted' = evicted \ mine
      BY <1>5 DEF Applied, tx
    <2>2. used + 1 = 1
      BY <1>2, <1>5, RestoresFirst DEF tx
    <2>3. \A i \in 1 .. used' : i = used + 1
      BY <1>1, <2>2
    <2>4. Paid'
      BY <1>5, <2>3 DEF Paid, tx
    <2>5. liveUntil' \in [Keys -> Nat]
      BY <1>1, <2>1, Bounds
    <2> QED BY <1>1, <2>1, <2>4, <2>5
  <1>6. CASE tx.kind = "extend"
    <2> DEFINE Longer(k) == IF liveUntil[k] > ledger + ExtendTo THEN liveUntil[k] ELSE ledger + ExtendTo
    <2>1. /\ liveUntil' = [k \in Keys |-> IF k \in mine /\ Live(k) THEN Longer(k) ELSE liveUntil[k]]
          /\ evicted' = evicted
      BY <1>6 DEF Applied, tx
    <2>2. \A k \in Keys : Longer(k) \in Nat /\ Longer(k) >= liveUntil[k] /\ Longer(k) >= ledger + ExtendTo
      BY <1>1, Bounds
    <2> HIDE DEF Longer
    <2>3. liveUntil' \in [Keys -> Nat]
      BY <1>1, <2>1, <2>2
    <2>4. \A k \in Keys : /\ Live(k)' => Live(k)
                          /\ liveUntil'[k] >= liveUntil[k]
                          /\ k \in mine /\ Live(k) => liveUntil'[k] >= ledger + ExtendTo
      <3>1. ASSUME NEW k \in Keys, k \in mine, Live(k)
            PROVE  liveUntil'[k] >= liveUntil[k] /\ liveUntil'[k] >= ledger + ExtendTo
        BY <2>1, <2>2, <3>1
      <3>2. ASSUME NEW k \in Keys, ~(k \in mine /\ Live(k))
            PROVE  liveUntil'[k] = liveUntil[k]
        BY <2>1, <3>2
      <3>3. \A k \in Keys : liveUntil[k] \in Nat
        BY <1>1
      <3> QED BY <3>1, <3>2, <3>3 DEF Live
    <2>5. Paid'
      <3>1. SUFFICES ASSUME NEW i \in 1 .. used + 1, txs[i].kind = "extend", NEW j \in DOMAIN txs[i].keys,
                            NEW k \in Required, k = txs[i].keys[j], Live(k)'
                     PROVE  liveUntil'[k] >= latest + ExtendTo
        BY Zenon DEF Paid
      <3>2. k \in Keys /\ Live(k) /\ liveUntil[k] \in Nat /\ liveUntil'[k] \in Nat
        BY <1>1, <2>3, <2>4, <3>1, Bounds
      <3>3. CASE i = used + 1
        <4>1. k \in mine
          BY <3>1, <3>3 DEF ToSet, tx
        <4>2. liveUntil'[k] >= ledger + ExtendTo
          BY <2>4, <3>2, <4>1
        <4> QED BY <1>1, <3>2, <4>2, Bounds
      <3>4. CASE i # used + 1
        <4>1. i \in 1 .. used
          BY <1>2, <3>4
        <4>2. liveUntil[k] >= latest + ExtendTo
          BY <3>1, <3>2, <4>1 DEF Paid
        <4>3. liveUntil'[k] >= liveUntil[k]
          BY <2>4, <3>2
        <4> QED BY <1>1, <3>2, <4>2, <4>3, Bounds
      <3> QED BY <3>3, <3>4
    <2> QED BY <1>1, <2>1, <2>3, <2>5
  <1> QED BY <1>4, <1>5, <1>6

\* Sending goes on while what was used is what was sent.
LEMMA SendNextInd ==
    ASSUME RenewalInd, SendNext
    PROVE  RenewalInd'
  <1>1. RecordTypes /\ Quoted /\ Paid /\ step = "sending"
    BY DEF RenewalInd, SendNext
  <1>2. /\ sent < Len(txs) /\ used = sent /\ Applied(txs[used + 1]) /\ sent' = sent + 1 /\ used' = used + 1
        /\ UNCHANGED <<ledger, step, asked, listed, found, latest, report, txs>>
    BY DEF SendNext, loading
  <1>3. Paid' /\ liveUntil' \in [Keys -> Nat] /\ evicted' \subseteq Keys
    BY <1>1, <1>2, AppliedInd
  <1>4. RecordTypes'
    <2>1. Len(txs) \in Nat /\ sent \in 0 .. Len(txs)
      BY <1>1 DEF RecordTypes, RenewalTypes
    <2>2. sent' \in 0 .. Len(txs) /\ used' \in 0 .. Len(txs)
      BY <1>2, <2>1
    <2> QED BY <1>1, <1>2, <1>3, <2>2 DEF RecordTypes, RenewalTypes
  <1>5. Quoted'
    BY <1>1, <1>2, QuotedStays
  <1>6. Reading' /\ Complete' /\ Sent'
    BY <1>1, <1>2 DEF Reading, Complete, Sent
  <1> QED BY <1>3, <1>4, <1>5, <1>6 DEF RenewalInd

\* When it stops, one more may have been taken.
LEMMA SendStopsInd ==
    ASSUME RenewalInd, SendStops
    PROVE  RenewalInd'
  <1>1. RecordTypes /\ Quoted /\ Paid /\ step = "sending"
    BY DEF RenewalInd, SendStops
  <1>2. /\ step' = "stopped" /\ sent' = 0 /\ sent < Len(txs)
        /\ \/ UNCHANGED <<ledger, liveUntil, evicted, used>>
           \/ used = sent /\ Applied(txs[used + 1]) /\ used' = used + 1 /\ UNCHANGED ledger
        /\ UNCHANGED <<asked, listed, found, latest, report, txs>>
    BY DEF SendStops, loading, chain
  <1>3. Paid' /\ liveUntil' \in [Keys -> Nat] /\ evicted' \subseteq Keys /\ ledger' = ledger /\ used' \in 0 .. Len(txs)
    <2>1. CASE UNCHANGED <<ledger, liveUntil, evicted, used>>
      BY <1>1, <1>2, <2>1, PaidStays DEF RecordTypes, RenewalTypes
    <2>2. CASE used = sent /\ Applied(txs[used + 1]) /\ used' = used + 1 /\ UNCHANGED ledger
      <3>1. Paid' /\ liveUntil' \in [Keys -> Nat] /\ evicted' \subseteq Keys
        BY <1>1, <1>2, <2>2, AppliedInd
      <3>2. used' \in 0 .. Len(txs)
        BY <1>1, <1>2, <2>2 DEF RecordTypes, RenewalTypes
      <3> QED BY <2>2, <3>1, <3>2
    <2> QED BY <1>2, <2>1, <2>2
  <1>4. RecordTypes'
    BY <1>1, <1>2, <1>3 DEF RecordTypes, RenewalTypes
  <1>5. Quoted'
    BY <1>1, <1>2, QuotedStays
  <1>6. Reading' /\ Complete' /\ Sent'
    BY <1>2 DEF Reading, Complete, Sent
  <1> QED BY <1>3, <1>4, <1>5, <1>6 DEF RenewalInd

\* Every step keeps the invariant.
LEMMA RenewalNextInd ==
    ASSUME RenewalInd, [RenewalNext]_renewalVars
    PROVE  RenewalInd'
  <1>1. CASE UNCHANGED renewalVars
    <2>1. UNCHANGED <<ledger, liveUntil, evicted, step, asked, listed, found, latest, report, txs, sent, used>>
      BY <1>1 DEF renewalVars, chain, loading, quoting
    <2>2. RecordTypes' /\ Reading' /\ Complete' /\ Sent'
      BY <2>1 DEF RenewalInd, RecordTypes, RenewalTypes, Reading, Names, Complete, Exists, Archived, Live, Sent
    <2>3. Quoted' /\ Paid'
      BY <2>1, QuotedStays, PaidStays DEF RenewalInd
    <2> QED BY <2>2, <2>3 DEF RenewalInd
  <1>2. CASE RenewalNext
    BY <1>2, LedgerInd, BeginLoadInd, FetchInd, ListedInd, BootstrapInd, LoadFailsInd, QuoteRenewalInd,
       DropQuoteInd, RenewInd, SendNextInd, SendStopsInd, AllSentInd, AfterRenewedInd
       DEF RenewalNext, Tab
  <1> QED BY <1>1, <1>2

\* Everything the report found present was paid for when all was sent.
LEMMA RenewedIsPaid ==
    ASSUME RenewalInd
    PROVE  PresentRenewed
  <1> SUFFICES ASSUME step = "renewed", NEW k \in report.present \cap Required, Live(k)
               PROVE  liveUntil[k] >= latest + ExtendTo
    BY DEF PresentRenewed
  <1>1. RecordTypes /\ Quoted /\ Paid /\ Sent
    BY DEF RenewalInd
  <1>2. PICK P : P = PlanBatches(InOrder(report.present))
    OBVIOUS
  <1>3. PICK r : r = Restores(report)
    OBVIOUS
  <1>4. report \in Inventories /\ txs = Transactions(report)
    BY <1>1 DEF RecordTypes, Quoted
  <1>5. /\ txs \in Seq(Sendable) /\ Len(txs) = r + Len(P) /\ r \in {0, 1}
        /\ \A n \in 1 .. Len(P) : txs[n + r].kind = "extend" /\ txs[n + r].keys = P[n]
    BY <1>2, <1>3, <1>4, TransactionsAre
  <1>6. InOrder(report.present) \in Seq(Keys) /\ Has(InOrder(report.present), k)
    BY InOrderHas, Bounds
  <1>7. P \in Seq(Seq(Keys)) /\ Within(P, k)
    <2>1. AllFit(PlanBatches(InOrder(report.present))) /\ Within(PlanBatches(InOrder(report.present)), k)
      BY <1>6, PlannedFits
    <2> QED BY <1>2, <2>1 DEF AllFit
  <1>8. PICK s : Has(P, s) /\ Has(s, k)
    BY <1>7 DEF Within
  <1>9. PICK n \in 1 .. Len(P) : P[n] = s
    BY <1>7, <1>8 DEF Has
  <1>10. PICK j \in DOMAIN s : s[j] = k
    BY <1>8 DEF Has
  <1>11. used = Len(txs)
    BY <1>1, <1>5 DEF Sent, RecordTypes, RenewalTypes
  <1>12. n + r \in 1 .. used
    BY <1>5, <1>7, <1>11
  <1>13. txs[n + r].kind = "extend" /\ j \in DOMAIN txs[n + r].keys /\ txs[n + r].keys[j] = k
    BY <1>5, <1>9, <1>10
  <1> QED BY <1>1, <1>12, <1>13 DEF Paid

\* The tab's invariant holds, whatever the DAO owns and however the ledger moves.
THEOREM RenewalInvariant == RenewalSpec => []RenewalInd
  <1>1. RenewalInd /\ [RenewalNext]_renewalVars => RenewalInd'
    BY RenewalNextInd
  <1> QED BY <1>1, RenewalInitInd, PTL DEF RenewalSpec

\* The report overlooks nothing that the tab could have found, every quote fits the
\* network's transactions and has each key once, and what was renewed was paid for, for
\* any inventory of keys and any lives of its entries.
THEOREM RenewalHolds == RenewalSpec => []RenewalInv
  <1>1. ASSUME RenewalInd PROVE RenewalInv
    <2>1. RenewalTypes /\ BatchesFit
      BY <1>1, QuotedFits DEF RenewalInd, RecordTypes
    <2>2. NothingOverlooked
      BY <1>1 DEF NothingOverlooked, RenewalInd, Complete
    <2>3. PresentRenewed
      BY <1>1, RenewedIsPaid
    <2> QED BY <2>1, <2>2, <2>3 DEF RenewalInv
  <1> QED BY <1>1, RenewalInvariant, PTL
=============================================================================
