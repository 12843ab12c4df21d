------------------------------ MODULE Auction ------------------------------
(***************************************************************************)
(* The continuous auction (src/contracts/auction): one token at a time,    *)
(* bids paid in a Stellar asset and held by the contract, a refund pushed  *)
(* to whoever is outbid, and kept for them if they cannot receive it.      *)
(*                                                                         *)
(* The membership token is external here: minting to the Auction needs an  *)
(* allowance, handing a token to a member may be refused, giving it to the *)
(* Treasury never is (Token.tla: MintTo, LockedPathAllows).                *)
(*                                                                         *)
(* A definition named Faulty... is the one after it with a plausible fault *)
(* seeded, to see that the properties notice; nothing uses it.             *)
(***************************************************************************)
EXTENDS Integers, FiniteSets, Functions

CONSTANTS
    Bidders, Treasury, Manager, LaunchAdmin, Self,
    None,
    Assets,             \* payment assets
    MinReserve,         \* MIN_RESERVE_PRICE
    PercentDenominator, \* PERCENT_DENOMINATOR; also the largest increment
    MaxDuration,        \* MAX_AUCTION_DURATION, from 1
    MaxBuffer,          \* MAX_TIME_BUFFER
    MaxExtensions,      \* MAX_AUCTION_EXTENSIONS
    \* Inputs the environment may use, and bounds on the exploration.
    Budget,             \* what each bidder owns of each asset
    Bids,               \* amounts that are bid
    Values,             \* values the setters are called with
    InitConfigs,        \* configurations an Auction may be deployed with
    MaxTokens,          \* tokens auctioned
    MaxTime

Configs ==
    [duration : 1 .. MaxDuration, reserve : {r \in Nat : r >= MinReserve},
     increment : 1 .. PercentDenominator, buffer : 1 .. MaxBuffer, asset : Assets]

ASSUME AuctionAssumption ==
    /\ None \notin Bidders
    /\ Self \notin Bidders \cup {Treasury, None}
    /\ Treasury \notin Bidders \cup {None}
    /\ IsFiniteSet(Bidders)
    /\ PercentDenominator \in Nat \ {0}
    /\ MinReserve \in Nat /\ MinReserve >= PercentDenominator
    /\ MaxDuration \in Nat \ {0} /\ MaxBuffer \in Nat \ {0} /\ MaxExtensions \in Nat
    /\ MaxTime \in Nat
    /\ MaxTokens \in Nat \ {0}
    /\ Budget \in Nat
    /\ Bids \subseteq Nat
    /\ InitConfigs \subseteq Configs

VARIABLES
    live, admin, paused,
    config,         \* what the setters change
    assetLocked,    \* PaymentTokenLocked
    auction,        \* the current or last auction
    pending,        \* PendingRefund of each bidder
    now,
    \* The contracts around it.
    purse,          \* [Bidders -> [Assets -> Nat]], what bidders own
    escrow,         \* [Assets -> Nat], what the Auction holds
    proceeds,       \* [Bidders -> [Assets -> Nat]], paid on to the Treasury, by winner
    holder,         \* who holds each token; None until it is minted
    mayMint,        \* the token would mint for the Auction
    mayPass,        \* the token would let the Auction pass one to a member
    announced       \* history: the configuration when the auction was created

phaseVars == <<live, admin, paused>>
moneyVars == <<pending, purse, escrow, proceeds>>
tokenVars == <<holder, mayMint, mayPass>>
vars == <<phaseVars, config, assetLocked, auction, now, moneyVars, tokenVars,
          announced>>

TokenIds == 0 .. MaxTokens - 1
NoAuction == [state |-> "none"]
Auctions ==
    [state : {"open", "settled"}, tokenId : TokenIds, bid : Nat,
     bidder : Bidders \cup {None}, start : Nat, end : Nat, extensions : Nat]

TypeOK ==
    /\ live \in BOOLEAN /\ paused \in BOOLEAN
    /\ admin \in {LaunchAdmin, Treasury}
    /\ config \in Configs /\ announced \in Configs
    /\ assetLocked \in BOOLEAN
    /\ auction \in Auctions \cup {NoAuction}
    /\ pending \in [Bidders -> Nat]
    /\ now \in Nat
    /\ purse \in [Bidders -> [Assets -> Nat]]
    /\ escrow \in [Assets -> Nat]
    /\ proceeds \in [Bidders -> [Assets -> Nat]]
    /\ holder \in [TokenIds -> Bidders \cup {None, Self, Treasury}]
    /\ mayMint \in BOOLEAN /\ mayPass \in BOOLEAN

Init ==
    /\ live = FALSE /\ paused = TRUE
    /\ admin = LaunchAdmin
    /\ config \in InitConfigs
    /\ announced = config
    /\ assetLocked = FALSE
    /\ auction = NoAuction
    /\ pending = [b \in Bidders |-> 0]
    /\ now = 1
    /\ purse = [b \in Bidders |-> [a \in Assets |-> Budget]]
    /\ escrow = [a \in Assets |-> 0]
    /\ proceeds = [b \in Bidders |-> [a \in Assets |-> 0]]
    /\ holder = [t \in TokenIds |-> None]
    /\ mayMint = FALSE /\ mayPass = TRUE

-----------------------------------------------------------------------------
(* Helpers.  `held' is who holds the tokens before the helper's own step.  *)

Open == auction.state = "open"
Minted(held) == {t \in TokenIds : held[t] # None}

\* create_auction: mint the next token and put it up.
CreateAuction(held) ==
    LET t == Cardinality(Minted(held))
    IN  /\ mayMint
        /\ t \in TokenIds                   \* bound
        /\ holder' = [held EXCEPT ![t] = Self]
        /\ auction' = [state |-> "open", tokenId |-> t, bid |-> 0, bidder |-> None,
                       start |-> now, end |-> now + config.duration, extensions |-> 0]
        /\ announced' = config

\* validate_bid_amount.
EnoughBid(amount) ==
    /\ amount > 0
    /\ IF auction.bidder = None THEN amount >= config.reserve
       ELSE amount >= auction.bid + (auction.bid * config.increment) \div PercentDenominator

FaultyExtends == auction.end - now < config.buffer  \* however often

\* A late bid extends the auction, up to a number of times.
Extends ==
    /\ auction.end - now < config.buffer
    /\ auction.extensions < MaxExtensions

\* refund_bid: pushed if the bidder can receive, else kept for them.
\* P and E are the purses and the escrow before the refund.
RefundBid(bidder, amount, P, E) ==
    IF bidder = None THEN purse' = P /\ escrow' = E /\ UNCHANGED pending
    ELSE \/ /\ purse' = [P EXCEPT ![bidder][config.asset] = @ + amount]
            /\ E[config.asset] >= amount
            /\ escrow' = [E EXCEPT ![config.asset] = @ - amount]
            /\ UNCHANGED pending
         \/ /\ pending' = [pending EXCEPT ![bidder] = @ + amount]
            /\ purse' = P
            /\ escrow' = E

FaultyPayOut ==             \* only what was sold is settled
    /\ auction.bidder # None /\ mayPass
    /\ escrow' = [escrow EXCEPT ![config.asset] = @ - auction.bid]
    /\ proceeds' = [proceeds EXCEPT ![auction.bidder][config.asset] = @ + auction.bid]
    /\ UNCHANGED <<pending, purse>>

\* settle_auction_internal, without what it does to `auction': the token to
\* the winner and the bid to the Treasury, or the token to the Treasury.
PayOut ==
    IF auction.bidder = None THEN UNCHANGED moneyVars
    ELSE /\ mayPass
         /\ escrow[config.asset] >= auction.bid
         /\ escrow' = [escrow EXCEPT ![config.asset] = @ - auction.bid]
         /\ proceeds' = [proceeds EXCEPT ![auction.bidder][config.asset] = @ + auction.bid]
         /\ UNCHANGED <<pending, purse>>

FaultyHeldAfterSettling ==  \* an unsold token stays where it is
    [holder EXCEPT ![auction.tokenId] =
        IF auction.bidder = None THEN @ ELSE auction.bidder]

HeldAfterSettling ==
    [holder EXCEPT ![auction.tokenId] =
        IF auction.bidder = None THEN Treasury ELSE auction.bidder]

-----------------------------------------------------------------------------
(* Bidding and settling.                                                   *)

CreateBid(bidder, tokenId, amount) ==
    /\ ~paused
    /\ auction # NoAuction
    /\ tokenId = auction.tokenId
    /\ now < auction.end
    /\ EnoughBid(amount)
    /\ purse[bidder][config.asset] >= amount
    /\ assetLocked' = TRUE
    /\ auction' = [auction EXCEPT
                      !.bid = amount, !.bidder = bidder,
                      !.end = IF Extends THEN now + config.buffer ELSE @,
                      !.extensions = IF Extends THEN @ + 1 ELSE @]
    /\ RefundBid(auction.bidder, auction.bid,
                 [purse EXCEPT ![bidder][config.asset] = @ - amount],
                 [escrow EXCEPT ![config.asset] = @ + amount])
    /\ UNCHANGED <<phaseVars, config, now, proceeds, tokenVars, announced>>

\* Anyone, while running.
SettleAndCreateNew ==
    /\ ~paused
    /\ Open
    /\ now >= auction.end
    /\ PayOut
    /\ CreateAuction(HeldAfterSettling)
    /\ UNCHANGED <<phaseVars, config, assetLocked, now, mayMint, mayPass>>

\* Anyone, while paused.
SettleAuction ==
    /\ paused
    /\ Open
    /\ now >= auction.end
    /\ PayOut
    /\ auction' = [auction EXCEPT !.state = "settled"]
    /\ holder' = HeldAfterSettling
    /\ UNCHANGED <<phaseVars, config, assetLocked, now, mayMint, mayPass, announced>>

CancelAuction(caller) ==
    /\ paused
    /\ caller = admin
    /\ Open
    /\ RefundBid(auction.bidder, auction.bid, purse, escrow)
    /\ auction' = [auction EXCEPT !.state = "settled"]
    /\ holder' = [holder EXCEPT ![auction.tokenId] = Treasury]
    /\ UNCHANGED <<phaseVars, config, assetLocked, now, proceeds, mayMint, mayPass,
                   announced>>

FaultyWithdrawRefund(bidder) ==     \* again and again
    /\ pending[bidder] > 0 /\ escrow[config.asset] >= pending[bidder]
    /\ escrow' = [escrow EXCEPT ![config.asset] = @ - pending[bidder]]
    /\ purse' = [purse EXCEPT ![bidder][config.asset] = @ + pending[bidder]]
    /\ UNCHANGED <<phaseVars, config, assetLocked, auction, now, pending, proceeds,
                   tokenVars, announced>>

WithdrawRefund(bidder) ==
    /\ pending[bidder] > 0
    /\ pending' = [pending EXCEPT ![bidder] = 0]
    /\ escrow[config.asset] >= pending[bidder]
    /\ escrow' = [escrow EXCEPT ![config.asset] = @ - pending[bidder]]
    /\ purse' = [purse EXCEPT ![bidder][config.asset] = @ + pending[bidder]]
    /\ UNCHANGED <<phaseVars, config, assetLocked, auction, now, proceeds, tokenVars,
                   announced>>

-----------------------------------------------------------------------------
(* Administration.                                                         *)

Pause(caller) ==
    /\ caller = admin
    /\ ~paused                              \* the library refuses to pause twice
    /\ paused' = TRUE
    /\ UNCHANGED <<live, admin, config, assetLocked, auction, now, moneyVars,
                   tokenVars, announced>>

\* Puts up a token unless the paused auction is still open.
Unpause(caller) ==
    /\ live
    /\ caller = admin
    /\ paused
    /\ paused' = FALSE
    /\ \/ /\ ~Open
          /\ CreateAuction(holder)
       \/ /\ Open
          /\ UNCHANGED <<auction, holder, announced>>
    /\ UNCHANGED <<live, admin, config, assetLocked, now, moneyVars, mayMint, mayPass>>

\* set_duration, set_reserve_price, set_min_bid_increment, set_time_buffer.
SetConfig(caller, name, value) ==
    /\ paused
    /\ caller = admin
    /\ [config EXCEPT ![name] = value] \in Configs
    /\ config' = [config EXCEPT ![name] = value]
    /\ UNCHANGED <<phaseVars, assetLocked, auction, now, moneyVars, tokenVars, announced>>

FaultySetPaymentToken(caller, asset) ==     \* whatever the Auction still owes
    /\ paused /\ caller = admin
    /\ config' = [config EXCEPT !.asset = asset]
    /\ UNCHANGED <<phaseVars, assetLocked, auction, now, moneyVars, tokenVars, announced>>

SetPaymentToken(caller, asset) ==
    /\ paused
    /\ caller = admin
    /\ ~assetLocked
    /\ config' = [config EXCEPT !.asset = asset]
    /\ UNCHANGED <<phaseVars, assetLocked, auction, now, moneyVars, tokenVars, announced>>

Handoff(caller, to) ==
    /\ caller = Manager
    /\ ~live
    /\ to = Treasury
    /\ admin' = to
    /\ UNCHANGED <<live, paused, config, assetLocked, auction, now, moneyVars,
                   tokenVars, announced>>

Launch(caller, to, start) ==
    /\ caller = Manager
    /\ ~live
    /\ to = Treasury
    /\ live' = TRUE
    /\ admin' = to
    /\ \/ /\ start
          /\ paused
          /\ paused' = FALSE
          /\ IF auction = NoAuction THEN CreateAuction(holder)
             ELSE UNCHANGED <<auction, holder, announced>>
       \/ /\ ~start
          /\ UNCHANGED <<paused, auction, holder, announced>>
    /\ UNCHANGED <<config, assetLocked, now, moneyVars, mayMint, mayPass>>

-----------------------------------------------------------------------------
(* The token and the clock.                                                *)

\* Allowances are granted and lowered, the Auction is registered and
\* unregistered, the transfer lock goes on and off.
TokenChanges ==
    /\ mayMint' \in BOOLEAN /\ mayPass' \in BOOLEAN
    /\ UNCHANGED <<phaseVars, config, assetLocked, auction, now, moneyVars, holder,
                   announced>>

Tick ==
    /\ now < MaxTime                        \* bound
    /\ now' = now + 1
    /\ UNCHANGED <<phaseVars, config, assetLocked, auction, moneyVars, tokenVars,
                   announced>>

\* The Treasury acts only once it is live.
Callers == {Manager, LaunchAdmin} \cup IF live THEN {Treasury} ELSE {}

Bidding ==
    \E b \in Bidders, t \in TokenIds, amount \in Bids : CreateBid(b, t, amount)
Settling == SettleAuction \/ SettleAndCreateNew
Cancelling == \E caller \in Callers : CancelAuction(caller)
Withdrawing == \E b \in Bidders : WithdrawRefund(b)
Pausing == \E caller \in Callers : Pause(caller) \/ Unpause(caller)
Configuring ==
    \E caller \in Callers :
        \/ \E name \in {"duration", "reserve", "increment", "buffer"}, v \in Values :
              SetConfig(caller, name, v)
        \/ \E asset \in Assets : SetPaymentToken(caller, asset)
Launching ==
    \E caller \in Callers :
        Handoff(caller, Treasury) \/ \E start \in BOOLEAN : Launch(caller, Treasury, start)

Next ==
    \/ Bidding \/ Settling \/ Cancelling \/ Withdrawing
    \/ Pausing \/ Configuring \/ Launching
    \/ TokenChanges \/ Tick

Spec == Init /\ [][Next]_vars

\* Ledgers close, and settling is open to anyone, paused or not.
FairSpec == Spec /\ WF_vars(Tick) /\ WF_vars(Settling)

-----------------------------------------------------------------------------
(* Properties.                                                             *)

\* The bid that leads the open auction, and whose it is.
Leading(b) == IF Open /\ auction.bidder = b THEN auction.bid ELSE 0

\* An unpaused Auction always has an open auction: create_bid checks neither,
\* so nobody can pay into an auction that has been settled.
UnpausedIsOpen == ~paused => live /\ Open

\* The Auction holds, in the asset it is configured with, exactly the leading
\* bid and every refund not yet withdrawn, and nothing in any other asset:
\* whatever was paid in is either owed, returned, or was a winning bid.
Solvent ==
    \A a \in Assets : escrow[a] =
        IF a = config.asset
          THEN SumFunction([b \in Bidders |-> Leading(b) + pending[b]])
          ELSE 0

\* Bidder by bidder: what they had is in their purse, is owed to them, leads,
\* or went to the Treasury for a token.
NothingLost ==
    \A b \in Bidders, a \in Assets :
        Budget = purse[b][a] + proceeds[b][a]
                   + IF a = config.asset THEN pending[b] + Leading(b) ELSE 0

\* The Auction holds the token it is auctioning and no other: nothing is sold
\* twice, and no unsold token is stranded when an auction ends.
HoldsWhatItSells ==
    \A t \in TokenIds : holder[t] = Self <=> Open /\ auction.tokenId = t

\* However late and often it is extended, and whatever the duration and the
\* buffer were changed to on the way, an auction ends within a known time.
EndBounded ==
    Open => /\ auction.end <= auction.start + MaxDuration + auction.extensions * MaxBuffer
            /\ auction.extensions <= MaxExtensions

\* The inductive invariant of the proofs: besides the above, nothing happens
\* before launch, the asset is locked as soon as money is held, bids are never
\* below the least reserve price, and tokens are minted in order.
IdleUntilLive == live \/ (paused /\ auction = NoAuction)

AssetLockedByMoney ==
    ~assetLocked => /\ \A b \in Bidders : pending[b] = 0
                    /\ auction # NoAuction => auction.bidder = None

BidsAreSerious ==
    auction # NoAuction =>
        IF auction.bidder = None THEN auction.bid = 0 ELSE auction.bid >= MinReserve

MintedInOrder == \E n \in 0 .. MaxTokens : Minted(holder) = 0 .. n - 1

IndInv ==
    /\ TypeOK
    /\ IdleUntilLive /\ UnpausedIsOpen
    /\ HoldsWhatItSells /\ MintedInOrder
    /\ NothingLost /\ AssetLockedByMoney
    /\ EndBounded /\ BidsAreSerious

\* A leader is only ever replaced by a strictly higher bid, and an auction's
\* end never moves closer.
Progressing ==
    [][Open /\ auction' # auction /\ auction'.state = "open"
            /\ auction'.tokenId = auction.tokenId =>
         /\ auction'.bid > auction.bid
         /\ auction'.end >= auction.end]_vars

\* "Can only be changed when the auction is paused and only apply to future
\* auctions, not the currently active one" (AuctionConfig): a first bid is held
\* to the reserve price its auction was created, and announced, with.
AnnouncedReserveHolds ==
    [][Open /\ auction.bidder = None /\ auction'.state = "open"
            /\ auction'.tokenId = auction.tokenId /\ auction'.bidder # None =>
         auction'.bid >= announced.reserve]_vars

\* Every auction gets settled, paused or not, with or without a bid, once the
\* token lets it.  Bounds: the last token has no successor to be created, and an
\* auction that outlives MaxTime is not followed to its end.
EveryAuctionSettles ==
    <>[](mayMint /\ mayPass) =>
        \A t \in 0 .. MaxTokens - 2 :
            (Open /\ auction.tokenId = t) ~>
                (~Open \/ auction.tokenId # t \/ auction.end > MaxTime)
=============================================================================
