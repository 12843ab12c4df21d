---------------------------- MODULE Marketplace ----------------------------
(***************************************************************************)
(* Quick-buy pools and escrowed listings (src/contracts/marketplace) of a  *)
(* live DAO. Of the Token the owners, the tokens minted and the mint       *)
(* allowance of the Marketplace are kept; what buyers pay is kept as a     *)
(* receipt, the prices and the purses are not.                             *)
(*                                                                         *)
(* A pool's stock is a sequence of pages of token ids, as it is stored: a  *)
(* purchase takes an id out of its page, a sweep empties pages from the    *)
(* last, a restock fills the last page and adds new ones.                  *)
(*                                                                         *)
(* A definition named Faulty... is the one after it with a plausible fault *)
(* seeded, to see that the properties notice; nothing uses it.             *)
(***************************************************************************)
EXTENDS Integers, Sequences, FiniteSets, FiniteSetsExt, SequencesExt

CONSTANTS
    Members,
    Assets, MaxFee,             \* set_payment_asset, MAX_FEE_BPS
    MaxRestock, MaxSweep, PageSize, MaxOpenPools,
    \* Inputs the environment may use, and bounds on the exploration.
    Offers,                     \* terms of pools
    Grants,                     \* allowances a proposal sets
    Durations,                  \* of listings
    FirstTokens,                \* tokens 1 .. FirstTokens belong to a member
    MaxTokens, MaxPools, MaxTime

Market == "market"
Treasury == "treasury"
None == "none"

Terms == [expires : Nat, size : Nat \ {0}, perBuyer : Nat \ {0}, perPeriod : Nat \ {0},
          period : Nat \ {0}]

ASSUME MarketplaceAssumption ==
    /\ IsFiniteSet(Members) /\ {Market, Treasury, None} \cap Members = {}
    /\ {MaxRestock, MaxSweep, PageSize, MaxOpenPools} \subseteq Nat \ {0}
    /\ {MaxFee, FirstTokens, MaxTokens, MaxPools, MaxTime} \subseteq Nat
    /\ FirstTokens <= MaxTokens
    /\ Offers \subseteq Terms /\ Grants \subseteq Nat /\ Durations \subseteq Nat

VARIABLES
    now,
    config,         \* paused, fee, asset
    listings,       \* [1 .. MaxTokens -> listing or NoListing]
    pools,          \* [1 .. n -> pool]
    slots,          \* OpenPools: sequence of [pool, unstocked]; pages are Len(stock[pool])
    stock,          \* [1 .. n -> sequence of pages]
    bought,         \* [1 .. n -> [Members -> Nat]]
    \* The Token.
    owner,          \* sequence of owners, a token's id is its index
    allowance,
    lowered,        \* history: a proposal took allowance that pools had reserved
    sales,          \* history: [1 .. n -> times of purchases]
    receipt         \* history: [charged, signed] of the last secondary sale

listVars == <<listings, receipt>>
poolVars == <<pools, slots, stock, bought, sales>>
tokenVars == <<owner, allowance, lowered>>
vars == <<now, config, listVars, poolVars, tokenVars>>

Tokens == 1 .. MaxTokens
NoListing == [seller |-> None, expires |-> 0, fee |-> 0, asset |-> None,
              signed |-> [fee |-> 0, asset |-> None]]

Listing == [seller : Members, expires : Nat, fee : 0 .. MaxFee, asset : Assets,
            signed : [fee : 0 .. MaxFee, asset : Assets]]
Pool == [terms : Terms, expires : Nat, stocked : Nat, sold : Nat,
         start : Nat, inPeriod : Nat, closed : BOOLEAN]      \* start, inPeriod: the rate counter
Page == {ids \in Seq(Tokens) : Len(ids) <= PageSize}

TypeOK ==
    /\ now \in Nat
    /\ config \in [paused : BOOLEAN, fee : 0 .. MaxFee, asset : Assets]
    /\ listings \in [Tokens -> Listing \cup {NoListing}]
    /\ pools \in Seq(Pool)
    /\ stock \in Seq(Seq(Page)) /\ Len(stock) = Len(pools)
    /\ bought \in Seq([Members -> Nat]) /\ Len(bought) = Len(pools)
    /\ sales \in Seq(Seq(Nat)) /\ Len(sales) = Len(pools)
    /\ slots \in Seq([pool : Nat, unstocked : Nat]) /\ Len(slots) <= MaxOpenPools
    /\ \A i \in DOMAIN slots : slots[i].pool \in DOMAIN pools
    /\ \A i, j \in DOMAIN slots : slots[i].pool = slots[j].pool => i = j
    /\ owner \in Seq(Members \cup {Market, Treasury}) /\ Len(owner) <= MaxTokens
    /\ allowance \in Nat /\ lowered \in BOOLEAN

Init ==
    /\ now = 0
    /\ config \in [paused : {FALSE}, fee : {0}, asset : Assets]
    /\ listings = [t \in Tokens |-> NoListing]
    /\ pools = <<>> /\ slots = <<>> /\ stock = <<>> /\ bought = <<>> /\ sales = <<>>
    /\ owner \in [1 .. FirstTokens -> Members]
    /\ allowance = 0 /\ lowered = FALSE
    /\ receipt = [charged |-> NoListing.signed, signed |-> NoListing.signed]

-----------------------------------------------------------------------------
(* Pools.                                                                  *)

\* Ids on pages i and after, and on all pages.
IdsFrom(pages, i) == UNION {Range(pages[j]) : j \in i .. Len(pages)}
OnPages(pages) == IdsFrom(pages, 1)

Ids(p) == OnPages(stock[p])
IsOpen(p) == ~pools[p].closed /\ now < pools[p].expires
SlotOf(p) == {i \in DOMAIN slots : slots[i].pool = p}
ToMint == [i \in DOMAIN slots |-> slots[i].unstocked]
Unstocked(p) == SumFunctionOnSet(ToMint, SlotOf(p))
Drop(i) == RemoveAt(slots, i)

\* What open pools have still to mint.
Reserved == SumFunction(ToMint)

\* open_pool, by proposal: reserves its size of the allowance.
OpenPool(t) ==
    /\ Len(pools) < MaxPools                                    \* bound
    /\ ~config.paused
    /\ t.expires > now
    /\ Len(slots) < MaxOpenPools
    /\ allowance - Reserved >= t.size
    /\ pools' = Append(pools, [terms |-> t, expires |-> t.expires, stocked |-> 0, sold |-> 0,
                               start |-> now, inPeriod |-> 0, closed |-> FALSE])
    /\ slots' = Append(slots, [pool |-> Len(pools) + 1, unstocked |-> t.size])
    /\ stock' = Append(stock, <<>>)
    /\ bought' = Append(bought, [m \in Members |-> 0])
    /\ sales' = Append(sales, <<>>)
    /\ UNCHANGED <<now, config, listVars, tokenVars>>

SmallerOf(a, b) == IF a <= b THEN a ELSE b

Pages(ids) ==
    [i \in 1 .. (Len(ids) + PageSize - 1) \div PageSize |->
        SubSeq(ids, (i - 1) * PageSize + 1, SmallerOf(i * PageSize, Len(ids)))]

\* The last page is filled up, then pages are added.
Stocked(pages, ids) ==
    IF pages = <<>> THEN Pages(ids)
    ELSE Front(pages) \o Pages(Last(pages) \o ids)

\* restock, by anyone: token.batch_mint into custody spends the allowance.
Restock(i) ==
    LET p == slots[i].pool
        count == SmallerOf(slots[i].unstocked, MaxRestock)
    IN  /\ IsOpen(p)
        /\ slots[i].unstocked > 0
        /\ Len(owner) + count <= MaxTokens                      \* bound
        /\ count <= allowance
        /\ owner' = owner \o [k \in 1 .. count |-> Market]
        /\ allowance' = allowance - count
        /\ stock' = [stock EXCEPT ![p] = Stocked(@, [k \in 1 .. count |-> Len(owner) + k])]
        /\ slots' = [slots EXCEPT ![i].unstocked = @ - count]
        /\ pools' = [pools EXCEPT ![p].stocked = @ + count]
        /\ UNCHANGED <<now, config, listVars, bought, sales, lowered>>

FaultyPeriodOver(pool) == now >= pool.start

PeriodOver(pool) == now >= pool.start + pool.terms.period

\* The rate counter, rolled over at the first purchase after its period.
Rolled(pool) ==
    IF PeriodOver(pool) THEN [pool EXCEPT !.start = now, !.inPeriod = 0] ELSE pool

FaultyTakeFrom(page, id) == page            \* the page is not written back

TakeFrom(page, id) == RemoveFirst(page, id)

\* buy_from_pool: an id of a page, within the caps of the buyer and the period.
BuyFromPool(m, p, page, id) ==
    LET pool == Rolled(pools[p])
    IN  /\ ~config.paused
        /\ IsOpen(p)
        /\ bought[p][m] < pool.terms.perBuyer
        /\ pool.inPeriod < pool.terms.perPeriod
        /\ id \in Range(stock[p][page])
        /\ owner[id] = Market               \* the transfer
        /\ stock' = [stock EXCEPT ![p][page] = TakeFrom(@, id)]
        /\ pools' = [pools EXCEPT ![p] = [pool EXCEPT !.sold = @ + 1, !.inPeriod = @ + 1]]
        /\ bought' = [bought EXCEPT ![p][m] = @ + 1]
        /\ sales' = [sales EXCEPT ![p] = Append(@, now)]
        /\ owner' = [owner EXCEPT ![id] = m]
        /\ UNCHANGED <<now, config, listVars, slots, allowance, lowered>>

\* What close_pool gives back: release_mint_allowance, which saturates.
Released(p) == Unstocked(p)

\* close_pool: by the DAO at any time, by anyone once expired. A pool without
\* pages leaves the open pools.
ClosePool(p) ==
    /\ ~pools[p].closed
    /\ pools' = [pools EXCEPT ![p].closed = TRUE]
    /\ \E i \in SlotOf(p) :
        slots' = IF stock[p] = <<>> THEN Drop(i) ELSE [slots EXCEPT ![i].unstocked = 0]
    /\ allowance' = IF Released(p) >= allowance THEN 0 ELSE allowance - Released(p)
    /\ UNCHANGED <<now, config, listVars, stock, bought, sales, owner, lowered>>

FaultySwept(pages) == Front(pages)          \* a page per call, however many moved

\* What a sweep leaves: MaxSweep ids come off the end, with the pages they
\* empty; pages that were empty go with them.
Swept(pages) ==
    LET full == {i \in DOMAIN pages : Cardinality(IdsFrom(pages, i)) >= MaxSweep}
    IN  IF full = {} THEN <<>>
        ELSE LET i == Max(full)
                 keep == Len(pages[i]) - (MaxSweep - Cardinality(IdsFrom(pages, i + 1)))
             IN  IF keep = 0 THEN SubSeq(pages, 1, i - 1)
                 ELSE Append(SubSeq(pages, 1, i - 1), SubSeq(pages[i], 1, keep))

\* The ids a sweep takes: those that come off the end before it has moved MaxSweep.
Taken(pages, i, k) ==
    Cardinality(IdsFrom(pages, i + 1)) + Len(pages[i]) - k < MaxSweep

TakenBy(pages) ==
    {id \in OnPages(pages) :
        \E i \in DOMAIN pages : \E k \in DOMAIN pages[i] : pages[i][k] = id /\ Taken(pages, i, k)}

\* sweep_pool, by anyone: unsold tokens of a closed pool to the Treasury.
SweepPool(i) ==
    LET p == slots[i].pool
        left == Swept(stock[p])
        gone == TakenBy(stock[p])
    IN  /\ pools[p].closed
        /\ \A id \in gone : owner[id] = Market
        /\ stock' = [stock EXCEPT ![p] = left]
        /\ slots' = IF left = <<>> THEN Drop(i) ELSE slots
        /\ owner' = [id \in DOMAIN owner |-> IF id \in gone THEN Treasury ELSE owner[id]]
        /\ UNCHANGED <<now, config, listVars, pools, bought, sales, allowance, lowered>>

-----------------------------------------------------------------------------
(* Listings.                                                               *)

\* The seller signs a highest fee and an asset; the ones in force are kept.
List(m, t, duration, signed) ==
    /\ ~config.paused
    /\ duration > 0                         \* check_open_listing: InvalidExpiry
    /\ config.fee <= signed.fee /\ config.asset = signed.asset
    /\ listings[t] = NoListing
    /\ owner[t] = m
    /\ owner' = [owner EXCEPT ![t] = Market]
    /\ listings' = [listings EXCEPT ![t] =
                        [seller |-> m, expires |-> now + duration, fee |-> config.fee,
                         asset |-> config.asset, signed |-> signed]]
    /\ UNCHANGED <<now, config, receipt, poolVars, allowance, lowered>>

\* The terms captured when it was listed, not the ones of today.
Charged(l) == [fee |-> l.fee, asset |-> l.asset]

Buy(m, t) ==
    /\ ~config.paused
    /\ listings[t] # NoListing
    /\ now < listings[t].expires
    /\ owner[t] = Market
    /\ receipt' = [charged |-> Charged(listings[t]), signed |-> listings[t].signed]
    /\ listings' = [listings EXCEPT ![t] = NoListing]
    /\ owner' = [owner EXCEPT ![t] = m]
    /\ UNCHANGED <<now, config, poolVars, allowance, lowered>>

\* A listing's token goes back: to the seller who cancels, at any time, or
\* once expired by anyone.
GiveBack(t) ==
    /\ owner[t] = Market
    /\ owner' = [owner EXCEPT ![t] = listings[t].seller]
    /\ listings' = [listings EXCEPT ![t] = NoListing]
    /\ UNCHANGED <<now, config, receipt, poolVars, allowance, lowered>>

Cancel(t) == listings[t] # NoListing /\ GiveBack(t)

Expire(t) == listings[t] # NoListing /\ now >= listings[t].expires /\ GiveBack(t)

-----------------------------------------------------------------------------
(* Settings by proposal, the Token's other moves, and time.                *)

SetPaused(on) ==
    /\ config' = [config EXCEPT !.paused = on]
    /\ UNCHANGED <<now, listVars, poolVars, tokenVars>>

SetSecondaryFee(fee) ==
    /\ fee <= MaxFee
    /\ config' = [config EXCEPT !.fee = fee]
    /\ UNCHANGED <<now, listVars, poolVars, tokenVars>>

SetPaymentAsset(asset) ==
    /\ config' = [config EXCEPT !.asset = asset]
    /\ UNCHANGED <<now, listVars, poolVars, tokenVars>>

\* token.set_mint_allowance and increase_mint_allowance.
SetAllowance(n) ==
    /\ allowance' = n
    /\ lowered' = (lowered \/ n < Reserved)
    /\ UNCHANGED <<now, config, listVars, poolVars, owner>>

\* Members pass tokens on; custody moves only as above.
Move(t, m) ==
    /\ owner[t] \in Members
    /\ t <= FirstTokens                                         \* bound
    /\ owner' = [owner EXCEPT ![t] = m]
    /\ UNCHANGED <<now, config, listVars, poolVars, allowance, lowered>>

Tick ==
    /\ now < MaxTime                                            \* bound
    /\ now' = now + 1
    /\ UNCHANGED <<config, listVars, poolVars, tokenVars>>

PoolNext ==
    \/ \E t \in Offers : OpenPool(t)
    \/ \E i \in DOMAIN slots : Restock(i) \/ SweepPool(i)
    \/ \E m \in Members, p \in DOMAIN pools :
        \E page \in DOMAIN stock[p] : \E id \in Range(stock[p][page]) :
            BuyFromPool(m, p, page, id)
    \/ \E p \in DOMAIN pools : ClosePool(p)

ListingNext ==
    \E t \in DOMAIN owner :
        \/ \E m \in Members, d \in Durations, f \in 0 .. MaxFee, a \in Assets :
            List(m, t, d, [fee |-> f, asset |-> a])
        \/ \E m \in Members : Buy(m, t) \/ Move(t, m)
        \/ Cancel(t)
        \/ Expire(t)

Next ==
    \/ PoolNext
    \/ ListingNext
    \/ \E on \in BOOLEAN : SetPaused(on)
    \/ \E f \in 0 .. MaxFee : SetSecondaryFee(f)
    \/ \E a \in Assets : SetPaymentAsset(a)
    \/ \E n \in Grants : SetAllowance(n)
    \/ Tick

Spec == Init /\ [][Next]_vars

\* Time passes, and anyone may close an expired pool and sweep a closed one.
FairSpec ==
    /\ Spec
    /\ WF_vars(Tick)
    /\ WF_vars(\E p \in DOMAIN pools : now >= pools[p].expires /\ ClosePool(p))
    /\ WF_vars(\E i \in DOMAIN slots : SweepPool(i))

-----------------------------------------------------------------------------
(* Properties.                                                             *)

\* No id stands in two places.
OnceEach(pages) ==
    \A i, j \in DOMAIN pages : \A k \in DOMAIN pages[i] : \A l \in DOMAIN pages[j] :
        pages[i][k] = pages[j][l] => i = j /\ k = l

\* What the Marketplace holds is exactly its listings and its stock, each
\* token in one listing or on one page of one pool, once: nothing in custody
\* is lost, and nothing is for sale twice.
CustodyExact ==
    /\ {t \in DOMAIN owner : owner[t] = Market} =
            {t \in Tokens : listings[t] # NoListing} \cup UNION {Ids(p) : p \in DOMAIN stock}
    /\ \A p \in DOMAIN stock :
        /\ \A t \in Ids(p) : listings[t] = NoListing
        /\ \A q \in DOMAIN stock \ {p} : Ids(p) \cap Ids(q) = {}
        /\ OnceEach(stock[p])

\* A pool's counters agree with its pages and its reservation until it is
\* closed; afterwards what is unsold only leaves.
PoolsAddUp ==
    \A p \in DOMAIN pools :
        LET pool == pools[p]
            unsold == Cardinality(Ids(p))
        IN  IF pool.closed THEN unsold <= pool.stocked - pool.sold /\ Unstocked(p) = 0
            ELSE unsold = pool.stocked - pool.sold
                 /\ pool.stocked + Unstocked(p) = pool.terms.size

\* No pool starves another: unless the DAO itself takes allowance away, every
\* open pool can be stocked in full.
ReservationsCovered == ~lowered => Reserved <= allowance

\* The sales counter rolls over by whole periods from the first purchase after
\* one: in any stretch as long as a period at most twice the rate is sold, and
\* never more than the rate between two rollovers.
RateHolds ==
    \A p \in DOMAIN pools : \A i \in DOMAIN sales[p] :
        LET t == pools[p].terms
        IN  Cardinality({j \in DOMAIN sales[p] :
                sales[p][j] >= sales[p][i] /\ sales[p][j] < sales[p][i] + t.period})
                    <= 2 * t.perPeriod

\* A seller is charged at most the fee and only in the asset that was signed,
\* whatever was voted between the listing and the sale.
ChargedAsSigned ==
    /\ receipt.charged.fee <= receipt.signed.fee
    /\ receipt.charged.asset = receipt.signed.asset

\* What every call keeps, of pools and of listings.
MarketInv ==
    /\ TypeOK
    /\ CustodyExact /\ PoolsAddUp /\ ReservationsCovered /\ ChargedAsSigned

\* Expired pools empty out: what they did not sell returns to the Treasury and
\* their slots come free, without the DAO having to act.
StockReturns ==
    \A p \in 1 .. MaxPools :
        (p \in DOMAIN pools) ~> (p \in DOMAIN pools /\ Ids(p) = {} /\ SlotOf(p) = {})
=============================================================================
