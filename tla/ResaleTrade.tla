---------------------------- MODULE ResaleTrade ----------------------------
(***************************************************************************)
(* A resale through the web application (apps/web/src/lib/marketplace):    *)
(* the server prepares a purchase or a listing over several reads of RPC   *)
(* nodes that may lag and of an index that follows the chain, the wallet   *)
(* signs what was reviewed, and the transaction meets whatever the chain   *)
(* has become. Others list, cancel and buy without the application.        *)
(*                                                                         *)
(* One token. A listing is identified by its creation (eventId), which the *)
(* contract does not know: `creation` is history, read by properties and   *)
(* by the index only. Ledger numbers stand for time.                       *)
(***************************************************************************)
EXTENDS Integers, Sequences

CONSTANTS
    Accounts, Traders,  \* those who use the application
    Prices, Assets, Fees,
    Denominator,        \* of a fee, BPS_DENOMINATOR
    Lifetimes,          \* of a listing
    Lag,                \* ledgers an RPC node may be behind
    Retention,          \* ledgers whose events a node keeps
    Validity,           \* ledgers a prepared transaction is valid for
    Market, Treasury, None,
    MaxLedger, MaxListings, MaxChanges  \* bounds

Terms == [price : Prices, asset : Assets, fee : Fees, seller : Accounts, expires : Nat]
Listings ==
    [price : Prices, asset : Assets, fee : Fees, seller : Accounts, expires : Nat,
     creation : Nat, modified : Nat]

ASSUME TradeAssumption ==
    /\ Prices \subseteq Nat \ {0} /\ Denominator \in Nat \ {0} /\ Fees \subseteq 0 .. Denominator
    /\ Lifetimes \subseteq Nat \ {0} /\ {Lag, Retention, Validity} \subseteq Nat
    /\ MaxLedger \in Nat \ {0}
    /\ Traders \subseteq Accounts /\ {Market, Treasury, None} \cap Accounts = {}
    /\ None \notin Listings

VARIABLES
    ledger,     \* the open one
    config,     \* [fee, asset, paused, changes]
    owner,
    listing,    \* None, or [price, asset, fee, seller, expires, modified, creation]
    created,    \* SecondaryListingCreated: [price .. expires, ledger, at, ended], the places of its events
    past,       \* listing, configuration and events at the end of each closed ledger
    events,     \* emitted so far
    indexedTo,  \* the events the index has
    trade,      \* the dialog of each trader
    txs,        \* signed and sent
    done        \* the application's last transaction that landed, and what it did

onChain == <<ledger, config, owner, listing, created, past, events>>
tradeVars == <<onChain, indexedTo, trade, txs, done>>

TermsOf(l) == [price |-> l.price, asset |-> l.asset, fee |-> l.fee, seller |-> l.seller,
               expires |-> l.expires]
NoTrade == [step |-> "none"]

TradeInit ==
    /\ ledger = 1 /\ past = <<>>
    /\ config \in [fee : Fees, asset : Assets, paused : {FALSE}, changes : {0}]
    /\ owner \in Accounts /\ listing = None /\ created = <<>> /\ events = 0 /\ indexedTo = 0
    /\ trade = [a \in Traders |-> NoTrade] /\ txs = {} /\ done = None

-----------------------------------------------------------------------------
(* The contract. *)

FeeOf(l) == (l.price * l.fee) \div Denominator

\* The transfers of a sale; transfers of nothing are skipped.
Payments(l) ==
    {p \in {[to |-> Treasury, asset |-> l.asset, amount |-> FeeOf(l)],
            [to |-> l.seller, asset |-> l.asset, amount |-> l.price - FeeOf(l)]} : p.amount > 0}

Listable(s, maxFee, asset, expires) ==
    /\ listing = None /\ owner = s /\ ~config.paused
    /\ expires > ledger /\ config.fee <= maxFee /\ config.asset = asset

ListNow(s, price, expires) ==
    /\ owner' = Market
    /\ listing' = [price |-> price, asset |-> config.asset, fee |-> config.fee, seller |-> s,
                   expires |-> expires, creation |-> Len(created) + 1, modified |-> ledger]
    /\ created' = Append(created,
                  [price |-> price, asset |-> config.asset, fee |-> config.fee, seller |-> s,
                   expires |-> expires, ledger |-> ledger, at |-> events + 1, ended |-> 0])
    /\ events' = events + 1

Closing(newOwner) ==
    /\ listing' = None /\ owner' = newOwner
    /\ created' = [created EXCEPT ![listing.creation].ended = events + 1]
    /\ events' = events + 1

\* What a buyer's authorization tree allows, and max_price.
Buyable(max, authorized) ==
    /\ listing # None /\ listing.expires > ledger /\ ~config.paused
    /\ listing.price <= max /\ Payments(listing) \subseteq authorized

-----------------------------------------------------------------------------
(* The chain without the application. *)

Close ==
    /\ ledger < MaxLedger
    /\ ledger' = ledger + 1
    /\ past' = Append(past, [listing |-> listing, config |-> config, events |-> events])
    /\ txs' = {tx \in txs : tx.until > ledger}
    /\ UNCHANGED <<config, owner, listing, created, events, indexedTo, trade, done>>

SetTerms ==
    /\ config.changes < MaxChanges
    /\ \E fee \in Fees, asset \in Assets, paused \in BOOLEAN :
        config' = [fee |-> fee, asset |-> asset, paused |-> paused, changes |-> config.changes + 1]
    /\ UNCHANGED <<ledger, owner, listing, created, past, events, indexedTo, trade, txs, done>>

List(s) ==
    /\ Len(created) < MaxListings
    /\ \E price \in Prices, life \in Lifetimes :
        /\ Listable(s, config.fee, config.asset, ledger + life)
        /\ ListNow(s, price, ledger + life)
    /\ UNCHANGED <<ledger, config, past, indexedTo, trade, txs, done>>

\* The seller cancels, or anyone clears an ended listing.
CancelOrExpire ==
    /\ listing # None
    /\ Closing(listing.seller)
    /\ UNCHANGED <<ledger, config, past, indexedTo, trade, txs, done>>

Buy(a) ==
    /\ listing # None /\ Buyable(listing.price, Payments(listing))
    /\ Closing(a)
    /\ UNCHANGED <<ledger, config, past, indexedTo, trade, txs, done>>

\* The index takes transactions of closed ledgers, one event each here.
Index ==
    /\ past # <<>> /\ \E n \in indexedTo + 1 .. past[Len(past)].events : indexedTo' = n
    /\ UNCHANGED <<onChain, trade, txs, done>>

-----------------------------------------------------------------------------
(* The server. *)

\* Ledgers a node may answer from.
Nodes == {l \in 1 .. Len(past) : l + Lag >= Len(past)}

Visible == {i \in DOMAIN created : created[i].at <= indexedTo}
Open(i) == created[i].ended = 0 \/ created[i].ended > indexedTo
Row(i) == TermsOf(created[i])

\* marketplaceListing: by the event the buyer reviewed, never by the token.
RowFor(i) == i

\* matchesSnapshot
Matches(row, l) == l # None /\ row = TermsOf(l)

Set(a, t) == trade' = [trade EXCEPT ![a] = t] /\ UNCHANGED <<onChain, indexedTo, txs, done>>

\* The buyer reviews an open row of the index.
AskToBuy(a) ==
    /\ trade[a].step = "none"
    /\ \E i \in Visible :
        /\ Open(i) /\ created[i].seller # a
        /\ Set(a, [step |-> "asked", buy |-> TRUE, creation |-> i])

\* The row, and the live listing against it.
ReadListing(a) ==
    /\ trade[a].step = "asked" /\ trade[a].buy
    /\ \E l \in Nodes :
        LET i == RowFor(trade[a].creation) IN
        Set(a, IF Open(i) /\ Matches(Row(i), past[l].listing) /\ ~past[l].config.paused
                  /\ created[i].expires > ledger
               THEN [step |-> "read", buy |-> TRUE, creation |-> trade[a].creation, row |-> i]
               ELSE NoTrade)

FaultyExpected(row) ==
    {[to |-> Treasury, asset |-> row.asset, amount |-> FeeOf(row)],
     [to |-> row.seller, asset |-> row.asset, amount |-> row.price - FeeOf(row)]}

\* The payments the buyer reviewed, as assertMarketplacePurchaseAuthorization expects them.
Expected(row) ==
    {p \in {[to |-> Treasury, asset |-> row.asset, amount |-> FeeOf(row)],
            [to |-> row.seller, asset |-> row.asset, amount |-> row.price - FeeOf(row)]} : p.amount > 0}

\* client.buy is simulated, and the buyer's authorization compared with the reviewed payments.
SimulateBuy(a) ==
    /\ trade[a].step = "read" /\ trade[a].buy
    /\ \E l \in Nodes :
        LET sim == past[l].listing  row == Row(trade[a].row) IN
        Set(a, IF sim # None /\ ~past[l].config.paused /\ sim.expires > l
                  /\ sim.price <= row.price /\ Payments(sim) = Expected(row)
               THEN [step |-> "simulated", buy |-> TRUE, creation |-> trade[a].creation,
                     row |-> trade[a].row, at |-> l, until |-> ledger + Validity]
               ELSE NoTrade)

FaultyCycleProven(i, sim, history, current) ==
    /\ sim.modified = created[i].ledger
    /\ Matches(Row(i), sim)
    /\ created[i].ledger + Retention >= history
    /\ past[current].listing # None
    /\ past[current].listing.modified = sim.modified /\ Matches(Row(i), past[current].listing)

\* assertSecondaryPurchaseCycle: the simulation deletes the entry the reviewed creation wrote, the
\* only one written for this token in its ledger, and it is still there.
CycleProven(i, sim, history, current) ==
    /\ sim.modified = created[i].ledger
    /\ Matches(Row(i), sim)
    /\ created[i].ledger + Retention >= history
    /\ {j \in DOMAIN created : created[j].ledger = created[i].ledger} = {i}
    /\ past[current].listing # None
    /\ past[current].listing.modified = sim.modified /\ Matches(Row(i), past[current].listing)

\* The events and the entry are read from nodes not behind the simulation.
Prove(a) ==
    /\ trade[a].step = "simulated"
    /\ \E history \in Nodes, current \in Nodes :
        LET at == trade[a].at IN
        Set(a, IF history >= at /\ current >= at
                  /\ CycleProven(trade[a].row, past[at].listing, history, current)
               THEN [trade[a] EXCEPT !.step = "proven"]
               ELSE NoTrade)

\* Row and listing once more.
Recheck(a) ==
    /\ trade[a].step = "proven"
    /\ \E l \in Nodes :
        LET i == trade[a].row  sim == past[trade[a].at].listing IN
        Set(a, IF Open(i) /\ created[i].expires > ledger /\ Matches(Row(i), past[l].listing)
               THEN [step |-> "prepared", creation |-> trade[a].creation, at |-> trade[a].at,
                     tx |-> [by |-> a, buy |-> TRUE, creation |-> trade[a].creation, max |-> Row(i).price,
                             authorized |-> Payments(sim), until |-> trade[a].until]]
               ELSE NoTrade)

\* The seller reviews the configuration the page shows, and a price and an end.
AskToList(a) ==
    /\ trade[a].step = "none"
    /\ \E l \in Nodes, price \in Prices, life \in Lifetimes :
        Set(a, [step |-> "asked", buy |-> FALSE, price |-> price, expires |-> ledger + life,
                fee |-> past[l].config.fee, asset |-> past[l].config.asset])

\* The configuration must be the reviewed one; list binds the fee and the asset.
PrepareList(a) ==
    /\ trade[a].step = "asked" /\ ~trade[a].buy
    /\ \E l \in Nodes :
        LET t == trade[a]  c == past[l].config IN
        Set(a, IF ~c.paused /\ c.fee = t.fee /\ c.asset = t.asset /\ t.expires > ledger
               THEN [step |-> "prepared",
                     tx |-> [by |-> a, buy |-> FALSE, price |-> t.price, expires |-> t.expires,
                             fee |-> t.fee, asset |-> t.asset, until |-> ledger + Validity]]
               ELSE NoTrade)

-----------------------------------------------------------------------------
(* The wallet, and the transaction on chain. *)

\* An expired transaction is not signed. A dialog signs once.
SignTrade(a) ==
    /\ trade[a].step = "prepared"
    /\ trade' = [trade EXCEPT ![a] = NoTrade]
    /\ txs' = IF trade[a].tx.until >= ledger THEN txs \cup {trade[a].tx} ELSE txs
    /\ UNCHANGED <<onChain, indexedTo, done>>

Leave(a) == trade[a].step # "none" /\ Set(a, NoTrade)

LandBuy(tx) ==
    /\ tx \in txs /\ tx.buy
    /\ txs' = txs \ {tx}
    /\ IF Buyable(tx.max, tx.authorized)
       THEN Closing(tx.by) /\ done' = [tx |-> tx, paid |-> Payments(listing)]
       ELSE UNCHANGED <<listing, owner, created, events, done>>
    /\ UNCHANGED <<ledger, config, past, indexedTo, trade>>

LandList(tx) ==
    /\ tx \in txs /\ ~tx.buy
    /\ txs' = txs \ {tx}
    /\ IF Listable(tx.by, tx.fee, tx.asset, tx.expires)
       THEN /\ Len(created) < MaxListings
            /\ ListNow(tx.by, tx.price, tx.expires)
            /\ done' = [tx |-> tx, listed |-> Len(created) + 1]
       ELSE UNCHANGED <<listing, owner, created, events, done>>
    /\ UNCHANGED <<ledger, config, past, indexedTo, trade>>

TradeNext ==
    \/ Close \/ SetTerms \/ CancelOrExpire \/ Index
    \/ \E a \in Accounts : List(a) \/ Buy(a)
    \/ \E a \in Traders :
        \/ AskToBuy(a) \/ ReadListing(a) \/ SimulateBuy(a) \/ Prove(a) \/ Recheck(a)
        \/ AskToList(a) \/ PrepareList(a) \/ SignTrade(a) \/ Leave(a)
    \/ \E tx \in txs : LandBuy(tx) \/ LandList(tx)

TradeSpec == TradeInit /\ [][TradeNext]_tradeVars

-----------------------------------------------------------------------------
(* Properties *)

TradeTypes ==
    /\ ledger \in 1 .. MaxLedger /\ Len(past) = ledger - 1 /\ indexedTo \in 0 .. events
    /\ owner \in Accounts \cup {Market} /\ (listing = None <=> owner # Market)
    /\ listing # None => /\ TermsOf(listing) \in Terms
                        /\ Row(listing.creation) = TermsOf(listing) /\ Open(listing.creation)
    /\ \A tx \in txs : tx.by \in Accounts /\ tx.until >= ledger

\* A purchase is prepared only if what was simulated is the very listing the buyer reviewed: not a
\* later one of the same token on the same terms, and not one of several of the same ledger.
PreparedIsReviewed ==
    \A a \in Traders :
        trade[a].step = "prepared" /\ trade[a].tx.buy
            => past[trade[a].at].listing.creation = trade[a].creation

\* Whatever became of the listing between review and confirmation, a purchase moves only the
\* payments the buyer reviewed, in that asset and to those accounts, and never more.
PaidAsReviewed ==
    done # None /\ done.tx.buy => done.paid \subseteq Payments(created[done.tx.creation])

\* A listing made through the application never bears a higher fee, or another asset or price, than
\* its seller reviewed, whatever governance did meanwhile.
ListedAsBound ==
    done # None /\ ~done.tx.buy
        => LET l == created[done.listed] IN
           l.fee <= done.tx.fee /\ l.asset = done.tx.asset /\ l.price = done.tx.price

\* What is traded is what was reviewed.
TradeInv == TradeTypes /\ PreparedIsReviewed /\ PaidAsReviewed /\ ListedAsBound

-----------------------------------------------------------------------------
(* Liveness: ledgers close, nodes answer and not always from behind, and someone keeps asking to    *)
(* buy what is listed.                                                                              *)

Progress(a) == ReadListing(a) \/ SimulateBuy(a) \/ Prove(a) \/ Recheck(a) \/ PrepareList(a)

FairTrade ==
    /\ TradeSpec
    /\ WF_tradeVars(Close) /\ WF_tradeVars(Index) /\ WF_tradeVars(\E tx \in txs : LandBuy(tx) \/ LandList(tx))
    /\ \A a \in Traders :
        /\ SF_tradeVars(AskToBuy(a)) /\ SF_tradeVars(ReadListing(a) /\ trade'[a].step = "read")
        /\ SF_tradeVars(SimulateBuy(a) /\ trade'[a].step = "simulated" /\ trade'[a].at = Len(past))
        /\ SF_tradeVars(Prove(a) /\ trade'[a].step = "proven")
        /\ SF_tradeVars(Recheck(a) /\ trade'[a].step = "prepared")
        /\ WF_tradeVars(SignTrade(a)) /\ WF_tradeVars(Progress(a))
    /\ <>[][\A a \in Traders : ~AskToList(a) /\ (Leave(a) => Progress(a) \/ SignTrade(a))]_tradeVars

\* On sale for good: unpaused, without an end, alone in its ledger, its events retained to the last
\* ledger.
Steady(last) ==
    /\ listing # None /\ ~config.paused /\ listing.expires > last
    /\ \E a \in Traders : a # listing.seller
    /\ listing.modified < last /\ listing.modified + Retention >= last
    /\ \A j \in DOMAIN created : created[j].ledger = listing.modified => j = listing.creation

=============================================================================
