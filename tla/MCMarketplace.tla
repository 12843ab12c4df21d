--------------------------- MODULE MCMarketplace ---------------------------
(***************************************************************************)
(* One run, three bounded scenarios over the same constants; a behaviour   *)
(* stays in the scenario it starts in.                                     *)
(*   pools     two pools that share an allowance, one of three tokens (two *)
(*             restocks, two pages) and a small one;                       *)
(*   rate      one pool with one sale per period;                          *)
(*   listings  a member's token and one of a pool, fees and assets voted   *)
(*             on between listing and sale.                                *)
(***************************************************************************)
EXTENDS Marketplace

CONSTANTS alice, bob

VARIABLE scenario

Large == [expires |-> 2, size |-> 3, perBuyer |-> 2, perPeriod |-> 2, period |-> 2]
Small == [expires |-> 1, size |-> 1, perBuyer |-> 1, perPeriod |-> 1, period |-> 1]
Slow == [expires |-> 3, size |-> 4, perBuyer |-> 4, perPeriod |-> 1, period |-> 2]
MCOffers == {Large, Small, Slow}

\* Time stops earlier where nothing more can happen.
MCTick ==
    /\ scenario = "listings" => now < 1
    /\ scenario = "pools" => now < 2
    /\ Tick

\* Where only pools are looked at there are no listings and no new terms.
MCNext ==
    /\ \/ MCTick \/ PoolNext \/ \E n \in Grants : SetAllowance(n)
       \/ /\ scenario = "listings"
          /\ \/ ListingNext
             \/ \E on \in BOOLEAN : SetPaused(on)
             \/ \E f \in 0 .. MaxFee : SetSecondaryFee(f)
             \/ \E a \in Assets : SetPaymentAsset(a)
    /\ UNCHANGED scenario

MCInit == scenario \in {"pools", "rate", "listings"} /\ Init

MCFairSpec ==
    /\ MCInit
    /\ [][MCNext]_<<vars, scenario>>
    /\ WF_vars(MCTick)
    /\ WF_vars(\E p \in DOMAIN pools : now >= pools[p].expires /\ ClosePool(p))
    /\ WF_vars(\E i \in DOMAIN slots : SweepPool(i))

Offered == {pools[p].terms : p \in DOMAIN pools}
OneBuyer ==
    /\ config.asset = "xlm"
    /\ \A p \in DOMAIN pools : bought[p][bob] = 0
    /\ owner[1] = alice

Untouched ==
    /\ listings[1] = NoListing /\ receipt.charged.asset = None /\ owner[1] = alice
    /\ config = [paused |-> FALSE, fee |-> 0, asset |-> "xlm"] /\ now = 0

MCBound ==
    CASE scenario = "pools" ->
            /\ OneBuyer /\ Offered \subseteq {Large, Small}
            /\ pools # <<>> => pools[1].terms = Large
            /\ pools = <<>> => now = 0
      [] scenario = "rate" ->
            OneBuyer /\ Len(pools) <= 1 /\ Offered \subseteq {Slow} /\ ~lowered
      [] scenario = "listings" ->
            /\ Len(pools) <= 1 /\ Offered \subseteq {Small} /\ ~lowered /\ Len(owner) <= 2
            /\ pools = <<>> => Untouched
            /\ pools # <<>> => allowance + Len(owner) = 5 /\ bought[1][alice] = 0
            /\ config.paused => now = 0
=============================================================================
