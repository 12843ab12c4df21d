----------------------------- MODULE MCAuction -----------------------------
(***************************************************************************)
(* One run, three bounded scenarios over the same constants; a behaviour   *)
(* stays in the scenario it starts in.                                     *)
(*   money    two bidders, two payment assets, refunds that cannot be      *)
(*            delivered, pauses, cancellations and a token that refuses;   *)
(*   time     one bidder who keeps raising, a clock, and setters used      *)
(*            while the auction is paused;                                 *)
(*   settles  one bidder and a token that may refuse for a while: the      *)
(*            auctions get settled.                                        *)
(***************************************************************************)
EXTENDS Auction

CONSTANTS b1, b2

VARIABLE scenario

Long == [duration |-> 2, reserve |-> 3, increment |-> 1, buffer |-> 1, asset |-> "usd"]
Short == [Long EXCEPT !.duration = 1, !.reserve = 2]
MCInitConfigs == {Long, Short}

MCNext ==
    \/ Bidding \/ Settling \/ Cancelling \/ Withdrawing \/ Pausing \/ Launching \/ Tick
    \/ Configuring /\ scenario # "settles"
    \/ TokenChanges /\ (scenario = "time" => ~live)

MCInit ==
    /\ scenario \in {"money", "time", "settles"}
    /\ Init
    /\ scenario = "money" <=> config = Short

MCSpec == MCInit /\ [][MCNext /\ UNCHANGED scenario]_<<vars, scenario>>
MCFairSpec == MCSpec /\ WF_vars(Tick) /\ WF_vars(Settling)

OneBidder ==
    /\ purse[b2] = [a \in Assets |-> Budget]
    /\ auction # NoAuction => auction.bid # 5

MCBound ==
    /\ admin = Treasury <=> live
    /\ CASE scenario = "money" ->
               /\ config = [Short EXCEPT !.asset = config.asset]
               /\ now <= 4
               /\ \A b \in Bidders, a \in Assets : purse[b][a] >= Budget - 5
               /\ auction # NoAuction => auction.bid \in {0, 2, 3, 5}
         [] scenario = "time" ->
               /\ live \/ now = 1
               /\ mayPass /\ (live => mayMint)
               /\ config.increment = 1 /\ config.reserve = 3 /\ config.asset = "usd"
               /\ OneBidder
               /\ now <= 6 /\ holder[2] = None
         [] scenario = "settles" -> OneBidder
=============================================================================
