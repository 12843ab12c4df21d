------------------------------ MODULE MCMember ------------------------------
(***************************************************************************)
(* What a member does in the web application, one run, six scenarios over  *)
(* the same constants; a behaviour stays in the scenario it starts in.     *)
(*   sale    one token is listed, sold, cancelled and listed again while a *)
(*           member prepares and signs a purchase or a listing and         *)
(*           governance changes the fee and the pause;                     *)
(*   cycle   the same token is listed twice on the same terms, in one      *)
(*           ledger or several, before a purchase lands;                   *)
(*   sells   a listing that stays on sale meets members who keep asking;   *)
(*   running a proposal draft is composed and reviewed while auctions run; *)
(*   paused  one is composed, reviewed and submitted while they are paused;*)
(*   draft   a draft of any calls, on any state of the tribe and of the    *)
(*           index, against its run by the Treasury.                       *)
(***************************************************************************)
EXTENDS ResaleTrade, ProposalDraft

CONSTANTS Forms, Values, MaxIds, MaxQueue, MaxUndos, MaxProposals

VARIABLES
    queue, edit, asked, undos, inflight, proposals, nextId,
    scenario

composerVars == <<queue, edit, asked, undos, inflight, proposals, nextId>>

Call(type, of, val) == [type |-> type, of |-> of, val |-> val]

(* Auctions run: Manage adds the auction setting between a pause and a      *)
(* resume, a pause alone, or the plain setting.                             *)
RunningKnown == [given |-> TRUE, paused |-> "off", recovery |-> "off", modules |-> {}]
RunningPlans ==
    {<<Call("pause-auction", "", 0), Call("setting", "price", 1), Call("unpause-auction", "", 0)>>,
     <<Call("pause-auction", "", 0)>>,
     <<Call("plain", "quorum", 1)>>}

(* Auctions are paused: Manage adds the setting alone, or with the resume.  *)
PausedKnown == [RunningKnown EXCEPT !.paused = "on"]
PausedPlans == {<<Call("setting", "price", 1)>>,
                <<Call("setting", "price", 2), Call("unpause-auction", "", 0)>>}

(* One call of each kind, and both positions of the recovery switch.        *)
MCCalls ==
    {Call("pause-auction", "", 0), Call("unpause-auction", "", 0),
     Call("setting", "price", 1), Call("cancel-auction", "", 0),
     Call("treasury-authorize", "", 0), Call("treasury-buy-listing", "", 0),
     Call("treasury-own", "", 0),
     Call("register-module", "m", 0), Call("unregister-module", "m", 0),
     Call("change-mint-allowance", "m", 1),
     Call("set-dao-recovery", "", 1), Call("set-dao-recovery", "", 0),
     Call("dao-transfer", "t", 0)}

MCForms == {[type |-> "setting", of |-> "price"], [type |-> "plain", of |-> "quorum"]}

Running == INSTANCE Composer WITH Known <- RunningKnown, Plans <- RunningPlans, MaxProposals <- 0
Paused == INSTANCE Composer WITH Known <- PausedKnown, Plans <- PausedPlans

Trading == {"sale", "cycle", "sells"}

NoDraft ==
    /\ known = [given |-> FALSE, paused |-> "unknown", recovery |-> "unknown", modules |-> {}]
    /\ contracts = [paused |-> FALSE, recovery |-> FALSE, modules |-> {}, trees |-> FALSE]

MCInit ==
    /\ scenario \in {"sale", "cycle", "sells", "running", "paused", "draft"}
    /\ TradeInit /\ Running!Init /\ DraftInit
    /\ scenario # "draft" => NoDraft
    /\ scenario \notin Trading => owner = CHOOSE a \in Accounts : TRUE
    /\ config.fee = 0

(* The last ledger of a scenario that trades.                               *)
Last == IF scenario = "cycle" THEN MaxLedger ELSE MaxLedger - 2

Trade ==
    \/ ledger < Last /\ Close
    \/ scenario = "sale" /\ SetTerms
    \/ CancelOrExpire \/ Index
    \/ \E a \in Accounts : List(a) \/ Buy(a)
    \/ \E a \in Traders :
        \/ AskToBuy(a) \/ ReadListing(a) \/ SimulateBuy(a) \/ Prove(a) \/ Recheck(a)
        \/ scenario = "sale" /\ (AskToList(a) \/ PrepareList(a))
        \/ txs = {} /\ SignTrade(a)
        \/ Leave(a)
    \/ \E tx \in txs : LandBuy(tx) \/ LandList(tx)

MCNext ==
    /\ UNCHANGED scenario
    /\ \/ scenario \in Trading /\ Trade /\ UNCHANGED <<composerVars, draftVars>>
       \/ scenario = "running" /\ Running!Next /\ UNCHANGED <<tradeVars, draftVars>>
       \/ scenario = "paused" /\ Paused!Next /\ UNCHANGED <<tradeVars, draftVars>>
       \/ scenario = "draft" /\ DraftNext /\ UNCHANGED <<tradeVars, composerVars>>

InSells(A) == scenario = "sells" /\ A

MCFairSpec ==
    /\ MCInit /\ [][MCNext]_<<tradeVars, composerVars, draftVars, scenario>>
    /\ WF_tradeVars(InSells(ledger < Last /\ Close)) /\ WF_tradeVars(InSells(Index))
    /\ WF_tradeVars(InSells(\E tx \in txs : LandBuy(tx)))
    /\ \A a \in Traders :
        /\ SF_tradeVars(InSells(AskToBuy(a)))
        /\ SF_tradeVars(InSells(ReadListing(a) /\ trade'[a].step = "read"))
        /\ SF_tradeVars(InSells(SimulateBuy(a) /\ trade'[a].step = "simulated" /\ trade'[a].at = Len(past)))
        /\ SF_tradeVars(InSells(Prove(a) /\ trade'[a].step = "proven"))
        /\ SF_tradeVars(InSells(Recheck(a) /\ trade'[a].step = "prepared"))
        /\ WF_tradeVars(InSells(txs = {} /\ SignTrade(a))) /\ WF_tradeVars(InSells(Progress(a)))
    /\ <>[][\A a \in Traders : Leave(a) => Progress(a) \/ SignTrade(a)]_tradeVars

(* A listing that stays on sale is bought.                                  *)
StaysOnSaleSells == scenario = "sells" => ~<>[]Steady(Last)

(* A draft is kept together, and edits and answers are about what the       *)
(* member meant them to be about.                                           *)
ComposerHolds ==
    CASE scenario = "running" -> Running!ComposerInv /\ Running!BundlesStayWhole
      [] scenario = "paused" -> Paused!ComposerInv
      [] OTHER -> TRUE
=============================================================================
