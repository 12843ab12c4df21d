------------------------------ MODULE Governor ------------------------------
(***************************************************************************)
(* The DAO's Governor (src/contracts/governor): proposals, votes, and the  *)
(* clock that moves a proposal from notice to vote, queue and execution.   *)
(* The token it asks for votes is the abstract one of VotingPower.tla,     *)
(* which Token.tla implements: between any two calls of the Governor the   *)
(* members may mint, move and delegate as they like.                       *)
(*                                                                         *)
(* A proposal's state is mostly not stored.  It is computed from the time, *)
(* the tally and the little that is stored, whenever somebody asks.        *)
(*                                                                         *)
(* A definition named Faulty... is the one after it with a plausible fault *)
(* seeded, to see that the properties notice; nothing uses it.             *)
(***************************************************************************)
EXTENDS Integers, FiniteSets, Sequences

CONSTANTS
    Voters, TokenIds, NoVoter, MaxLedger,       \* see VotingPower
    Treasury, Manager, LaunchAdmin,
    Ids,                \* proposal ids: hashes of what is proposed
    BPS,                \* BPS_DENOMINATOR
    ExpirationPeriod,   \* PROPOSAL_EXPIRATION_PERIOD
    MinDelay, MaxDelay, \* MIN_/MAX_ GOVERNANCE_DELAY
    \* Inputs the environment may use, and bounds on the exploration.
    TimeSteps,          \* seconds between two ledgers
    Delays,             \* delays passed to the setters
    Thresholds,         \* proposal thresholds passed to the setter
    QuorumRates,        \* quorum rates passed to the setter
    InitSettings,       \* parameters a Governor may be deployed with
    LastReassign,       \* bound: the last ledger tokens are moved in
    LastPropose         \* bound: the last ledger proposals are made in

\* validate_params.
ValidSettings ==
    [votingDelay : MinDelay .. MaxDelay, votingPeriod : MinDelay .. MaxDelay,
     queueDelay : MinDelay .. MaxDelay, threshold : Nat \ {0},
     quorumBps : 1 .. BPS]

ASSUME GovernorAssumption ==
    /\ IsFiniteSet(TokenIds)
    /\ NoVoter \notin Voters
    /\ MaxLedger \in Nat \ {0}
    /\ BPS \in Nat \ {0}
    /\ ExpirationPeriod \in Nat \ {0}
    /\ MinDelay \in Nat \ {0}
    /\ MaxDelay \in Nat
    /\ TimeSteps \subseteq Nat \ {0}
    /\ Delays \subseteq Nat
    /\ Thresholds \subseteq Nat
    /\ QuorumRates \subseteq Nat
    /\ InitSettings \subseteq ValidSettings

VARIABLES
    voter, votes, supply, ledger, closed,       \* see VotingPower
    now,            \* timestamp of the current ledger
    live, admin,    \* Setup / Live, and the module admin
    settings,       \* governance parameters
    proposal,       \* [Ids -> Proposals \cup {NoProposal}]
    proposalCount,  \* proposals created so far
    tally,          \* [Ids -> votes against, for and abstaining]
    hasVoted        \* [Ids -> who has voted]

VP == INSTANCE VotingPower

tokenVars == <<voter, votes, supply, ledger, closed>>
phaseVars == <<live, admin>>
proposalVars == <<proposal, proposalCount, tally, hasVoted>>
vars == <<tokenVars, now, phaseVars, settings, proposalVars>>

VoteTypes == {"against", "for", "abstain"}
Proposals ==
    [proposer : Voters, snapshot : Nat, start : Nat, end : Nat, eta : Nat,
     state : {"Pending", "Queued", "Canceled", "Executed"}, quorum : Nat, seq : Nat]
NoProposal == [state |-> "None"]
NoVotes == [v \in VoteTypes |-> 0]

TypeOK ==
    /\ VP!TypeOK
    /\ now \in Nat
    /\ live \in BOOLEAN
    /\ admin \in {LaunchAdmin, Treasury}
    /\ settings \in ValidSettings
    /\ proposal \in [Ids -> Proposals \cup {NoProposal}]
    /\ proposalCount \in Nat
    /\ tally \in [Ids -> [VoteTypes -> Nat]]
    /\ hasVoted \in [Ids -> SUBSET Voters]

Init ==
    /\ VP!Init
    /\ now = 0
    /\ live = FALSE
    /\ admin = LaunchAdmin
    /\ settings \in InitSettings
    /\ proposal = [id \in Ids |-> NoProposal]
    /\ proposalCount = 0
    /\ tally = [id \in Ids |-> NoVotes]
    /\ hasVoted = [id \in Ids |-> {}]

-----------------------------------------------------------------------------
(* Reading a proposal.                                                     *)

Proposed(id) == proposal[id] # NoProposal

\* quorum_of: the rate applied to a supply, rounded up.
QuorumOf(s, bps) == IF s = 0 THEN 0 ELSE (s * bps + BPS - 1) \div BPS

\* quorum_now: from the supply at the ledger the votes are taken at
\* (the token's voting_supply_at_previous_ledger).
QuorumNow == QuorumOf(VP!SupplyAt(ledger - 1), settings.quorumBps)

Passed(id) ==
    /\ tally[id]["for"] + tally[id]["abstain"] >= proposal[id].quorum
    /\ tally[id]["for"] > tally[id]["against"]

FaultyExpired(since) == FALSE

\* What passed or was queued then can no longer be taken further.
Expired(since) == now >= since + ExpirationPeriod

\* proposal_state_internal; "None" where the call finds no proposal.
ProposalState(id) ==
    LET p == proposal[id]
    IN  CASE p.state \in {"None", "Canceled", "Executed"} -> p.state
          [] p.state = "Queued" ->
                IF Expired(p.eta) THEN "Expired" ELSE "Queued"
          [] p.state = "Pending" ->
                IF now < p.start THEN "Pending"
                ELSE IF now < p.end THEN "Active"
                ELSE IF ~Passed(id) THEN "Defeated"
                ELSE IF Expired(p.end) THEN "Expired"
                ELSE "Succeeded"

-----------------------------------------------------------------------------
(* A proposal's life.                                                      *)

Propose(id, proposer) ==
    /\ ledger <= LastPropose                \* bound
    /\ live
    /\ VP!VotesAt(proposer, ledger - 1) >= settings.threshold
    /\ ~Proposed(id)
    /\ LET start == now + settings.votingDelay
       IN  proposal' = [proposal EXCEPT ![id] =
             [proposer |-> proposer, snapshot |-> ledger - 1,
              start |-> start, end |-> start + settings.votingPeriod,
              eta |-> 0, state |-> "Pending", quorum |-> QuorumNow,
              seq |-> proposalCount]]
    /\ proposalCount' = proposalCount + 1
    /\ UNCHANGED <<tokenVars, now, phaseVars, settings, tally, hasVoted>>

FaultyCountVote(id, account, type, weight) ==   \* as often as one likes
    /\ hasVoted' = [hasVoted EXCEPT ![id] = @ \cup {account}]
    /\ tally' = [tally EXCEPT ![id][type] = @ + weight]

\* The library's count_vote: one vote an account, added to its kind.
CountVote(id, account, type, weight) ==
    /\ account \notin hasVoted[id]
    /\ hasVoted' = [hasVoted EXCEPT ![id] = @ \cup {account}]
    /\ tally' = [tally EXCEPT ![id][type] = @ + weight]

CastVote(id, account, type) ==
    /\ live
    /\ ProposalState(id) = "Active"
    /\ LET weight == VP!VotesAt(account, proposal[id].snapshot)
       IN  /\ weight > 0
           /\ CountVote(id, account, type, weight)
    /\ UNCHANGED <<tokenVars, now, phaseVars, settings, proposal, proposalCount>>

FaultyQueue(id) ==          \* as soon as the votes are there
    /\ live /\ ProposalState(id) \in {"Active", "Succeeded"} /\ Passed(id)
    /\ proposal' = [proposal EXCEPT ![id].eta = now + settings.queueDelay,
                                    ![id].state = "Queued"]
    /\ UNCHANGED <<tokenVars, now, phaseVars, settings, proposalCount, tally, hasVoted>>

\* Anyone may queue; the delay is the one in force now.
Queue(id) ==
    /\ live
    /\ ProposalState(id) = "Succeeded"
    /\ proposal' = [proposal EXCEPT ![id].eta = now + settings.queueDelay,
                                    ![id].state = "Queued"]
    /\ UNCHANGED <<tokenVars, now, phaseVars, settings, proposalCount, tally, hasVoted>>

FaultyMarkExecuted(id) ==   \* without waiting for eta
    /\ live /\ ProposalState(id) = "Queued"
    /\ proposal' = [proposal EXCEPT ![id].state = "Executed"]
    /\ UNCHANGED <<proposalCount, tally, hasVoted>>

\* What consume does to the proposals; only the Treasury's execute calls it.
MarkExecuted(id) ==
    /\ live
    /\ ProposalState(id) = "Queued"
    /\ now >= proposal[id].eta
    /\ proposal' = [proposal EXCEPT ![id].state = "Executed"]
    /\ UNCHANGED <<proposalCount, tally, hasVoted>>

Consume(caller, id) ==
    /\ caller = Treasury
    /\ MarkExecuted(id)
    /\ UNCHANGED <<tokenVars, now, phaseVars, settings>>

FaultyCancel(id, operator) ==   \* after the vote, too
    /\ Proposed(id) /\ operator = proposal[id].proposer
    /\ ProposalState(id) \in {"Pending", "Active", "Succeeded"}
    /\ proposal' = [proposal EXCEPT ![id].state = "Canceled"]
    /\ UNCHANGED <<tokenVars, now, phaseVars, settings, proposalCount, tally, hasVoted>>

\* Not gated on Live.
Cancel(id, operator) ==
    /\ Proposed(id)
    /\ operator = proposal[id].proposer
    /\ ProposalState(id) \in {"Pending", "Active"}
    /\ proposal' = [proposal EXCEPT ![id].state = "Canceled"]
    /\ UNCHANGED <<tokenVars, now, phaseVars, settings, proposalCount, tally, hasVoted>>

-----------------------------------------------------------------------------
(* Parameters and launch.                                                  *)

\* The five setters, and the check each makes; the threshold's also looks at
\* the current voting supply.
MaySet(s, name, value) ==
    /\ [s EXCEPT ![name] = value] \in ValidSettings
    /\ name = "threshold" => supply = 0 \/ value <= supply

FaultySetParameter(caller, name, value) ==      \* by anyone
    /\ MaySet(settings, name, value)
    /\ settings' = [settings EXCEPT ![name] = value]
    /\ UNCHANGED <<tokenVars, now, phaseVars, proposalVars>>

SetParameter(caller, name, value) ==
    /\ caller = admin
    /\ MaySet(settings, name, value)
    /\ settings' = [settings EXCEPT ![name] = value]
    /\ UNCHANGED <<tokenVars, now, phaseVars, proposalVars>>

Handoff(caller, to) ==
    /\ caller = Manager
    /\ ~live
    /\ to = Treasury
    /\ admin' = to
    /\ UNCHANGED <<tokenVars, now, live, settings, proposalVars>>

Launch(caller, to) ==
    /\ caller = Manager
    /\ ~live
    /\ to = Treasury
    /\ live' = TRUE
    /\ admin' = to
    /\ UNCHANGED <<tokenVars, now, settings, proposalVars>>

-----------------------------------------------------------------------------
(* The rest of the system.                                                 *)

\* Members mint, move and delegate.
Reassign ==
    /\ ledger <= LastReassign               \* bound
    /\ VP!Reassign
    /\ UNCHANGED <<now, phaseVars, settings, proposalVars>>

\* Each ledger is later than the one before.
NextLedger ==
    /\ VP!CloseLedger
    /\ \E d \in TimeSteps : now' = now + d
    /\ UNCHANGED <<phaseVars, settings, proposalVars>>

\* The Treasury acts only once it is live, together with the Governor.
Callers == {Manager, LaunchAdmin} \cup IF live THEN {Treasury} ELSE {}

\* The values each setter is called with.
Values(name) ==
    CASE name = "threshold" -> Thresholds
      [] name = "quorumBps" -> QuorumRates
      [] OTHER -> Delays

Proposing == \E id \in Ids, proposer \in Voters : Propose(id, proposer)
Voting == \E id \in Ids, account \in Voters, type \in VoteTypes : CastVote(id, account, type)
Queueing == \E id \in Ids : Queue(id)
Consuming == \E caller \in Callers, id \in Ids : Consume(caller, id)
Cancelling == \E id \in Ids, operator \in Voters : Cancel(id, operator)
Setting ==
    \E caller \in Callers, name \in DOMAIN settings :
        \E value \in Values(name) : SetParameter(caller, name, value)
Launching == \E caller \in Callers : Handoff(caller, Treasury) \/ Launch(caller, Treasury)

Next ==
    \/ Proposing \/ Voting \/ Queueing \/ Consuming \/ Cancelling
    \/ Setting \/ Launching
    \/ Reassign \/ NextLedger

Spec == Init /\ [][Next]_vars

\* The network keeps closing ledgers; nobody has to call the Governor.
FairSpec == Spec /\ WF_vars(NextLedger)

-----------------------------------------------------------------------------
(* Properties.                                                             *)

VotesCast(id) == tally[id]["against"] + tally[id]["for"] + tally[id]["abstain"]

\* However tokens are moved or delegated during a vote, the votes counted on a
\* proposal never exceed the voting supply its snapshot ledger closed with.
TallyWithinSnapshot ==
    \A id \in Ids : Proposed(id) => VotesCast(id) <= VP!SupplyAt(proposal[id].snapshot)

\* A proposal's quorum can be reached by the votes of its own snapshot, and is
\* not zero when there are any: supply and votes are of the same ledger.
QuorumReachable ==
    \A id \in Ids : Proposed(id) =>
        LET s == VP!SupplyAt(proposal[id].snapshot)
        IN  proposal[id].quorum <= s /\ (s > 0 => proposal[id].quorum > 0)

\* What is queued or executed has passed its vote, and still has: nothing
\* after the voting period, and no later parameter, changes the outcome.
OnlyPassedProceed ==
    \A id \in Ids : Proposed(id) /\ proposal[id].state \in {"Queued", "Executed"} =>
        /\ now >= proposal[id].end
        /\ Passed(id)

\* Members get their notice: a vote is open for at least MIN_VOTING_PERIOD, and
\* nothing executes before MIN_QUEUE_DELAY has passed since the vote closed,
\* whatever the parameters were changed to in between.
NoticeGiven ==
    \A id \in Ids : Proposed(id) =>
        /\ proposal[id].end >= proposal[id].start + MinDelay
        /\ proposal[id].state = "Executed" => now >= proposal[id].end + MinDelay

\* The inductive invariant of the proofs.  Every closed ledger is a recount of
\* some assignment of tokens to voters; of the snapshot's assignment, the votes
\* cast on a proposal are exactly the tokens of those who have voted.
IsRecount(v, l) ==
    /\ \A a \in Voters : VP!VotesAt(a, l) = VP!VotesIn(v)[a]
    /\ VP!SupplyAt(l) = VP!SupplyIn(v)

HistoryIsRecounts ==
    /\ votes = VP!VotesIn(voter) /\ supply = VP!SupplyIn(voter)
    /\ \A l \in 1 .. ledger - 1 : \E v \in VP!Assignments : IsRecount(v, l)

TallyIsRecount ==
    \A id \in Ids : Proposed(id) =>
        \E v \in VP!Assignments :
            /\ IsRecount(v, proposal[id].snapshot)
            /\ VotesCast(id) = Cardinality({t \in TokenIds : v[t] \in hasVoted[id]})

VotesInTime ==
    \A id \in Ids :
        /\ ~Proposed(id) => tally[id] = NoVotes /\ hasVoted[id] = {}
        /\ Proposed(id) => /\ proposal[id].snapshot < ledger
                           /\ now < proposal[id].start => tally[id] = NoVotes

ScheduleKept ==
    \A id \in Ids : Proposed(id) =>
        LET p == proposal[id]
        IN  /\ p.end >= p.start + MinDelay
            /\ p.state \in {"Queued", "Executed"} => p.eta >= p.end + MinDelay
            /\ p.state = "Executed" => now >= p.eta

IndInv ==
    /\ TypeOK
    /\ HistoryIsRecounts /\ TallyIsRecount /\ VotesInTime /\ ScheduleKept
    /\ QuorumReachable /\ OnlyPassedProceed

\* No proposal stays open or executable for ever: each one ends Executed,
\* Canceled, Defeated or Expired, even if nobody ever touches it again.
FinalStates == {"Executed", "Canceled", "Defeated", "Expired"}
EveryProposalEnds ==
    \A id \in Ids : Proposed(id) ~> ProposalState(id) \in FinalStates

\* The published life of a proposal (ProposalLife.tla), whatever is called
\* when: time, votes, queueing and parameter changes only move it along.
Life == INSTANCE ProposalLife WITH state <- [id \in Ids |-> ProposalState(id)]
FollowsLife == Life!Spec
=============================================================================
