---------------------------- MODULE MCGovernance ----------------------------
(***************************************************************************)
(* One run, four bounded scenarios over the same constants; a behaviour    *)
(* stays in the scenario it starts in.                                     *)
(*   votes  one proposal, two voters: tokens are moved and delegated       *)
(*          before and while it is voted on;                               *)
(*   life   two proposals pass through notice, vote, queue, execution and  *)
(*          expiry, over early and late ledgers, while delays are changed; *)
(*   ends   the network closes ledgers and nobody has to do anything else. *)
(*          There are ledgers enough for a proposal made in the last       *)
(*          allowed one to be queued and to expire at the last moment:     *)
(*          2 + 1 + 1 + 2 + 2 + 2 = 10;                                    *)
(*   acts   the Treasury executes one proposal, with every list of at most *)
(*          three actions out of a set with every kind, the failing ones   *)
(*          included.                                                      *)
(***************************************************************************)
EXTENDS MCTreasury

CONSTANTS w2

VARIABLE scenario

Shared == [votingDelay |-> 1, votingPeriod |-> 1, queueDelay |-> 2, threshold |-> 1,
           quorumBps |-> 2]
MCSettings ==
    [votes |-> [Shared EXCEPT !.votingPeriod = 2, !.queueDelay = 1],
     life |-> Shared, ends |-> Shared,
     acts |-> [Shared EXCEPT !.queueDelay = 1]]
MCAllSettings == {MCSettings[s] : s \in DOMAIN MCSettings}

Idle == <<[kind |-> "migrate"]>>

MCInit ==
    /\ scenario \in {"votes", "life", "ends", "acts"}
    /\ Init /\ settings = MCSettings[scenario]
    /\ \E list \in IF scenario = "acts" THEN ActionLists ELSE {Idle} :
            actions = [id \in Ids |-> IF id = "p" THEN list ELSE Idle]
    /\ hash \in IF scenario = "acts" THEN Hashes ELSE {"v1"}
    /\ layout = Layout[hash] /\ calls = <<>>

GovernorNext ==
    /\ scenario # "acts"
    /\ \/ Proposing \/ Voting \/ Queueing \/ Consuming \/ Cancelling \/ Launching
       \/ Setting /\ scenario # "ends"
       \/ Reassign /\ (scenario = "votes" \/ ledger = 1)
       \/ NextLedger
    /\ UNCHANGED <<actions, treasuryVars>>

ActsNext ==
    /\ scenario = "acts"
    /\ \/ /\ \/ Proposing /\ ledger <= 2
             \/ Voting \/ Queueing \/ Cancelling \/ SettingUp \/ Launching \/ NextLedger
             \/ Reassign /\ ledger = 1
          /\ UNCHANGED <<actions, treasuryVars>>
       \/ Executing \/ Upgrading \/ Migrating

MCFairSpec ==
    /\ MCInit
    /\ [][(GovernorNext \/ ActsNext) /\ UNCHANGED scenario]_<<allVars, scenario>>
    /\ WF_allVars(NextLedger /\ UNCHANGED <<actions, treasuryVars>>)

EarlyLedgers == now = ledger - 1
\* The ids are interchangeable: p is the first one used.
FirstIsP == Proposed("q") => Proposed("p")
OneToken == voter[0] # w2 /\ voter[1] = NoVoter
EarlyLaunch == (admin = Treasury <=> live) /\ (live \/ ledger = 1)
JustP == proposal["q"] = NoProposal

MCScenarioBound ==
    CASE scenario = "votes" ->
            /\ EarlyLaunch /\ JustP /\ ledger <= 5 /\ EarlyLedgers
            /\ settings.votingDelay = 1 /\ settings.votingPeriod = 2
            /\ settings.queueDelay = 1
      [] scenario = "life" ->
            /\ live \/ ledger = 1
            /\ ledger <= 6 /\ OneToken /\ FirstIsP
            /\ settings.votingDelay = 1 /\ settings.quorumBps = 2
      [] scenario = "ends" -> EarlyLedgers /\ OneToken /\ FirstIsP
      [] scenario = "acts" ->
            /\ EarlyLaunch /\ JustP /\ ledger <= 5 /\ EarlyLedgers /\ OneToken
            /\ live => supply = 1
            /\ hasVoted["p"] \subseteq {w1}
            /\ settings.votingDelay = 1 /\ settings.votingPeriod = 1
            /\ settings.quorumBps = 2 /\ (live \/ settings.queueDelay = 1)

\* Where the Treasury is modelled, it is the only one to act for a live DAO:
\* parameters and its code change only as an executed proposal says.
OnlyByProposal == [][scenario = "acts" => ByProposal]_allVars
=============================================================================
