------------------------------ MODULE MCToken ------------------------------
(***************************************************************************)
(* One run, three bounded scenarios over the same constants; a behaviour   *)
(* stays in the scenario it starts in.                                     *)
(*   votes  minting, moving, delegating and (un)registering a module that  *)
(*          already holds tokens, over two ledgers;                        *)
(*   locks  one token: the transfer lock, approvals given before and after *)
(*          it, DAO recovery and transfer agents;                          *)
(*   mints  grants, saturating allowances, releases, the drive (admin      *)
(*          handed to the Treasury, still in Setup) and the launch grants. *)
(***************************************************************************)
EXTENDS Token

CONSTANTS w1, w2, m1

VARIABLE scenario

AllOff == [s \in SwitchNames |-> FALSE]
MCInitSettings == {AllOff}

MCNext ==
    \/ /\ scenario = "votes"
       /\ \/ Minting \/ Moving \/ Delegating \/ Administering \/ Launching
          \/ NextLedger
    \/ /\ scenario = "locks"
       /\ \/ Minting \/ Moving \/ Approving \/ Administering \/ Switching
          \/ Launching \/ NextLedger
    \/ /\ scenario = "mints"
       /\ Minting \/ Administering \/ Releasing \/ Switching \/ Launching

MCInit == scenario \in {"votes", "locks", "mints"} /\ Init
MCSpec == MCInit /\ [][MCNext /\ UNCHANGED scenario]_<<vars, scenario>>

Unapproved ==
    /\ \A t \in TokenIds : approval[t] = NoApproval
    /\ \A a \in Addresses, s \in Spenders : operators[a][s] = 0
NotAMinter == modules[m1].kind # "claims"
NoGrants == \A m \in Contracts : allowance[m] = 0
OnlySelfDelegation == \A a \in Addresses : delegatee[a] \in {None, a}
LaunchedAtOnce == (admin = Treasury <=> live) /\ (live \/ ledger = 1)

MCBound ==
    CASE scenario = "votes" ->
            /\ LaunchedAtOnce /\ NotAMinter /\ NoGrants /\ Unapproved
            /\ settings = AllOff /\ agents = {}
      [] scenario = "locks" ->
            /\ LaunchedAtOnce /\ NotAMinter /\ NoGrants /\ OnlySelfDelegation
            /\ Registered(m1) => modules[m1].nonVoting
            /\ minted <= 1
            /\ \A a \in Addresses, s \in Spenders :
                  operators[a][s] > 0 => a = w1 /\ s = w2
      [] scenario = "mints" ->
            /\ OnlySelfDelegation /\ Unapproved
            /\ ledger = 1
            /\ \A t \in TokenIds : owner[t] \in {None, w1}
            /\ ~settings["transfers_locked"]
=============================================================================
