------------------------------ MODULE Treasury ------------------------------
(***************************************************************************)
(* The Treasury (src/contracts/treasury) composed with the Governor: the   *)
(* only way a live DAO acts.  Anyone may call execute; the Governor marks  *)
(* the proposal executed, and the Treasury then dispatches its actions in  *)
(* order.  If one fails the transaction fails and nothing has happened, so *)
(* the proposal is still Queued; Execute is enabled when all succeed.      *)
(*                                                                         *)
(* A definition named Faulty... is the one after it with a plausible fault *)
(* seeded, to see that the properties notice; nothing uses it.             *)
(***************************************************************************)
EXTENDS Governor, SequencesExt

CONSTANTS
    Callees,        \* calls to other contracts; each may succeed or fail
    Trees,          \* authorization trees for calls deeper in the call stack
    BadTrees,       \* those that are malformed, too deep or too large
    Hashes,         \* Treasury implementations
    Layout,         \* the STORAGE_VERSION of each
    Approved,       \* upgrades the Manager's registry approves
    ActionLists     \* the actions a proposal may carry

\* What a proposal can ask for.  `needs' are the trees a call relies on.
Actions ==
       [kind : {"set"}, name : {"votingDelay", "votingPeriod", "queueDelay",
                                "threshold", "quorumBps"}, value : Nat]
  \cup [kind : {"call"}, callee : Callees, needs : SUBSET Trees]
  \cup [kind : {"authorize"}, trees : SUBSET (Trees \cup BadTrees)]
  \cup [kind : {"upgrade"}, from : Hashes, to : Hashes]
  \cup [kind : {"migrate", "unknown"}]

ASSUME TreasuryAssumption ==
    /\ LaunchAdmin # Treasury       \* who signs create_dao, before it is deployed
    /\ Layout \in [Hashes -> Nat]
    /\ Approved \subseteq Hashes \X Hashes
    /\ ActionLists \subseteq Seq(Actions)

VARIABLES
    actions,        \* [Ids -> ActionLists]: what each id is the hash of
    hash, layout,   \* CurrentHash and StorageVersion
    calls           \* history: the external calls made, with their authority

treasuryVars == <<hash, layout, calls>>
allVars == <<vars, actions, treasuryVars>>

External(a) == a.kind \in {"set", "call"}
NothingPending == {}

TreasuryTypeOK ==
    /\ TypeOK
    /\ actions \in [Ids -> ActionLists]
    /\ hash \in Hashes
    /\ layout \in Nat
    /\ calls \in Seq([id : Ids, action : {a \in Actions : External(a)},
                      trees : SUBSET Trees])

TreasuryInit ==
    /\ Init
    /\ actions \in [Ids -> ActionLists]
    /\ hash \in Hashes
    /\ layout = Layout[hash]
    /\ calls = <<>>

-----------------------------------------------------------------------------
(* execute: the state of a run is what its actions have done so far.       *)

\* auth_entries: one non-empty list of trees, each within the limits.
ValidTrees(trees) == trees # {} /\ trees \subseteq Trees

\* The next state of the run, by the kind of the action; `broken' are the
\* calls that fail for reasons of their own.
Dispatch(run, a, id, broken) ==
    CASE a.kind = "authorize" ->
            [run EXCEPT !.ok = @ /\ run.pending = NothingPending /\ ValidTrees(a.trees),
                        !.pending = a.trees]
      [] a.kind = "upgrade" ->
            [run EXCEPT !.ok = @ /\ run.pending = NothingPending
                                 /\ a.from = run.hash /\ <<a.from, a.to>> \in Approved,
                        !.hash = a.to]
      [] a.kind = "migrate" ->      \* the code still running is the old one
            [run EXCEPT !.ok = @ /\ run.pending = NothingPending
                                 /\ run.layout < Layout[hash],
                        !.layout = Layout[hash]]
      [] a.kind = "unknown" -> [run EXCEPT !.ok = FALSE]
      [] External(a) ->
            LET works == IF a.kind = "set" THEN MaySet(run.settings, a.name, a.value)
                         ELSE a.callee \notin broken /\ a.needs \subseteq run.pending
            IN  [run EXCEPT !.ok = @ /\ works,
                            !.settings = IF a.kind = "set"
                                           THEN [@ EXCEPT ![a.name] = a.value] ELSE @,
                            !.calls = Append(@, [id |-> id, action |-> a,
                                                 trees |-> run.pending]),
                            !.pending = NothingPending]

FaultyThen(before, after) == IF after.ok THEN after ELSE before     \* skips what fails

\* One failing action fails the execution.
Then(before, after) == IF before.ok THEN after ELSE before

\* The actions in order, until one fails.
Run(id, list, broken) ==
    LET after[n \in 0 .. Len(list)] ==
            IF n = 0
            THEN [ok |-> TRUE, pending |-> NothingPending, settings |-> settings,
                  hash |-> hash, layout |-> layout, calls |-> calls]
            ELSE LET before == after[n - 1]
                 IN  Then(before, Dispatch(before, list[n], id, broken))
    IN  after[Len(list)]

Execute(id) ==
    /\ MarkExecuted(id)
    /\ \E broken \in SUBSET Callees :
          LET run == Run(id, actions[id], broken)
          IN  /\ run.ok
              /\ run.pending = NothingPending
              /\ settings' = run.settings
              /\ hash' = run.hash
              /\ layout' = run.layout
              /\ calls' = run.calls
    /\ UNCHANGED <<tokenVars, now, phaseVars, actions>>

\* upgrade and migrate called from outside need the admin: the launch admin
\* during setup, and nobody once the Treasury is its own admin.
Upgrade(caller, from, to) ==
    /\ caller = admin
    /\ caller # Treasury
    /\ from = hash
    /\ <<from, to>> \in Approved
    /\ hash' = to
    /\ UNCHANGED <<vars, actions, layout, calls>>

Migrate(caller) ==
    /\ caller = admin
    /\ caller # Treasury
    /\ layout < Layout[hash]
    /\ layout' = Layout[hash]
    /\ UNCHANGED <<vars, actions, hash, calls>>

-----------------------------------------------------------------------------
Executing == \E id \in Ids : Execute(id)
SettingUp == \E name \in DOMAIN settings :
                \E value \in Values(name) : SetParameter(LaunchAdmin, name, value)
Upgrading == \E from, to \in Hashes : Upgrade(LaunchAdmin, from, to)
Migrating == Migrate(LaunchAdmin)

Governing ==
    /\ \/ Proposing \/ Voting \/ Queueing \/ Cancelling
       \/ SettingUp \/ Launching \/ Reassign \/ NextLedger
    /\ UNCHANGED <<actions, treasuryVars>>

TreasuryNext == Governing \/ Executing \/ Upgrading \/ Migrating

TreasurySpec == TreasuryInit /\ [][TreasuryNext]_allVars

-----------------------------------------------------------------------------
(* Properties.                                                             *)

CallsOf(id) == {n \in DOMAIN calls : calls[n].id = id}

\* The trees voted for a call: those of the `authorize' directly before it.
TreesFor(list, i) ==
    IF i > 1 /\ list[i - 1].kind = "authorize" THEN list[i - 1].trees ELSE NothingPending

\* What a list of actions amounts to: `at' says where each call is to be found.
Performed(id, list) ==
    LET voted == {i \in DOMAIN list : External(list[i])}
    IN  \E at \in [voted -> CallsOf(id)] :
          /\ \A n \in CallsOf(id) : \E i \in voted : at[i] = n
          /\ \A i, j \in voted : i < j => at[i] < at[j]
          /\ \A i \in voted : calls[at[i]] =
                [id |-> id, action |-> list[i], trees |-> TreesFor(list, i)]

\* The Treasury's authority is used exactly as voted: an executed proposal has
\* made all its calls, once, in order, each with the trees voted for that call
\* and no others; any other proposal has made none.
ActsExactlyAsVoted ==
    \A id \in Ids :
        IF Proposed(id) /\ proposal[id].state = "Executed"
        THEN Performed(id, actions[id]) ELSE CallsOf(id) = {}

\* A live DAO changes its parameters and its Treasury's code only by executing
\* a proposal that says so.
ByProposal ==
    live /\ <<settings, hash, layout>>' # <<settings, hash, layout>> =>
        \E id \in Ids :
            /\ ProposalState(id) = "Queued"
            /\ proposal'[id].state = "Executed"
            /\ \A name \in DOMAIN settings : settings'[name] # settings[name] =>
                  \E i \in DOMAIN actions[id] :
                     /\ actions[id][i].kind = "set"
                     /\ actions[id][i].name = name
                     /\ actions[id][i].value = settings'[name]
            /\ hash' # hash => \E i \in DOMAIN actions[id] :
                                  /\ actions[id][i].kind = "upgrade"
                                  /\ actions[id][i].to = hash'
            /\ layout' # layout => \E i \in DOMAIN actions[id] :
                                      actions[id][i].kind = "migrate"

\* "A governance upgrade proposal runs upgrade then migrate as consecutive
\* actions" (docs/SECURITY_MODEL.md), for the Treasury's own upgrade: such a
\* proposal, queued, ready and on an approved path to a newer layout, can run.
UpgradeThenMigrate ==
    \A id \in Ids, to \in Hashes :
        (/\ ProposalState(id) = "Queued" /\ now >= proposal[id].eta
         /\ actions[id] = <<[kind |-> "upgrade", from |-> hash, to |-> to],
                            [kind |-> "migrate"]>>
         /\ <<hash, to>> \in Approved /\ layout < Layout[to])
        => Run(id, actions[id], {}).ok
=============================================================================
