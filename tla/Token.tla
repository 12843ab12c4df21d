------------------------------- MODULE Token -------------------------------
(***************************************************************************)
(* The DAO's membership token (src/contracts/token): a sequential NFT in   *)
(* which each token is one vote.  The module follows the contract: who may *)
(* mint, who may move a token, who its vote is counted for, and how the    *)
(* registry of modules, the mint allowances and the membership switches    *)
(* change that.  Vote checkpoints and NFT ownership come from libraries    *)
(* outside the repository and are modelled from how the contract uses them.*)
(*                                                                         *)
(* A call that panics reverts as a whole, so an action is enabled exactly  *)
(* when the call succeeds.                                                 *)
(*                                                                         *)
(* A definition named Faulty... is the one after it with a plausible fault *)
(* seeded, to see that the properties notice; nothing uses it.             *)
(***************************************************************************)
EXTENDS Integers, FiniteSets, Sequences

CONSTANTS
    Wallets,        \* ordinary accounts
    Contracts,      \* deployed Wasm contracts that may be registered as modules
    Treasury, Manager, LaunchAdmin,
    None,           \* no address
    Kinds,          \* module kinds; "claims" is the one that mints before launch
    Unlimited,      \* u32::MAX, the allowance that is never spent
    MaxModules,     \* modules::MAX_MODULES
    \* Inputs the environment may use, and bounds on the exploration.
    MaxTokens,      \* tokens minted
    MaxLedger,      \* ledgers built
    BatchSizes,     \* sizes of batch_mint
    Recipients,     \* addresses tokens are minted or moved to
    Delegators,     \* accounts that call delegate
    Delegatees,     \* addresses they delegate to
    Spenders,       \* addresses that are approved for a token or for all
    Amounts,        \* amounts allowances change by
    Switches,       \* membership switches that are toggled
    InitSettings    \* settings a DAO may be created with

Addresses == Wallets \cup Contracts \cup {Treasury, LaunchAdmin}
TokenIds == 0 .. MaxTokens - 1
Allowances == 0 .. Unlimited
SwitchNames == {"transfers_locked", "members_only_delegation", "dao_recovery"}
Settings == [SwitchNames -> BOOLEAN]

ASSUME TokenAssumption ==
    /\ None \notin Addresses
    /\ Manager \notin Addresses
    /\ IsFiniteSet(Addresses)
    /\ Treasury \notin Wallets \cup Contracts \cup {LaunchAdmin}
    /\ MaxTokens \in Nat \ {0}
    /\ MaxLedger \in Nat \ {0}
    /\ Unlimited \in Nat \ {0}
    /\ MaxModules \in Nat
    /\ BatchSizes \subseteq Nat \ {0}
    /\ Amounts \subseteq 0 .. Unlimited
    /\ Recipients \subseteq Addresses
    /\ Delegators \subseteq Addresses
    /\ Delegatees \subseteq Addresses
    /\ Spenders \subseteq Addresses
    /\ Switches \subseteq SwitchNames
    /\ InitSettings \subseteq Settings

VARIABLES
    live, admin,    \* Setup / Live, and the module admin
    settings,       \* the three membership switches
    modules,        \* [Contracts -> Entries \cup {NotRegistered}]
    agents,         \* transfer agents
    allowance,      \* mint allowance of each contract
    owner,          \* [TokenIds -> Addresses \cup {None}]
    minted,         \* next token id
    balance,        \* tokens per address, kept beside `owner'
    approval,       \* single-token approvals
    operators,      \* approve_for_all: until which ledger, 0 for none
    delegatee,      \* who an account's units vote through
    units,          \* voting units per account
    ckpts,          \* vote checkpoints per delegatee
    supplyCkpts,    \* TotalSupply checkpoints
    ledger          \* current ledger sequence number

phaseVars == <<live, admin>>
registryVars == <<modules, agents, allowance>>
nftVars == <<owner, minted, balance>>
approvalVars == <<approval, operators>>
voteVars == <<delegatee, units, ckpts, supplyCkpts>>
vars == <<phaseVars, settings, registryVars, nftVars, approvalVars, voteVars,
          ledger>>

NotRegistered == [kind |-> "none", nonVoting |-> FALSE]
NoApproval == [spender |-> None, until |-> 0]
Entries == [kind : Kinds, nonVoting : BOOLEAN]
Approvals == [spender : Spenders, until : 1 .. MaxLedger]
Checkpoint == [ledger : 1 .. MaxLedger, votes : Nat]

TypeOK ==
    /\ live \in BOOLEAN
    /\ admin \in {LaunchAdmin, Treasury}
    /\ settings \in Settings
    /\ modules \in [Contracts -> Entries \cup {NotRegistered}]
    /\ agents \subseteq Contracts
    /\ allowance \in [Contracts -> Allowances]
    /\ owner \in [TokenIds -> Addresses \cup {None}]
    /\ minted \in 0 .. MaxTokens
    /\ balance \in [Addresses -> Nat]
    /\ approval \in [TokenIds -> Approvals \cup {NoApproval}]
    /\ operators \in [Addresses -> [Spenders -> 0 .. MaxLedger]]
    /\ delegatee \in [Addresses -> Addresses \cup {None}]
    /\ units \in [Addresses -> Nat]
    /\ ckpts \in [Addresses -> Seq(Checkpoint)]
    /\ supplyCkpts \in Seq(Checkpoint)
    /\ ledger \in 1 .. MaxLedger

Init ==
    /\ live = FALSE
    /\ admin = LaunchAdmin
    /\ settings \in InitSettings
    /\ modules = [m \in Contracts |-> NotRegistered]
    /\ agents = {}
    /\ allowance = [m \in Contracts |-> 0]
    /\ owner = [t \in TokenIds |-> None]
    /\ minted = 0
    /\ balance = [a \in Addresses |-> 0]
    /\ approval = [t \in TokenIds |-> NoApproval]
    /\ operators = [a \in Addresses |-> [s \in Spenders |-> 0]]
    /\ delegatee = [a \in Addresses |-> None]
    /\ units = [a \in Addresses |-> 0]
    /\ ckpts = [a \in Addresses |-> <<>>]
    /\ supplyCkpts = <<>>
    /\ ledger = 1

-----------------------------------------------------------------------------
(* Who is who.                                                             *)

Registered(m) == m \in Contracts /\ modules[m] # NotRegistered

\* The Treasury and every non-voting module: their tokens are nobody's votes.
IsCustody(a) == a = Treasury \/ (a \in Contracts /\ modules[a].nonVoting)

\* In Setup the Manager registers modules, once live the admin does.
IsRegistrar(caller) == caller = IF live THEN admin ELSE Manager

-----------------------------------------------------------------------------
(* Vote checkpoints: the newest entry is the current value, and a second   *)
(* write in one ledger replaces the first.                                 *)

Latest(s) == IF s = <<>> THEN 0 ELSE s[Len(s)].votes

FaultyPush(s, v) ==     \* overwrites the newest entry, of whatever ledger
    LET entry == [ledger |-> ledger, votes |-> v]
    IN  IF s # <<>> THEN [s EXCEPT ![Len(s)] = entry] ELSE <<entry>>

Push(s, v) ==
    LET entry == [ledger |-> ledger, votes |-> v]
    IN  IF s # <<>> /\ s[Len(s)].ledger = ledger
          THEN [s EXCEPT ![Len(s)] = entry]
          ELSE Append(s, entry)

PushChanged(s, v) == IF v = Latest(s) THEN s ELSE Push(s, v)

\* The value at the close of ledger l.
IsNewestAt(s, i, l) ==
    s[i].ledger <= l /\ \A j \in DOMAIN s : s[j].ledger <= l => j <= i
Lookup(s, l) ==
    IF \E i \in DOMAIN s : IsNewestAt(s, i, l)
      THEN s[CHOOSE i \in DOMAIN s : IsNewestAt(s, i, l)].votes
      ELSE 0

VotesOf(a) == Latest(ckpts[a])
VotingSupply == Latest(supplyCkpts)

FaultyPreviousSupply == VotingSupply    \* this ledger's

\* voting_supply_at_previous_ledger: the newest entry, or the one before it
\* when the newest was written in this ledger.
VotingSupplyAtPreviousLedger ==
    LET n == Len(supplyCkpts)
    IN  IF n = 0 THEN 0
        ELSE IF supplyCkpts[n].ledger < ledger THEN supplyCkpts[n].votes
        ELSE IF n = 1 THEN 0
        ELSE supplyCkpts[n - 1].votes

RecordVotes(newVotes, newSupply) ==
    /\ ckpts' = [a \in Addresses |-> PushChanged(ckpts[a], newVotes[a])]
    /\ supplyCkpts' = PushChanged(supplyCkpts, newSupply)

\* n when the condition holds, else nothing: a signed unit count.
When(cond, n) == IF cond THEN n ELSE 0

\* transfer_voting_units(from, to, n): units move between accounts, and the
\* votes between the delegatees those accounts have after d.  `None' is the
\* outside of the voting supply.
TransferVotingUnits(from, to, n, d) ==
    LET Through(a, x) == x # None /\ d[x] = a
    IN  /\ from # None => units[from] >= n
        /\ units' = [a \in Addresses |->
                        units[a] - When(a = from, n) + When(a = to, n)]
        /\ RecordVotes([a \in Addresses |-> VotesOf(a) - When(Through(a, from), n)
                                              + When(Through(a, to), n)],
                       VotingSupply + When(from = None, n) - When(to = None, n))

FaultySelfDelegated(S) == delegatee

\* ensure_self_delegate for every voting address of S.
SelfDelegated(S) ==
    [a \in Addresses |->
        IF a \in S /\ delegatee[a] = None /\ ~IsCustody(a) THEN a
        ELSE delegatee[a]]

VotingHolder(a) == IF IsCustody(a) THEN None ELSE a

-----------------------------------------------------------------------------
(* Minting.                                                                *)

FaultySpendMintAuthority(minter, n) ==  \* any module may mint before launch
    \/ minter = admin /\ UNCHANGED allowance
    \/ /\ minter # admin /\ Registered(minter) /\ allowance[minter] >= n
       /\ allowance' = [allowance EXCEPT ![minter] = @ - n]

\* spend_mint_authority: the admin mints freely, a registered module against
\* its allowance, and before launch only the claims module may.
SpendMintAuthority(minter, n) ==
    \/ /\ minter = admin
       /\ UNCHANGED allowance
    \/ /\ minter # admin
       /\ Registered(minter)
       /\ live \/ modules[minter].kind = "claims"
       /\ allowance[minter] >= n
       /\ allowance' = IF allowance[minter] = Unlimited THEN allowance
                       ELSE [allowance EXCEPT ![minter] = @ - n]

\* The ids DOMAIN to go to the addresses `to' names, in one call.
MintTo(minter, n, to) ==
    LET ids == DOMAIN to
        Votes(t) == ~IsCustody(to[t])
    IN  /\ minted + n <= MaxTokens          \* bound
        /\ SpendMintAuthority(minter, n)
        /\ delegatee' = SelfDelegated({to[t] : t \in ids})
        /\ owner' = [t \in TokenIds |-> IF t \in ids THEN to[t] ELSE owner[t]]
        /\ minted' = minted + n
        /\ balance' = [a \in Addresses |->
                          balance[a] + Cardinality({t \in ids : to[t] = a})]
        /\ units' = [a \in Addresses |->
              units[a] + Cardinality({t \in ids : Votes(t) /\ to[t] = a})]
        /\ RecordVotes([a \in Addresses |-> VotesOf(a) + Cardinality(
                            {t \in ids : Votes(t) /\ delegatee'[to[t]] = a})],
                       VotingSupply + Cardinality({t \in ids : Votes(t)}))
        /\ UNCHANGED <<phaseVars, settings, modules, agents, approvalVars, ledger>>

Mint(minter, a) == MintTo(minter, 1, [t \in minted .. minted |-> a])

\* batch_mint with its (recipient, amount) entries written out per token.
BatchMint(minter, n) ==
    \E to \in [minted .. minted + n - 1 -> Recipients] : MintTo(minter, n, to)

-----------------------------------------------------------------------------
(* Moving tokens.                                                          *)

MoveToken(from, to, t) ==
    /\ owner[t] = from
    /\ delegatee' = SelfDelegated({to})
    /\ owner' = [owner EXCEPT ![t] = to]
    /\ balance' = [a \in Addresses |->
                      balance[a] - When(a = from, 1) + When(a = to, 1)]
    /\ approval' = [approval EXCEPT ![t] = NoApproval]
    /\ TransferVotingUnits(VotingHolder(from), VotingHolder(to), 1, delegatee')
    /\ UNCHANGED <<phaseVars, settings, registryVars, minted, operators, ledger>>

FaultyLockedPathAllows(from, to, spender) ==    \* into any custody
    settings["transfers_locked"] =>
        IsCustody(from) \/ IsCustody(to) \/ spender = Treasury

\* check_locked_path: out of custody, back to the Treasury, or by it.
LockedPathAllows(from, to, spender) ==
    settings["transfers_locked"] =>
        IsCustody(from) \/ to = Treasury \/ spender = Treasury

\* Here the caller is always `from' itself, whose authorization is required.
Transfer(from, to, t) ==
    /\ LockedPathAllows(from, to, None)
    /\ MoveToken(from, to, t)

\* Base::check_spender_approval.
MaySpend(spender, from, t) ==
    \/ spender = from
    \/ spender \in Spenders /\ approval[t].spender = spender
                            /\ approval[t].until >= ledger
    \/ spender \in Spenders /\ operators[from][spender] >= ledger

TransferFrom(spender, from, to, t) ==
    /\ MaySpend(spender, from, t)
    /\ LockedPathAllows(from, to, spender)
    /\ MoveToken(from, to, t)

DaoTransfer(caller, t, to) ==
    /\ caller = admin
    /\ live
    /\ settings["dao_recovery"]
    /\ owner[t] # None
    /\ ~Registered(owner[t])
    /\ ~Registered(to)
    /\ MoveToken(owner[t], to, t)

\* Signed by the agent and by `from'.
AgentTransfer(agent, from, to, t) ==
    /\ live
    /\ agent \in agents
    /\ MoveToken(from, to, t)

-----------------------------------------------------------------------------
(* Approvals.                                                              *)

\* check_locked_approval: a holder's tokens go to the Treasury only.
LockedApprovalAllows(holder, spender) ==
    settings["transfers_locked"] => IsCustody(holder) \/ spender = Treasury

Approve(approver, spender, t, until) ==
    /\ owner[t] # None
    /\ \/ approver = owner[t]
       \/ approver \in Spenders /\ operators[owner[t]][approver] >= ledger
    /\ \/ /\ until = 0
          /\ approval' = [approval EXCEPT ![t] = NoApproval]
       \/ /\ until >= ledger
          /\ LockedApprovalAllows(owner[t], spender)
          /\ approval' = [approval EXCEPT
                             ![t] = [spender |-> spender, until |-> until]]
    /\ UNCHANGED <<phaseVars, settings, registryVars, nftVars, operators,
                   voteVars, ledger>>

ApproveForAll(holder, operator, until) ==
    /\ \/ until = 0
       \/ until >= ledger /\ LockedApprovalAllows(holder, operator)
    /\ operators' = [operators EXCEPT ![holder][operator] = until]
    /\ UNCHANGED <<phaseVars, settings, registryVars, nftVars, approval,
                   voteVars, ledger>>

-----------------------------------------------------------------------------
(* Delegation.                                                             *)

\* check_delegate: with members-only delegation on, only to a voting member.
MayDelegate(account, to) ==
    \/ ~settings["members_only_delegation"]
    \/ to = account
    \/ balance[to] > 0 /\ ~IsCustody(to)

Delegate(account, to) ==
    /\ MayDelegate(account, to)
    /\ delegatee[account] # to
    /\ delegatee' = [delegatee EXCEPT ![account] = to]
    /\ RecordVotes([a \in Addresses |->
                        VotesOf(a) - When(delegatee[account] = a, units[account])
                                   + When(to = a, units[account])],
                   VotingSupply)
    /\ UNCHANGED <<phaseVars, settings, registryVars, nftVars, approvalVars,
                   units, ledger>>

-----------------------------------------------------------------------------
(* The module registry, transfer agents and allowances.                    *)

RegisterModule(caller, m, kind, nonVoting) ==
    /\ IsRegistrar(caller)
    /\ m \in Contracts                      \* a Wasm contract, not the Treasury
    /\ Cardinality({c \in Contracts : Registered(c)}) < MaxModules
    /\ ~Registered(m)
    /\ \A c \in Contracts : modules[c].kind # kind
    /\ modules' = [modules EXCEPT ![m] = [kind |-> kind, nonVoting |-> nonVoting]]
    /\ \/ /\ nonVoting /\ balance[m] > 0
          /\ TransferVotingUnits(m, None, balance[m], delegatee)
       \/ /\ ~(nonVoting /\ balance[m] > 0)
          /\ UNCHANGED <<units, ckpts, supplyCkpts>>
    /\ UNCHANGED <<phaseVars, settings, agents, allowance, nftVars, approvalVars,
                   delegatee, ledger>>

UnregisterModule(caller, m) ==
    /\ IsRegistrar(caller)
    /\ Registered(m)
    /\ modules' = [modules EXCEPT ![m] = NotRegistered]
    /\ agents' = agents \ {m}
    /\ allowance' = [allowance EXCEPT ![m] = 0]
    /\ \/ /\ modules[m].nonVoting /\ balance[m] > 0
          /\ delegatee' = [delegatee EXCEPT ![m] = IF @ = None THEN m ELSE @]
          /\ TransferVotingUnits(None, m, balance[m], delegatee')
       \/ /\ ~(modules[m].nonVoting /\ balance[m] > 0)
          /\ UNCHANGED voteVars
    /\ UNCHANGED <<phaseVars, settings, nftVars, approvalVars, ledger>>

SetTransferAgent(caller, m, enabled) ==
    /\ IsRegistrar(caller)
    /\ Registered(m)
    /\ (m \in agents) # enabled             \* SettingUnchanged
    /\ agents' = IF enabled THEN agents \cup {m} ELSE agents \ {m}
    /\ UNCHANGED <<phaseVars, settings, modules, allowance, nftVars, approvalVars,
                   voteVars, ledger>>

SaturatingAdd(x, y) == IF x + y > Unlimited THEN Unlimited ELSE x + y
SaturatingSub(x, y) == IF x > y THEN x - y ELSE 0

SetAllowance(m, n) ==
    /\ allowance' = [allowance EXCEPT ![m] = n]
    /\ UNCHANGED <<phaseVars, settings, modules, agents, nftVars, approvalVars,
                   voteVars, ledger>>

IncreaseMintAllowance(caller, m, n) ==
    /\ caller = admin
    /\ Registered(m)
    /\ SetAllowance(m, SaturatingAdd(allowance[m], n))

DecreaseMintAllowance(caller, m, n) ==
    /\ caller = admin
    /\ SetAllowance(m, SaturatingSub(allowance[m], n))

\* Called by the module itself; nothing to give back from an unlimited one.
ReleaseMintAllowance(m, n) ==
    /\ allowance[m] # Unlimited
    /\ n > 0
    /\ SetAllowance(m, SaturatingSub(allowance[m], n))

\* set_transfers_locked, set_members_only_delegation, set_dao_recovery.
SetSwitch(caller, s, on) ==
    /\ caller = admin
    /\ settings[s] # on                     \* SettingUnchanged
    /\ settings' = [settings EXCEPT ![s] = on]
    /\ UNCHANGED <<phaseVars, registryVars, nftVars, approvalVars, voteVars, ledger>>

-----------------------------------------------------------------------------
(* Launch.                                                                 *)

Handoff(caller, to) ==
    /\ caller = Manager
    /\ ~live
    /\ to = Treasury
    /\ admin' = to
    /\ UNCHANGED <<live, settings, registryVars, nftVars, approvalVars, voteVars,
                   ledger>>

Launch(caller, to, grants) ==
    /\ caller = Manager
    /\ ~live
    /\ to = Treasury
    /\ \A m \in DOMAIN grants : Registered(m)
    /\ live' = TRUE
    /\ admin' = to
    /\ allowance' = [m \in Contracts |->
          IF m \in DOMAIN grants THEN SaturatingAdd(allowance[m], grants[m])
          ELSE allowance[m]]
    /\ UNCHANGED <<settings, modules, agents, nftVars, approvalVars, voteVars, ledger>>

\* The ledger closes and the next one is built.
NextLedger ==
    /\ ledger < MaxLedger                   \* bound
    /\ ledger' = ledger + 1
    /\ UNCHANGED <<phaseVars, settings, registryVars, nftVars, approvalVars, voteVars>>

-----------------------------------------------------------------------------
\* Everyone who can sign.  The Treasury acts only by executing a passed
\* proposal, and its execute requires it to be live; one transaction of the
\* Manager launches it together with the token.
Signers == IF live THEN Addresses ELSE Addresses \ {Treasury}
Callers == Signers \cup {Manager}

Minting ==
    \E minter \in Callers :
        \/ \E a \in Recipients : Mint(minter, a)
        \/ \E n \in BatchSizes : BatchMint(minter, n)

Moving ==
    \E signer \in Signers, t \in TokenIds, to \in Recipients :
        \/ Transfer(signer, to, t)
        \/ \E from \in Addresses : TransferFrom(signer, from, to, t)
        \/ DaoTransfer(signer, t, to)
        \/ \E agent \in Contracts : AgentTransfer(agent, signer, to, t)

Approving ==
    \E signer \in Signers, spender \in Spenders, until \in 0 .. MaxLedger :
        \/ \E t \in TokenIds : Approve(signer, spender, t, until)
        \/ ApproveForAll(signer, spender, until)

Delegating ==
    \E account \in Delegators \cap Signers, to \in Delegatees : Delegate(account, to)

Administering ==
    \E caller \in Callers, m \in Contracts :
        \/ \E kind \in Kinds, nv \in BOOLEAN : RegisterModule(caller, m, kind, nv)
        \/ UnregisterModule(caller, m)
        \/ \E on \in BOOLEAN : SetTransferAgent(caller, m, on)
        \/ \E n \in Amounts : IncreaseMintAllowance(caller, m, n)
        \/ \E n \in Amounts : DecreaseMintAllowance(caller, m, n)

Releasing == \E m \in Contracts, n \in Amounts : ReleaseMintAllowance(m, n)

Switching ==
    \E caller \in Callers, s \in Switches, on \in BOOLEAN : SetSwitch(caller, s, on)

Launching ==
    \E caller \in Callers, to \in Addresses :
        \/ Handoff(caller, to)
        \/ \E S \in SUBSET Contracts : \E g \in [S -> Amounts] : Launch(caller, to, g)

Next ==
    \/ Minting \/ Moving \/ Approving \/ Delegating
    \/ Administering \/ Releasing \/ Switching \/ Launching
    \/ NextLedger

Spec == Init /\ [][Next]_vars

-----------------------------------------------------------------------------
(* Properties.                                                             *)

TokenVotes(t) == owner[t] # None /\ ~IsCustody(owner[t])

\* "Balances and voting units can never drift apart": whatever is minted,
\* moved, registered or unregistered in whatever order, a voting holder has
\* one unit per token it owns and DAO custody has none.
UnitsMatchBalances ==
    \A a \in Addresses :
        /\ balance[a] = Cardinality({t \in TokenIds : owner[t] = a})
        /\ units[a] = IF IsCustody(a) THEN 0 ELSE balance[a]

\* Every token outside custody is counted for exactly one address, its
\* holder's delegatee, and the TotalSupply checkpoint counts those tokens: the
\* account checkpoints keep adding up to the supply the quorum is taken from.
VotesMatchTokens ==
    /\ \A t \in TokenIds : TokenVotes(t) => delegatee[owner[t]] # None
    /\ \A a \in Addresses : VotesOf(a) =
          Cardinality({t \in TokenIds : TokenVotes(t) /\ delegatee[owner[t]] = a})
    /\ VotingSupply = Cardinality({t \in TokenIds : TokenVotes(t)})

\* The shortcut through the two newest checkpoints is the supply at the close
\* of the previous ledger, the ledger a proposal's votes are taken at.
PreviousSupplyExact ==
    VotingSupplyAtPreviousLedger = Lookup(supplyCkpts, ledger - 1)

\* The inductive invariant of the proofs: the two above, and what they need.
\* The launched token answers to the Treasury, and ids are minted in order.
IndInv ==
    /\ TypeOK
    /\ live => admin = Treasury
    /\ \A t \in TokenIds : owner[t] = None <=> t >= minted
    /\ UnitsMatchBalances
    /\ VotesMatchTokens

\* Only a registered module can mint by allowance or move tokens as an agent,
\* so unregistering a module takes back everything it was granted.
NoPowerWithoutRegistration ==
    \A m \in Contracts : allowance[m] > 0 \/ m \in agents => Registered(m)

\* Locked tokens stay with their holder: with recovery off and no transfer
\* agent, a token leaves a member only to the Treasury or by a Treasury the
\* member approved, whatever approvals were given before the lock.
LockHolds ==
    [][\A t \in TokenIds :
         (/\ settings["transfers_locked"] /\ ~settings["dao_recovery"]
          /\ agents = {} /\ TokenVotes(t) /\ owner'[t] # owner[t])
         => owner'[t] = Treasury \/ MaySpend(Treasury, owner[t], t)]_vars

\* Between the early handoff and the launch the founder's mints, the settings
\* and the allowances are frozen: only the claims module mints, and only what
\* its allowance loses.
FrozenDuringDrive ==
    [][~live /\ admin = Treasury /\ ~live' =>
         /\ settings' = settings
         /\ \A m \in Contracts : allowance'[m] <= allowance[m]
         /\ minted' # minted => \E m \in Contracts :
               /\ modules[m].kind = "claims"
               /\ \/ allowance[m] = Unlimited
                  \/ allowance'[m] = allowance[m] - (minted' - minted)]_vars

-----------------------------------------------------------------------------
(* The token implements one token, one vote (VotingPower.tla).             *)

CountedFor(t) == IF TokenVotes(t) THEN delegatee[owner[t]] ELSE None

VP == INSTANCE VotingPower WITH
        Voters <- Addresses,
        NoVoter <- None,
        voter <- [t \in TokenIds |-> CountedFor(t)],
        votes <- [a \in Addresses |-> VotesOf(a)],
        supply <- VotingSupply,
        closed <- [l \in 1 .. ledger - 1 |->
                     [votes |-> [a \in Addresses |-> Lookup(ckpts[a], l)],
                      supply |-> Lookup(supplyCkpts, l)]]

\* Whatever the contract does to its checkpoints, a reader sees a recount of
\* the tokens now, and a history of closed ledgers that is never rewritten.
ImplementsVotingPower == VP!Spec
=============================================================================
