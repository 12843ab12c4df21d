# Verification of Tribe Builder

TLA+ models of the Soroban contracts under `src/contracts` and of the parts of
the web application, indexer and scripts that decide something, model-checked
with TLC and, for the parts everything else rests on, proved with TLAPS. Every
definition is translated from the code; `PROJECT.json` ("map") names the lines
each one stands for.

## 1. The system

A *Manager* deploys one set of contracts per DAO. After launch nobody but the
DAO's own members, voting through the *Governor* and acting through the
*Treasury*, administers them.

| Part | State it keeps | Operations | What makes it correct |
| --- | --- | --- | --- |
| **Token** (`contracts/token`) | NFT ownership and balances, approvals, voting units, delegations, vote and supply checkpoints, module registry, transfer agents, mint allowances, three membership switches, Setup/Live, admin | mint, batch mint, transfer(s), DAO and agent transfer, approve, delegate, (un)register module, agents, allowances, switches, handoff, launch | one vote per token outside custody, counted once; history of closed ledgers never rewritten; mint power and movement only for those entitled |
| **Governor** (`contracts/governor`) | parameters, proposals, tallies, who has voted | propose, vote, queue, consume, cancel, five setters, handoff, launch | tally within the snapshot's supply, quorum of the same ledger, only passed proposals proceed, with notice, and every proposal ends |
| **Treasury** (`contracts/treasury`) | its own code hash and storage version (and the DAO's assets) | execute, upgrade, migrate | acts exactly as voted, all or nothing, once |
| **Auction** (`contracts/auction`) | configuration, current auction, refunds owed, paused, payment-token lock | bid, settle (two ways), cancel, withdraw refund, pause, unpause, setters, handoff, launch | holds exactly what it owes, loses nobody's money, holds only the token it sells, auctions end and get settled |
| **Marketplace** (`contracts/marketplace`) | pools, stock pages, buyers' counts, listings | open, restock, buy, close and sweep pools; list, buy, cancel, expire | each open pool's unstocked tokens stay reserved; every token in custody is in exactly one page or listing; caps per buyer and period |
| **ClaimMinter** (`contracts/minter`) | claim lists, claims, escrow, the drive | open list, claim, release, refund | escrow is what was claimed and paid; release and refund exclude each other |
| **Manager** (`contracts/manager`) | pending DAOs, drives, slugs, implementations and approvals, factory pause | create, launch, open drive, launch when ready, release slug, change slug, registry | slug maps inverse to each other, a drive is launched as announced, upgrades get their notice |
| **Common** (`contracts/common`) | admin, lifecycle, upgrade keys, in each contract's own storage | handoff once, mark live, apply upgrade, migrate, notice of approvals | one-shot handoff and launch; code changes only on approved paths |
| **Storage renewal** (`apps/web/src/lib/chain-reads/renewal.ts`, `lib/renewal-queries.ts`, `scripts/renew-code-ttl.mjs`) | an inventory and a quote in one tab; an artifact between script runs | read the inventory in rounds, quote, sign in batches, continue; find and extend shared code | nothing that should be renewed is overlooked; batches fit; an archived DAO comes back |
| **Indexer and database** (`packages/goldsky`, `db`, `apps/web/src/lib/dao-db.ts`) | allowlists, event rows, feed rows, views | deliver and redeliver batches, reset, resolve links | rows, links and attributions tell what the chain did |
| **DAO creation** (`stores/create-dao-store.ts`, `lib/use-dao-deployment.ts`, `scripts/deploy-dao.mjs`) | drafts in local storage shared by tabs, envelopes, a checklist | autosave, sign, send, retry, recover; plan, skip what is done, launch | at most one DAO per draft, nothing signed is forgotten, the checklist completes |
| **Trading resales** (`lib/marketplace/*`) | a prepared transaction | review, simulate, prove the cycle, recheck, sign | what is paid or listed is what was reviewed |
| **Composing proposals** (`stores/proposal-composer-store.ts`, `lib/proposal-actions`, `lib/proposal-action-identity.ts`) | a queue of actions and bundles, an open edit, open questions | add, edit, move, remove, replace, undo, submit; judge the draft | edits land in their action, bundles stay whole, a draft judged clean runs |
| **Metadata**, sign-in, comments, uploads, pages, bindings, operator scripts | derived or presentational | | not modelled (section 7) |

How they interact. A Soroban call runs to its end or reverts as a whole, across
all contracts it calls; calls never interleave. So an *action* of a contract
model is one top-level call that succeeds, with every state change of every
contract it reaches; a call that panics is an action that is not enabled. What
does interleave are the calls of different accounts, in any order, over ledgers
whose times are irregular. Off chain, in tabs, scripts and the pipeline, an
action is one synchronous stretch between two awaits, and everything else may
happen between two of them.

The hard behaviours are therefore long sequences of legal calls (registering a
module that already holds tokens, moving tokens in the middle of a vote, changing
parameters while proposals are in flight), values read from another ledger than
the one they are compared with, deadlines met on the exact second, one action of
several failing, payments that cannot be delivered, limits and sentinels of
counters; and off chain, answers that are lost or late, nodes and an index that
lag, tabs that overwrite each other, stops between any two steps.
`PROJECT.json` ("hazards") lists them at their lines with the properties that
would notice.

```
          mints, transfers, delegations                 anyone
                     |                                    |
   Auction --mint--> Token <--votes, supply-- Governor <--consume-- Treasury.execute
   Marketplace ------^ ^                        ^                     |  in order
   ClaimMinter --------+                        +----- setters, any other call
        ^                                                             |
        +---- Manager: create, drive, launch, slugs, releases --------+
                     |
                  events --> pipeline --> tables, views --> links, feed, pages
                                                              |
              tabs: create, renew, trade, compose  <----------+---- RPC nodes
```

## 2. Modules

| Module | Stands for | Notes |
| --- | --- | --- |
| `VotingPower` | what the Token promises the Governor | abstract: each token counts for at most one voter; `closed` is the history of ledgers |
| `Token` | `token/src/contract.rs` | one action per entry point; implements `VotingPower` |
| `Governor` | `governor/src/contract.rs` | composed with `VotingPower` (`Reassign`, `NextLedger`), so with every Token that implements it |
| `ProposalLife` | `ProposalState` as its readers know it | abstract: which state may follow which |
| `Treasury` | `treasury/src/contract.rs` | EXTENDS `Governor`: `execute` spans both contracts |
| `Auction` | `auction/src/contract.rs`, `helpers.rs` | token and payment asset as the Auction meets them |
| `ClaimMinter` | `minter/src/contract.rs`, with the Manager's two calls of a drive | implements `AssuranceLife` |
| `AssuranceLife` | the state chart at the head of the minter | abstract: an escrow that pays out one way only |
| `Marketplace` | `marketplace/src/contract.rs` | pools, their stock pages, listings |
| `Manager` | `manager/src/contract.rs`: DAOs, drives, modules, slugs, launch | |
| `Registry` | `manager/src/contract.rs`: releases and approvals; `common/src/upgrade.rs`: the notice | |
| `Renewal` | the sweep of a DAO's entries in a tab | |
| `CodeRenewal` | `renew-code-ttl.mjs` | |
| `Indexer` | Goldsky pipeline, decoder, Manager views, link resolution | |
| `DaoCreation` | the drafts store and the deployment operation, with the ledger under them | |
| `DaoSetup` | the checklist of `deploy-dao.mjs` | |
| `ResaleTrade` | preparing, signing and landing of purchases and listings | |
| `DraftRules` | the findings on a draft | operators only |
| `ProposalDraft` | a draft, its findings, and its run by the Treasury | EXTENDS `DraftRules` |
| `Composer` | the composer's store and pages | uses `DraftRules` |
| `Sums` | | lemmas about sums over finite sets, for the proofs |
| `...Proofs` | | the theorems: `GovernanceProofs` about Governor and Treasury, `PlatformProofs` about Manager and Registry, `WebProofs` about DaoCreation, ResaleTrade, Indexer and ProposalDraft, `AuctionAndStorageProofs` about Auction, Renewal and CodeRenewal, the others about the module they are named after |
| `MC...` | | constants, bounds and scenarios for TLC |

**Token.** A token's voter is its holder's delegatee, unless the holder is DAO
custody (the Treasury or a non-voting module). Vote checkpoints, voting units
and NFT ownership are kept by the OpenZeppelin libraries; they are modelled from
how the contract uses them (`Push`, `RecordVotes`, `TransferVotingUnits`,
`MaySpend`; marked external in the map). `MintTo` is `mint` and `batch_mint`
(the entries of a batch written out per token) and makes every change of the
call: authority, self-delegation, ownership, units and checkpoints. Account
authorization is modelled by who the caller can be: `Signers` are all addresses,
the Treasury only once live, because its `execute` needs the Governor live, and
one transaction of the Manager launches all contracts. Two ledgers of approvals
are enough for "given before the lock, used after it".

**Governor.** `proposal_state_internal` is `ProposalState`: mostly computed from
the clock and the tally. `Propose` takes the snapshot of the ledger before and
the quorum of the same ledger. `MarkExecuted` is what `consume` does; in
`Governor` alone the Treasury may call it for any proposal (`Consume`), in
`Treasury` only `Execute` does.

**Treasury.** `Execute` folds `Dispatch` over the actions: one next state per
kind of action, `ok` false as soon as one fails, and then the whole call is not
enabled. `broken` are the calls that fail for reasons of the contracts called.
The code hash that dispatches is the one from the start of the transaction.
`calls` is a history variable.

**Auction.** Money is modelled as balances: what bidders own, what the contract
holds, what went to the Treasury (`proceeds`, by winner). A refund is pushed, or
kept as pending if it cannot be delivered: either may happen at any time.
`mayMint` and `mayPass` say whether the token would mint for the Auction and
would let it hand a token to a member; `TokenChanges` sets them freely, which
covers allowances, unregistration and the transfer lock. `announced` is a
history variable.

**ClaimMinter.** A merkle root is the function from claimers to the amounts of
their leaves. `OpenAssurance` is `manager.open_assurance` with everything it
calls: list, grant, drive record, handoffs. `Launch` is either launch entry
point, in which the ClaimMinter releases the escrow. The list and the Manager each keep a
deadline; `Failed` and `DriveFailed` are the two rules. `purse`, `treasury` and
`refunded` record the payments.

**Manager, Registry.** The two halves of one contract, which share no variable. In
`Manager` a release is one hash for all contracts, and the contracts of a DAO
are kept as far as the Manager reads or writes them. `plans` are proposals that
create a module at the index they read and register it. In `Registry` a ledger
number is time; `quietUntil` is history: until when somebody who once saw nothing
announced may rely on it.

**Marketplace.** Stock is a sequence of ids per page; `restock`, purchases,
closing and sweeping move ids between pages, the Treasury and buyers. The rate
window is modelled with its start and count. Amounts paid are left out of the pools;
`receipt` records what a sale charged against what was signed.

**Renewal, CodeRenewal.** An entry of storage is a key with the ledger it lives
until; 0 is never written, or removed. What the RPC no longer returns is `evicted`. The tab reads the inventory in rounds, each
at another ledger, quotes batches and sends them one after another; any
transaction can be refused, time out and land later. In `CodeRenewal` a run of the script
collects what its lookups answer, any of which but the Manager's own hash may fail
without a trace; `answered` and `sight` are history, the record of it that the script
does not keep.

**Indexer.** Transactions of the chain are sequences of rows; the pipeline keeps
the allowlists (`dao_tokens` and so on) and tables, delivers whole
transactions, and may stop between the sinks of a batch. The chain actions are
external: they are the Manager's and Token's calls reduced to what they emit.

**DaoCreation.** `storage` holds the drafts collection; each tab works from a
copy it read. `recordDeployment` and `deleteDraft` are one synchronous step, the two
storage writes of the latter included; a draft is deleted only while no tab edits
it (a bound, section 5);
autosave is a read and a later write. Envelopes are included, or expire, at any
time after they were signed and sent, with the sequence rules of the account.

**DaoSetup.** One run plans the checklist from what it reads on chain, skips what is
done, performs the rest call by call; it may stop after each call, and its last
answer may be lost. A view that fails is read as "not there" (`TokenExists`); `blind` is
history and says that a batch was minted again because of it.

**ResaleTrade.** The server prepares over several reads, each answered by a node
up to `Lag` ledgers behind; `creation` identifies a listing, and is history: the contract
does not know it. Others list, cancel and buy without the application.

**Composer, DraftRules, ProposalDraft.** A row of the queue is an action; rows of one `bundle`
move and go together. The composer keeps the place of the action that is being
edited (`edit`) while rows move around it. `DraftRules` is the judgement
(`analyzeProposalDraft`); `ProposalDraft` runs a draft against the contracts'
own conditions (`AuctionAccepts`, `TokenAccepts`, the Treasury's `Runs`) and compares.

`admin` and `live` (common/admin.rs and lifecycle.rs) are inlined: every contract
keeps its own. All contracts of a DAO are launched by one transaction.

A definition named `Faulty...` is the definition after it with a plausible
fault. Nothing uses it; each property has been seen to fail when one replaces
the original.

## 3. What TLC checks

A run is one question about one part of the system. Where a question has several
bounded scenarios they share a run: a behaviour stays in the scenario it starts
in, so nothing is lost by checking them together.

| Run | Scenarios and bounds | What it shows |
| --- | --- | --- |
| `token` | *votes*: 2 wallets, a module, 2 tokens, 2 ledgers, every order of minting, moving, delegating and (un)registering a module that holds tokens. *locks*: one token, both switches, approvals of both kinds with expiry. *mints*: allowances up to 2, the unlimited sentinel, before, in and after a drive | `VotesMatchTokens`, `PreviousSupplyExact`, `ImplementsVotingPower`; `LockHolds`: a locked token leaves its member only to the Treasury or by it; `FrozenDuringDrive` |
| `governance` | *votes*: 2 voters, 2 tokens, 5 ledgers, quorum rates around rounding. *life*: 2 proposals, delays changed at any time, ledgers of 1 or 3 seconds so that states are skipped. *ends*: 11 ledgers, the longest life of a proposal. *acts*: every list of up to 3 actions of every kind, failing ones included | `TallyWithinSnapshot`, `OnlyPassedProceed`, `NoticeGiven`, `FollowsLife`, `ActsExactlyAsVoted`, `OnlyByProposal`, `EveryProposalEnds` |
| `auction` | *money*: 2 bidders, 2 assets, undeliverable refunds, pauses, cancellations. *time*: one bidder, setters at any value, 2 extensions. *settles*: a token that refuses for a while | `Solvent`, `NothingLost`, `HoldsWhatItSells`, `EndBounded`, `EveryAuctionSettles` |
| `claims` | 2 claimers, 2 lists, free, priced and assured, deadlines met on the second, launch in between | `ClaimsInv`: escrow, records and holdings agree; `FollowsChart`: the drive implements `AssuranceLife`; `EscrowLeaves` |
| `platform` | *slugs*: 2 DAOs, 2 slugs. *drives*: one DAO with its modules and releases. *modules*: 3 plans for the same kind. *notice*: 2 releases of the Manager, notices of 0 and 1 ledger. *paths*: 2 releases each of Manager and Governor | `ManagerInv`: slugs inverse and reserved, modules as planned; `PromiseKept`: a drive is frozen and launches as announced; `UpgradesOrderly`: notice kept, kinds kept, nothing withdrawn spreads; `SlugComesFree` |
| `market` | *pools*: a pool of 3 and one of 1 that share an allowance, pages of 2. *rate*: one sale per period, met at every distance from its end. *listings*: fee and asset changed between listing and sale | `MarketInv`: custody exact, pools add up, reservations covered, charged as signed; `RateHolds`; `StockReturns` |
| `storage` | *sweep*: 6 entries that lapse, are evicted, written and removed around an inventory and its batches. *recovers*: the required entries, some archived at the start. *code*: 3 releases, the Manager and a DAO, any lookup of the script lost and any hash found besides; a whole run within 3 days of the last, 4 days bought | `RenewalInv`, `CodeAlive`, `DaoRecovers` |
| `creation` | *tabs*: one draft in two tabs. *resolves*: a user who comes back. *plans*: every artwork of up to 3 properties and every allocation to 2 founders, in one run, some minted before the artwork. *reruns*: artwork of one call, runs that stop anywhere, and views of founder tokens that fail. *links*: 2 DAOs, 2 slugs, 6 transactions. *modules*: a module of the platform and one it did not deploy, 5. *crashes*: a batch of the index that stops anywhere, a reset, 4 | `CreationInv`, `NoSecondSignature`, `SetupInv`, `PagesTellTheChain`, `CreationCompletes`, `EventuallyListed` |
| `member` | *sale*, *cycle*, *sells*: one token, 2 accounts, one of them with the application, nodes one ledger behind. *running*, *paused*: a composed draft. *draft*: every draft of up to 3 of 13 calls | `TradeInv`: what is traded is what was reviewed; `RulesHold`, `ComposerHolds`; `StaysOnSaleSells` |
| `treasury_upgrade` | the documented upgrade proposal | `UpgradeThenMigrate` is violated (section 5) |
| `setup_artwork` | artwork of two calls, runs of the checklist that stop anywhere | `NoItemTwice` is violated (section 5) |
| `auction_terms` | the documented meaning of configuration changes | `AnnouncedReserveHolds` is violated (section 5) |

All runs set `CHECK_DEADLOCK FALSE`: every model stops at its bounds, and a quiet
DAO, tab or pipeline is no error.

**Bounds and why they suffice.** Numbers are scaled. `BPS` 10000 becomes 2 or 4,
`PERCENT_DENOMINATOR` 100 becomes 2, delays of minutes and days 1 and 2 seconds,
pages of 64 two ids, batches two or three entries. The code only compares and
adds them, and rounds in `QuorumOf`, `EnoughBid` and `FeeOf`, where the small
denominators still leave remainders. Two of a kind (voters, bidders, claimers,
DAOs, slugs, pools, tabs) are the least for an interference, and every hazard in
the list is between at most two. Each clock runs one unit beyond the last deadline
that the smallest durations allow, except where a constraint (`MCBound`,
`MCScenarioBound`) says that nothing more can happen. Every bound on the
exploration that is not a limit of the code is marked `\* bound` in its guard:
`MaxLedger`, `MaxTime`, `MaxTokens`, `MaxLists`, `MaxPlans`, `MaxModules`,
`MaxPools`, `MaxTxs`, `MaxResets`, `MaxCrashes`, `MaxNonces`, `MaxSigned`,
`MaxSeq`, `MaxListings`, `MaxChanges`, `MaxIds`, `MaxQueue`, `MaxUndos`,
`MaxProposals`, `MaxActions`, `LastReassign`, `LastPropose`.

Restrictions of single runs: in `member` one transaction is under way at a time,
the fee starts at 0 and there is one price; Undo reaches one step back; only the
paused composer submits. In *tabs* only the first tab deploys (a tab keeps nothing
between operations, so it stands for both) and the wallet has no other
transactions. In *slugs* there are no plans and no upgrades.

## 4. Fairness

| Specification | Assumed | Why |
| --- | --- | --- |
| Governor | `WF(NextLedger)` | ledgers close; nobody is assumed to call anything |
| Auction | `WF(Tick)`, `WF(Settling)` | settling is open to anyone, paused or not, and winner and DAO gain from it. The property assumes besides what the code needs: that the token eventually always lets the Auction mint and pass on |
| ClaimMinter | `WF(Tick)`, `WF` of each claimer's refund | refunds are open to anyone and pay the claimer |
| Manager | `WF(Tick)`, `WF(ReleaseSlug)` | releasing is open to anyone, and somebody wants the slug |
| Marketplace | `WF(Tick)`, `WF` of closing an expired pool and of sweeping | both are open to anyone |
| Renewal | load failures stop eventually; `WF(Progress)`; `SF` of quoting, dropping a stale quote, signing, sending | members keep trying; a retry that is possible again and again is made |
| Indexer | `WF(Deliver)` | the pipeline is restarted by its operator and redelivers at least once; it works in whole transactions, fills the allowlists before it filters, and a stop leaves a prefix of each table |
| DaoCreation | `WF(Deploys \/ WriteDrafts)`, `SF(Begin)`, finitely many stops | a user who keeps coming back; full storage counts as a stop |
| DaoSetup | `WF` of the checklist's steps and of starting again, finitely many runs that end early, by an interruption or a view that failed (`EndsEarly`) | an operator who reruns until it is complete; an answer that was lost is decided before the next run reads. A run that ends because a batch really is on chain in part is not excused |
| ResaleTrade | `WF` of closing, indexing, landing, signing, progress; `SF` of asking and of each preparation step that succeeds | ledgers close, nodes answer and are not always behind, someone keeps asking to buy |

## 5. Findings

Three runs end in a counterexample, on purpose, against a statement of the
repository:

1. `auction/src/storage.rs:65`: configuration changes "only apply to future
   auctions, not the currently active one". Bids are checked against the current
   configuration. An auction that is open while the DAO pauses and lowers the
   reserve price accepts, after unpausing, a first bid below the reserve it was
   created with (`auction_terms`).
2. `docs/SECURITY_MODEL.md:125`: an upgrade proposal "runs `upgrade` then
   `migrate` as consecutive actions". When the target is the Treasury itself, the
   code dispatching `migrate` is still the old one, which finds nothing to
   migrate, and the whole proposal reverts, every time it is tried
   (`treasury_upgrade`).
3. `scripts/deploy-dao.mjs:605`: "Each applied call appends one IPFS group, so
   ipfs_data_count tells how many planned calls are already on chain." The contract
   reuses the last group when a call names the same one
   (`metadata/src/contract.rs:654`), and the script names the same one in every call, so
   the count stays 1. A checklist that stops after its second artwork call, and
   is run again, makes that call again: its items, and its properties, are on
   chain twice (`setup_artwork`). The scenario *reruns* of `creation` therefore has artwork of
   one call.

Other things met while modelling, which the models follow as the code is:

- Restored entries get the network's minimum lifetime, not the number of days
  that the page offers to renew for; restoring is one transaction, however many
  entries (`Renewal`).
- `renew-code-ttl.mjs` says it extends "the hash every known DAO module runs" (8) and that
  "reading what each DAO runs is how those stay alive" (17), and `docs/STORAGE_DIET.md:424`
  that "upgrade hashes are never missed". But only the Manager's own hash must be answered: a view that
  fails is null (`tryView`, 70-76), a failed `psql` a warning (126-130), and a
  token that does not answer a token without modules (132-150). None counts as a
  failure, so a run that left out the hash of a known DAO reports success, and
  nothing tells its operator. `CodeAlive` therefore counts its `Period` from the last
  run that *read and extended everything*, which only the model's history knows.
  A DAO that moves to an older release, which is allowed and which no registry
  pointer names, is covered from the next such run on (`CodeRenewal`, `sight`).
- `tokenExists` in `deploy-dao.mjs` (385-392) takes any view that fails for a token
  that does not exist. With a founder batch on chain, one failed read stops the
  run with "partially on chain; reconcile manually", although nothing has to be
  reconciled and the next run completes; two (639 and 640) mint the batch again,
  after which every run stops there, or completes with too many tokens.
  `FoundersMinted` and `Completes` are stated for the runs in which that did not happen
  (`blind`); *reruns* meets both cases (`DaoSetup`).
- An autosave under way brings back a draft that is deleted meanwhile: the
  store's write uses the copy it read. TLC shows it at once when the guard of
  `DeleteDraft` is dropped; the model keeps deletions to drafts no tab edits, a named
  bound, because `CreationInv` is about creations and not about deleted drafts
  (`DaoCreation`).
- A slug claimed by a drive is answered by `get_dao_by_slug`, which is documented
  for launched DAOs (`Manager`, `Indexer`).
- A listing whose fee fell below the reviewed one is made, at the lower fee
  (`ListedAsBound` says "never higher").
- The composer never asks about clashes when an action joins an open bundle, and
  an answer to a question may add nothing (`Composer`).
- The checklist looks at the first token of a batch only when it verifies traits: one
  stopped between two `regenerate` calls of a batch minted before the artwork
  leaves the rest of it without traits. In `creation` founders are minted early only
  in *plans*, which does not stop (`DaoSetup`).
- A DAO whose creation landed late and that was launched from another browser
  meanwhile is not recovered by its draft: every later attempt fails in
  simulation. *resolves* has no such launch (`DaoCreation`).
- The step from 0.6 of the target to the target may exceed the fee ceiling of
  `renew-code-ttl.mjs` although a smaller step would fit; the entry then stays as it is
  (`CodeRenewal`).
- What is added to a draft from another page while its proposal is being signed
  is dropped with the draft (`Composer`, `Submit`).

## 6. What is proved

The theorems hold for every value of the constants that satisfies the modules'
assumptions (`TokenAssumption`, `GovernorAssumption`, `TreasuryAssumption`, `AuctionAssumption`,
`ClaimMinterAssumption`, `ManagerAssumption`, `RegistryAssumption`,
`MarketplaceAssumption`, `CreationAssumption`, `TradeAssumption`, `IndexerAssumption`,
`RenewalAssumption`, `CodeRenewalAssumption`, `DraftAssumption`): any number of
wallets, modules, voters, tokens, proposals, actions, ledgers, bidders, assets,
claim lists, claimers, DAOs, slugs, releases, contracts, pages, pools, tabs, envelopes, events, batches and ledger keys. The scenarios of the runs are
instances of the same `Next`; the proofs are about `Spec`.

**Token** (`TokenProofs`). `IndInv` is inductive: types, "the launched token answers to
the Treasury", "ids are minted in order", and the two recounts
`UnitsMatchBalances` and `VotesMatchTokens`. The two recounts need each other: a
transfer subtracts a unit from the holder and a vote from its delegatee, and both
differences must be of things that are there. The ownership order is needed by
minting (new ids are nobody's), the admin fact by registration (the Treasury is
never a module). The counting steps rest on three lemmas about sizes of sets of tokens
(`TokensFinite`, `CountOne`, `CountNew`). `PreviousSupplyIsExact` adds that
checkpoint lists are in ledger order (`CheckpointsStayOrdered`).
`TokenImplementsVotingPower` shows that every step is a `Reassign`, a
`CloseLedger` or invisible, and that `Lookup` of a closed ledger never changes.
Three results need no more than `IndInv`. `LockedTokensStay`: with the lock on, only
the moves change an owner of a minted token (`MintsAre`, `OthersStay`), and each
either goes to the Treasury or is made by it on an approval that still stands.
`DriveFreezesToken` and `PowerNeedsRegistration` go through the operations that
write modules, agents, allowances and switches, and who may sign them in which
phase.

**Governor** (`GovernanceProofs`). That no token votes twice is not inductive: a
tally is only a number. `IndInv` says what the number is of. Every closed ledger
is a recount of *some* assignment of tokens to voters (`HistoryIsRecounts`), and
there is one such assignment of the snapshot's ledger in which the votes cast on
the proposal are exactly the tokens of those who have voted (`TallyIsRecount`).
A vote then adds a set of tokens disjoint from those counted before
(`CastVoteInv`), and no set of tokens is larger than the supply
(`NoVoteCountsTwice`). The other parts are the schedule a proposal keeps
(`ScheduleKept`, which parameters cannot change later) and that there are no
votes before its start (`VotesInTime`). `Fine(id)` is the invariant of one
proposal; `UntouchedFine` says that a step that does not touch it keeps it, so
that each operation's lemma is about its own proposal only. `QuorumBounds` is the
rounding up. `GovernorFollowsLife` shows that every step moves the computed state
of every proposal along `ProposalLife`; that there are no votes before the start
is what makes a late ledger jump from Pending to Defeated only.

**Treasury** (`GovernanceProofs`, on what it shows of the Governor). What a run has done after n
actions is `Good`: its calls are the first n actions' calls, placed behind those that were
there before (`PlacedAt`), the trees pending are those of the action just passed, and every
parameter, code hash or layout that differs was asked for (`Asked`). One lemma per
kind of action shows that a successful one keeps it, `RunGood` takes it through a list
of any length (the fold is shown to exist first, `RunExists`). `TreasuryInv` joins this with the
Governor's invariant: an execution may change the parameters in the middle of other
proposals' lives, so `Moves`, the Governor's lemma about a proposal that moves on, allows for
that. That the admin of a live DAO is the Treasury is what leaves the setters and
upgrades to executions (`LiveChangesAreVoted`). The launch admin is assumed not to be the
Treasury (`TreasuryAssumption`): that account signs `create_dao`, which deploys the Treasury.
`OnlyByProposal` of the run is that step property, `ByProposal`, restricted to the
scenario with a Treasury.

**Auction** (`AuctionAndStorageProofs`). `IndInv` adds to the properties what they need of
each other: nothing happens before launch (`IdleUntilLive`, or a launch could
unpause without an open auction), the payment token is locked as soon as any
money is held (`AssetLockedByMoney`, or a change of asset would lose it), bids
are never below the least reserve price (`BidsAreSerious`) and tokens are minted
in order. `Worth` is what a bidder has of an asset in all four places it can be;
every step moves it between them (`RefundIsWhole`, `PayOutIsWhole`).
`BidsOnlyRise` rests on `IncrementIsPositive`: a percentage of at least 1 of a
bid of at least `MIN_RESERVE_PRICE` >= `PERCENT_DENOMINATOR` does not round down to 0.
`AlwaysSolvent` is about a sum over all bidders. It is proved from `Books`: per asset,
what is held is the leading bid and the sum of what is owed; each step changes one
bidder's account, and the sum by as much (`SumUpdate`).

**Sums** (`Sums`). The sum of a function over a finite set is a fold that picks the
elements in an order nobody knows. The lemmas show that there is such a fold
(`FoldExists`), that it may take out any element first (`SumTakesOut`), and what
the books use of it: it depends on the values only, and changes by as much as one
value changes. Inductions are over *sets* of numbers or of subsets (`Naturals`, `Subsets`), from
the well-foundedness facts of the library; its induction theorems take an operator
as a parameter and cannot be instantiated by the provers.

**ClaimMinter** (`ClaimProofs`). `IInv` says where money can be at all: one list is the
drive (`OneDrive`, which also ties it to the Manager's record, to the launch and
to who the admin is), no other list ever holds money (`OnlyTheDriveEscrows`), and the drive
holds the sum of its claimers' records (`EscrowAddsUp`, by `Sums`).
The properties do not stand without them: that a refund can be paid needs the sum,
that a release empties the contract needs that there is one drive. `ClaimsFollowTheChart` is
the refinement of `AssuranceLife`, one lemma per action; the step that needs an
argument is time, which must turn an open drive into a failed one only when
both deadlines say so.

**Manager** (`PlatformProofs`). `DaoOK(d)` says of one DAO what its stage implies:
slug, admin, modules, and that the numbers of modules the platform counted are those
that were built. With `MapsAgree` (the two slug maps) it is inductive, and
a step about one DAO need only be looked at for that one (`Becomes`).
`DrivesKeepTheirPromise` compares a DAO before and after a step: an undecided drive
is frozen (`Frozen`), so a launch opens what was announced (`LaunchOpens`).

**Registry** (`PlatformProofs`, invariant `NoticeIInv`). The notice somebody relies on (`quietUntil`) is kept by
three facts together: it is within the notice in force (`PromiseWithinNotice`); a
shorter notice waits for all that was promised under the longer one
(`ReductionWaits`); and so does a Manager that was announced (`AnnouncedWaits`). Each
alone can be broken by an order of shortening, announcing and applying.

**Marketplace** (`MarketplaceProofs`). `IInv` has four parts. `CustodyInv`: what the market
owns is exactly what is listed and what stands on the pages, once. `PoolsInv`: for every pool
(`Good`) the counters, the pages and the slot agree, and so does the rate counter with the
sales. `TermsInv`: a listing charges no more than was signed. `AllowanceInv`: what the slots
reserve is covered, unless the DAO lowered the allowance. A step about one pool need only be
looked at for that one (`OneChange`), and custody is kept when what leaves the pages leaves
the market (`CustodyMoves`). What the steps do to pages is a chapter of its own: a restock
adds its ids (`StockedAddsIds`), a purchase takes one (`TakenOut`), a sweep takes
those it counts off the end and leaves the rest (`SweptLeavesRest`), for pages and sweeps
of any size. The reservation is a sum over slots (`SumForAt`, `SlotChanged`, `SlotDropped`, on
`Sums`). `RateHolds` needs to know which sales the counter counts (`RatesOf`): the last
`inPeriod`, at most the rate, since the period began; of those before, at most
the rate within one period of its start. Both stay true when a sale is added (`SaleAdded`)
and when the period rolls over (`RollOver`), so an interval across a rollover holds at most
twice the rate (`AcrossPeriods`).

**DaoCreation** (`WebProofs`). The invariant has a part for each actor. `ChainInv`,
of the ledger: all envelopes of a draft have one nonce and one configuration, their sequence
numbers ascend, and once one has created the DAO the account's sequence number has passed
all the others. `StorageInv`, of the browser: the record under the recovery key `Fits` the
envelopes (its hash is the last one's, its status is not ahead of the ledger, no earlier
accepted envelope can land); without such a record nothing was signed, or nothing can land.
`TabsInv`, of the tabs: one deploys at a time, and what it remembers is what is saved, step by
step (`Fine`), except that a failed draft may have been deleted under it, and then it saves
nothing (`SaveRefused`). The three need each other: a tab that signs read a sequence number no
lower than the earlier envelopes', and a higher one than that of an envelope that created the
DAO; and a draft may be deleted because a failed envelope has spent its sequence number
(`DeletableIsSafe`). `NeverSignsTwice` follows, as only `Sign` adds an envelope (`OnlySignAdds`).

**ResaleTrade** (`WebProofs`). Nothing on chain names the listing a buyer reviewed: the contract
keeps one entry per token, and a token may be listed again on the same terms. The invariant
`TInv` follows the creation the index showed: an entry, live or in a closed ledger, is `Wrote` by
the creation it carries, with its terms and in its ledger; a dialog (`Sound`) that has passed
`CycleProven` read an entry of the very creation it reviewed, as that one is alone in its ledger;
so the payments it has authorized are that creation's (`Signable`), and they stay so, since
creations and closed ledgers are only added (`Keeps`). `DoneInv` then compares what landed with the
creation, not with the entry that is gone. Without the entry of each closed ledger in it the
invariant is not inductive: a node may answer from any of them, after the listing has changed.

**Indexer** (`WebProofs`). The rows that landed depend on how the log was cut into batches, where
one stopped and how often it was replayed; that the pages do not is proved in two halves.
`StoryInv` is about the chain and its log alone: the last events of a DAO, a slug or a module
say what the chain holds of it (`DaoInv`, `SlugInv`, `ModuleInv`), and (`LogInv`) an address
is named by the Manager no later than in the transaction in which it first speaks. `PipeInv` is
about what has landed: the allowlists know what was named so far, every row has the role its
contract has for good (`RoleStays`), and nothing that is `Due` is missing. The second half needs the
order of the first: a module's constructor speaks before the Manager names it, so a
batch may be filtered only after the allowlists were filled from all of it, and it must end
between transactions (`EndsClosed`, `FilledOK`). Of a contract nobody deployed the index takes
what it emits from the transaction that registers it on, and nothing before is due. Once
everything has landed, the views are rewritten as questions to the log (`ManagerRowsAre`, `HoldsIs`,
`ClosesAre`), and the story answers them.

**ProposalDraft** (`WebProofs`). The rules look at a draft, the Treasury at contracts. `DraftInd` ties
them: while the Treasury runs a draft, the contracts are what the rules look up in the actions
that have run (`Tracks`: the last pause or resume, the last call about the switch, the last about a
module, and where there is none what the index knew), and none of these was reported as
an order error (`Unalarmed`). A step keeps this because one more action is the last, if it is one
that is looked for (`LastGrows`). A call the contracts refuse is then one the rules
found (`RefusedIsFound`), and one they run is not (`RunsUnalarmed`).

**Renewal** (`AuctionAndStorageProofs`). `RenewalInd` follows a report from the reads to the ledger.
`Reading`: while the rounds go on, what an entry names is to be read once the entry was
found, and what was found is what lives, unless it was evicted, removed or written since. What
is written meanwhile lives `MinTtl` ledgers, which is months, so it does not lapse before the tab is
done (the assumption that `MaxLedger` is at most `2 + MinTtl`). From this `Complete`: a report overlooks
nothing, and goes on overlooking nothing while it is quoted in the same ledger. `Quoted`: the
transactions are those of the report. `Paid`: what the ledger took of them lives long
enough; only the first transaction restores (`RestoresFirst`), so no later one shortens
what was extended, and a quote that is used again meets its sequence numbers. `Sent` ties
what an attempt sent to what the ledger took. That batches fit and
cover the inventory is about two recursive functions over a list: they exist and unfold
(`Goes`, `Iterates`), the first keeps the keys it is asked for in their order (`InOrderHas`), and
after every key the plan fits and, flattened, is what was placed so far (`PlacedFits`,
`PlannedFits`, `FlattenAppend`).

**CodeRenewal** (`AuctionAndStorageProofs`). Days alone are no invariant: a hash fails, is cut
short by the fee, is not found by a lookup, or is released between runs. `KeptCode` is the
newest release and what the DAOs in sight run; `Lasting` says that such a hash has lost no
more days than passed since the last run that read and extended everything; `Sweeping` that a
run that was answered and has not failed has extended, or has still to extend, every hash of
`CodeInSight`, which counts the DAOs that moved before it started, so that they come into
sight, and the count starts anew, when it ends; `Counted` bounds the failures.
`CodeNeverLapses` follows if such a run is made more often than every `Days` (`Period < Days`). Nothing
is assumed of upgrades, of the other runs, or of which lookups fail.

What is proved per run, by the names of its properties:

| Run | Proved for all constants | Checked by TLC only |
| --- | --- | --- |
| `token` | all five | |
| `governance` | `TallyWithinSnapshot`, `OnlyPassedProceed`, `NoticeGiven`, `FollowsLife`, `ActsExactlyAsVoted`; `OnlyByProposal` as `ByProposal` | `EveryProposalEnds` is liveness |
| `auction` | `Solvent`, `NothingLost`, `HoldsWhatItSells`, `EndBounded` | `EveryAuctionSettles` is liveness |
| `claims` | `ClaimsInv`, `FollowsChart` | `EscrowLeaves` is liveness |
| `platform` | `ManagerInv`, `PromiseKept`, `UpgradesOrderly` | `SlugComesFree` is liveness |
| `market` | `MarketInv`, `RateHolds` | `StockReturns` is liveness |
| `creation` | `CreationInv`, `NoSecondSignature`, `PagesTellTheChain` | `SetupInv` (of `deploy-dao.mjs`); `CreationCompletes`, `EventuallyListed` are liveness |
| `member` | `TradeInv`, `RulesHold` | `ComposerHolds`; `StaysOnSaleSells` is liveness |
| `storage` | `RenewalInv`; `CodeAlive`, with `Period < Days` | `DaoRecovers` is liveness |

Liveness under fairness and ENABLED are beyond the prover. `SetupInv` is about plans folded over
lists of items and founders (`FoldLeft`): what these compute for every list is an induction over
data. Besides, it is false for artwork of several calls that is run again (section 5).
`ComposerHolds` is about a queue that is cut, sorted and put together again
(`InRowOrder`, `Without`, `ReplaceStep`): data as well, and small-scope by nature
(a few rows and bundles, edited in every order).

## 7. Not modelled

- *Metadata*: artwork properties, seeds and JSON are data; seeding at mint
  time is its only call and decides nothing.
- *Storage layout and lifetimes inside the contracts*: an archived entry makes
  calls fail until it is restored and changes no value; the threshold bumps
  that contracts make on use are left out of `Renewal`, which is the worst case
  for a sweep. Events, error codes, the encoding of proposals (an id is the hash
  of its actions), address prediction and salts.
- *Platform budgets* (how many actions or tokens fit a transaction) only make
  calls fail.
- *Web application*: most of the repository's lines are pages, forms and
  queries that show what the contracts decided, with no state of their own; also
  sign-in and sessions, comments, profiles and uploads, balances and receipts,
  merkle proofs and CSV parsing. What keeps state across awaits is modelled, the
  rest is listed in `PROJECT.json` with the reason.
- Within the modelled parts: the Manager's admin handover; approvals, balances,
  trustlines and pools in `ResaleTrade`; single-action forms, the proposal's
  text, a second tab and store operations that no page calls in `Composer`
  (an edit's import is atomic, dialogs are modal, Undo restores the snapshot);
  per-domain views in `Indexer`; in `DraftRules` the rules on transfer agents,
  on the other switches, on the market's pause, on a slug changed alone and on an
  allowance to be raised before an opening mints from it; in `Marketplace` tokens that members move go to members
  (`Move`); in `Token` a drive's freeze is stated of mints, switches and allowances, while
  the Manager may still register modules and agents for the DAO; validation of the configuration and
  `create_dao` in `DaoSetup`.
- *Bindings* are generated; *operator and end-to-end scripts* are sequential
  callers of what is modelled.
