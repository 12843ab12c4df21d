---------------------------- MODULE ClaimMinter ----------------------------
(***************************************************************************)
(* Claim lists and the assurance drive (src/contracts/minter), with the    *)
(* two entry points of the Manager that open a drive and launch it: what   *)
(* members pay waits in escrow until the DAO launches or the drive fails.  *)
(*                                                                         *)
(* A merkle root is a function from claimers to the amount of their leaf   *)
(* (0: not in the tree); a claim with a proof of another leaf is refused.  *)
(* Of the Token only the module's allowance is kept (Token.tla has the     *)
(* rest), as an ordinary, spent one.                                       *)
(*                                                                         *)
(* A definition named Faulty... is the one after it with a plausible fault *)
(* seeded, to see that the properties notice; nothing uses it.             *)
(***************************************************************************)
EXTENDS Integers, Sequences, FiniteSets, Functions

CONSTANTS
    Claimers,
    Assets, PaymentAsset,   \* PaymentAsset: ClaimsConfig.payment_asset
    MaxBatch,               \* common::MAX_BATCH_MINT
    MaxWindow,              \* MAX_ASSURANCE_WINDOW
    \* Inputs the environment may use, and bounds on the exploration.
    Funds,                  \* what each claimer owns of each asset
    Trees,                  \* possible leaves of a list
    Offers,                 \* possible terms of a list
    Grants,                 \* allowances an admin sets
    MaxLists, MaxTime

LeafSets == [Claimers -> Nat]
Terms == [price : Nat, total : Nat, expires : Nat, threshold : Nat, deadline : Nat]

ASSUME ClaimMinterAssumption ==
    /\ PaymentAsset \in Assets
    /\ IsFiniteSet(Claimers)
    /\ MaxBatch \in Nat \ {0} /\ MaxWindow \in Nat
    /\ MaxLists \in Nat /\ MaxTime \in Nat /\ Funds \in Nat
    /\ Trees \subseteq LeafSets /\ Offers \subseteq Terms /\ Grants \subseteq Nat

VARIABLES
    now,
    live,           \* the lifecycle of the ClaimMinter and of the Token: one transaction
    admin,          \* of the ClaimMinter and of the Token: "launch_admin" or "treasury"
    artwork,        \* the metadata has artwork
    lists,          \* [1 .. n -> list], list_id + 1 is the index
    assuranceList,  \* its index, 0 for none
    drive,          \* the Manager's Assurance record, NoDrive for none
    claims,         \* [1 .. n -> [Claimers -> record]]
    allowance,      \* mint_allowance(ClaimMinter) on the Token
    \* The contracts around it.
    purse,          \* [Claimers -> [Assets -> Nat]], what claimers own
    held,           \* [Assets -> Nat], what the ClaimMinter holds
    treasury,       \* [Assets -> Nat], what it has paid to the Treasury
    refunded        \* history: [Claimers -> Nat]

listVars == <<lists, assuranceList, claims>>
moneyVars == <<purse, held, treasury, refunded>>
vars == <<now, live, admin, artwork, listVars, drive, allowance, moneyVars>>

NoDrive == [list |-> 0, deadline |-> 0]
NoClaim == [claimed |-> 0, escrowed |-> 0]
Lists ==
    [leaves : LeafSets, asset : Assets, price : Nat, total : Nat, expires : Nat,
     threshold : Nat, deadline : Nat, minted : Nat, claimers : Nat, escrow : Nat]
Records == [claimed : Nat, escrowed : Nat]
Ids == DOMAIN lists

TypeOK ==
    /\ now \in Nat
    /\ live \in BOOLEAN /\ artwork \in BOOLEAN
    /\ admin \in {"launch_admin", "treasury"}
    /\ lists \in Seq(Lists)
    /\ assuranceList \in 0 .. Len(lists)
    /\ drive \in [list : Nat, deadline : Nat]
    /\ claims \in [Ids -> [Claimers -> Records]]
    /\ allowance \in Nat
    /\ purse \in [Claimers -> [Assets -> Nat]]
    /\ held \in [Assets -> Nat] /\ treasury \in [Assets -> Nat]
    /\ refunded \in [Claimers -> Nat]

Init ==
    /\ now = 0
    /\ live = FALSE /\ admin = "launch_admin" /\ artwork = FALSE
    /\ lists = <<>> /\ claims = <<>>
    /\ assuranceList = 0 /\ drive = NoDrive
    /\ allowance = 0
    /\ purse = [c \in Claimers |-> [a \in Assets |-> Funds]]
    /\ held = [a \in Assets |-> 0] /\ treasury = [a \in Assets |-> 0]
    /\ refunded = [c \in Claimers |-> 0]

-----------------------------------------------------------------------------
(* The two rules of failure: the list's own, and the Manager's.            *)

FaultyFailed(l) ==
    lists[l].threshold > 0 /\ now >= lists[l].deadline /\ ~live

FaultyFailedUnmet(l) ==                     \* a met drive never fails
    /\ lists[l].threshold > 0 /\ now > lists[l].deadline /\ ~live
    /\ lists[l].claimers < lists[l].threshold

\* failed, for a list with assurance terms.
Failed(l) == lists[l].threshold > 0 /\ now > lists[l].deadline /\ ~live

\* drive_failed, from the Manager's own copy of the deadline.
DriveFailed == now > drive.deadline /\ ~live

FaultyMet(l) == lists[l].minted >= lists[l].threshold

\* assurance_state is Met (a failed list never is).
Met(l) == ~Failed(l) /\ lists[l].claimers >= lists[l].threshold

-----------------------------------------------------------------------------
(* Lists.                                                                  *)

\* The checks of open_list that do not depend on the phase.
ValidTerms(t) ==
    /\ t.total > 0
    /\ t.expires > now
    /\ t.threshold > 0 => t.deadline > now /\ t.deadline <= t.expires

AddList(leaves, asset, t) ==
    /\ Len(lists) < MaxLists                                    \* bound
    /\ ValidTerms(t)
    /\ lists' = Append(lists,
                       [leaves |-> leaves, asset |-> asset, price |-> t.price,
                        total |-> t.total, expires |-> t.expires,
                        threshold |-> t.threshold, deadline |-> t.deadline,
                        minted |-> 0, claimers |-> 0, escrow |-> 0])
    /\ claims' = Append(claims, [c \in Claimers |-> NoClaim])

\* open_list by the admin alone: a free list of the launch admin in Setup, or
\* any list without assurance by the Treasury once live.
OpenList(leaves, asset, t) ==
    /\ t.threshold = 0
    /\ \/ live
       \/ /\ admin = "launch_admin"
          /\ t.price = 0
          /\ asset = PaymentAsset
          /\ artwork
    /\ AddList(leaves, asset, t)
    /\ UNCHANGED <<now, live, admin, artwork, assuranceList, drive, allowance, moneyVars>>

\* manager.open_assurance: open the list, grant its total, record the drive
\* and hand every admin to the Treasury.
OpenAssurance(leaves, t) ==
    /\ drive = NoDrive
    /\ admin = "launch_admin" /\ ~live
    /\ t.deadline <= now + MaxWindow
    /\ t.threshold > 0                      \* open_list: InvalidAssurance
    /\ artwork
    /\ assuranceList = 0                    \* open_list: AssuranceExists
    /\ AddList(leaves, PaymentAsset, t)
    /\ assuranceList' = Len(lists) + 1
    /\ allowance' = allowance + t.total
    /\ drive' = [list |-> Len(lists) + 1, deadline |-> t.deadline]
    /\ admin' = "treasury"
    /\ UNCHANGED <<now, live, artwork, moneyVars>>

-----------------------------------------------------------------------------
(* Claims.                                                                 *)

\* Payments of the assurance list wait for the launch.
Escrows(l) == lists[l].threshold > 0 /\ ~live

\* claimer_count: an address counts once per list.
CountsAnew(record, k) == record.claimed = 0

\* token.batch_mint spends the module's allowance, or refuses.
SpendAllowance(k) ==
    /\ k <= allowance
    /\ allowance' = allowance - k

\* claim: k tokens of the caller's leaf, paid for at the list's price.
Claim(c, l, k) ==
    LET list == lists[l]
        cost == list.price * k
        escrowed == IF Escrows(l) THEN cost ELSE 0
        record == claims[l][c]
    IN  /\ now < list.expires
        /\ ~Failed(l)
        /\ list.leaves[c] > 0
        /\ record.claimed + k <= list.leaves[c]
        /\ list.minted + k <= list.total
        /\ cost <= purse[c][list.asset]
        /\ SpendAllowance(k)
        /\ purse' = [purse EXCEPT ![c][list.asset] = @ - cost]
        /\ held' = [held EXCEPT ![list.asset] = @ + escrowed]
        /\ treasury' = [treasury EXCEPT ![list.asset] = @ + (cost - escrowed)]
        /\ lists' = [lists EXCEPT ![l].minted = @ + k,
                                  ![l].escrow = @ + escrowed,
                                  ![l].claimers = IF CountsAnew(record, k) THEN @ + 1
                                                  ELSE @]
        /\ claims' = [claims EXCEPT ![l][c] = [claimed |-> @.claimed + k,
                                               escrowed |-> @.escrowed + escrowed]]
        /\ UNCHANGED <<now, live, admin, artwork, assuranceList, drive, refunded>>

\* refund: by anyone, to the claimer, from a failed list.
Refund(c, l) ==
    LET amount == claims[l][c].escrowed
    IN  /\ lists[l].threshold > 0
        /\ Failed(l)
        /\ amount > 0
        /\ held[lists[l].asset] >= amount      \* the transfer
        /\ claims' = [claims EXCEPT ![l][c].escrowed = 0]
        /\ lists' = [lists EXCEPT ![l].escrow = @ - amount]
        /\ purse' = [purse EXCEPT ![c][lists[l].asset] = @ + amount]
        /\ held' = [held EXCEPT ![lists[l].asset] = @ - amount]
        /\ refunded' = [refunded EXCEPT ![c] = @ + amount]
        /\ UNCHANGED <<now, live, admin, artwork, assuranceList, drive, allowance,
                       treasury>>

\* release: a list's escrow to the Treasury; nothing happens when it is empty.
ReleaseEscrow(l) ==
    LET amount == lists[l].escrow
        asset == lists[l].asset
    IN  /\ lists' = [lists EXCEPT ![l].escrow = 0]
        /\ held' = [held EXCEPT ![asset] = @ - amount]
        /\ treasury' = [treasury EXCEPT ![asset] = @ + amount]

Release(l) ==
    /\ live
    /\ ReleaseEscrow(l)
    /\ UNCHANGED <<now, live, admin, artwork, assuranceList, claims, drive, allowance,
                   purse, refunded>>

-----------------------------------------------------------------------------
(* The Manager's side.                                                     *)

\* launch_pending: with a drive it must be met and not failed, else the
\* launch admin must still be the admin.
MayLaunch ==
    IF drive = NoDrive THEN admin = "launch_admin"
    ELSE ~DriveFailed /\ Met(drive.list)

\* launch_dao and launch_when_ready: all contracts go live, the Token first,
\* and the ClaimMinter's launch releases the assurance escrow.
Launch ==
    /\ ~live
    /\ MayLaunch
    /\ live' = TRUE
    /\ admin' = "treasury"
    /\ IF assuranceList = 0 THEN UNCHANGED <<lists, held, treasury>>
       ELSE ReleaseEscrow(assuranceList)
    /\ drive' = NoDrive
    /\ UNCHANGED <<now, artwork, assuranceList, claims, allowance, purse, refunded>>

\* The launch admin until a drive or the launch, the DAO once live; in
\* between the Treasury cannot act (Treasury.tla: Execute needs the Governor).
AdminActs == admin = "launch_admin" \/ live

AddArtwork ==
    /\ AdminActs /\ ~artwork
    /\ artwork' = TRUE
    /\ UNCHANGED <<now, live, admin, listVars, drive, allowance, moneyVars>>

SetAllowance(n) ==
    /\ AdminActs
    /\ allowance' = n
    /\ UNCHANGED <<now, live, admin, artwork, listVars, drive, moneyVars>>

Tick ==
    /\ now < MaxTime                                            \* bound
    /\ now' = now + 1
    /\ UNCHANGED <<live, admin, artwork, listVars, drive, allowance, moneyVars>>

Next ==
    \/ \E leaves \in Trees, asset \in Assets, t \in Offers : OpenList(leaves, asset, t)
    \/ \E leaves \in Trees, t \in Offers : OpenAssurance(leaves, t)
    \/ \E c \in Claimers, l \in Ids, k \in 1 .. MaxBatch : Claim(c, l, k)
    \/ \E c \in Claimers, l \in Ids : Refund(c, l)
    \/ \E l \in Ids : Release(l)
    \/ Launch
    \/ AddArtwork
    \/ \E n \in Grants : SetAllowance(n)
    \/ Tick

Spec == Init /\ [][Next]_vars

\* Refunds are open to anyone and pay the claimer; time passes.
FairSpec ==
    /\ Spec
    /\ WF_vars(Tick)
    /\ \A c \in Claimers : WF_vars(\E l \in Ids : Refund(c, l))

-----------------------------------------------------------------------------
(* Properties.                                                             *)

\* The contract holds, in each asset, exactly the escrow of its lists, and a
\* list's escrow is the sum of its claimers' records as long as the DAO is not
\* live: no claim, refund or release forgets one of the three books.
BooksAgree ==
    /\ \A a \in Assets :
        held[a] = SumFunctionOnSet([l \in Ids |-> lists[l].escrow],
                                   {l \in Ids : lists[l].asset = a})
    /\ \A l \in Ids :
        IF live THEN lists[l].escrow = 0
        ELSE lists[l].escrow = SumFunction([c \in Claimers |-> claims[l][c].escrowed])

\* Until the DAO is live nobody has parted with any money for good: what a
\* claimer owns and what is held for them is what they started with.
NobodyPaysBeforeLaunch ==
    ~live => \A c \in Claimers, a \in Assets :
        purse[c][a] + (IF assuranceList # 0 /\ a = PaymentAsset
                       THEN claims[assuranceList][c].escrowed ELSE 0) = Funds

\* An address counts once towards the threshold, tokens never exceed the leaf
\* nor the list, whatever parts they are claimed in.
ClaimsWithinTree ==
    \A l \in Ids :
        /\ \A c \in Claimers : claims[l][c].claimed <= lists[l].leaves[c]
        /\ lists[l].claimers = Cardinality({c \in Claimers : claims[l][c].claimed > 0})
        /\ lists[l].minted = SumFunction([c \in Claimers |-> claims[l][c].claimed])
        /\ lists[l].minted <= lists[l].total

\* During a drive only claims on other lists, opened before it, can use up
\* the allowance granted for the drive: no admin can take it away.
DriveStocked ==
    drive # NoDrive /\ ~live =>
        LET others == SumFunctionOnSet([l \in Ids |-> lists[l].minted], Ids \ {drive.list})
        IN  allowance + others >= lists[drive.list].total - lists[drive.list].minted

\* The Manager and the ClaimMinter never disagree on whether a drive failed,
\* though each has its own deadline.
SameVerdict ==
    drive # NoDrive => /\ drive.list = assuranceList
                       /\ DriveFailed <=> Failed(drive.list)

\* What every call of the two contracts keeps.
ClaimsInv ==
    /\ TypeOK /\ BooksAgree /\ NobodyPaysBeforeLaunch
    /\ ClaimsWithinTree /\ DriveStocked /\ SameVerdict

\* Refines the state chart of the drive: Launch only from Met, refunds only
\* after a failure, which is final.
Phase ==
    CASE live -> "live"
      [] ~live /\ assuranceList = 0 -> "none"
      [] ~live /\ assuranceList # 0 ->
            IF Failed(assuranceList) THEN "failed"
            ELSE IF lists[assuranceList].claimers >= lists[assuranceList].threshold THEN "met"
            ELSE "open"

Recorded ==
    [c \in Claimers |-> IF assuranceList = 0 THEN 0 ELSE claims[assuranceList][c].escrowed]

Life == INSTANCE AssuranceLife WITH
    phase <- Phase,
    escrow <- IF live THEN [c \in Claimers |-> 0] ELSE Recorded,
    taken <- IF live THEN Recorded ELSE [c \in Claimers |-> 0],
    returned <- refunded

\* The claims and the drive behave as the state chart promises.
FollowsChart == Life!LifeSpec

\* Escrow never stays: it is released or refunded, whoever disappears.
EscrowLeaves == (held[PaymentAsset] > 0) ~> (held[PaymentAsset] = 0)
=============================================================================
