------------------------------ MODULE DaoSetup ------------------------------
(***************************************************************************)
(* The admin_checklist and launch_dao phases of src/scripts/deploy-dao.mjs *)
(* against the Metadata and Token contracts of a DAO in setup: the calls   *)
(* planned from the configuration, what a run finds on chain and skips,    *)
(* and runs that stop at any call and are started again.                   *)
(*                                                                         *)
(* Item i of property p is <<p, i>>; a token is its index, from 1 (the     *)
(* contract counts from 0). A call whose answer is lost has been decided   *)
(* before the next run reads the chain.                                    *)
(***************************************************************************)
EXTENDS Integers, Sequences, SequencesExt, FiniteSetsExt

CONSTANTS
    Artworks,           \* configurations: sequences of numbers of items, one per property
    Allocations,        \* configurations: sequences of [to, amount]
    ItemsPerCall,       \* maxArtworkItemsPerCall
    Budget, PerToken, PerRecipient, \* of a batch_mint's events
    Reruns,             \* whether a run may stop before its end, or be repeated
    MintedEarlier       \* whether founder batches may have been minted before the artwork

\* Asserted where the module is instantiated.
SetupAssumption ==
    /\ \A a \in Artworks : Len(a) > 0 /\ \A p \in DOMAIN a : a[p] > 0
    /\ \A a \in Allocations : Len(a) > 0 /\ \A k \in DOMAIN a : a[k].amount > 0
    /\ ItemsPerCall > 0 /\ Budget >= PerToken + PerRecipient
    /\ {Reruns, MintedEarlier} \subseteq BOOLEAN

VARIABLES
    config,         \* [artwork, founders]
    calls, batches, \* planned from it
    properties,     \* Metadata: the items of each property
    groups,         \* Metadata: ipfs_data_count
    owners,         \* Token: owner of each token, in the order of ids
    seeded,         \* Metadata: tokens with attributes
    live,
    step,           \* of the run: "idle", "artwork", "mint", "seed"
    next,           \* the batch the step is at
    applied,        \* ipfs_data_count, as read when the run started
    status,         \* of the artifact: "created", "partial", "complete", "operational"
    blind           \* history: a batch on chain was minted again, both its reads having failed

chain == <<properties, groups, owners, seeded, live>>
plans == <<config, calls, batches>>
vars == <<plans, chain, step, next, applied, status, blind>>

-----------------------------------------------------------------------------
(* The plans. *)

NewCall == [names |-> <<>>, items |-> <<>>]

Flush(plan) ==
    IF plan.call.items = <<>> THEN plan
    ELSE [calls |-> Append(plan.calls, plan.call), call |-> NewCall,
          created |-> plan.created + Len(plan.call.names)]

\* A property the open call creates is addressed by its place among the call's names.
Place(plan, p) ==
    IF Contains(plan.call.names, p)
    THEN [property |-> SelectInSeq(plan.call.names, LAMBDA n : n = p), new |-> TRUE]
    ELSE [property |-> p, new |-> FALSE]

PlanItem(before, item) ==
    LET p == item[1]
        plan == IF Len(before.call.items) = ItemsPerCall THEN Flush(before) ELSE before
        named == IF p > plan.created /\ ~Contains(plan.call.names, p)
                 THEN [plan EXCEPT !.call.names = Append(@, p)] ELSE plan IN
    [named EXCEPT !.call.items = Append(@, [at |-> Place(named, p), item |-> item])]

ItemsOf(artwork) == FlattenSeq([p \in DOMAIN artwork |-> [i \in 1 .. artwork[p] |-> <<p, i>>]])

\* planArtworkBatches
ArtworkBatches(artwork) ==
    Flush(FoldLeft(PlanItem, [calls |-> <<>>, call |-> NewCall, created |-> 0], ItemsOf(artwork))).calls

Cost(tokens, recipients) == tokens * PerToken + recipients * PerRecipient

MaxToOne == (Budget - PerRecipient) \div PerToken

\* An allocation too large for a call is split.
PiecesOf(a) ==
    LET n == (a.amount + MaxToOne - 1) \div MaxToOne IN
    [k \in 1 .. n |-> [a EXCEPT !.amount = IF k < n THEN MaxToOne ELSE a.amount - MaxToOne * (n - 1)]]

Total(batch) == FoldLeft(LAMBDA sum, e : sum + e.amount, 0, batch)

FaultyFits(batch, piece) == Cost(Total(batch) + piece.amount, Len(batch)) <= Budget

Fits(batch, piece) == Cost(Total(batch) + piece.amount, Len(batch) + 1) <= Budget

PackPiece(plan, piece) ==
    IF Fits(plan.open, piece)
    THEN [plan EXCEPT !.open = Append(@, piece)]
    ELSE [closed |-> Append(plan.closed, plan.open), open |-> <<piece>>]

\* planFounderBatches
FounderBatches(founders) ==
    LET plan == FoldLeft(PackPiece, [closed |-> <<>>, open |-> <<>>],
                         FlattenSeq([k \in DOMAIN founders |-> PiecesOf(founders[k])])) IN
    Append(plan.closed, plan.open)

\* The number of tokens of the first k batches.
Through(k) == FoldLeft(LAMBDA sum, b : sum + Total(b), 0, SubSeq(batches, 1, k))

-----------------------------------------------------------------------------

OwnersOf(batch) == FlattenSeq([k \in DOMAIN batch |-> [n \in 1 .. batch[k].amount |-> batch[k].to]])

\* The DAO is created; founders may have been minted before there was any artwork.
Init ==
    /\ config \in [artwork : Artworks, founders : Allocations]
    /\ calls = ArtworkBatches(config.artwork) /\ batches = FounderBatches(config.founders)
    /\ properties = <<>> /\ groups = 0 /\ seeded = {} /\ live = FALSE
    /\ owners \in {OwnersOf(FlattenSeq(SubSeq(batches, 1, k))) :
                      k \in IF MintedEarlier THEN 0 .. Len(batches) ELSE {0}}
    /\ step = "idle" /\ next = 1 /\ applied = 0 /\ status = "created"
    /\ blind = FALSE

TypeOK ==
    /\ \A p \in DOMAIN properties : Len(properties[p]) > 0
    /\ groups \in Nat /\ seeded \subseteq DOMAIN owners
    /\ ToSet(owners) \subseteq {config.founders[k].to : k \in DOMAIN config.founders}
    /\ step \in {"idle", "artwork", "mint", "seed"} /\ next \in Nat \ {0}
    /\ applied \in 0 .. groups
    /\ status \in {"created", "partial", "complete", "operational"} /\ blind \in BOOLEAN

-----------------------------------------------------------------------------
(* The contracts. *)

\* One item added by add_properties: an id is absolute, or counted after what was stored.
AddItem(stored, add) ==
    LET p == add.at.property + (IF add.at.new THEN stored.before ELSE 0) IN
    [stored EXCEPT !.properties[p] = Append(@, add.item)]

\* add_properties. The script sends one IPFS group with every call: the group that is last is reused.
AddProperties(call) ==
    LET before == Len(properties)
        opened == [before |-> before, properties |-> properties \o [n \in DOMAIN call.names |-> <<>>]] IN
    /\ properties' = FoldLeft(AddItem, opened, call.items).properties
    /\ groups' = 1
    /\ UNCHANGED <<owners, seeded, live>>

\* batch_mint within its event budget; the hook seeds the tokens when there is artwork.
BatchMint(batch) ==
    /\ Cost(Total(batch), Len(batch)) <= Budget
    /\ owners' = owners \o OwnersOf(batch)
    /\ seeded' = IF properties = <<>> THEN seeded
                 ELSE seeded \cup (Len(owners) + 1 .. Len(owners) + Total(batch))
    /\ UNCHANGED <<properties, groups, live>>

Regenerate(id) ==
    /\ id \in DOMAIN owners \ seeded /\ properties # <<>>
    /\ seeded' = seeded \cup {id}
    /\ UNCHANGED <<properties, groups, owners, live>>

-----------------------------------------------------------------------------
(* The script. *)

Go(s, n) == step' = s /\ next' = n

\* A run begins by reading how many artwork calls are on chain.
Start ==
    /\ step = "idle" /\ ~live /\ (status = "created" \/ Reruns)
    /\ groups <= Len(calls)
    /\ applied' = groups
    /\ Go("artwork", 1)
    /\ UNCHANGED <<plans, chain, status, blind>>

\* The call lands, and the run goes on or its answer is lost; or it does not land. A run that
\* stops keeps what is on chain; the artifact says so, or says nothing.
Answered(n) ==
    \/ Go(step, n) /\ status' = "partial"
    \/ Reruns /\ Go("idle", 1) /\ status' \in {status, "partial"}

Stop ==
    /\ Reruns /\ step # "idle"
    /\ Go("idle", 1) /\ status' \in {status, "partial"}
    /\ UNCHANGED <<plans, chain, applied, blind>>

\* Calls the count covers are on chain.
Skipped(i) == i <= applied

AddArtwork ==
    /\ step = "artwork"
    /\ \/ next <= Len(calls) /\ ~Skipped(next)
          /\ AddProperties(calls[next]) /\ Answered(next + 1)
       \/ next <= Len(calls) /\ Skipped(next) /\ Go(step, next + 1) /\ UNCHANGED <<chain, status>>
       \/ next > Len(calls) /\ Go("mint", 1) /\ UNCHANGED <<chain, status>>
    /\ UNCHANGED <<plans, applied, blind>>

FaultyTokenExists(id, answered) == answered /\ id + 1 <= Len(owners)
\* owner_of: a view that fails is taken for a token that does not exist.
TokenExists(id, answered) == answered /\ id <= Len(owners)

\* A batch is atomic, so one that has its last token is skipped, and one that has its first
\* token only must be reconciled by hand.
MintFounders ==
    /\ step = "mint"
    /\ \/ /\ next <= Len(batches)
          /\ \E answers \in BOOLEAN \X BOOLEAN :
                LET last == TokenExists(Through(next), answers[1])
                    first == TokenExists(Through(next - 1) + 1, answers[2]) IN
                \/ last /\ Go(step, next + 1) /\ UNCHANGED <<chain, status, blind>>
                \/ ~last /\ first /\ Go("idle", 1) /\ status' = "partial" /\ UNCHANGED <<chain, blind>>
                \/ /\ ~last /\ ~first /\ BatchMint(batches[next]) /\ Answered(next + 1)
                   /\ blind' = (blind \/ (answers = <<FALSE, FALSE>> /\ Len(owners) > Through(next - 1)))
       \/ next > Len(batches) /\ Go("seed", 1) /\ UNCHANGED <<chain, status, blind>>
    /\ ~blind \/ UNCHANGED owners     \* Bound: nothing is minted after a batch was minted again.
    /\ UNCHANGED <<plans, applied>>

\* Where the loop goes from a token that has its traits: from the first of a batch to the next
\* batch, since a batch is seeded with its mint.
After(id) ==
    LET starts == {k \in DOMAIN batches : Through(k - 1) + 1 = id} IN
    IF starts = {} THEN id + 1 ELSE Through(Min(starts)) + 1

\* isSeeded of a batch's first token may fail too: then each of its tokens is asked for. When
\* both fail for a token that is seeded, regenerate is refused and the run stops (Stop).
SeedFounders ==
    /\ step = "seed"
    /\ \/ /\ next <= Through(Len(batches)) /\ next \notin seeded
          /\ Regenerate(next) /\ Answered(next + 1)
       \/ /\ next <= Through(Len(batches)) /\ next \in seeded
          /\ Go(step, After(next)) \/ Go(step, next + 1)
          /\ UNCHANGED <<chain, status>>
       \/ next > Through(Len(batches)) /\ Go("idle", 1) /\ status' = "complete" /\ UNCHANGED chain
    /\ UNCHANGED <<plans, applied, blind>>

\* launch_dao, once the artifact was reviewed; the Manager wants a voting supply.
Launch ==
    /\ step = "idle" /\ status = "complete" /\ ~live /\ owners # <<>>
    /\ live' = TRUE /\ status' = "operational"
    /\ UNCHANGED <<plans, properties, groups, owners, seeded, step, next, applied, blind>>

Next ==
    \/ Start \/ AddArtwork \/ MintFounders \/ SeedFounders \/ Stop \/ Launch

Spec == Init /\ [][Next]_vars

\* A batch that is on chain in part stops every run.
InPart(k) == k <= Len(batches) /\ Through(k - 1) < Len(owners) /\ Len(owners) < Through(k)

\* A run ends before its time only so often, by a stop, a lost answer or a read that failed.
EndsEarly ==
    /\ step # "idle" /\ step' = "idle" /\ status' # "complete"
    /\ ~(step = "mint" /\ InPart(next))

\* The checklist is run until it completes.
FairSpec ==
    /\ Spec
    /\ WF_vars(AddArtwork \/ MintFounders \/ SeedFounders \/ (Start /\ status # "complete"))
    /\ <>[][~EndsEarly]_vars

-----------------------------------------------------------------------------
(* Properties *)

Checked == status \in {"complete", "operational"}

\* The artwork on chain is the configured one, each item once under its property, although a
\* property may begin in one call and go on in the next (planArtworkBatches, _add_properties).
ArtworkAsConfigured ==
    Checked => properties = [p \in DOMAIN config.artwork |-> [i \in 1 .. config.artwork[p] |-> <<p, i>>]]

Held(who) == Cardinality({id \in DOMAIN owners : owners[id] = who})
Allocated(who) == Total(SelectSeq(config.founders, LAMBDA a : a.to = who))

\* No founder is minted more than the configuration gives them, however often the checklist
\* is stopped and run again and whichever single read fails, and all of it once it is
\* complete. It takes both reads of a batch to mint what is on chain again (tokenExists).
FoundersMinted ==
    \A who \in {config.founders[k].to : k \in DOMAIN config.founders} :
        ~blind => Held(who) <= Allocated(who) /\ (Checked => Held(who) = Allocated(who))

\* When the checklist is complete every founder token has traits: "Founder traits verified".
FoundersSeeded == Checked => seeded = DOMAIN owners

\* No artwork call is made again that is on chain already: "ipfs_data_count tells how many planned
\* calls are already on chain".
NoItemTwice == IsInjective(FlattenSeq(properties))

\* What the checklist leaves on chain, whenever it is complete and before.
SetupInv == TypeOK /\ ArtworkAsConfigured /\ FoundersMinted /\ FoundersSeeded

\* The checklist completes: no batch is planned that the contracts refuse, and no run, stopped
\* or misled by one read, leaves what must be reconciled by hand. Only a batch that was minted
\* again, both its reads having failed, may leave that.
Completes == <>(status = "complete" \/ blind)
=============================================================================
