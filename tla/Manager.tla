------------------------------ MODULE Manager ------------------------------
(***************************************************************************)
(* The Manager as the factory of DAOs (src/contracts/manager): creation,   *)
(* modules, assurance drives, launch and slugs. Registry.tla has the other *)
(* half of the contract.                                                   *)
(*                                                                         *)
(* Each call is one transaction. The contracts a DAO consists of are kept  *)
(* as far as the Manager reads or writes them: the Token's admin, supply   *)
(* and module registry, the code they run, their payment assets, and       *)
(* whether the claims reached the threshold (ClaimMinter.tla).             *)
(*                                                                         *)
(* A module is 0 (none), 1 (deployed with the DAO) or n + 2 for the one    *)
(* create_module deployed with index n.                                    *)
(*                                                                         *)
(* A definition named Faulty... is the one after it with a plausible fault *)
(* seeded, to see that the properties notice; nothing uses it.             *)
(***************************************************************************)
EXTENDS Integers, Sequences, FiniteSets

CONSTANTS
    Daos, Slugs,
    Kinds,              \* of modules, "claims" among them
    Hashes, FirstHash,  \* one hash stands for a release of all contracts
    Paths,              \* approved upgrades, a subset of Hashes \X Hashes
    Configs,            \* LaunchConfig
    MaxWindow,          \* MAX_ASSURANCE_WINDOW
    \* Bounds on the exploration.
    MaxModules, MaxPlans, MaxTime

None == "none"

ASSUME ManagerAssumption ==
    /\ None \notin Daos \cup Slugs \cup Configs
    /\ "claims" \in Kinds /\ "core" \notin Kinds
    /\ FirstHash \in Hashes /\ Paths \subseteq Hashes \X Hashes
    /\ MaxWindow \in Nat /\ MaxModules \in Nat /\ MaxPlans \in Nat /\ MaxTime \in Nat

VARIABLES
    now,
    paused,         \* the factory is paused
    current,        \* CurrentImplementations
    revoked,
    dao,            \* [Daos -> record]: PendingDao, Assurance and the DAO's contracts
    slugToDao,      \* [Slugs -> Daos or None]
    daoSlug,        \* [Daos -> Slugs or None]
    plans,          \* proposals that create a module and register it
    builder         \* history: [Daos -> [Kinds -> who deployed the modules, in order]]

platformVars == <<paused, current, revoked>>
slugVars == <<slugToDao, daoSlug>>
vars == <<now, platformVars, dao, slugVars, plans, builder>>

Parts == Kinds \cup {"core"}
NoDrive == [deadline |-> 0, config |-> None]

\* slug is PendingDao's; opened is the config the DAO was launched with; tuned
\* are the modules whose payment asset is not the one recorded.
DaoRecords ==
    [stage : {"absent", "pending", "live"}, admin : {"launch_admin", "treasury"},
     slug : Slugs \cup {None}, drive : [deadline : Nat, config : Configs \cup {None}],
     met : BOOLEAN, supply : BOOLEAN, tuned : SUBSET Kinds, opened : Configs \cup {None},
     modules : [Kinds -> Nat], count : [Kinds -> Nat], code : [Parts -> Hashes]]

Plans == [dao : Daos, kind : Kinds, n : Nat, done : BOOLEAN]

TypeOK ==
    /\ now \in Nat /\ paused \in BOOLEAN
    /\ current \in Hashes /\ revoked \subseteq Hashes
    /\ dao \in [Daos -> DaoRecords]
    /\ \A d \in Daos, k \in Kinds : dao[d].modules[k] <= dao[d].count[k] + 1
    /\ slugToDao \in [Slugs -> Daos \cup {None}]
    /\ daoSlug \in [Daos -> Slugs \cup {None}]
    /\ plans \in Seq(Plans)
    /\ builder \in [Daos -> [Kinds -> Seq(Nat)]]

Init ==
    /\ now = 0 /\ paused = FALSE
    /\ current = FirstHash /\ revoked = {}
    /\ dao = [d \in Daos |->
                [stage |-> "absent", admin |-> "launch_admin", slug |-> None,
                 drive |-> NoDrive, met |-> FALSE, supply |-> FALSE, tuned |-> {},
                 opened |-> None, modules |-> [k \in Kinds |-> 0],
                 count |-> [k \in Kinds |-> 0], code |-> [p \in Parts |-> FirstHash]]]
    /\ slugToDao = [s \in Slugs |-> None] /\ daoSlug = [d \in Daos |-> None]
    /\ plans = <<>>
    /\ builder = [d \in Daos |-> [k \in Kinds |-> <<>>]]

-----------------------------------------------------------------------------

Pending(d) == dao[d].stage = "pending"
Live(d) == dao[d].stage = "live"
InDrive(d) == Pending(d) /\ dao[d].drive # NoDrive

\* The launch admin until a drive or the launch; the DAO's proposals once
\* live. In between the Treasury, which cannot act, is the admin.
AdminActs(d) == Live(d) \/ (Pending(d) /\ dao[d].admin = "launch_admin")

FaultyDriveFailed(d) == now > dao[d].drive.deadline /\ ~Live(d) /\ ~dao[d].met

DriveFailed(d) == now > dao[d].drive.deadline /\ ~Live(d)

\* require_slug_unclaimed
Unclaimed(s) == slugToDao[s] = None

\* claim_slug
ClaimSlug(d, s) ==
    /\ slugToDao' = [slugToDao EXCEPT ![s] = d]
    /\ daoSlug' = [daoSlug EXCEPT ![d] = s]

Present(d) == {k \in Kinds : dao[d].modules[k] # 0}

\* create_dao, with the modules of the given kinds. The slug is not claimed.
CreateDao(d, s, kinds) ==
    /\ dao[d].stage = "absent"
    /\ ~paused
    /\ Unclaimed(s)
    /\ current \notin revoked               \* current_wasm
    /\ dao' = [dao EXCEPT ![d].stage = "pending", ![d].slug = s,
                          ![d].modules = [k \in Kinds |-> IF k \in kinds THEN 1 ELSE 0],
                          ![d].code = [p \in Parts |-> current]]
    /\ UNCHANGED <<now, platformVars, slugVars, plans, builder>>

NextCount(d, k) == [dao[d].count EXCEPT ![k] = @ + 1]

\* expected_n = module_count, else StaleModuleIndex.
Indexed(d, k, expected) == expected = dao[d].count[k]

\* What create_module deploys, and what a caller then registers as the module
\* of index n; the Token holds one module of a kind (KindTaken).
Deploy(d, k, n, by) ==
    /\ ~paused
    /\ AdminActs(d)
    /\ Indexed(d, k, n)
    /\ current \notin revoked
    /\ dao[d].modules[k] = 0
    /\ dao' = [dao EXCEPT ![d].count = NextCount(d, k),
                          ![d].modules[k] = n + 2,
                          ![d].code[k] = current,
                          ![d].tuned = @ \ {k}]
    /\ builder' = [builder EXCEPT ![d][k] = Append(@, by)]

\* create_module by the launch admin: registers the module at once.
CreateModule(d, k, n) ==
    /\ Pending(d)
    /\ dao[d].count[k] < MaxModules                             \* bound
    /\ Deploy(d, k, n, 0)
    /\ UNCHANGED <<now, platformVars, slugVars, plans>>

\* A member drafts a proposal with the module_count of the day in it.
Draft(d, k) ==
    /\ Live(d)
    /\ Len(plans) < MaxPlans                                    \* bound
    /\ plans' = Append(plans, [dao |-> d, kind |-> k, n |-> dao[d].count[k], done |-> FALSE])
    /\ UNCHANGED <<now, platformVars, dao, slugVars, builder>>

\* Its execution: create_module, then token.register_module of the predicted
\* address, or neither.
Execute(p) ==
    /\ ~plans[p].done
    /\ Deploy(plans[p].dao, plans[p].kind, plans[p].n, p)
    /\ plans' = [plans EXCEPT ![p].done = TRUE]
    /\ UNCHANGED <<now, platformVars, slugVars>>

\* token.unregister_module by proposal; in Setup only the Manager may, and it
\* has no such call.
Unregister(d, k) ==
    /\ Live(d) /\ dao[d].modules[k] # 0
    /\ dao' = [dao EXCEPT ![d].modules[k] = 0]
    /\ UNCHANGED <<now, platformVars, slugVars, plans, builder>>

-----------------------------------------------------------------------------
(* The launch admin's other means in Setup.                                *)

UpdatePendingSlug(d, s) ==
    /\ Pending(d) /\ ~InDrive(d)
    /\ Unclaimed(s)
    /\ dao' = [dao EXCEPT ![d].slug = s]
    /\ UNCHANGED <<now, platformVars, slugVars, plans, builder>>

\* A module's payment asset can be set by its admin.
TuneAsset(d, k) ==
    /\ Pending(d) /\ AdminActs(d) /\ dao[d].modules[k] # 0
    /\ dao' = [dao EXCEPT ![d].tuned = IF k \in @ THEN @ \ {k} ELSE @ \cup {k}]
    /\ UNCHANGED <<now, platformVars, slugVars, plans, builder>>

MintFounder(d) ==
    /\ Pending(d) /\ AdminActs(d)
    /\ dao' = [dao EXCEPT ![d].supply = TRUE]
    /\ UNCHANGED <<now, platformVars, slugVars, plans, builder>>

\* common::upgrade::apply over an approved path whose target is not revoked.
UpgradePart(d, p, to) ==
    /\ AdminActs(d)
    /\ <<dao[d].code[p], to>> \in Paths /\ to \notin revoked
    /\ dao' = [dao EXCEPT ![d].code[p] = to]
    /\ UNCHANGED <<now, platformVars, slugVars, plans, builder>>

-----------------------------------------------------------------------------
(* Drives and launch.                                                      *)

\* open_assurance: the drive, its slug, and the admins to the Treasury.
OpenAssurance(d, deadline, config) ==
    /\ Pending(d) /\ ~InDrive(d)
    /\ ~paused
    /\ dao[d].admin = "launch_admin"
    /\ dao[d].modules["claims"] # 0
    /\ "claims" \notin dao[d].tuned         \* open_list: the recorded asset
    /\ now < deadline /\ deadline <= now + MaxWindow
    /\ Unclaimed(dao[d].slug)
    /\ dao' = [dao EXCEPT ![d].drive = [deadline |-> deadline, config |-> config],
                          ![d].admin = "treasury"]
    /\ ClaimSlug(d, dao[d].slug)
    /\ UNCHANGED <<now, platformVars, plans, builder>>

\* Enough members claim before the deadline (ClaimMinter.tla).
ReachThreshold(d) ==
    /\ InDrive(d) /\ ~DriveFailed(d)
    /\ ~dao[d].met
    /\ dao' = [dao EXCEPT ![d].met = TRUE, ![d].supply = TRUE]
    /\ UNCHANGED <<now, platformVars, slugVars, plans, builder>>

\* launch_pending.
LaunchPending(d, config) ==
    /\ ~paused
    /\ IF InDrive(d) THEN ~DriveFailed(d) /\ dao[d].met
       ELSE dao[d].admin = "launch_admin"
    /\ daoSlug[d] = dao[d].slug \/ Unclaimed(dao[d].slug)
    /\ \A p \in Present(d) \cup {"core"} : dao[d].code[p] \notin revoked
    /\ dao[d].supply
    /\ dao[d].tuned \cap Present(d) = {}
    /\ dao' = [dao EXCEPT ![d].stage = "live", ![d].admin = "treasury",
                          ![d].drive = NoDrive, ![d].opened = config]
    /\ IF daoSlug[d] = dao[d].slug THEN UNCHANGED slugVars
       ELSE ClaimSlug(d, dao[d].slug)
    /\ UNCHANGED <<now, platformVars, plans, builder>>

FaultyConfigOf(d, asked) == asked

\* The config stored with a drive wins over the one asked for.
ConfigOf(d, asked) == IF InDrive(d) THEN dao[d].drive.config ELSE asked

\* launch_dao, signed by the launch admin, drive or not.
LaunchDao(d, asked) == Pending(d) /\ LaunchPending(d, ConfigOf(d, asked))

\* launch_when_ready, by anyone.
LaunchWhenReady(d) == InDrive(d) /\ LaunchPending(d, dao[d].drive.config)

\* release_slug, by anyone, once.
ReleaseSlug(d) ==
    /\ InDrive(d) /\ DriveFailed(d)
    /\ slugToDao[dao[d].slug] = d
    /\ slugToDao' = [slugToDao EXCEPT ![dao[d].slug] = None]
    /\ daoSlug' = [daoSlug EXCEPT ![d] = None]
    /\ UNCHANGED <<now, platformVars, dao, plans, builder>>

\* recover_claims, signed by the recorded launch admin.
RecoverClaims(d, to) ==
    /\ InDrive(d) /\ DriveFailed(d)
    /\ <<dao[d].code["claims"], to>> \in Paths /\ to \notin revoked
    /\ dao' = [dao EXCEPT ![d].code["claims"] = to]
    /\ UNCHANGED <<now, platformVars, slugVars, plans, builder>>

FaultyChangeSlug(d, s) ==                   \* the old slug is kept
    /\ ~paused /\ daoSlug[d] # None /\ AdminActs(d) /\ Unclaimed(s)
    /\ slugToDao' = [slugToDao EXCEPT ![s] = d]
    /\ daoSlug' = [daoSlug EXCEPT ![d] = s]
    /\ UNCHANGED <<now, platformVars, dao, plans, builder>>

\* change_slug, by the DAO: moves to s and frees the old slug.
ChangeSlug(d, s) ==
    /\ ~paused
    /\ daoSlug[d] # None
    /\ AdminActs(d)
    /\ s # daoSlug[d] /\ Unclaimed(s)
    /\ slugToDao' = [slugToDao EXCEPT ![daoSlug[d]] = None, ![s] = d]
    /\ daoSlug' = [daoSlug EXCEPT ![d] = s]
    /\ UNCHANGED <<now, platformVars, dao, plans, builder>>

-----------------------------------------------------------------------------
(* The platform's admin, and time.                                         *)

SetFactoryPaused(on) ==
    /\ paused # on
    /\ paused' = on
    /\ UNCHANGED <<now, current, revoked, dao, slugVars, plans, builder>>

Revoke(h) ==
    /\ h \notin revoked
    /\ revoked' = revoked \cup {h}
    /\ UNCHANGED <<now, paused, current, dao, slugVars, plans, builder>>

SetCurrent(h) ==
    /\ h \notin revoked
    /\ current' = h
    /\ UNCHANGED <<now, paused, revoked, dao, slugVars, plans, builder>>

Tick ==
    /\ now < MaxTime                                            \* bound
    /\ now' = now + 1
    /\ UNCHANGED <<platformVars, dao, slugVars, plans, builder>>

Setup(d) ==
    \/ \E s \in Slugs, kinds \in SUBSET Kinds : CreateDao(d, s, kinds)
    \/ \E s \in Slugs : UpdatePendingSlug(d, s)
    \/ \E k \in Kinds, n \in 0 .. MaxModules : CreateModule(d, k, n)
    \/ \E k \in Kinds : TuneAsset(d, k)
    \/ MintFounder(d)
    \/ \E t \in 1 .. MaxTime - 1, c \in Configs : OpenAssurance(d, t, c)

AnyTime(d) ==
    \/ \E p \in Parts, to \in Hashes : UpgradePart(d, p, to)
    \/ ReachThreshold(d)
    \/ \E c \in Configs : LaunchDao(d, c)
    \/ LaunchWhenReady(d)
    \/ ReleaseSlug(d)
    \/ \E to \in Hashes : RecoverClaims(d, to)
    \/ \E s \in Slugs : ChangeSlug(d, s)
    \/ \E k \in Kinds : Draft(d, k) \/ Unregister(d, k)

Platform ==
    \/ \E on \in BOOLEAN : SetFactoryPaused(on)
    \/ \E h \in Hashes : Revoke(h) \/ SetCurrent(h)

Next ==
    \/ \E d \in Daos : (Setup(d) \/ AnyTime(d))
    \/ \E p \in DOMAIN plans : Execute(p)
    \/ Platform
    \/ Tick

Spec == Init /\ [][Next]_vars

\* Time passes, and somebody wants the slug of a failed drive.
FairSpec == Spec /\ WF_vars(Tick) /\ \A d \in Daos : WF_vars(ReleaseSlug(d))

-----------------------------------------------------------------------------
(* Properties.                                                             *)

\* The two slug maps are inverse, and a live DAO has a slug: no path of
\* reserving, releasing, launching and moving leaves a stale or shared one.
SlugsInverse ==
    /\ \A d \in Daos, s \in Slugs : slugToDao[s] = d <=> daoSlug[d] = s
    /\ \A d \in Daos : Live(d) => daoSlug[d] # None

\* A drive that may still launch holds the slug it will launch with, so no
\* other DAO can make it fail.
SlugReserved ==
    \A d \in Daos : InDrive(d) /\ ~DriveFailed(d) => slugToDao[dao[d].slug] = d

\* What members pay for is settled: while a drive is undecided nobody changes
\* the DAO's code, modules, assets, slug or terms; it only reaches its
\* threshold or launches.
FrozenUntilDecided ==
    [][\A d \in Daos :
        InDrive(d) /\ ~DriveFailed(d) =>
            LET was == dao[d]
                is == dao'[d]
            IN  \/ is = [was EXCEPT !.met = is.met, !.supply = is.supply]
                \/ is.stage = "live"]_vars

\* A DAO that launches after a drive opens with the config its members saw,
\* and with the code and modules of that moment.
LaunchAsAnnounced ==
    [][\A d \in Daos :
        InDrive(d) /\ Live(d)' =>
            /\ dao'[d].opened = dao[d].drive.config
            /\ dao'[d].code = dao[d].code /\ dao'[d].modules = dao[d].modules]_vars

\* A proposal deploys exactly the module its later actions register, or
\* nothing: not one that another proposal deployed in the meantime.
ModulesAsPlanned ==
    \A p \in DOMAIN plans :
        plans[p].done => /\ plans[p].n < Len(builder[plans[p].dao][plans[p].kind])
                         /\ builder[plans[p].dao][plans[p].kind][plans[p].n + 1] = p

\* A drive keeps its word from the announcement to the launch.
PromiseKept == FrozenUntilDecided /\ LaunchAsAnnounced

\* What every call keeps.
ManagerInv == TypeOK /\ SlugsInverse /\ SlugReserved /\ ModulesAsPlanned

\* A reserved slug does not stay with a DAO that never launches.
SlugComesFree == \A d \in Daos : InDrive(d) ~> (Live(d) \/ daoSlug[d] = None)

=============================================================================
