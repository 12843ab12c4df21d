------------------------------ MODULE Indexer ------------------------------
(***************************************************************************)
(* From the chain's events to the pages: the Goldsky pipeline of           *)
(* packages/goldsky (allowlists, roles, decoded rows, activity rows), the  *)
(* database's views over the rows that landed (db/migrations), and the     *)
(* links the application resolves from them (lib/dao-db.ts).               *)
(*                                                                         *)
(* The pipeline reads whole transactions in batches, fills its allowlists  *)
(* from a batch before it filters it, and writes two tables.  It may stop  *)
(* after any part of a batch is written and read the batch again; an       *)
(* operator may empty the tables and replay from the start, with or        *)
(* without the allowlists.  Landed rows are immutable, so a row delivered  *)
(* twice must be the same row.                                             *)
(*                                                                         *)
(* The DAO's Token address is the DAO's id.                                *)
(***************************************************************************)
EXTENDS Integers, Sequences, FiniteSets, SequencesExt, FiniteSetsExt

CONSTANTS
  Daos, Slugs, Built, Foreign,  \* modules the Manager may deploy; contracts it did not
  Nothing,
  MaxTxs,                       \* bound: transactions on the chain
  MaxResets, MaxCrashes         \* bounds: replays, interrupted batches

Modules == Built \cup Foreign

ASSUME IndexerAssumption ==
    /\ IsFiniteSet(Built) /\ Built \cap Foreign = {} /\ Daos \cap Modules = {}
    /\ "manager" \notin Daos \cup Modules
    /\ Nothing \notin Daos \cup Slugs \cup {"open", "released"}

VARIABLES
  log,        \* every event, in chain order: [tx, at, name, dao, what]
  stage,      \* DAO -> "none" | "pending" | "driving" | "released" | "live"
  slug,       \* DAO -> the slug it requests or holds
  held,       \* slug -> the DAO that holds it on chain, or Nothing
  moved,      \* slug -> the DAO that last moved away from it, or Nothing
  registry,   \* DAO -> modules registered on its Token now
  author,     \* event number of a module's own event -> DAOs it belongs to
  offset,     \* events the pipeline has finished with
  tables,     \* allowlists: role -> addresses
  decoded,    \* chain.decoded_events: {[at, role]}
  feed,       \* app.activity_feed_events: {[at, role, visibility]}
  resets, crashes

chainVars == <<log, stage, slug, held, moved, registry, author>>
pipeVars  == <<offset, tables, decoded, feed>>
indexVars == <<chainVars, pipeVars, resets, crashes>>

-----------------------------------------------------------------------------
(* The contracts' calls, as the events they emit.                          *)

Txs == IF log = <<>> THEN 0 ELSE Last(log).tx

Ev(at, name, dao, what) == [at |-> at, name |-> name, dao |-> dao, what |-> what]

\* A transaction that emits es, in order.
Emit(es) ==
    /\ Txs < MaxTxs                                             \* bound
    /\ log' = log \o [i \in 1 .. Len(es) |->
                        [tx |-> Txs + 1, at |-> es[i].at, name |-> es[i].name,
                         dao |-> es[i].dao, what |-> es[i].what]]

\* Which DAOs the module events of the new transaction belong to.
Belongs(es, reg) ==
    [i \in DOMAIN author \cup {Len(log) + j : j \in {j \in DOMAIN es : es[j].at \in Modules}} |->
       IF i \in DOMAIN author THEN author[i]
       ELSE {d \in Daos : es[i - Len(log)].at \in reg[d]}]

Deployed == {log[i].what : i \in {i \in DOMAIN log : log[i].name \in {"module_created", "dao_created_module"}}}

\* create_dao: the Token's own event, the module's constructor event and its
\* registration, and last the event that names them all.  dao_created_module
\* stands for the module field of dao_created.
CreateDao(d, s, ms) ==
    /\ stage[d] = "none" /\ held[s] = Nothing
    /\ ms \subseteq Built \ Deployed /\ Cardinality(ms) <= 1
    /\ LET own == SetToSeq({Ev(m, "initialized", Nothing, Nothing) : m \in ms})
                  \o SetToSeq({Ev(d, "module_registered", d, m) : m \in ms})
           es == <<Ev(d, "token_initialized", Nothing, Nothing)>> \o own
                 \o <<Ev("manager", "dao_created", d, s)>>
                 \o SetToSeq({Ev("manager", "dao_created_module", d, m) : m \in ms})
           reg == [registry EXCEPT ![d] = ms]
       IN  /\ Emit(es)
           /\ registry' = reg /\ author' = Belongs(es, reg)
    /\ stage' = [stage EXCEPT ![d] = "pending"]
    /\ slug' = [slug EXCEPT ![d] = s]
    /\ UNCHANGED <<held, moved, pipeVars, resets, crashes>>

\* create_module, in Setup or by the DAO's vote: the module's constructor runs
\* and is registered in the same transaction.
CreateModule(d, m) ==
    /\ stage[d] \in {"pending", "live"} /\ m \in Built \ Deployed
    /\ LET es == << Ev(m, "initialized", Nothing, Nothing), Ev("manager", "module_created", d, m),
                    Ev(d, "module_registered", d, m) >>
           reg == [registry EXCEPT ![d] = @ \cup {m}]
       IN  /\ Emit(es)
           /\ registry' = reg /\ author' = Belongs(es, reg)
    /\ UNCHANGED <<stage, slug, held, moved, pipeVars, resets, crashes>>

\* token.register_module of a contract the Manager did not deploy, or of one
\* another DAO registered, by the DAO's vote.
Register(d, m) ==
    /\ stage[d] = "live" /\ m \in (Foreign \cup Deployed) \ registry[d]
    /\ Emit(<<Ev(d, "module_registered", d, m)>>)
    /\ registry' = [registry EXCEPT ![d] = @ \cup {m}]
    /\ UNCHANGED <<stage, slug, held, moved, author, pipeVars, resets, crashes>>

Unregister(d, m) ==
    /\ stage[d] = "live" /\ m \in registry[d]
    /\ Emit(<<Ev(d, "module_unregistered", d, m)>>)
    /\ registry' = [registry EXCEPT ![d] = @ \ {m}]
    /\ UNCHANGED <<stage, slug, held, moved, author, pipeVars, resets, crashes>>

\* A module's own event: a sale, a claim; an unknown contract emits what it likes.
Acts(m) ==
    /\ m \in Foreign \cup Deployed
    /\ LET es == <<Ev(m, "sale", Nothing, Nothing)>>
       IN  Emit(es) /\ author' = Belongs(es, registry)
    /\ UNCHANGED <<stage, slug, held, moved, registry, pipeVars, resets, crashes>>

OpenAssurance(d) ==
    /\ stage[d] = "pending" /\ held[slug[d]] = Nothing
    /\ Emit(<<Ev("manager", "slug_claimed", d, slug[d]), Ev("manager", "assurance_opened", d, Nothing)>>)
    /\ held' = [held EXCEPT ![slug[d]] = d]
    /\ stage' = [stage EXCEPT ![d] = "driving"]
    /\ UNCHANGED <<slug, moved, registry, author, pipeVars, resets, crashes>>

ReleaseSlug(d) ==
    /\ stage[d] = "driving"
    /\ Emit(<<Ev("manager", "slug_released", d, slug[d])>>)
    /\ held' = [held EXCEPT ![slug[d]] = Nothing]
    /\ stage' = [stage EXCEPT ![d] = "released"]
    /\ UNCHANGED <<slug, moved, registry, author, pipeVars, resets, crashes>>

LaunchDao(d) ==
    /\ \/ stage[d] = "driving"
       \/ stage[d] = "pending" /\ held[slug[d]] = Nothing
    /\ Emit((IF stage[d] = "driving" THEN <<>> ELSE <<Ev("manager", "slug_claimed", d, slug[d])>>)
            \o <<Ev("manager", "dao_launched", d, Nothing)>>)
    /\ held' = [held EXCEPT ![slug[d]] = d]
    /\ stage' = [stage EXCEPT ![d] = "live"]
    /\ UNCHANGED <<slug, moved, registry, author, pipeVars, resets, crashes>>

UpdatePendingSlug(d, s) ==
    /\ stage[d] = "pending" /\ s # slug[d] /\ held[s] = Nothing
    /\ Emit(<<Ev("manager", "pending_slug_updated", d, s)>>)
    /\ slug' = [slug EXCEPT ![d] = s]
    /\ UNCHANGED <<stage, held, moved, registry, author, pipeVars, resets, crashes>>

ChangeSlug(d, s) ==
    /\ stage[d] = "live" /\ held[s] = Nothing
    /\ Emit(<<Ev("manager", "slug_changed", d, <<slug[d], s>>)>>)
    /\ held' = [held EXCEPT ![slug[d]] = Nothing, ![s] = d]
    /\ moved' = [moved EXCEPT ![slug[d]] = d]
    /\ slug' = [slug EXCEPT ![d] = s]
    /\ UNCHANGED <<stage, registry, author, pipeVars, resets, crashes>>

-----------------------------------------------------------------------------
(* The pipeline.                                                           *)

Roles == {"token", "built", "module"}

NoTables == [r \in Roles |-> {}]

FaultyFilled(ts, es) ==                 \* kind tables admit only DAOs of earlier batches
    LET tokens == ts["token"] \cup {e.dao : e \in {x \in es : x.name = "dao_created"}}
    IN [token |-> tokens,
        built |-> ts["built"] \cup {e.what : e \in {x \in es : x.name \in {"dao_created_module", "module_created"}
                                                                /\ x.dao \in ts["token"]}},
        module |-> ts["module"] \cup
                   {e.what : e \in {x \in es : x.name = "module_registered" /\ x.at \in tokens}}]

\* The dynamic tables' SQL over a batch es.  "token" stands for the four core
\* tables, "built" for those of the kinds the Manager deploys, "module" for
\* dao_modules, which admits what a known Token registers.
Filled(ts, es) ==
    LET Named(names) == {e.what : e \in {x \in es : x.name \in names}}
        tokens == ts["token"] \cup {e.dao : e \in {x \in es : x.name = "dao_created"}}
    IN [token |-> tokens,
        built |-> ts["built"] \cup Named({"dao_created_module", "module_created"}),
        module |-> ts["module"] \cup
                   {e.what : e \in {x \in es : x.name = "module_registered" /\ x.at \in tokens}}]

\* The role CASE of dao_events, which takes the first that applies: what the
\* Manager deployed is "built", registered or not.  "unknown" is not admitted.
Role(ts, a) ==
    CASE a = "manager"      -> "manager"
      [] a \in ts["token"]  -> "token"
      [] a \in ts["built"]  -> "built"
      [] a \in ts["module"] \ ts["built"] -> "module"
      [] OTHER              -> "unknown"

\* activity-feed.script.js: what the platform did not deploy is never news.
Visibility(name, role) ==
    IF /\ role # "module"
       /\ name \in {"sale", "module_registered", "module_unregistered", "slug_changed",
                    "slug_released", "assurance_opened", "dao_launched"}
    THEN "public" ELSE "admin"

\* Where a batch may end: between transactions, as the reads are whole ledgers.
Ends == {n \in offset + 1 .. Len(log) : n = Len(log) \/ log[n + 1].tx # log[n].tx}

Batch(n) == {log[i] : i \in offset + 1 .. n}

DecodedRows(ts, is) ==
    {[at |-> i, role |-> Role(ts, log[i].at)] : i \in {i \in is : Role(ts, log[i].at) # "unknown"}}

FeedRows(rows) ==
    {[at |-> r.at, role |-> r.role, visibility |-> Visibility(log[r.at].name, r.role)] : r \in rows}

Deliver(n) ==
    /\ tables' = Filled(tables, Batch(n))
    /\ \E rows \in {DecodedRows(tables', offset + 1 .. n)} :
        /\ decoded' = decoded \cup rows
        /\ feed' = feed \cup FeedRows(rows)
    /\ offset' = n
    /\ UNCHANGED <<chainVars, resets, crashes>>

\* The pipeline stops with the allowlists filled and each table written up to
\* some row; it will read the batch again, perhaps cut differently.
DeliverPartly(n, d, f) ==
    /\ crashes' = crashes + 1
    /\ tables' = Filled(tables, Batch(n))
    /\ decoded' = decoded \cup DecodedRows(tables', offset + 1 .. d)
    /\ feed' = feed \cup FeedRows(DecodedRows(tables', offset + 1 .. f))
    /\ UNCHANGED <<chainVars, offset, resets>>

\* The redeploy checklist: the tables are emptied and every event replayed; the
\* streamling schema, with the allowlists, is dropped or kept.
Reset(drop) ==
    /\ resets < MaxResets /\ offset > 0                         \* bound
    /\ resets' = resets + 1
    /\ offset' = 0
    /\ decoded' = {} /\ feed' = {}
    /\ tables' = IF drop THEN NoTables ELSE tables
    /\ UNCHANGED <<chainVars, crashes>>

-----------------------------------------------------------------------------
(* The views over the landed rows, and what the application reads.         *)

\* Landed rows of the Manager, by name; rows are known by their position, and
\* the latest is the last on chain, never the last to arrive.
ManagerRows(names) ==
    {r.at : r \in {r \in decoded : r.role = "manager" /\ log[r.at].name \in names}}

RowsOf(d, names) == {i \in ManagerRows(names) : log[i].dao = d}

FaultyListed == {log[i].dao : i \in ManagerRows({"dao_launched"})}

\* manager.dao_registry.
Listed == {log[i].dao : i \in ManagerRows({"dao_created"})}

\* manager.daos.claimed_slug: the latest claim, change or release.
Holds(d) ==
    LET rows == RowsOf(d, {"slug_claimed", "slug_changed", "slug_released"})
        last == log[Max(rows)]
    IN  CASE rows = {} -> Nothing
          [] rows # {} /\ last.name = "slug_released" -> Nothing
          [] rows # {} /\ last.name = "slug_changed" -> last.what[2]
          [] OTHER -> last.what

\* manager.daos.requested_slug.
Requests(d) ==
    LET rows == RowsOf(d, {"dao_created", "pending_slug_updated"})
    IN  IF rows = {} THEN Nothing ELSE log[Max(rows)].what

\* manager.dao_previous_slugs of s; the last row is the one that is read.
MovedAway(s) == {i \in ManagerRows({"slug_changed"}) : log[i].what[1] = s}

\* resolveDaoId: the holder, else the last DAO that moved away, else the only
\* DAO that requests the slug.
ResolveDaoId(s) ==
    LET listed == Listed
        holders == {d \in listed : Holds(d) = s}
        requests == {d \in listed : Holds(d) = Nothing /\ Requests(d) = s}
    IN  CASE holders # {} -> CHOOSE d \in holders : TRUE
          [] holders = {} /\ MovedAway(s) # {} -> log[Max(MovedAway(s))].dao
          [] holders = {} /\ MovedAway(s) = {} /\ Cardinality(requests) = 1 -> CHOOSE d \in requests : TRUE
          [] OTHER -> Nothing

\* manager.assurance_drives.outcome.
DriveOutcome(d) ==
    LET opened == RowsOf(d, {"assurance_opened"})
    IN  CASE opened = {} -> Nothing
          [] opened # {} /\ RowsOf(d, {"dao_launched"}) # {} -> "launched"
          [] /\ opened # {} /\ RowsOf(d, {"dao_launched"}) = {}
             /\ \E i \in RowsOf(d, {"slug_released"}) : i > Max(opened) -> "released"
          [] OTHER -> "open"

\* manager.module_registrations: a window opens with the transaction that
\* registers the module and ends with the next removal.
Registrations ==
    LET listed == Listed
    IN  {r.at : r \in {r \in decoded : /\ r.role = "token" /\ log[r.at].name = "module_registered"
                                       /\ log[r.at].dao \in listed}}

Closes(g) ==
    {r.at : r \in {r \in decoded : /\ r.at > g /\ log[r.at].name = "module_unregistered"
                                   /\ log[r.at].at = log[g].at /\ log[r.at].what = log[g].what}}

Inside(g, i) == log[i].tx >= log[g].tx /\ \A c \in Closes(g) : i < c

\* manager.manager_modules: the role of a registration.
ModuleRole(m) ==
    IF \E i \in ManagerRows({"dao_created_module", "module_created"}) : log[i].what = m
    THEN "built" ELSE "module"

\* app.activity_feed: the DAOs a module's activity row is shown under, by the
\* registrations gs.
ShownUnder(row, gs) ==
    {log[g].dao : g \in {g \in gs : /\ log[g].what = log[row.at].at
                                    /\ Inside(g, row.at)
                                    /\ ModuleRole(log[g].what) = row.role}}

\* getDaoContracts: the modules shown as registered now.
ShownModules(d) ==
    {log[g].what : g \in {g \in Registrations : log[g].dao = d /\ Closes(g) = {}}}

-----------------------------------------------------------------------------
IndexInit ==
    /\ log = <<>>
    /\ stage = [d \in Daos |-> "none"] /\ slug = [d \in Daos |-> Nothing]
    /\ held = [s \in Slugs |-> Nothing] /\ moved = [s \in Slugs |-> Nothing]
    /\ registry = [d \in Daos |-> {}] /\ author = [i \in {} |-> {}]
    /\ offset = 0 /\ tables = NoTables /\ decoded = {} /\ feed = {}
    /\ resets = 0 /\ crashes = 0

Links ==
    \E d \in Daos :
      \/ OpenAssurance(d) \/ ReleaseSlug(d) \/ LaunchDao(d)
      \/ \E s \in Slugs : UpdatePendingSlug(d, s) \/ ChangeSlug(d, s)

ModuleCalls ==
    \/ \E d \in Daos, m \in Modules : CreateModule(d, m) \/ Register(d, m) \/ Unregister(d, m)
    \/ \E m \in Modules : Acts(m)

Interrupted ==
    /\ crashes < MaxCrashes                                     \* bound
    /\ \E n \in Ends : \E d, f \in offset .. n : DeliverPartly(n, d, f)

Pipeline ==
    \/ \E n \in Ends : Deliver(n)
    \/ \E drop \in BOOLEAN : Reset(drop)

IndexNext ==
    \/ \E d \in Daos, s \in Slugs, ms \in SUBSET Built : CreateDao(d, s, ms)
    \/ Links
    \/ ModuleCalls
    \/ Pipeline \/ Interrupted

IndexSpec == IndexInit /\ [][IndexNext]_indexVars

\* Goldsky keeps reading.
FairIndex == IndexSpec /\ WF_indexVars(\E n \in Ends : Deliver(n))

-----------------------------------------------------------------------------
(* Properties.                                                             *)

CaughtUp == offset = Len(log)

IndexTypes ==
    /\ stage \in [Daos -> {"none", "pending", "driving", "released", "live"}]
    /\ slug \in [Daos -> Slugs \cup {Nothing}]
    /\ held \in [Slugs -> Daos \cup {Nothing}] /\ moved \in [Slugs -> Daos \cup {Nothing}]
    /\ registry \in [Daos -> SUBSET Modules]
    /\ offset \in 0 .. Len(log)
    /\ tables \in [Roles -> SUBSET (Daos \cup Modules)]
    /\ \A r \in decoded : r.at \in DOMAIN log /\ r.role \in Roles \cup {"manager"}
    /\ \A r \in feed : r.at \in DOMAIN log /\ r.visibility \in {"public", "admin"}

\* The database refuses a changed row (chain.reject_event_mutation) and the
\* pipeline would stop there: whatever was written before a crash, the same
\* event is given the same role when its batch is read again, cut anyhow.
RedeliveredUnchanged ==
    \A n \in Ends : \A ts \in {Filled(tables, Batch(n))} : \A r \in decoded :
        r.at > offset /\ r.at <= n => Role(ts, log[r.at].at) = r.role

\* Once everything has landed, in whatever batches, a link leads to the DAO
\* that holds its slug on chain, and while nobody does, to the last that moved
\* away from it (resolveDaoId's comment: "An old link keeps working").
LinksResolve ==
    CaughtUp => \A s \in Slugs :
        /\ held[s] # Nothing => ResolveDaoId(s) = held[s]
        /\ held[s] = Nothing /\ moved[s] # Nothing => ResolveDaoId(s) = moved[s]

\* And a pending DAO can be reached by a slug it alone asks for.
RequestsResolve ==
    CaughtUp => \A d \in Daos :
        LET others == {x \in Daos \ {d} : slug[x] = slug[d] /\ stage[x] # "none"}
        IN  /\ stage[d] \in {"pending", "released"} /\ held[slug[d]] = Nothing
            /\ moved[slug[d]] = Nothing /\ others = {}
            => ResolveDaoId(slug[d]) = d

\* The outcome of a drive on its page is the Manager's.
DrivesShown ==
    CaughtUp => \A d \in Daos :
        /\ stage[d] = "driving" <=> DriveOutcome(d) = "open"
        /\ stage[d] = "released" <=> DriveOutcome(d) = "released"

\* The module list of a DAO is its Token's registry, and a module's activity is
\* shown under exactly the DAOs it was registered with when it happened.
ModulesShown == CaughtUp => \A d \in Daos : ShownModules(d) = registry[d]

ActivityShown ==
    CaughtUp => LET gs == Registrations
                IN  \A row \in feed : row.at \in DOMAIN author => ShownUnder(row, gs) = author[row.at]

\* Nothing that happened is missing from the feed: every event of a module that
\* was registered when it acted has its row.
ActivityComplete ==
    CaughtUp => \A i \in DOMAIN author : author[i] # {} => \E row \in feed : row.at = i

\* Public rows speak only of what the Manager deployed, even while the index
\* lags: a contract a vote registered never makes news.
NewsIsVouched ==
    \A row \in feed : row.visibility = "public" /\ log[row.at].at \in Modules
                      => log[row.at].at \in Deployed

\* Once everything has landed the pages tell the chain's story, of links, drives,
\* modules and activity; whatever has landed never has to change.
PagesTellTheChain ==
    /\ IndexTypes /\ RedeliveredUnchanged
    /\ LinksResolve /\ RequestsResolve /\ DrivesShown
    /\ ModulesShown /\ ActivityShown /\ ActivityComplete /\ NewsIsVouched

\* A DAO created on chain is listed in the end, through crashes and replays.
EventuallyListed == \A d \in Daos : stage[d] # "none" ~> d \in Listed

=============================================================================
