------------------------------ MODULE Renewal ------------------------------
(***************************************************************************)
(* The storage renewal sweep (src/apps/web/src/lib/chain-reads/renewal.ts, *)
(* lib/renewal-queries.ts, components/admin/renewal-panel.tsx): what a DAO *)
(* owns on the ledger is listed from chain in rounds of reads, each round  *)
(* from the records the one before found; a quote restores what archived   *)
(* and extends the rest; its transactions are signed and sent in order.    *)
(* Ledgers close, entries archive and contracts write between any two of   *)
(* these steps.                                                            *)
(*                                                                         *)
(* A key is named after what it stands for; Under says in which entry it   *)
(* is counted (the Token's instance lists the modules, a module's pages    *)
(* its records). An archived entry is returned by the RPC until it is      *)
(* evicted; an expired temporary one is gone.                              *)
(***************************************************************************)
EXTENDS Integers, Sequences, SequencesExt, Functions

CONSTANTS
    Keys, Token,        \* ledger keys of the DAO; the Token's instance
    Order,              \* the order in which the inventory lists them
    Under,              \* [Keys -> Keys]
    Required,           \* InventoryKey.required
    Temporary,          \* InventoryKey.temporary
    NoPages,            \* modules without renewal_keys
    Known,              \* instances the deployment record names (scope.modules)
    Bytes,              \* [Keys -> Nat]
    BatchEntries, BatchBytes,
    ExtendTo,           \* extendToLedgers(days, maxEntryTtl)
    MinTtl, RestoreMax, \* network: life of a restored entry; entries one restore may write
    Lives, MaxLedger    \* bounds: lives at the start, ledgers explored

ASSUME RenewalAssumption ==
    /\ Token \in Required /\ Required \cup Temporary \subseteq Keys
    /\ Required \cap Temporary = {}
    /\ Order \in Seq(Keys) /\ ToSet(Order) = Keys /\ Under \in [Keys -> Keys]
    /\ Known \subseteq Required /\ NoPages \subseteq Keys
    /\ Bytes \in [Keys -> Nat] /\ BatchEntries \in Nat \ {0}
    /\ {BatchBytes, ExtendTo, MinTtl, RestoreMax, MaxLedger} \subseteq Nat /\ Lives \subseteq Nat
    \* What is written meanwhile does not lapse before the tab is done: MinTtl is months.
    /\ MaxLedger \in 2 .. 2 + MinTtl

VARIABLES
    ledger,
    liveUntil,      \* [Keys -> Nat], 0: never written, or removed
    evicted,        \* archived entries the RPC no longer returns
    \* The Renewal tab.
    step,           \* "idle", "reading", "report", "quote", "sending", "stopped", "renewed"
    asked, listed,  \* keys read, and keys to read, by this load
    found,          \* [Keys -> Nat], what the RPC returned of them
    latest,         \* latestLedger
    report,         \* DaoInventory
    txs, sent, used \* RenewalQuote.transactions, sent by this attempt, consumed on chain

chain == <<ledger, liveUntil, evicted>>
loading == <<asked, listed, found, latest>>
quoting == <<txs, sent, used>>
renewalVars == <<chain, step, loading, report, quoting>>

NoReport == [present |-> {}, missing |-> {}, uncovered |-> {}, bootstrap |-> FALSE]

NothingFound == [k \in Keys |-> 0]

RenewalTypes ==
    /\ ledger \in 1 .. MaxLedger
    /\ liveUntil \in [Keys -> Nat] /\ evicted \subseteq Keys
    /\ step \in {"idle", "reading", "report", "quote", "sending", "stopped", "renewed"}
    /\ asked \subseteq Keys /\ listed \subseteq Keys
    /\ found \in [Keys -> Nat] /\ latest \in 0 .. ledger
    /\ report.present \cup report.missing \cup report.uncovered \subseteq Keys
    /\ sent \in 0 .. Len(txs) /\ used \in 0 .. Len(txs)

Live(k) == liveUntil[k] >= ledger
Archived(k) == liveUntil[k] # 0 /\ k \notin Temporary /\ ~Live(k)
Exists(k) == Live(k) \/ Archived(k)
Returned(k) == Exists(k) /\ k \notin evicted

\* The DAO is at any point of its storage's life when the tab is opened.
RenewalInit ==
    /\ ledger = 2
    /\ liveUntil \in [Keys -> Lives] /\ evicted = {k \in Keys : liveUntil[k] = 1} \ Temporary
    /\ step = "idle" /\ asked = {} /\ listed = {} /\ found = NothingFound /\ latest = 0
    /\ report = NoReport /\ txs = <<>> /\ sent = 0 /\ used = 0

-----------------------------------------------------------------------------
(* The ledger and the contracts. *)

CloseLedger ==
    /\ ledger < MaxLedger
    /\ ledger' = ledger + 1
    /\ UNCHANGED <<liveUntil, evicted, step, loading, report, quoting>>

Evict(k) ==
    /\ Archived(k) /\ k \notin evicted
    /\ evicted' = evicted \cup {k}
    /\ UNCHANGED <<ledger, liveUntil, step, loading, report, quoting>>

\* A contract call writes a record that is optional to the inventory, or removes it.
WriteRecord(k) ==
    /\ k \notin Required /\ Live(Under[k]) /\ ~Exists(k)
    /\ liveUntil' = [liveUntil EXCEPT ![k] = ledger + MinTtl]
    /\ UNCHANGED <<ledger, evicted, step, loading, report, quoting>>

RemoveRecord(k) ==
    /\ k \notin Required /\ Live(Under[k]) /\ Live(k)
    /\ liveUntil' = [liveUntil EXCEPT ![k] = 0]
    /\ UNCHANGED <<ledger, evicted, step, loading, report, quoting>>

-----------------------------------------------------------------------------
(* buildDaoInventory *)

\* The keys an entry that was read names: required ones by its counters, optional ones always.
NamedBy(p) ==
    IF p \in NoPages THEN {}
    ELSE {k \in Keys : Under[k] = p /\ k # p /\ (k \in Required => Exists(k))}

BeginLoad ==
    /\ step \in {"idle", "report"}
    /\ step' = "reading"
    /\ asked' = {} /\ listed' = {Token}
    /\ found' = NothingFound /\ latest' = 0 /\ report' = NoReport
    /\ UNCHANGED <<chain, quoting>>

Fetch ==
    /\ step = "reading" /\ listed \ asked # {}
    /\ latest' = ledger
    /\ LET batch == listed \ asked
           got == {k \in batch : Returned(k)}
       IN  /\ found' = [k \in Keys |-> IF k \in got THEN liveUntil[k] ELSE found[k]]
           /\ asked' = listed
           /\ listed' = listed \cup UNION {NamedBy(k) : k \in got}
    /\ UNCHANGED <<chain, step, report, quoting>>

Missing == {k \in asked \ Temporary : found[k] < latest /\ (found[k] > 0 \/ k \in Required)}

Present == {k \in asked : found[k] >= latest}

Listed ==
    /\ step = "reading" /\ listed = asked /\ found[Token] > 0
    /\ report' = [present |-> Present, missing |-> Missing,
                  uncovered |-> {k \in asked \cap NoPages : found[k] > 0}, bootstrap |-> FALSE]
    /\ step' = "report"
    /\ asked' = {} /\ listed' = {} /\ found' = NothingFound
    /\ UNCHANGED <<chain, latest, quoting>>

\* The Token's own instance is evicted: nothing can be listed, the known instances are restored.
FaultyBootstrap ==
    /\ step = "reading" /\ listed = asked /\ found[Token] = 0
    /\ report' = [NoReport EXCEPT !.missing = Known \ {Token}, !.bootstrap = TRUE]
    /\ step' = "report"
    /\ asked' = {} /\ listed' = {} /\ found' = NothingFound
    /\ UNCHANGED <<chain, latest, quoting>>
Bootstrap ==
    /\ step = "reading" /\ listed = asked /\ found[Token] = 0
    /\ report' = [NoReport EXCEPT !.missing = Known \cup {Token}, !.bootstrap = TRUE]
    /\ step' = "report"
    /\ asked' = {} /\ listed' = {} /\ found' = NothingFound
    /\ UNCHANGED <<chain, latest, quoting>>

LoadFails ==
    /\ step = "reading"
    /\ step' = "idle"
    /\ asked' = {} /\ listed' = {} /\ found' = NothingFound /\ latest' = 0
    /\ UNCHANGED <<chain, report, quoting>>

-----------------------------------------------------------------------------
(* The quote and the sweep. *)

Weight(batch) == SumFunctionOnSet(Bytes, ToSet(batch))

Fits(batch, k) == Len(batch) < BatchEntries /\ Weight(batch) + Bytes[k] <= BatchBytes

\* planBatches: a key that does not fit starts the next batch.
PlanBatches(keys) ==
    LET plan[n \in 0 .. Len(keys)] ==
            IF n = 0 THEN <<>>
            ELSE LET before == plan[n - 1]
                 IN  IF before # <<>> /\ Fits(Last(before), keys[n])
                     THEN Append(Front(before), Append(Last(before), keys[n]))
                     ELSE Append(before, <<keys[n]>>)
    IN  plan[Len(keys)]

\* The keys of S as the inventory lists them.
InOrder(S) ==
    LET chosen[n \in 0 .. Len(Order)] ==
            IF n = 0 THEN <<>>
            ELSE IF Order[n] \in S THEN Append(chosen[n - 1], Order[n]) ELSE chosen[n - 1]
    IN  chosen[Len(Order)]

\* quoteRenewal
Transactions(inventory) ==
    LET restore == IF inventory.missing = {} THEN <<>>
                   ELSE <<[kind |-> "restore", keys |-> InOrder(inventory.missing)]>>
        batches == PlanBatches(InOrder(inventory.present))
    IN  restore \o [i \in DOMAIN batches |-> [kind |-> "extend", keys |-> batches[i]]]

\* Simulation refuses a restore of a key that does not exist, or of too many.
Simulates(tx) ==
    tx.kind = "restore" => Len(tx.keys) <= RestoreMax /\ \A k \in ToSet(tx.keys) : Exists(k)

QuoteRenewal ==
    /\ step = "report"
    /\ \E quoted \in {Transactions(report)} :
        /\ \A i \in DOMAIN quoted : Simulates(quoted[i])
        /\ txs' = quoted
    /\ step' = "quote" /\ sent' = 0 /\ used' = 0
    /\ UNCHANGED <<chain, loading, report>>

DropQuote ==
    /\ step \in {"quote", "stopped"}
    /\ step' = IF step = "quote" THEN "report" ELSE "idle"
    /\ txs' = <<>> /\ sent' = 0 /\ used' = 0
    /\ UNCHANGED <<chain, loading, report>>

\* The same quote may be renewed again after it stopped.
Renew ==
    /\ step \in {"quote", "stopped"}
    /\ step' = "sending" /\ sent' = 0
    /\ UNCHANGED <<chain, loading, report, txs, used>>

\* What the ledger does with a transaction: entries that are not live are no part of an extension.
Applied(tx) ==
    LET mine == ToSet(tx.keys)
        Longer(k) == IF liveUntil[k] > ledger + ExtendTo THEN liveUntil[k] ELSE ledger + ExtendTo
    IN  IF tx.kind = "restore"
        THEN /\ liveUntil' = [k \in Keys |-> IF k \in mine /\ Archived(k) THEN ledger + MinTtl ELSE liveUntil[k]]
             /\ evicted' = evicted \ mine
        ELSE /\ liveUntil' = [k \in Keys |-> IF k \in mine /\ Live(k) THEN Longer(k) ELSE liveUntil[k]]
             /\ evicted' = evicted

\* submitRenewal, one transaction: its sequence number must be the account's next.
SendNext ==
    /\ step = "sending" /\ sent < Len(txs) /\ used = sent
    /\ Applied(txs[sent + 1])
    /\ sent' = sent + 1 /\ used' = used + 1
    /\ UNCHANGED <<ledger, step, loading, report, txs>>

\* The sending stops: refused, rejected by the wallet, or not confirmed in time, when it
\* may have been applied all the same. The quote stays.
SendStops ==
    /\ step = "sending" /\ sent < Len(txs)
    /\ \/ UNCHANGED <<chain, used>>
       \/ used = sent /\ Applied(txs[sent + 1]) /\ used' = used + 1 /\ UNCHANGED ledger
    /\ step' = "stopped" /\ sent' = 0
    /\ UNCHANGED <<loading, report, txs>>

FaultyAllSent ==
    /\ step = "sending" /\ sent >= 1
    /\ step' = "renewed"
    /\ UNCHANGED <<chain, loading, report, quoting>>
\* The first transaction of a quote used before is out of sequence.
SendRefused == used # sent /\ SendStops

AllSent ==
    /\ step = "sending" /\ sent = Len(txs)
    /\ step' = "renewed"
    /\ UNCHANGED <<chain, loading, report, quoting>>

\* renew()'s finally: the report is loaded again, and the quote is forgotten.
AfterRenewed ==
    /\ step = "renewed"
    /\ step' = "idle" /\ txs' = <<>> /\ sent' = 0 /\ used' = 0
    /\ report' = NoReport /\ latest' = 0
    /\ UNCHANGED <<chain, asked, listed, found>>

-----------------------------------------------------------------------------
Tab ==
    \/ BeginLoad \/ Fetch \/ Listed \/ Bootstrap \/ LoadFails
    \/ QuoteRenewal \/ DropQuote \/ Renew \/ SendNext \/ SendStops \/ AllSent \/ AfterRenewed

RenewalNext ==
    \/ CloseLedger
    \/ \E k \in Keys : Evict(k) \/ WriteRecord(k) \/ RemoveRecord(k)
    \/ Tab

RenewalSpec == RenewalInit /\ [][RenewalNext]_renewalVars

\* Somebody keeps opening the tab and keeps trying after a failure, and from some time on
\* the RPC answers.
Progress ==
    BeginLoad \/ Fetch \/ Listed \/ Bootstrap \/ AllSent \/ AfterRenewed \/ SendRefused

FairRenewal ==
    /\ RenewalSpec
    /\ <>[][~LoadFails]_renewalVars
    /\ WF_renewalVars(Progress)
    /\ SF_renewalVars(QuoteRenewal) /\ SF_renewalVars(DropQuote) /\ SF_renewalVars(Renew) /\ SF_renewalVars(SendNext)

-----------------------------------------------------------------------------
(* Properties *)

\* What is missing is restored first. Every extension fits a transaction, and together they
\* extend what the report found present, each key once (planBatches).
BatchesFit ==
    step = "quote" =>
        LET restores == IF report.missing = {} THEN 0 ELSE 1
            keys == [i \in 1 .. Len(txs) - restores |-> txs[i + restores].keys]
        IN  /\ \A i \in DOMAIN txs : txs[i].kind = IF i <= restores THEN "restore" ELSE "extend"
            /\ restores = 1 => txs[1].keys = InOrder(report.missing)
            /\ FlattenSeq(keys) = InOrder(report.present)
            /\ \A i \in DOMAIN keys :
                   /\ Len(keys[i]) <= BatchEntries
                   /\ Len(keys[i]) = 1 \/ Weight(keys[i]) <= BatchBytes

\* However the ledger moved between the rounds of reads, the report names every required
\* key and every archived record the RPC still returns, of each contract it could read
\* (buildDaoInventory).
NothingOverlooked ==
    (step = "report" /\ ~report.bootstrap /\ latest = ledger) =>
        \A k \in Keys :
            (/\ Under[k] \in report.present \ NoPages
             /\ (k \in Required /\ Exists(k)) \/ (Archived(k) /\ k \notin evicted))
            => k \in report.present \cup report.missing

\* When the tab says the storage was renewed, what the report had found present and did
\* not lapse before its turn lives the days that were paid for.
PresentRenewed ==
    step = "renewed" =>
        \A k \in report.present \cap Required : Live(k) => liveUntil[k] >= latest + ExtendTo

\* What the report, the quote and the sweep never get wrong.
RenewalInv == RenewalTypes /\ BatchesFit /\ NothingOverlooked /\ PresentRenewed

\* A DAO whose entries archived or were evicted, its Token's instance included, comes
\* back if its members keep renewing: restored contracts, then what they list.
Recovers == <>[](\A k \in Required : Live(k))
=============================================================================
