---------------------------- MODULE CodeRenewal ----------------------------
(***************************************************************************)
(* The platform's renewal of shared contract code                          *)
(* (src/scripts/renew-code-ttl.mjs, src/scripts/lib.mjs): every DAO        *)
(* deployed from a hash shares its code entry, which the operator's script *)
(* keeps alive, an entry at a time and in steps when one extension would   *)
(* cost more than a transaction may carry.                                 *)
(*                                                                         *)
(* The script learns what to extend by reading: a read that fails is left  *)
(* out in silence, except the first one, of the Manager's own code.        *)
(*                                                                         *)
(* Lifetimes are whole days. The registry records of a hash are renewed    *)
(* with it and are left out, and so are the days contracts add themselves. *)
(***************************************************************************)
EXTENDS Integers, FiniteSets, FiniteSetsExt

CONSTANTS
    Hashes,
    Daos,           \* what runs a release and the script knows: the Manager, and the DAOs
                    \* of its artifacts, of --token and of the indexer
    TheManager,
    Rate,           \* [Hashes -> Nat], stroops per day of rent: the size of the code
    Days,           \* --days
    Ceiling,        \* SAFE_RESOURCE_FEE_STROOPS
    MinDays,        \* nextExtendTarget's minLedgers
    Attempts,       \* extendWithinFeeCap's attempts
    Period          \* bound: days from one run that read and extended everything to the next

NoEntry == "none"

ASSUME CodeRenewalAssumption ==
    /\ IsFiniteSet(Hashes) /\ NoEntry \notin Hashes
    /\ TheManager \in Daos
    /\ Rate \in [Hashes -> Nat \ {0}]
    /\ {Days, Ceiling, MinDays, Attempts, Period} \subseteq Nat \ {0}

VARIABLES
    left,           \* [Hashes -> Nat], days the code lives
    released,       \* registered hashes
    newest,         \* current_implementations and LatestImplementation
    runs,           \* [Daos -> Hashes], wasm_hash of each DAO's module
    since,          \* days since a run last read and extended everything
    \* The script.
    phase,          \* "off", "extending"
    todo,           \* collected hashes to extend
    entry, attempt, \* the one at work, and its steps
    failures,
    outcome,        \* of the last run: "none", "ok", "failed"
    \* History, which the script does not have.
    answered,       \* every lookup of this run has been answered
    sight           \* [Daos -> {"moved", "reading", "seen"}]: "moved" by an upgrade to a
                    \* release that is not the newest, "reading" once a run started since,
                    \* "seen" when such a run has read and extended everything

codeChain == <<left, released, newest, runs, since>>
script == <<phase, todo, entry, attempt, failures, outcome>>
codeHistory == <<answered, sight>>
codeVars == <<codeChain, script, codeHistory>>

CodeTypes ==
    /\ left \in [Hashes -> 0 .. Days]
    /\ released \subseteq Hashes /\ newest \in released
    /\ runs \in [Daos -> released]
    /\ since \in 0 .. Period
    /\ phase \in {"off", "extending"} /\ todo \subseteq Hashes
    /\ entry \in Hashes \cup {NoEntry}
    /\ attempt \in 0 .. Attempts - 1
    /\ failures \in 0 .. Cardinality(Hashes)
    /\ outcome \in {"none", "ok", "failed"}
    /\ answered \in BOOLEAN /\ sight \in [Daos -> {"moved", "reading", "seen"}]

CodeInit ==
    \E h \in Hashes :
        /\ released = {h} /\ newest = h
        /\ left = [x \in Hashes |-> IF x = h THEN Days ELSE 0]
        /\ runs = [d \in Daos |-> h]
        /\ since = 0 /\ phase = "off" /\ todo = {} /\ entry = NoEntry /\ attempt = 0
        /\ failures = 0 /\ outcome = "none"
        /\ answered = FALSE /\ sight = [d \in Daos |-> "seen"]

-----------------------------------------------------------------------------
(* The chain. *)

\* deploy-manager.mjs and upgrade-contract.mjs extend a new hash at upload.
Release(h) ==
    /\ phase = "off" /\ h \notin released
    /\ released' = released \cup {h} /\ newest' = h
    /\ left' = [left EXCEPT ![h] = Days]
    /\ UNCHANGED <<runs, since, script, codeHistory>>

Upgrade(d, h) ==
    /\ h \in released /\ left[h] > 0 /\ h # runs[d]
    /\ runs' = [runs EXCEPT ![d] = h]
    /\ sight' = [sight EXCEPT ![d] = IF h = newest THEN "seen" ELSE "moved"]
    /\ UNCHANGED <<left, released, newest, since, script, answered>>

DayPasses ==
    /\ phase = "off" /\ since < Period
    /\ since' = since + 1
    /\ left' = [h \in Hashes |-> IF left[h] > 0 THEN left[h] - 1 ELSE 0]
    /\ UNCHANGED <<released, newest, runs, script, codeHistory>>

-----------------------------------------------------------------------------
(* The script. *)

FaultyCollected(names, read, more) == (IF names THEN {newest} ELSE {}) \cup more
\* tryView and psql: what the Manager names, if it answers, the hashes of the DAOs that are
\* read, and the hashes of the artifact, of --hash and of rows the indexer has yet to update.
Collected(names, read, more) ==
    (IF names THEN {newest} ELSE {}) \cup {runs[d] : d \in read} \cup more

\* No lookup that fails is counted, or stops the run.
Start ==
    \E names \in BOOLEAN, read \in SUBSET Daos, more \in SUBSET Hashes :
        /\ phase = "off" /\ TheManager \in read
        /\ phase' = "extending" /\ todo' = Collected(names, read, more)
        /\ entry' = NoEntry /\ attempt' = 0 /\ failures' = 0 /\ outcome' = "none"
        /\ answered' = (names /\ read = Daos)
        /\ sight' = [d \in Daos |-> IF sight[d] = "moved" THEN "reading" ELSE sight[d]]
        /\ UNCHANGED codeChain

\* Except the Manager's wasm_hash, which must be answered.
Refuses ==
    /\ phase = "off" /\ outcome' = "failed"
    /\ UNCHANGED <<codeChain, phase, todo, entry, attempt, failures, codeHistory>>

Fee(h, days) == IF days > left[h] THEN (days - left[h]) * Rate[h] ELSE 0

\* The targets nextExtendTarget tries, each six tenths of the one before.
Shorter[n \in 0 .. Days] == IF n = 0 THEN Days ELSE (Shorter[n - 1] * 6) \div 10
Tried == {n \in 0 .. Days : Shorter[n] >= MinDays}
Affordable(h) == {n \in Tried : Fee(h, Shorter[n]) <= Ceiling}

NextExtendTarget(h) == Shorter[Min(Affordable(h))]

\* extendWithinFeeCap throws: the entry is counted and the script goes on.
GivesUp ==
    /\ failures' = failures + 1
    /\ entry' = NoEntry /\ attempt' = 0
    /\ UNCHANGED <<codeChain, phase, todo, outcome, codeHistory>>

PickEntry(h) ==
    /\ phase = "extending" /\ entry = NoEntry /\ h \in todo
    /\ entry' = h /\ todo' = todo \ {h} /\ attempt' = 0
    /\ UNCHANGED <<codeChain, phase, failures, outcome, codeHistory>>

\* Archived code is not restored here.
Extend ==
    /\ phase = "extending" /\ entry # NoEntry /\ left[entry] > 0 /\ Affordable(entry) # {}
    /\ LET days == NextExtendTarget(entry)
           last == attempt = Attempts - 1
       IN  /\ left' = [left EXCEPT ![entry] = IF days > @ THEN days ELSE @]
           /\ \/ /\ days = Days \/ last
                 /\ entry' = NoEntry /\ attempt' = 0
              \/ /\ days # Days /\ ~last
                 /\ entry' = entry /\ attempt' = attempt + 1
           /\ failures' = IF days # Days /\ last THEN failures + 1 ELSE failures
    /\ UNCHANGED <<released, newest, runs, since, phase, todo, outcome, codeHistory>>

\* Archived, too dear for any step, or the simulation or the submission fails.
ExtendFails ==
    /\ phase = "extending" /\ entry # NoEntry
    /\ GivesUp

Finish ==
    /\ phase = "extending" /\ entry = NoEntry /\ todo = {}
    /\ phase' = "off"
    /\ outcome' = IF failures = 0 THEN "ok" ELSE "failed"
    /\ since' = IF failures = 0 /\ answered THEN 0 ELSE since
    /\ sight' = IF failures = 0 /\ answered
                THEN [d \in Daos |-> IF sight[d] = "reading" THEN "seen" ELSE sight[d]]
                ELSE sight
    /\ UNCHANGED <<left, released, newest, runs, todo, entry, attempt, failures, answered>>

CodeNext ==
    \/ \E h \in Hashes : Release(h) \/ PickEntry(h)
    \/ \E d \in Daos, h \in Hashes : Upgrade(d, h)
    \/ DayPasses \/ Start \/ Refuses \/ Extend \/ ExtendFails \/ Finish

CodeSpec == CodeInit /\ [][CodeNext]_codeVars

-----------------------------------------------------------------------------
(* Properties *)

\* No DAO the script knows loses the code it runs, if a run that read and extended everything
\* is never longer ago than the Period, whatever was released, upgraded and left unread in
\* between. A DAO that moved to an older release is safe from the next such run on. A run
\* cannot say that it read everything: one that left a DAO out reports success.
CodeStaysAlive == \A d \in Daos : sight[d] = "seen" => left[runs[d]] > 0

\* The code DAOs run stays alive.
CodeAlive == CodeTypes /\ CodeStaysAlive
=============================================================================
