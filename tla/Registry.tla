------------------------------ MODULE Registry ------------------------------
(***************************************************************************)
(* The Manager as the registry of released code (the implementation and    *)
(* upgrade half of src/contracts/manager/src/contract.rs) with the notice  *)
(* of src/contracts/common/src/upgrade.rs: what code there is, what may    *)
(* replace what, and how long a change of the Manager itself is announced. *)
(*                                                                         *)
(* A ledger is one value of `ledger`; calls of the same ledger come in any *)
(* order. Every call by the admin stands for a call with its signature.    *)
(*                                                                         *)
(* A definition named Faulty... is the one after it with a plausible fault *)
(* seeded, to see that the properties notice; nothing uses it.             *)
(***************************************************************************)
EXTENDS Integers, FiniteSets

CONSTANTS
    Wasms,          \* released WASM hashes
    Names,          \* of implementations, "Manager" among them
    Contracts,      \* contracts of DAOs, which upgrade through `apply`
    KindOf,         \* [Contracts -> Names], what each was deployed as
    Released,       \* [Wasms -> Names], the name each hash is released under
    FirstCode,      \* [Contracts \cup {"Manager"} -> Wasms]
    Delays,         \* notices an admin may ask for
    FirstDelay,     \* the constructor's upgrade_delay
    MaxLedger       \* bound on the exploration

Unset == "none"

ASSUME RegistryAssumption ==
    /\ "Manager" \in Names /\ "Manager" \notin Contracts
    /\ Unset \notin Wasms
    /\ KindOf \in [Contracts -> Names]
    /\ Released \in [Wasms -> Names]
    /\ FirstCode \in [Contracts \cup {"Manager"} -> Wasms]
    /\ \A c \in Contracts : Released[FirstCode[c]] = KindOf[c]
    /\ Released[FirstCode["Manager"]] = "Manager"
    /\ Delays \subseteq Nat /\ FirstDelay \in Nat /\ MaxLedger \in Nat

VARIABLES
    ledger,
    implementations,    \* [Wasms -> {"none", "active", "revoked"}]
    latest,             \* [Names -> pointer], LatestImplementation
    approvals,          \* [Wasms \X Wasms -> ledger], -1 for none
    upgradeDelay,       \* UpgradeDelay
    pendingDelay,       \* PendingUpgradeDelay, NoDelay for none
    code,               \* [Contracts \cup {"Manager"} -> Wasms]
    quietUntil          \* history: until when nobody may be surprised

registryVars == <<ledger, implementations, latest, approvals, upgradeDelay,
                  pendingDelay, code, quietUntil>>

NoDelay == [ledgers |-> 0, effective |-> -1]
NoPointer == [hash |-> Unset, set |-> 0]
Pointers == [hash : Wasms \cup {Unset}, set : Nat]

RegistryTypeOK ==
    /\ ledger \in Nat
    /\ implementations \in [Wasms -> {Unset, "active", "revoked"}]
    /\ latest \in [Names -> Pointers]
    /\ approvals \in [Wasms \X Wasms -> Nat \cup {-1}]
    /\ upgradeDelay \in Nat
    /\ pendingDelay \in [ledgers : Nat, effective : Nat] \cup {NoDelay}
    /\ code \in [Contracts \cup {"Manager"} -> Wasms]
    /\ quietUntil \in Nat

\* A Manager starts with its own hash and notice; DAO contracts come from
\* implementations that are registered.
RegistryInit ==
    /\ ledger = 0
    /\ implementations = [h \in Wasms |->
                            IF \E c \in Contracts : FirstCode[c] = h
                              THEN "active" ELSE Unset]
    /\ latest = [n \in Names |-> NoPointer]
    /\ approvals = [path \in Wasms \X Wasms |-> -1]
    /\ upgradeDelay = FirstDelay
    /\ pendingDelay = NoDelay
    /\ code = FirstCode
    /\ quietUntil = FirstDelay

-----------------------------------------------------------------------------
(* The notice.                                                             *)

\* delay: the notice in force at ledger `now`.
DelayIn(current, pending, now) ==
    IF pending # NoDelay /\ now >= pending.effective THEN pending.ledgers ELSE current

Delay == DelayIn(upgradeDelay, pendingDelay, ledger)

NoticePassed(since) == ledger >= since + Delay

FaultyReduction(ledgers) ==                 \* measured from the recorded value
    /\ upgradeDelay' = upgradeDelay
    /\ pendingDelay' = [ledgers |-> ledgers, effective |-> ledger + ledgers]

\* set_delay, a shorter notice: it waits for the one in force.
Reduction(ledgers) ==
    /\ upgradeDelay' = Delay
    /\ pendingDelay' = [ledgers |-> ledgers, effective |-> ledger + Delay]

\* set_upgrade_delay: a longer notice applies at once, and cancels a
\* reduction that waits.
SetUpgradeDelay(ledgers) ==
    /\ IF ledgers >= Delay
       THEN upgradeDelay' = ledgers /\ pendingDelay' = NoDelay
       ELSE Reduction(ledgers)
    /\ UNCHANGED <<ledger, implementations, latest, approvals, code>>

-----------------------------------------------------------------------------
(* Implementations and paths.                                              *)

Active(h) == implementations[h] = "active"

\* register_implementation: a record is immutable.
RegisterImplementation(h) ==
    /\ implementations[h] = Unset
    /\ implementations' = [implementations EXCEPT ![h] = "active"]
    /\ UNCHANGED <<ledger, latest, approvals, upgradeDelay, pendingDelay, code>>

\* set_latest_implementation. Announcing the hash again changes nothing: its
\* notice does not start anew.
SetLatestImplementation(h) ==
    LET n == Released[h]
    IN  /\ Active(h)
        /\ latest[n].hash # h
        /\ latest' = [latest EXCEPT ![n] = [hash |-> h, set |-> ledger]]
        /\ UNCHANGED <<ledger, implementations, approvals, upgradeDelay, pendingDelay, code>>

\* approve_upgrade: the source may be revoked, to be left.
\* A second approval of a path is ignored.
ApproveUpgrade(from, to) ==
    /\ implementations[from] # Unset
    /\ Active(to)
    /\ Released[from] = Released[to]
    /\ approvals[<<from, to>>] = -1
    /\ approvals' = [approvals EXCEPT ![<<from, to>>] = ledger]
    /\ UNCHANGED <<ledger, implementations, latest, upgradeDelay, pendingDelay, code>>

RevokeImplementation(h) ==
    /\ Active(h)
    /\ implementations' = [implementations EXCEPT ![h] = "revoked"]
    /\ UNCHANGED <<ledger, latest, approvals, upgradeDelay, pendingDelay, code>>

IsUpgradeApproved(from, to) ==
    /\ approvals[<<from, to>>] >= 0
    /\ implementations[from] # Unset
    /\ Active(to)
    /\ Released[from] = Released[to]

-----------------------------------------------------------------------------
(* Upgrades.                                                               *)

\* common::upgrade::apply of a DAO's contract: approved paths, at once. The
\* caller names both ends; what runs decides.
Apply(c, from, to) ==
    /\ from = code[c]
    /\ IsUpgradeApproved(from, to)
    /\ code' = [code EXCEPT ![c] = to]
    /\ UNCHANGED <<ledger, implementations, latest, approvals, upgradeDelay, pendingDelay>>

\* A notice counts from the later of the approval and the announcement.
AnnouncedSince(from, to) ==
    LET approved == approvals[<<from, to>>]
        announced == latest["Manager"].set
    IN  IF approved >= announced THEN approved ELSE announced

\* upgrade_manager: the Manager's own code, from the announced latest only.
UpgradeManager(to) ==
    LET from == code["Manager"]
    IN  /\ Active(to) /\ Released[to] = "Manager"
        /\ approvals[<<from, to>>] >= 0
        /\ latest["Manager"].hash = to
        /\ NoticePassed(AnnouncedSince(from, to))
        /\ code' = [code EXCEPT !["Manager"] = to]
        /\ UNCHANGED <<ledger, implementations, latest, approvals, upgradeDelay,
                       pendingDelay>>

CloseLedger ==
    /\ ledger < MaxLedger                                       \* bound
    /\ ledger' = ledger + 1
    /\ UNCHANGED <<implementations, latest, approvals, upgradeDelay, pendingDelay, code>>

-----------------------------------------------------------------------------
(* Who looks at the Manager and sees neither a new latest nor a shorter    *)
(* notice on its way is not surprised before the notice they see has run.  *)

Quiet ==
    /\ latest["Manager"].hash \in {Unset, code["Manager"]}
    /\ pendingDelay = NoDelay \/ ledger >= pendingDelay.effective

Remember ==
    quietUntil' = IF Quiet' /\ ledger' + Delay' > quietUntil
                  THEN ledger' + Delay' ELSE quietUntil

Act ==
    \/ \E d \in Delays : SetUpgradeDelay(d)
    \/ \E h \in Wasms : RegisterImplementation(h)
    \/ \E h \in Wasms : SetLatestImplementation(h)
    \/ \E h \in Wasms : RevokeImplementation(h)
    \/ \E from, to \in Wasms : ApproveUpgrade(from, to)
    \/ \E c \in Contracts, from, to \in Wasms : Apply(c, from, to)
    \/ \E to \in Wasms : UpgradeManager(to)
    \/ CloseLedger

RegistryNext == Act /\ Remember

RegistrySpec == RegistryInit /\ [][RegistryNext]_registryVars

-----------------------------------------------------------------------------
(* Properties.                                                             *)

\* Nobody is surprised: whoever saw the Manager run the announced latest with
\* no shorter notice on its way, has the whole notice they saw before its code
\* changes, whatever its admin signs meanwhile.
NoSurpriseUpgrade == [][code'["Manager"] # code["Manager"] => ledger >= quietUntil]_registryVars

\* A contract never turns into one of another kind, through any chain of
\* approvals, revocations and upgrades.
KindsKept ==
    /\ \A c \in Contracts : Released[code[c]] = KindOf[c]
    /\ Released[code["Manager"]] = "Manager"

\* A withdrawn release gains no new contract, even over a path approved
\* before it was withdrawn.
RevokedSpreadsNot ==
    [][\A c \in DOMAIN code :
        implementations[code[c]] # "revoked" /\ implementations'[code[c]] # "revoked" =>
            implementations'[code'[c]] # "revoked"]_registryVars

RegistryInv == RegistryTypeOK /\ KindsKept

\* Upgrades come with their notice, keep every contract's kind, and spread
\* nothing that was withdrawn.
UpgradesOrderly == []RegistryInv /\ NoSurpriseUpgrade /\ RevokedSpreadsNot
=============================================================================
