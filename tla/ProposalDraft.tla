---------------------------- MODULE ProposalDraft ----------------------------
(***************************************************************************)
(* What the draft rules are worth: a draft of calls, what the rules find in *)
(* it from the tribe's indexed state, and the run of the same calls by the  *)
(* Treasury once the vote passed.  The contracts' side is reduced to the    *)
(* state those rules are about: whether auctions are paused, the registered *)
(* modules, the DAO-recovery switch, and the authorization the Treasury     *)
(* holds for the next call.                                                 *)
(***************************************************************************)
EXTENDS DraftRules

CONSTANTS Calls,         \* the calls a member may queue, as actions without an id
          Registrable,   \* contracts the tribe may register
          MaxActions     \* bound on a draft's length

(* A module call names a contract; the recovery switch names nothing.       *)
ASSUME DraftAssumption ==
    /\ MaxActions \in Nat
    /\ \A call \in Calls :
         /\ call.type \in {"register-module", "unregister-module"} => call.of \in Registrable
         /\ call.type = "set-dao-recovery" => call.of = ""

VARIABLES known,         \* the tribe's state as the index has it
          contracts,     \* the state of the contracts
          draft,         \* the queued actions
          at,            \* the action the Treasury is running
          outcome        \* "drafting", "running", "done" or "failed"

draftVars == <<known, contracts, draft, at, outcome>>

Switch == {"on", "off", "unknown"}

Tribes == [given : BOOLEAN, paused : Switch, recovery : Switch, modules : SUBSET Registrable]
Contracts == [paused : BOOLEAN, recovery : BOOLEAN, modules : SUBSET Registrable, trees : BOOLEAN]

(* What the index has is so; a module may be registered without being in it.*)
TrueOf(k, c) ==
    /\ k.paused # "unknown" => (k.paused = "on") = c.paused
    /\ k.recovery # "unknown" => (k.recovery = "on") = c.recovery
    /\ k.modules \subseteq c.modules
    /\ ~k.given => k.paused = "unknown" /\ k.recovery = "unknown" /\ k.modules = {}

DraftInit ==
    /\ known \in Tribes
    /\ contracts \in [paused : BOOLEAN, recovery : BOOLEAN, modules : SUBSET Registrable, trees : {FALSE}]
    /\ TrueOf(known, contracts)
    /\ draft = <<>>
    /\ at = 0
    /\ outcome = "drafting"

Queue(call) ==
    /\ outcome = "drafting"
    /\ Len(draft) < MaxActions
    /\ draft' = Append(draft, [id |-> Len(draft) + 1, type |-> call.type, of |-> call.of,
                               val |-> call.val, bundle |-> 0])
    /\ UNCHANGED <<known, contracts, at, outcome>>

(* The vote passed and the Treasury runs the calls.  Anyone with the votes  *)
(* can propose without the page, so a draft with errors may run as well.    *)
Execute ==
    /\ outcome = "drafting"
    /\ draft # <<>>
    /\ outcome' = "running"
    /\ at' = 1
    /\ UNCHANGED <<known, contracts, draft>>

(* The auction wants the other position of its pause, or to be paused.      *)
AuctionAccepts(c, a) ==
    /\ a.type = "pause-auction" => ~c.paused
    /\ a.type \in NeedsPausedAuction \union {"unpause-auction"} => c.paused

(* The token registers a module once, wants those it is told about to be    *)
(* registered, and a switch to change.                                      *)
TokenAccepts(c, a) ==
    /\ a.type = "register-module" => a.of \notin c.modules
    /\ a.type \in NeedsModule \union {"unregister-module"} => a.of \in c.modules
    /\ a.type = "set-dao-recovery" => c.recovery # (a.val = 1)
    /\ a.type = "dao-transfer" => c.recovery

(* Whether the contract behind the call accepts it; the market takes its    *)
(* price by an authorization that waits for it.                             *)
Accepts(c, a) ==
    AuctionAccepts(c, a) /\ TokenAccepts(c, a) /\ (a.type = "treasury-buy-listing" => c.trees)

After(c, a) ==
    [paused   |-> IF a.type \in Toggles THEN a.type = "pause-auction" ELSE c.paused,
     recovery |-> IF a.type = "set-dao-recovery" THEN a.val = 1 ELSE c.recovery,
     modules  |-> CASE a.type = "register-module" -> c.modules \union {a.of}
                    [] a.type = "unregister-module" -> c.modules \ {a.of}
                    [] OTHER -> c.modules,
     trees    |-> a.type = "treasury-authorize"]

(* The Treasury's own calls want no authorization waiting, any outside call *)
(* takes it.                                                                *)
Runs(c, a) == Accepts(c, a) /\ (IsTreasuryCall(a) => ~c.trees)

RunCall ==
    /\ outcome = "running"
    /\ at <= Len(draft)
    /\ IF Runs(contracts, draft[at])
       THEN contracts' = After(contracts, draft[at]) /\ at' = at + 1 /\ UNCHANGED outcome
       ELSE outcome' = "failed" /\ UNCHANGED <<contracts, at>>
    /\ UNCHANGED <<known, draft>>

FinishRun ==
    /\ outcome = "running"
    /\ at > Len(draft)
    /\ outcome' = IF contracts.trees THEN "failed" ELSE "done"
    /\ UNCHANGED <<known, contracts, draft, at>>

DraftNext == Execute \/ RunCall \/ FinishRun \/ \E call \in Calls : Queue(call)

DraftSpec == DraftInit /\ [][DraftNext]_draftVars

-----------------------------------------------------------------------------

(* The types; a run that is done has run every call.                         *)
DraftTypes ==
    /\ known \in Tribes
    /\ contracts \in Contracts
    /\ Len(draft) <= MaxActions
    /\ at \in 0..(MaxActions + 1)
    /\ outcome \in {"drafting", "running", "done", "failed"}
    /\ outcome = "done" => at = Len(draft) + 1

(* The calls whose prerequisites the draft does not check: whether a module *)
(* is registered already, and whether one to remove is registered at all.   *)
Unchecked == {"register-module", "unregister-module"}

(* The rules miss nothing they are about: when the index has the tribe's    *)
(* state, a draft with no error and no order warning runs to its end, or    *)
(* stops at a call of a kind the draft does not check.                      *)
CleanDraftRuns ==
    outcome = "failed" /\ known.given /\ "unknown" \notin {known.paused, known.recovery} =>
        \/ \E f \in AnalyzeDraft(draft, known) : f.severity = "error" \/ f.kind = "order"
        \/ at <= Len(draft) /\ draft[at].type \in Unchecked

(* An order error, or a pause or resume repeated with nothing between, is   *)
(* never a false alarm, whatever the index knows: the page refuses the      *)
(* draft, and its run would have failed.                                    *)
BlockedDraftFails ==
    outcome = "done" =>
        \A i \in 1..Len(draft) : \A f \in FindingsAt(draft, i, known) :
            f.severity = "error" => f.kind # "order" /\ draft[i].type \notin Toggles

(* The rules of the draft are those of the contracts.                       *)
RulesHold == DraftTypes /\ CleanDraftRuns /\ BlockedDraftFails
=============================================================================
