----------------------------- MODULE DraftRules -----------------------------
(***************************************************************************)
(* The draft rules of the proposal composer                                 *)
(* (apps/web/src/lib/proposal-action-identity.ts): what two actions of a    *)
(* draft have in common, and what the composer finds wrong with an action   *)
(* that comes after others.  An action is a record of the call it makes:    *)
(*   id      the id the draft gives it,                                     *)
(*   type    the call, "setting" standing for any auction setting (which    *)
(*           one is in "of") and "plain" for any other single-valued one,   *)
(*   of      the module, token or setting it names,                         *)
(*   val     the value it sets,                                             *)
(*   bundle  the bundle it came in, 0 for none; never part of the call.     *)
(* Left out are what a finding says to the member; transfer agents, the     *)
(* other membership switches and the pause of the market, whose rules are   *)
(* those of the mint allowance, the recovery switch and the auction's pause *)
(* less the prerequisites others have of them; and two warnings about state *)
(* the draft does not have: that a link change should stand alone, and that *)
(* an opening mints from an allowance an earlier action should raise.       *)
(***************************************************************************)
EXTENDS Naturals, Sequences, FiniteSets

Toggles == {"pause-auction", "unpause-auction"}
NeedsPausedAuction == {"setting", "cancel-auction"}
NeedsModule == {"change-mint-allowance"}

(* Calls the Treasury makes on itself.                                      *)
IsTreasuryCall(a) == a.type \in {"treasury-authorize", "treasury-own"}

(* The actions a member confirms before they join.                          *)
IsHighRisk(a) == a.type \in Toggles \union
                   {"register-module", "unregister-module", "set-dao-recovery", "dao-transfer",
                    "change-mint-allowance"}

(* What an action changes.  Pausing and resuming are one resource, so are   *)
(* registering and removing a module; allowance changes add up, and each is *)
(* a resource of its own.                                                   *)
Resource(a) ==
    CASE a.type \in Toggles -> <<"auction:pause-state", "", 0>>
      [] a.type \in {"register-module", "unregister-module"} -> <<"token:module", a.of, 0>>
      [] a.type = "change-mint-allowance" -> <<"token:allowance", a.of, a.id>>
      [] OTHER -> <<a.type, a.of, 0>>

SameCall(a, b) == Resource(a) = Resource(b) /\ a.type = b.type /\ a.of = b.of /\ a.val = b.val

Finding(severity, kind, on) == [severity |-> severity, kind |-> kind, on |-> on]
Warning(on) == Finding("warning", "order", on)

(* The last of the positions found, 0 when there is none.                   *)
LastIndex(found) == IF found = {} THEN 0 ELSE CHOOSE i \in found : \A j \in found : j <= i

OfTypes(before, types) == {i \in 1..Len(before) : before[i].type \in types}

LastToggle(before) == LastIndex(OfTypes(before, Toggles))

(* Faulty: forgets that an action before may have removed the module.       *)
FaultyKnownRegistered(m, before, known) ==
    \/ \E i \in OfTypes(before, {"register-module"}) : before[i].of = m
    \/ known.given => m \in known.modules

(* Whether a module is registered once the actions before have run.         *)
KnownRegistered(m, before, known) ==
    LET last == LastIndex({i \in OfTypes(before, {"register-module", "unregister-module"}) : before[i].of = m})
    IN  IF last # 0 THEN before[last].type = "register-module"
        ELSE known.given => m \in known.modules

(* An authorization applies to the next action, an outside call; a purchase *)
(* needs one right before it.                                               *)
AuthorizeFindings(a, before) ==
    LET n == Len(before)
        follows == n > 0 /\ before[n].type = "treasury-authorize"
    IN  {f \in {Finding("error", "order", {n})} : follows /\ IsTreasuryCall(a)}
        \union {f \in {Finding("error", "order", {})} : a.type = "treasury-buy-listing" /\ ~follows}

(* A recovery transfer needs the switch on at its point of the draft.       *)
RecoveryFindings(a, before, known) ==
    LET last == LastIndex(OfTypes(before, {"set-dao-recovery"}))
        on == IF last = 0 THEN known.recovery = "on" ELSE before[last].val = 1
    IN  {f \in {Warning({last} \ {0})} : a.type = "dao-transfer" /\ ~on}

(* What the contracts want to hold when the action runs.                    *)
PrerequisiteFindings(a, before, known) ==
    AuthorizeFindings(a, before)
    \union {f \in {Warning({})} :
              \/ a.type \in NeedsPausedAuction /\ LastToggle(before) = 0 /\ known.paused # "on"
              \/ a.type \in NeedsModule /\ ~KnownRegistered(a.of, before, known)
              \/ a.type = "set-dao-recovery" /\ known.recovery = IF a.val = 1 THEN "on" ELSE "off"}
    \union RecoveryFindings(a, before, known)

HighRiskFindings(a) == {f \in {Finding("warning", "high-risk", {})} : IsHighRisk(a)}

(* A pause or a resume: only the same step twice in a row repeats.          *)
ToggleFindings(a, before, known) ==
    LET last == LastToggle(before)
    IN  {f \in {Finding("error", "duplicate", {last})} : last # 0 /\ before[last].type = a.type}
        \union {f \in {Warning({})} :
                  last = 0 /\ known.paused = IF a.type = "pause-auction" THEN "on" ELSE "off"}

(* Any other action: an auction setting after the resume, exact repeats and *)
(* other values for the same resource.                                      *)
ValueFindings(a, before) ==
    LET last == LastToggle(before)
    IN  {f \in {Warning({last})} :
           a.type \in NeedsPausedAuction /\ last # 0 /\ before[last].type = "unpause-auction"}
        \union {Finding("error", IF SameCall(a, before[i]) THEN "duplicate" ELSE "conflict", {i}) :
                  i \in {j \in 1..Len(before) : Resource(before[j]) = Resource(a)}}

AnalyzeAction(a, before, known) ==
    PrerequisiteFindings(a, before, known)
    \union (IF a.type \in Toggles THEN ToggleFindings(a, before, known) ELSE ValueFindings(a, before))
    \union HighRiskFindings(a)

(* The findings of the i-th action of a draft: against the ones before it,  *)
(* and for the last one that it is an authorization with nothing to follow. *)
FindingsAt(q, i, known) ==
    AnalyzeAction(q[i], SubSeq(q, 1, i - 1), known)
    \union {f \in {Finding("error", "order", {i})} : i = Len(q) /\ q[i].type = "treasury-authorize"}

AnalyzeDraft(q, known) == UNION {FindingsAt(q, i, known) : i \in 1..Len(q)}

(* The page's Submit button is off while the draft has such findings.       *)
Blocking(q, known) == {f \in AnalyzeDraft(q, known) : f.severity = "error"}
=============================================================================
