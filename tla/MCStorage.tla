----------------------------- MODULE MCStorage -----------------------------
(***************************************************************************)
(* The two renewals of storage, one run, three scenarios over the same     *)
(* constants; a behaviour stays in the scenario it starts in.              *)
(*   sweep     the tab renews a DAO of its Token, one more core contract   *)
(*             with a record the sweep requires, and a module with a       *)
(*             stored record and a temporary one, while entries lapse, are *)
(*             evicted, written and removed;                               *)
(*   recovers  the contracts and the required record alone, some archived  *)
(*             or evicted at the start: they come back;                    *)
(*   code      the operator renews three releases that the Manager and a   *)
(*             DAO run.                                                      *)
(***************************************************************************)
EXTENDS Renewal, CodeRenewal

VARIABLE scenario

MCOrder == <<"token", "metadata", "module", "names", "listing", "nonce">>
MCBytes == [k \in Keys |-> IF k = "names" THEN 2 ELSE 1]
MCUnder == [k \in Keys |->
    CASE k = "names" -> "metadata"
      [] k \in {"listing", "nonce"} -> "module"
      [] OTHER -> "token"]
MCRate == [h \in Hashes |-> IF h = "h3" THEN 2 ELSE 1]

MCInit ==
    /\ RenewalInit /\ CodeInit
    /\ scenario \in {"sweep", "recovers", "code"}
    /\ scenario = "sweep" =>
        liveUntil["nonce"] = 2 /\ \A k \in Keys : liveUntil[k] > 1
    /\ scenario = "recovers" => \A k \in Keys : liveUntil[k] = 0 <=> k \notin Required
    /\ scenario = "code" => liveUntil = [k \in Keys |-> 2]
    /\ newest = "h1"

MCNext ==
    /\ UNCHANGED scenario
    /\ \/ scenario = "sweep" /\ RenewalNext /\ UNCHANGED codeVars
       \/ /\ scenario = "recovers"
          /\ CloseLedger \/ Tab \/ \E k \in Keys : Evict(k)
          /\ UNCHANGED codeVars
       \/ /\ scenario = "code" /\ CodeNext /\ UNCHANGED renewalVars
          /\ "h3" \in released' => "h2" \in released'

Recovering(A) == scenario = "recovers" /\ A

MCFairSpec ==
    /\ MCInit /\ [][MCNext]_<<renewalVars, codeVars, scenario>>
    /\ <>[][~LoadFails]_renewalVars
    /\ WF_renewalVars(Recovering(Progress))
    /\ SF_renewalVars(Recovering(QuoteRenewal)) /\ SF_renewalVars(Recovering(DropQuote))
    /\ SF_renewalVars(Recovering(Renew)) /\ SF_renewalVars(Recovering(SendNext))

\* A DAO whose entries archived or were evicted comes back if its members
\* keep renewing.
DaoRecovers == scenario = "recovers" => Recovers
=============================================================================
