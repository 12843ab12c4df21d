----------------------------- MODULE MCPlatform -----------------------------
(***************************************************************************)
(* The Manager contract: its DAOs (Manager) and its registry of releases   *)
(* (Registry).  One run, five bounded scenarios; a behaviour stays in the  *)
(* scenario it starts in, and the two modules share no variable.           *)
(*   slugs    two DAOs that want the same slugs;                           *)
(*   drives   one DAO, its modules, releases and drive;                    *)
(*   modules  one DAO and three plans that deploy and register a module;   *)
(*   notice   two releases of the Manager, notices of one ledger and none; *)
(*   paths    two releases each of the Manager and of a DAO contract.      *)
(***************************************************************************)
EXTENDS Manager, Registry

VARIABLE scenario

MCPaths == {<<"v1", "v2">>}

MCKindOf == [c \in {"governor"} |-> "Governor"]
MCReleased ==
    [h \in {"m1", "m2", "g1", "g2"} |->
        IF h \in {"m1", "m2"} THEN "Manager" ELSE "Governor"]
MCFirstCode ==
    [c \in {"governor", "Manager"} |-> IF c = "Manager" THEN "m1" ELSE "g1"]

DaoScenarios == {"slugs", "drives", "modules"}

MCInit ==
    /\ scenario \in DaoScenarios \cup {"notice", "paths"}
    /\ Init /\ RegistryInit

MCNext ==
    \/ scenario \in DaoScenarios /\ Next /\ UNCHANGED registryVars
    \/ scenario \notin DaoScenarios /\ RegistryNext /\ UNCHANGED vars

MCFairSpec ==
    /\ MCInit /\ [][MCNext /\ UNCHANGED scenario]_<<vars, registryVars, scenario>>
    /\ WF_vars(Tick) /\ \A d \in Daos : WF_vars(ReleaseSlug(d))

OneDao == dao["b"].stage = "absent" /\ slugToDao["y"] = None
OneRelease == current = FirstHash /\ revoked = {}
OnlyClaims(d) == dao[d].count["auction"] = 0 /\ dao[d].modules["auction"] = 0
OpenTerms(d) == dao[d].drive.config # "closed" /\ dao[d].opened # "closed"
JustTheManager ==
    /\ implementations["g1"] = "active" /\ implementations["g2"] = Unset
    /\ latest["Governor"] = NoPointer
    /\ \A from, to \in Wasms : {from, to} \cap {"g1", "g2"} # {} =>
                                 approvals[<<from, to>>] = -1
OneNotice == ledger = 0 /\ upgradeDelay = FirstDelay /\ pendingDelay = NoDelay

MCBound ==
    CASE scenario = "slugs" ->
            /\ OneRelease /\ plans = <<>>
            /\ \A d \in Daos :
                  /\ OnlyClaims(d) /\ OpenTerms(d)
                  /\ dao[d].count["claims"] = 0 /\ dao[d].code["core"] = FirstHash
                  /\ dao[d].code["claims"] = FirstHash
      [] scenario = "drives" ->
            /\ OneDao /\ plans = <<>>
            /\ \A k \in Kinds : dao["a"].count[k] <= 1
      [] scenario = "modules" ->
            /\ OneDao /\ now <= 1 /\ OnlyClaims("a") /\ OpenTerms("a")
      [] scenario = "notice" -> JustTheManager
      [] scenario = "paths" -> OneNotice
=============================================================================
