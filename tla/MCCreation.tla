----------------------------- MODULE MCCreation -----------------------------
(***************************************************************************)
(* From the draft in the browser to the pages of a launched DAO: its       *)
(* creation, the checklist of its setup, and the index. One run, seven     *)
(* scenarios over the same constants; a behaviour stays in the scenario it *)
(* starts in.                                                              *)
(*   tabs      one draft in two tabs, two configurations; a tab keeps      *)
(*             nothing between operations, so it is always the first that  *)
(*             deploys while the second edits, stops and deletes; the      *)
(*             account has no other transactions;                          *)
(*   resolves  one tab whose user keeps coming back;                       *)
(*   plans     every artwork and every allocation, in one run, whether or  *)
(*             not founders were minted before there was artwork;          *)
(*   reruns    artwork of one call (MCSetup has artwork of two), runs that *)
(*             stop anywhere and reads of the token that fail;             *)
(*   links     two DAOs take, change and release two slugs;                *)
(*   modules   two DAOs register, drop and share a module of the platform  *)
(*             and one it did not deploy;                                  *)
(*   crashes   one DAO, and a batch that is interrupted anywhere.          *)
(***************************************************************************)
EXTENDS DaoCreation, Indexer

CONSTANTS t1, t2, c1, c2, d1, d2, s1, s2,
    Artworks, Allocations, ItemsPerCall, Budget, PerToken, PerRecipient, Reruns, MintedEarlier

VARIABLES
    config, calls, batches, properties, groups, owners, seeded, live, step, next, applied, status,
    blind, scenario

setupVars ==
    <<config, calls, batches, properties, groups, owners, seeded, live, step, next, applied, status,
      blind>>

Setup == INSTANCE DaoSetup

ASSUME MCCreationAssumption == Setup!SetupAssumption

MCOneCall == {<<2>>, <<1, 1>>}
MCArtworks == UNION {[1 .. n -> 1 .. 3] : n \in 1 .. 3}
MCAllocations ==
    UNION {[1 .. n -> [to : {"a", "b"}, amount : {1, 2, 5}]] : n \in 1 .. 2}

Creating == scenario \in {"tabs", "resolves"}
SettingUp == scenario \in {"plans", "reruns"}
Indexing == scenario \in {"links", "modules", "crashes"}

MCInit ==
    /\ scenario \in {"tabs", "resolves", "plans", "reruns", "links", "modules", "crashes"}
    /\ Init /\ Setup!Init /\ IndexInit
    /\ kept.config = c1
    /\ scenario = "reruns" => config.artwork \in MCOneCall /\ owners = <<>>
    /\ ~SettingUp => /\ config = [artwork |-> <<2>>, founders |-> << [to |-> "a", amount |-> 1] >>]
                     /\ owners = <<>>

TabsNext ==
    /\ scenario = "tabs"
    /\ Next
    /\ sequence' # sequence => envelopes' # envelopes
    /\ tab'[t1].at # "edit" /\ tab'[t2].at \in {"idle", "edit"}

ResolvesNext ==
    /\ scenario = "resolves"
    /\ \/ \E i \in DOMAIN envelopes : Include(i) \/ Expire(i)
       \/ SpendSequence
       \/ ReadDrafts(t1) \/ WriteDrafts(t1) \/ DeleteDraft(t1)
       \/ Begin(t1) \/ Deploys(t1) \/ Stop(t1)
    /\ tab'[t1].config # c2 /\ drawn' <= 1

SetupNext ==
    /\ SettingUp
    /\ Setup!Next
    /\ scenario = "plans" => (step # "idle" /\ step' = "idle" => status' = "complete")
    /\ scenario = "plans" => ~blind' /\ (step = "seed" /\ seeded' = seeded => next' \in {1, Setup!After(next)})
    /\ scenario = "plans" => (step = "idle" /\ step' # "idle" => status = "created")

TxsOf(s) == CASE s = "links" -> 6 [] s = "modules" -> 5 [] s = "crashes" -> 4

\* DAOs and slugs are interchangeable: d1 and s1 are the first ones used.
FirstIsFirst ==
    /\ stage'[d2] # "none" => stage'[d1] # "none"
    /\ (\A d \in Daos : stage[d] = "none") => slug'[d1] = s1

IndexerNext ==
    /\ Indexing
    /\ \/ Pipeline
       \/ scenario = "crashes" /\ Interrupted
       \/ /\ Txs < TxsOf(scenario)
          /\ \E d \in Daos, s \in Slugs, ms \in SUBSET Built : CreateDao(d, s, ms)
          /\ FirstIsFirst
          /\ scenario = "links" => registry' = registry
          /\ scenario = "crashes" => stage'[d2] = "none"
       \/ /\ Txs < TxsOf(scenario) /\ Links
          /\ scenario # "links" => UNCHANGED slug
       \/ Txs < TxsOf(scenario) /\ scenario # "links" /\ ModuleCalls

MCFairSpec ==
    /\ MCInit
    /\ [][/\ UNCHANGED scenario
          /\ \/ (TabsNext \/ ResolvesNext) /\ UNCHANGED <<setupVars, indexVars>>
             \/ SetupNext /\ UNCHANGED <<vars, indexVars>>
             \/ IndexerNext /\ UNCHANGED <<vars, setupVars>>]_<<vars, setupVars, indexVars, scenario>>
    /\ WF_vars(scenario = "resolves" /\ (Deploys(t1) \/ WriteDrafts(t1)))
    /\ SF_vars(scenario = "resolves" /\ Begin(t1))
    /\ <>[][scenario = "resolves" => (Stop(t1) => Deploys(t1))]_vars
    /\ WF_setupVars(SettingUp /\ (\/ Setup!AddArtwork \/ Setup!MintFounders \/ Setup!SeedFounders
                                  \/ Setup!Start /\ status # "complete"))
    /\ <>[][~Setup!EndsEarly]_setupVars
    /\ WF_indexVars(Indexing /\ \E n \in Ends : Deliver(n))

SetupInv == Setup!SetupInv

\* A creation and a setup are finished however often they were interrupted: a DAO that was
\* created is found, if its user keeps coming back, and the checklist completes.
CreationCompletes ==
    /\ scenario = "resolves" => Resolves
    /\ SettingUp => Setup!Completes
=============================================================================
