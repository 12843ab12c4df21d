--------------------------- MODULE PlatformProofs ---------------------------
(***************************************************************************)
(* Proofs about the Manager contract: the factory of DAOs, for any DAOs,   *)
(* slugs, kinds of modules, releases, configs and plans; and its registry of*)
(* releases, for any hashes, names, contracts and notices.                 *)
(***************************************************************************)
EXTENDS Manager, Registry, SequenceTheorems, TLAPS

-----------------------------------------------------------------------------
(* The inductive invariant.                                                *)

MapsAgree == \A d \in Daos, s \in Slugs : slugToDao[s] = d <=> daoSlug[d] = s

\* What the stage of a DAO says of its admin, its slug and its modules: a drive
\* has taken the admins away, and holds its slug until it fails.
DaoOK(d) ==
    /\ dao[d].stage = "absent" =>
          dao[d].drive = NoDrive /\ dao[d].admin = "launch_admin"
    /\ Pending(d) => dao[d].slug # None
    /\ InDrive(d) => dao[d].admin = "treasury" /\ daoSlug[d] \in {dao[d].slug, None}
    /\ InDrive(d) /\ ~DriveFailed(d) => daoSlug[d] = dao[d].slug
    /\ ~Live(d) /\ ~InDrive(d) => daoSlug[d] = None
    /\ Live(d) => daoSlug[d] # None
    /\ \A k \in Kinds : dao[d].count[k] = Len(builder[d][k])

IInv == TypeOK /\ MapsAgree /\ ModulesAsPlanned /\ \A d \in Daos : DaoOK(d)

-----------------------------------------------------------------------------
(* A step that changes the record of one DAO.                              *)

Becomes(d, r) ==
    /\ dao' \in [Daos -> DaoRecords] /\ dao'[d] = r
    /\ \A o \in Daos : o # d => dao'[o] = dao[o]

\* One DAO's record is replaced.
LEMMA RecordSet ==
    ASSUME TypeOK, NEW d \in Daos, NEW r \in DaoRecords, dao' = [dao EXCEPT ![d] = r]
    PROVE  Becomes(d, r)
  BY DEF TypeOK, Becomes

\* Types of a DAO's record.
LEMMA RecordTyped ==
    ASSUME TypeOK, NEW d \in Daos
    PROVE  /\ dao \in [Daos -> DaoRecords] /\ dao[d] \in DaoRecords
           /\ dao[d].count \in [Kinds -> Nat] /\ dao[d].modules \in [Kinds -> Nat]
           /\ dao[d].code \in [Parts -> Hashes]
           /\ \A k \in Kinds : dao[d].modules[k] <= dao[d].count[k] + 1
  <1>1. dao \in [Daos -> DaoRecords] /\ dao[d] \in DaoRecords
    BY DEF TypeOK
  <1>2. \A k \in Kinds : dao[d].modules[k] <= dao[d].count[k] + 1
    BY DEF TypeOK
  <1> QED BY <1>1, <1>2 DEF DaoRecords

\* The module numbers of a record are those of modules that were deployed.
Numbered(r) == \A k \in Kinds : r.modules[k] <= r.count[k] + 1

\* What is left to show of such a step: the DAO it changes.
LEMMA StepInv ==
    ASSUME IInv, NEW d \in Daos, NEW r \in DaoRecords, Becomes(d, r), Numbered(r),
           UNCHANGED <<now, platformVars>>,
           slugToDao' \in [Slugs -> Daos \cup {None}],
           daoSlug' \in [Daos -> Slugs \cup {None}], MapsAgree',
           \A o \in Daos : o # d => daoSlug'[o] = daoSlug[o],
           builder' \in [Daos -> [Kinds -> Seq(Nat)]],
           \A o \in Daos : o # d => builder'[o] = builder[o],
           plans' \in Seq(Plans), ModulesAsPlanned', DaoOK(d)'
    PROVE  IInv'
  <1>1. TypeOK'
    <2>1. \A o \in Daos, k \in Kinds : dao'[o].modules[k] <= dao'[o].count[k] + 1
      BY DEF IInv, TypeOK, Becomes, Numbered
    <2>2. dao' \in [Daos -> DaoRecords]
      BY DEF Becomes
    <2> QED BY <2>1, <2>2 DEF IInv, TypeOK, platformVars
  <1>2. ASSUME NEW o \in Daos
        PROVE  DaoOK(o)'
    <2>1. CASE o # d
      <3>1. dao'[o] = dao[o] /\ daoSlug'[o] = daoSlug[o] /\ builder'[o] = builder[o] /\ now' = now
        BY <2>1 DEF Becomes
      <3> QED BY <3>1 DEF IInv, DaoOK, Pending, Live, InDrive, DriveFailed
    <2> QED BY <2>1
  <1> QED BY <1>1, <1>2 DEF IInv

\* The usual case: nothing else changes, and nothing in the record that its
\* slug depends on.
SameStanding(q, r) ==
    /\ r.stage = q.stage /\ r.admin = q.admin /\ r.slug = q.slug /\ r.drive = q.drive
    /\ r.count = q.count

\* A step about one DAO that changes neither its standing nor the slugs keeps the invariant.
LEMMA QuietInv ==
    ASSUME IInv, NEW d \in Daos, NEW r \in DaoRecords, Becomes(d, r), Numbered(r),
           SameStanding(dao[d], r),
           UNCHANGED <<now, platformVars, slugVars, plans, builder>>
    PROVE  IInv'
  <1>1. DaoOK(d)'
    <2>1. DaoOK(d) /\ dao'[d] = r
      BY DEF IInv, Becomes
    <2> QED BY <2>1 DEF DaoOK, Pending, Live, InDrive, DriveFailed, SameStanding, slugVars
  <1>2. MapsAgree' /\ ModulesAsPlanned'
    BY DEF IInv, MapsAgree, ModulesAsPlanned, slugVars
  <1> QED BY <1>1, <1>2, StepInv DEF IInv, TypeOK, slugVars

-----------------------------------------------------------------------------
(* What each call does to the record.                                      *)

\* What the creation of a DAO writes.
LEMMA CreateRecord ==
    ASSUME TypeOK, NEW d \in Daos, NEW s \in Slugs, NEW kinds \in SUBSET Kinds,
           CreateDao(d, s, kinds)
    PROVE  \E r \in DaoRecords :
              /\ Becomes(d, r) /\ Numbered(r)
              /\ r.stage = "pending" /\ r.slug = s
              /\ r.admin = dao[d].admin /\ r.drive = dao[d].drive /\ r.count = dao[d].count
  <1> DEFINE m == [k \in Kinds |-> IF k \in kinds THEN 1 ELSE 0]
             c == [p \in Parts |-> current]
             r == [dao[d] EXCEPT !.stage = "pending", !.slug = s, !.modules = m, !.code = c]
  <1>1. /\ dao \in [Daos -> DaoRecords] /\ dao[d] \in DaoRecords
        /\ dao[d].count \in [Kinds -> Nat]
    BY RecordTyped
  <1>2. m \in [Kinds -> Nat] /\ c \in [Parts -> Hashes] /\ \A k \in Kinds : m[k] <= 1
    BY DEF TypeOK
  <1>3. dao' = [dao EXCEPT ![d].stage = "pending", ![d].slug = s, ![d].modules = m,
                           ![d].code = c]
    BY DEF CreateDao
  <1> HIDE DEF m, c
  <1>4. /\ r \in DaoRecords /\ r.stage = "pending" /\ r.slug = s /\ r.modules = m
        /\ r.admin = dao[d].admin /\ r.drive = dao[d].drive /\ r.count = dao[d].count
    BY <1>1, <1>2 DEF DaoRecords
  <1>5. dao' = [dao EXCEPT ![d] = r]
    BY <1>1, <1>3
  <1> HIDE DEF r
  <1>6. Becomes(d, r)
    BY <1>4, <1>5, RecordSet
  <1>7. Numbered(r)
    BY <1>1, <1>2, <1>4 DEF Numbered
  <1> QED BY <1>4, <1>6, <1>7

\* What the deployment of a module writes.
LEMMA DeployRecord ==
    ASSUME TypeOK, NEW d \in Daos, NEW k \in Kinds, NEW n \in Nat, NEW by \in Nat,
           Deploy(d, k, n, by)
    PROVE  \E r \in DaoRecords :
              /\ Becomes(d, r) /\ Numbered(r)
              /\ r.stage = dao[d].stage /\ r.slug = dao[d].slug
              /\ r.admin = dao[d].admin /\ r.drive = dao[d].drive
              /\ r.count = [dao[d].count EXCEPT ![k] = @ + 1]
  <1> DEFINE count == [dao[d].count EXCEPT ![k] = @ + 1]
             m == [dao[d].modules EXCEPT ![k] = n + 2]
             c == [dao[d].code EXCEPT ![k] = current]
             t == dao[d].tuned \ {k}
             r == [dao[d] EXCEPT !.count = count, !.modules = m, !.code = c, !.tuned = t]
  <1>1. /\ dao \in [Daos -> DaoRecords] /\ dao[d] \in DaoRecords
        /\ dao[d].count \in [Kinds -> Nat] /\ dao[d].modules \in [Kinds -> Nat]
        /\ dao[d].code \in [Parts -> Hashes] /\ k \in Parts
        /\ \A j \in Kinds : dao[d].modules[j] <= dao[d].count[j] + 1
    BY RecordTyped DEF Parts
  <1>2. /\ count \in [Kinds -> Nat] /\ m \in [Kinds -> Nat] /\ c \in [Parts -> Hashes]
    BY <1>1 DEF TypeOK
  <1>3. t \in SUBSET Kinds
    BY <1>1 DEF DaoRecords
  <1>4. dao' = [dao EXCEPT ![d].count = count, ![d].modules[k] = n + 2,
                           ![d].code[k] = current, ![d].tuned = t]
    <2>1. dao' = [dao EXCEPT ![d].count = NextCount(d, k), ![d].modules[k] = n + 2,
                             ![d].code[k] = current, ![d].tuned = @ \ {k}]
      BY DEF Deploy
    <2> QED BY <1>1, <2>1 DEF NextCount
  <1>5. \A j \in Kinds : m[j] <= count[j] + 1
    <2>1. n = dao[d].count[k]
      BY DEF Deploy, Indexed
    <2> QED BY <1>1, <2>1
  <1> HIDE DEF count, t
  <1>6. /\ r \in DaoRecords /\ r.stage = dao[d].stage /\ r.slug = dao[d].slug /\ r.modules = m
        /\ r.admin = dao[d].admin /\ r.drive = dao[d].drive /\ r.count = count
    BY <1>1, <1>2, <1>3 DEF DaoRecords
  <1>7. dao' = [dao EXCEPT ![d] = r]
    BY <1>1, <1>4 DEF DaoRecords
  <1> HIDE DEF r, m
  <1>8. Becomes(d, r)
    BY <1>6, <1>7, RecordSet
  <1>9. Numbered(r)
    BY <1>5, <1>6 DEF Numbered
  <1> QED BY <1>6, <1>8, <1>9 DEF count

-----------------------------------------------------------------------------
(* The calls that leave the standing of the DAO as it is.                  *)

\* The same for a record written in place.
LEMMA QuietRecord ==
    ASSUME IInv, NEW d \in Daos, NEW r \in DaoRecords, dao' = [dao EXCEPT ![d] = r],
           SameStanding(dao[d], r), Numbered(r),
           UNCHANGED <<now, platformVars, slugVars, plans, builder>>
    PROVE  IInv'
  <1>1. Becomes(d, r)
    BY RecordSet DEF IInv
  <1> QED BY <1>1, QuietInv

\* Removing a module keeps the invariant.
LEMMA UnregisterInv ==
    ASSUME IInv, NEW d \in Daos, NEW k \in Kinds, Unregister(d, k)
    PROVE  IInv'
  <1> DEFINE m == [dao[d].modules EXCEPT ![k] = 0]
             r == [dao[d] EXCEPT !.modules = m]
  <1>1. /\ dao \in [Daos -> DaoRecords] /\ dao[d] \in DaoRecords
        /\ dao[d].modules \in [Kinds -> Nat] /\ dao[d].count \in [Kinds -> Nat]
        /\ \A j \in Kinds : dao[d].modules[j] <= dao[d].count[j] + 1
    BY RecordTyped DEF IInv
  <1>2. m \in [Kinds -> Nat] /\ \A j \in Kinds : m[j] <= dao[d].count[j] + 1
    BY <1>1
  <1>3. /\ dao' = [dao EXCEPT ![d].modules[k] = 0]
        /\ UNCHANGED <<now, platformVars, slugVars, plans, builder>>
    BY DEF Unregister
  <1>4. dao' = [dao EXCEPT ![d] = r]
    BY <1>1, <1>3 DEF DaoRecords
  <1> HIDE DEF m
  <1>5. /\ r \in DaoRecords /\ SameStanding(dao[d], r) /\ r.modules = m
        /\ r.count = dao[d].count
    BY <1>1, <1>2 DEF DaoRecords, SameStanding
  <1>6. Numbered(r)
    BY <1>2, <1>5 DEF Numbered
  <1> HIDE DEF r
  <1> QED BY <1>3, <1>4, <1>5, <1>6, QuietRecord

\* set_payment_asset of a module, and a founder's mint.
LEMMA SetupInv ==
    ASSUME IInv, NEW d \in Daos, NEW k \in Kinds, TuneAsset(d, k) \/ MintFounder(d)
    PROVE  IInv'
  <1>1. /\ dao \in [Daos -> DaoRecords] /\ dao[d] \in DaoRecords /\ Numbered(dao[d])
    BY RecordTyped DEF IInv, Numbered
  <1>2. CASE TuneAsset(d, k)
    <2> DEFINE t == IF k \in dao[d].tuned THEN dao[d].tuned \ {k} ELSE dao[d].tuned \cup {k}
               r == [dao[d] EXCEPT !.tuned = t]
    <2>1. dao[d].tuned \in SUBSET Kinds
      BY <1>1 DEF DaoRecords
    <2>2. t \in SUBSET Kinds
      BY <2>1
    <2>3. dao' = [dao EXCEPT ![d].tuned = t]
      BY <1>1, <1>2 DEF TuneAsset
    <2> HIDE DEF t
    <2>4. /\ r \in DaoRecords /\ SameStanding(dao[d], r) /\ r.modules = dao[d].modules
          /\ dao' = [dao EXCEPT ![d] = r]
      BY <1>1, <2>2, <2>3 DEF DaoRecords, SameStanding
    <2> HIDE DEF r
    <2>5. Numbered(r)
      BY <1>1, <2>4 DEF Numbered, SameStanding
    <2> QED BY <1>2, <2>4, <2>5, QuietRecord DEF TuneAsset
  <1>3. CASE MintFounder(d)
    <2> DEFINE r == [dao[d] EXCEPT !.supply = TRUE]
    <2>1. /\ r \in DaoRecords /\ SameStanding(dao[d], r) /\ r.modules = dao[d].modules
          /\ dao' = [dao EXCEPT ![d] = r]
      BY <1>1, <1>3 DEF DaoRecords, SameStanding, MintFounder
    <2> HIDE DEF r
    <2>2. Numbered(r)
      BY <1>1, <2>1 DEF Numbered, SameStanding
    <2> QED BY <1>3, <2>1, <2>2, QuietRecord DEF MintFounder
  <1> QED BY <1>2, <1>3

\* An upgrade of one of its contracts, by the DAO or to recover its claims.
LEMMA NewCodeInv ==
    ASSUME IInv, NEW d \in Daos, NEW p \in Parts, NEW to \in Hashes,
           dao' = [dao EXCEPT ![d].code[p] = to],
           UNCHANGED <<now, platformVars, slugVars, plans, builder>>
    PROVE  IInv'
  <1> DEFINE c == [dao[d].code EXCEPT ![p] = to]
             r == [dao[d] EXCEPT !.code = c]
  <1>1. /\ dao \in [Daos -> DaoRecords] /\ dao[d] \in DaoRecords /\ Numbered(dao[d])
        /\ dao[d].code \in [Parts -> Hashes]
    BY RecordTyped DEF IInv, Numbered
  <1>2. c \in [Parts -> Hashes]
    BY <1>1
  <1>3. dao' = [dao EXCEPT ![d] = r]
    BY <1>1 DEF DaoRecords
  <1> HIDE DEF c
  <1>4. r \in DaoRecords /\ SameStanding(dao[d], r) /\ r.modules = dao[d].modules
    BY <1>1, <1>2 DEF DaoRecords, SameStanding
  <1> HIDE DEF r
  <1>5. Numbered(r)
    BY <1>1, <1>4 DEF Numbered, SameStanding
  <1> QED BY <1>3, <1>4, <1>5, QuietRecord

\* Reaching the threshold keeps it.
LEMMA ReachThresholdInv ==
    ASSUME IInv, NEW d \in Daos, ReachThreshold(d)
    PROVE  IInv'
  <1> DEFINE r == [dao[d] EXCEPT !.met = TRUE, !.supply = TRUE]
  <1>1. /\ dao \in [Daos -> DaoRecords] /\ dao[d] \in DaoRecords /\ Numbered(dao[d])
    BY RecordTyped DEF IInv, Numbered
  <1>2. /\ r \in DaoRecords /\ SameStanding(dao[d], r) /\ r.modules = dao[d].modules
        /\ dao' = [dao EXCEPT ![d] = r]
    BY <1>1 DEF DaoRecords, SameStanding, ReachThreshold
  <1> HIDE DEF r
  <1>3. Numbered(r)
    BY <1>1, <1>2 DEF Numbered, SameStanding
  <1> QED BY <1>2, <1>3, QuietRecord DEF ReachThreshold

-----------------------------------------------------------------------------
(* Creation and modules.                                                   *)

\* Creating a DAO keeps it.
LEMMA CreateInv ==
    ASSUME IInv, NEW d \in Daos, NEW s \in Slugs, NEW kinds \in SUBSET Kinds,
           CreateDao(d, s, kinds)
    PROVE  IInv'
  <1>1. PICK r \in DaoRecords :
           /\ Becomes(d, r) /\ Numbered(r)
           /\ r.stage = "pending" /\ r.slug = s
           /\ r.admin = dao[d].admin /\ r.drive = dao[d].drive /\ r.count = dao[d].count
    BY CreateRecord DEF IInv
  <1>2. /\ dao[d].stage = "absent"
        /\ UNCHANGED <<now, platformVars, slugVars, plans, builder>>
    BY DEF CreateDao
  <1>3. DaoOK(d)'
    <2>1. DaoOK(d) /\ dao'[d] = r /\ s # None
      BY <1>1, ManagerAssumption DEF IInv, Becomes
    <2> QED BY <1>1, <1>2, <2>1 DEF DaoOK, Pending, Live, InDrive, DriveFailed, slugVars
  <1>4. MapsAgree' /\ ModulesAsPlanned'
    BY <1>2 DEF IInv, MapsAgree, ModulesAsPlanned, slugVars
  <1> QED BY <1>1, <1>2, <1>3, <1>4, StepInv DEF IInv, TypeOK, slugVars

\* A pending DAO outside a drive may change the slug it will ask for.
LEMMA PendingSlugInv ==
    ASSUME IInv, NEW d \in Daos, NEW s \in Slugs, UpdatePendingSlug(d, s)
    PROVE  IInv'
  <1> DEFINE r == [dao[d] EXCEPT !.slug = s]
  <1>1. /\ dao \in [Daos -> DaoRecords] /\ dao[d] \in DaoRecords /\ Numbered(dao[d])
    BY RecordTyped DEF IInv, Numbered
  <1>2. /\ Pending(d) /\ ~InDrive(d)
        /\ UNCHANGED <<now, platformVars, slugVars, plans, builder>>
    BY DEF UpdatePendingSlug
  <1>3. /\ r \in DaoRecords /\ r.modules = dao[d].modules /\ r.slug = s
        /\ r.stage = dao[d].stage /\ r.admin = dao[d].admin /\ r.drive = dao[d].drive
        /\ r.count = dao[d].count /\ dao' = [dao EXCEPT ![d] = r]
    BY <1>1 DEF DaoRecords, UpdatePendingSlug
  <1> HIDE DEF r
  <1>4. Becomes(d, r) /\ Numbered(r)
    BY <1>1, <1>3, RecordSet DEF IInv, Numbered
  <1>5. DaoOK(d)'
    <2>1. DaoOK(d) /\ dao'[d] = r /\ s # None
      BY <1>4, ManagerAssumption DEF IInv, Becomes
    <2> QED BY <1>2, <1>3, <2>1 DEF DaoOK, Pending, Live, InDrive, DriveFailed, slugVars
  <1>6. MapsAgree' /\ ModulesAsPlanned'
    BY <1>2 DEF IInv, MapsAgree, ModulesAsPlanned, slugVars
  <1> QED BY <1>2, <1>3, <1>4, <1>5, <1>6, StepInv DEF IInv, TypeOK, slugVars

\* create_module: the module is the next of its kind, and is its builder's.
LEMMA BuilderGrows ==
    ASSUME IInv, NEW d \in Daos, NEW k \in Kinds, NEW n \in Nat, NEW by \in Nat,
           Deploy(d, k, n, by)
    PROVE  /\ builder' \in [Daos -> [Kinds -> Seq(Nat)]]
           /\ \A o \in Daos : o # d => builder'[o] = builder[o]
           /\ \A j \in Kinds : j # k => builder'[d][j] = builder[d][j]
           /\ builder'[d][k] = Append(builder[d][k], by)
           /\ Len(builder'[d][k]) = Len(builder[d][k]) + 1
           /\ n = Len(builder[d][k])
  <1>1. builder \in [Daos -> [Kinds -> Seq(Nat)]] /\ builder[d] \in [Kinds -> Seq(Nat)]
        /\ builder[d][k] \in Seq(Nat)
    BY DEF IInv, TypeOK
  <1> DEFINE b == Append(builder[d][k], by)
             row == [builder[d] EXCEPT ![k] = b]
  <1>2. b \in Seq(Nat) /\ Len(b) = Len(builder[d][k]) + 1
    BY <1>1
  <1>3. builder' = [builder EXCEPT ![d] = row]
    BY <1>1 DEF Deploy
  <1> HIDE DEF b
  <1>4. row \in [Kinds -> Seq(Nat)] /\ row[k] = b /\ \A j \in Kinds : j # k => row[j] = builder[d][j]
    BY <1>1, <1>2
  <1> HIDE DEF row
  <1>5. /\ builder' \in [Daos -> [Kinds -> Seq(Nat)]] /\ builder'[d] = row
        /\ \A o \in Daos : o # d => builder'[o] = builder[o]
    BY <1>1, <1>3, <1>4
  <1>6. n = Len(builder[d][k])
    BY DEF IInv, DaoOK, Deploy, Indexed
  <1> QED BY <1>2, <1>4, <1>5, <1>6 DEF b

\* What was deployed as planned stays so.
LEMMA PlansStay ==
    ASSUME IInv, NEW d \in Daos, NEW k \in Kinds, NEW n \in Nat, NEW by \in Nat,
           Deploy(d, k, n, by),
           NEW p \in DOMAIN plans, plans[p].done
    PROVE  /\ plans[p].n < Len(builder'[plans[p].dao][plans[p].kind])
           /\ builder'[plans[p].dao][plans[p].kind][plans[p].n + 1] = p
  <1> DEFINE o == plans[p].dao
             j == plans[p].kind
             i == plans[p].n
  <1>1. plans[p] \in Plans
    BY DEF IInv, TypeOK
  <1>2. o \in Daos /\ j \in Kinds /\ i \in Nat
    BY <1>1 DEF Plans
  <1>3. builder[o][j] \in Seq(Nat)
    BY <1>2 DEF IInv, TypeOK
  <1>4. i < Len(builder[o][j]) /\ builder[o][j][i + 1] = p
    BY DEF IInv, ModulesAsPlanned
  <1> HIDE DEF o, j, i
  <1>5. CASE o = d /\ j = k
    <2>1. builder'[o][j] = Append(builder[o][j], by)
      BY <1>5, BuilderGrows
    <2>2. i + 1 \in 1 .. Len(builder[o][j])
      BY <1>2, <1>3, <1>4
    <2> QED BY <1>2, <1>3, <1>4, <2>1, <2>2 DEF o, j, i
  <1>6. CASE ~(o = d /\ j = k)
    <2>1. builder'[o][j] = builder[o][j]
      BY <1>2, <1>6, BuilderGrows
    <2> QED BY <1>4, <2>1 DEF o, j, i
  <1> QED BY <1>5, <1>6

\* Deploying a module keeps it, as long as the plans do.
LEMMA DeployInv ==
    ASSUME IInv, NEW d \in Daos, NEW k \in Kinds, NEW n \in Nat, NEW by \in Nat,
           Deploy(d, k, n, by), UNCHANGED <<now, platformVars, slugVars>>,
           plans' \in Seq(Plans), ModulesAsPlanned'
    PROVE  IInv'
  <1>1. PICK r \in DaoRecords :
           /\ Becomes(d, r) /\ Numbered(r)
           /\ r.stage = dao[d].stage /\ r.slug = dao[d].slug
           /\ r.admin = dao[d].admin /\ r.drive = dao[d].drive
           /\ r.count = [dao[d].count EXCEPT ![k] = @ + 1]
    BY DeployRecord DEF IInv
  <1>2. DaoOK(d)'
    <2>1. DaoOK(d) /\ dao'[d] = r /\ dao[d].count \in [Kinds -> Nat]
      BY <1>1, RecordTyped DEF IInv, Becomes
    <2>2. \A j \in Kinds : r.count[j] = Len(builder'[d][j])
      <3>1. \A j \in Kinds : dao[d].count[j] = Len(builder[d][j])
        BY <2>1 DEF DaoOK
      <3>2. r.count[k] = dao[d].count[k] + 1 /\ \A j \in Kinds : j # k => r.count[j] = dao[d].count[j]
        BY <1>1, <2>1
      <3>3. /\ \A j \in Kinds : j # k => builder'[d][j] = builder[d][j]
            /\ Len(builder'[d][k]) = Len(builder[d][k]) + 1
        BY BuilderGrows
      <3> QED BY <3>1, <3>2, <3>3
    <2> QED BY <1>1, <2>1, <2>2 DEF DaoOK, Pending, Live, InDrive, DriveFailed, slugVars
  <1>3. MapsAgree'
    BY DEF IInv, MapsAgree, slugVars
  <1> QED BY <1>1, <1>2, <1>3, BuilderGrows, StepInv DEF IInv, TypeOK, slugVars

\* The launch admin's deployment of a module in Setup keeps it.
LEMMA CreateModuleInv ==
    ASSUME IInv, NEW d \in Daos, NEW k \in Kinds, NEW n \in Nat, CreateModule(d, k, n)
    PROVE  IInv'
  <1>1. Deploy(d, k, n, 0) /\ UNCHANGED <<now, platformVars, slugVars, plans>>
    BY DEF CreateModule
  <1>2. ModulesAsPlanned'
    BY <1>1, PlansStay DEF ModulesAsPlanned
  <1> QED BY <1>1, <1>2, DeployInv DEF IInv, TypeOK

\* A planned module is deployed under the number the plan was made for, or not at all.
LEMMA ExecuteInv ==
    ASSUME IInv, NEW p \in DOMAIN plans, Execute(p)
    PROVE  IInv'
  <1> DEFINE d == plans[p].dao
             k == plans[p].kind
             n == plans[p].n
             done == [plans[p] EXCEPT !.done = TRUE]
  <1>1. plans \in Seq(Plans) /\ plans[p] \in Plans /\ p \in 1 .. Len(plans) /\ p \in Nat
        /\ Len(plans) \in Nat
    BY DEF IInv, TypeOK
  <1>2. /\ d \in Daos /\ k \in Kinds /\ n \in Nat /\ done \in Plans
        /\ done.dao = d /\ done.kind = k /\ done.n = n
    BY <1>1 DEF Plans
  <1>3. /\ Deploy(d, k, n, p) /\ UNCHANGED <<now, platformVars, slugVars>>
        /\ plans' = [plans EXCEPT ![p] = done]
    BY <1>1 DEF Execute
  <1> HIDE DEF d, k, n, done
  <1>4. /\ plans' \in Seq(Plans) /\ Len(plans') = Len(plans) /\ plans'[p] = done
        /\ \A q \in 1 .. Len(plans) : q # p => plans'[q] = plans[q]
    <2>1. /\ [plans EXCEPT ![p] = done] \in Seq(Plans)
          /\ Len([plans EXCEPT ![p] = done]) = Len(plans)
          /\ \A q \in 1 .. Len(plans) :
                [plans EXCEPT ![p] = done][q] = IF q = p THEN done ELSE plans[q]
      BY <1>1, <1>2, ExceptSeq
    <2> QED BY <1>1, <1>3, <2>1
  <1>5. ModulesAsPlanned'
    <2>1. SUFFICES ASSUME NEW q \in DOMAIN plans', plans'[q].done
                   PROVE  /\ plans'[q].n < Len(builder'[plans'[q].dao][plans'[q].kind])
                          /\ builder'[plans'[q].dao][plans'[q].kind][plans'[q].n + 1] = q
      BY DEF ModulesAsPlanned
    <2>2. q \in 1 .. Len(plans) /\ q \in DOMAIN plans
      BY <1>1, <1>4
    <2>3. CASE q = p
      <3>1. builder[d][k] \in Seq(Nat)
        BY <1>2 DEF IInv, TypeOK
      <3>2. builder'[d][k] = Append(builder[d][k], p) /\ n = Len(builder[d][k])
        BY <1>1, <1>2, <1>3, BuilderGrows
      <3>3. n < Len(builder'[d][k]) /\ builder'[d][k][n + 1] = p
        BY <3>1, <3>2
      <3> QED BY <1>2, <1>4, <2>3, <3>3
    <2>4. CASE q # p
      <3>1. plans'[q] = plans[q]
        BY <1>4, <2>2, <2>4
      <3> QED BY <1>1, <1>2, <1>3, <2>1, <2>2, <3>1, PlansStay
    <2> QED BY <2>3, <2>4
  <1> QED BY <1>1, <1>2, <1>3, <1>4, <1>5, DeployInv

\* Making a plan keeps it.
LEMMA DraftInv ==
    ASSUME IInv, NEW d \in Daos, NEW k \in Kinds, Draft(d, k)
    PROVE  IInv'
  <1> DEFINE new == [dao |-> d, kind |-> k, n |-> dao[d].count[k], done |-> FALSE]
  <1>1. /\ plans' = Append(plans, new)
        /\ UNCHANGED <<now, platformVars, dao, slugVars, builder>>
    BY DEF Draft
  <1>2. new \in Plans /\ plans \in Seq(Plans)
    BY RecordTyped DEF IInv, TypeOK, Plans
  <1>3. ~new.done
    OBVIOUS
  <1> HIDE DEF new
  <1>4. /\ plans' \in Seq(Plans) /\ DOMAIN plans' = 1 .. Len(plans) + 1
        /\ plans'[Len(plans) + 1] = new
        /\ \A q \in 1 .. Len(plans) : plans'[q] = plans[q]
    BY <1>1, <1>2
  <1>5. ModulesAsPlanned'
    <2>1. \A q \in DOMAIN plans' : plans'[q].done => q \in DOMAIN plans /\ plans'[q] = plans[q]
      BY <1>2, <1>3, <1>4
    <2> QED BY <1>1, <2>1 DEF IInv, ModulesAsPlanned
  <1>6. TypeOK' /\ MapsAgree'
    BY <1>1, <1>4 DEF IInv, TypeOK, MapsAgree, platformVars, slugVars
  <1>7. \A o \in Daos : DaoOK(o)'
    BY <1>1 DEF IInv, DaoOK, Pending, Live, InDrive, DriveFailed, slugVars
  <1> QED BY <1>5, <1>6, <1>7 DEF IInv

-----------------------------------------------------------------------------
(* Slugs, drives and launches.                                             *)

\* Claiming a free slug keeps the two maps inverse.
LEMMA SlugClaimed ==
    ASSUME IInv, NEW d \in Daos, NEW s \in Slugs, ClaimSlug(d, s), Unclaimed(s),
           daoSlug[d] = None
    PROVE  /\ slugToDao' \in [Slugs -> Daos \cup {None}]
           /\ daoSlug' \in [Daos -> Slugs \cup {None}]
           /\ MapsAgree' /\ daoSlug'[d] = s
           /\ \A o \in Daos : o # d => daoSlug'[o] = daoSlug[o]
  <1>1. /\ slugToDao \in [Slugs -> Daos \cup {None}] /\ daoSlug \in [Daos -> Slugs \cup {None}]
        /\ None \notin Daos /\ None \notin Slugs /\ MapsAgree
    BY ManagerAssumption DEF IInv, TypeOK
  <1>2. /\ slugToDao' = [slugToDao EXCEPT ![s] = d] /\ daoSlug' = [daoSlug EXCEPT ![d] = s]
        /\ slugToDao[s] = None
    BY DEF ClaimSlug, Unclaimed
  <1>3. /\ slugToDao' \in [Slugs -> Daos \cup {None}]
        /\ daoSlug' \in [Daos -> Slugs \cup {None}] /\ daoSlug'[d] = s
        /\ \A o \in Daos : o # d => daoSlug'[o] = daoSlug[o]
    BY <1>1, <1>2
  <1>4. ASSUME NEW o \in Daos, NEW x \in Slugs
        PROVE  slugToDao'[x] = o <=> daoSlug'[o] = x
    <2>1. slugToDao[x] = o <=> daoSlug[o] = x
      BY <1>1 DEF MapsAgree
    <2>2. slugToDao'[x] = IF x = s THEN d ELSE slugToDao[x]
      BY <1>1, <1>2
    <2>3. daoSlug'[o] = IF o = d THEN s ELSE daoSlug[o]
      BY <1>1, <1>2
    <2> QED BY <1>1, <1>2, <2>1, <2>2, <2>3
  <1> QED BY <1>3, <1>4 DEF MapsAgree

\* Opening a drive keeps it: the slug is claimed with it.
LEMMA OpenAssuranceInv ==
    ASSUME IInv, NEW d \in Daos, NEW t \in Nat, NEW config \in Configs,
           OpenAssurance(d, t, config)
    PROVE  IInv'
  <1> DEFINE drive == [deadline |-> t, config |-> config]
             r == [dao[d] EXCEPT !.drive = drive, !.admin = "treasury"]
  <1>1. /\ dao \in [Daos -> DaoRecords] /\ dao[d] \in DaoRecords /\ Numbered(dao[d])
        /\ DaoOK(d)
    BY RecordTyped DEF IInv, Numbered
  <1>2. /\ Pending(d) /\ ~InDrive(d) /\ Unclaimed(dao[d].slug) /\ ClaimSlug(d, dao[d].slug)
        /\ dao' = [dao EXCEPT ![d].drive = drive, ![d].admin = "treasury"]
        /\ UNCHANGED <<now, platformVars, plans, builder>>
    BY DEF OpenAssurance
  <1>3. drive \in [deadline : Nat, config : Configs \cup {None}] /\ drive # NoDrive
    <2>1. drive.config # NoDrive.config
      BY ManagerAssumption DEF NoDrive
    <2> QED BY <2>1
  <1> HIDE DEF drive
  <1>4. /\ r \in DaoRecords /\ r.modules = dao[d].modules /\ r.count = dao[d].count
        /\ r.stage = dao[d].stage /\ r.slug = dao[d].slug
        /\ r.admin = "treasury" /\ r.drive = drive /\ dao' = [dao EXCEPT ![d] = r]
    BY <1>1, <1>2, <1>3 DEF DaoRecords
  <1> HIDE DEF r
  <1>5. Becomes(d, r) /\ Numbered(r)
    BY <1>1, <1>4, RecordSet DEF IInv, Numbered
  <1>6. dao[d].slug \in Slugs /\ daoSlug[d] = None
    <2>1. dao[d].slug \in Slugs \cup {None} /\ dao[d].slug # None
      BY <1>1, <1>2 DEF DaoOK, DaoRecords
    <2>2. daoSlug[d] = None
      BY <1>1, <1>2 DEF DaoOK, Pending, Live
    <2> QED BY <2>1, <2>2
  <1>7. /\ slugToDao' \in [Slugs -> Daos \cup {None}]
        /\ daoSlug' \in [Daos -> Slugs \cup {None}]
        /\ MapsAgree' /\ daoSlug'[d] = dao[d].slug
        /\ \A o \in Daos : o # d => daoSlug'[o] = daoSlug[o]
    BY <1>2, <1>6, SlugClaimed
  <1>8. DaoOK(d)'
    <2>1. dao'[d] = r
      BY <1>5 DEF Becomes
    <2> QED BY <1>1, <1>2, <1>3, <1>4, <1>6, <1>7, <2>1, ManagerAssumption
            DEF DaoOK, Pending, Live, InDrive, DriveFailed
  <1>9. ModulesAsPlanned'
    BY <1>2 DEF IInv, ModulesAsPlanned
  <1> QED BY <1>2, <1>4, <1>5, <1>7, <1>8, <1>9, StepInv DEF IInv, TypeOK

\* The record of a DAO that launches.
LEMMA LaunchRecord ==
    ASSUME IInv, NEW d \in Daos, NEW config \in Configs \cup {None},
           Pending(d), LaunchPending(d, config)
    PROVE  \E r \in DaoRecords :
              /\ Becomes(d, r) /\ Numbered(r)
              /\ r.stage = "live" /\ r.slug = dao[d].slug /\ r.opened = config
              /\ r.admin = "treasury" /\ r.drive = NoDrive
              /\ r.modules = dao[d].modules /\ r.count = dao[d].count /\ r.code = dao[d].code
  <1> DEFINE r == [dao[d] EXCEPT !.stage = "live", !.admin = "treasury", !.drive = NoDrive,
                                 !.opened = config]
  <1>1. /\ dao \in [Daos -> DaoRecords] /\ dao[d] \in DaoRecords /\ Numbered(dao[d])
    BY RecordTyped DEF IInv, Numbered
  <1>2. dao' = [dao EXCEPT ![d].stage = "live", ![d].admin = "treasury",
                           ![d].drive = NoDrive, ![d].opened = config]
    BY DEF LaunchPending
  <1>3. NoDrive \in [deadline : Nat, config : Configs \cup {None}]
    BY DEF NoDrive
  <1>4. /\ r \in DaoRecords /\ dao' = [dao EXCEPT ![d] = r]
        /\ r.stage = "live" /\ r.slug = dao[d].slug /\ r.opened = config
        /\ r.admin = "treasury" /\ r.drive = NoDrive
        /\ r.modules = dao[d].modules /\ r.count = dao[d].count /\ r.code = dao[d].code
    BY <1>1, <1>2, <1>3 DEF DaoRecords
  <1> HIDE DEF r
  <1>5. Becomes(d, r) /\ Numbered(r)
    BY <1>1, <1>4, RecordSet DEF IInv, Numbered
  <1> QED BY <1>4, <1>5

\* A launch keeps it.
LEMMA LaunchInv ==
    ASSUME IInv, NEW d \in Daos, NEW config \in Configs \cup {None},
           Pending(d), LaunchPending(d, config)
    PROVE  IInv'
  <1>1. PICK r \in DaoRecords :
           /\ Becomes(d, r) /\ Numbered(r)
           /\ r.stage = "live" /\ r.slug = dao[d].slug
           /\ r.drive = NoDrive /\ r.count = dao[d].count
    BY LaunchRecord
  <1>2. /\ UNCHANGED <<now, platformVars, plans, builder>> /\ DaoOK(d)
        /\ dao[d].slug \in Slugs
    <2>1. DaoOK(d) /\ dao[d] \in DaoRecords
      BY RecordTyped DEF IInv
    <2>2. dao[d].slug \in Slugs \cup {None} /\ dao[d].slug # None
      BY <2>1 DEF DaoOK, DaoRecords
    <2> QED BY <2>1, <2>2 DEF LaunchPending
  <1>3. /\ slugToDao' \in [Slugs -> Daos \cup {None}]
        /\ daoSlug' \in [Daos -> Slugs \cup {None}]
        /\ MapsAgree' /\ daoSlug'[d] = dao[d].slug
        /\ \A o \in Daos : o # d => daoSlug'[o] = daoSlug[o]
    <2>1. CASE daoSlug[d] = dao[d].slug
      <3>1. slugToDao' = slugToDao /\ daoSlug' = daoSlug
        BY <2>1 DEF LaunchPending, slugVars
      <3> QED BY <2>1, <3>1 DEF IInv, TypeOK, MapsAgree
    <2>2. CASE daoSlug[d] # dao[d].slug
      <3>1. ClaimSlug(d, dao[d].slug) /\ Unclaimed(dao[d].slug)
        BY <2>2 DEF LaunchPending
      <3>2. daoSlug[d] = None
        BY <1>2, <2>2 DEF DaoOK, Pending, Live, InDrive
      <3> QED BY <1>2, <3>1, <3>2, SlugClaimed
    <2> QED BY <2>1, <2>2
  <1>4. DaoOK(d)'
    <2>1. dao'[d] = r
      BY <1>1 DEF Becomes
    <2> QED BY <1>1, <1>2, <1>3, <2>1, ManagerAssumption
            DEF DaoOK, Pending, Live, InDrive, DriveFailed
  <1>5. ModulesAsPlanned'
    BY <1>2 DEF IInv, ModulesAsPlanned
  <1> QED BY <1>1, <1>2, <1>3, <1>4, <1>5, StepInv DEF IInv, TypeOK

\* The slug of a failed drive is released on both maps.
LEMMA ReleaseSlugInv ==
    ASSUME IInv, NEW d \in Daos, ReleaseSlug(d)
    PROVE  IInv'
  <1>1. /\ slugToDao \in [Slugs -> Daos \cup {None}] /\ daoSlug \in [Daos -> Slugs \cup {None}]
        /\ None \notin Daos /\ None \notin Slugs /\ MapsAgree /\ DaoOK(d)
        /\ dao \in [Daos -> DaoRecords] /\ dao[d] \in DaoRecords
    BY ManagerAssumption DEF IInv, TypeOK
  <1> DEFINE s == dao[d].slug
  <1>2. /\ InDrive(d) /\ DriveFailed(d) /\ slugToDao[s] = d
        /\ slugToDao' = [slugToDao EXCEPT ![s] = None]
        /\ daoSlug' = [daoSlug EXCEPT ![d] = None]
        /\ UNCHANGED <<now, platformVars, dao, plans, builder>>
    BY DEF ReleaseSlug
  <1>3. s \in Slugs
    BY <1>1, <1>2 DEF DaoOK, InDrive, DaoRecords
  <1> HIDE DEF s
  <1>4. /\ slugToDao' \in [Slugs -> Daos \cup {None}]
        /\ daoSlug' \in [Daos -> Slugs \cup {None}] /\ daoSlug'[d] = None
        /\ \A o \in Daos : o # d => daoSlug'[o] = daoSlug[o]
    BY <1>1, <1>2
  <1>5. MapsAgree'
    <2>1. SUFFICES ASSUME NEW o \in Daos, NEW x \in Slugs
                   PROVE  slugToDao'[x] = o <=> daoSlug'[o] = x
      BY DEF MapsAgree
    <2>2. /\ slugToDao[x] = o <=> daoSlug[o] = x
          /\ daoSlug[d] = s
      BY <1>1, <1>2, <1>3 DEF MapsAgree
    <2>3. slugToDao'[x] = IF x = s THEN None ELSE slugToDao[x]
      BY <1>1, <1>2
    <2>4. daoSlug'[o] = IF o = d THEN None ELSE daoSlug[o]
      BY <1>1, <1>2
    <2> QED BY <1>1, <1>2, <2>2, <2>3, <2>4
  <1>6. DaoOK(d)'
    BY <1>1, <1>2, <1>4 DEF DaoOK, Pending, Live, InDrive, DriveFailed
  <1>7. ModulesAsPlanned'
    BY <1>2 DEF IInv, ModulesAsPlanned
  <1>8. Becomes(d, dao[d]) /\ Numbered(dao[d])
    BY <1>1, <1>2, RecordTyped DEF IInv, Becomes, Numbered
  <1> QED BY <1>1, <1>2, <1>4, <1>5, <1>6, <1>7, <1>8, StepInv DEF IInv, TypeOK

\* A live DAO's change of slug frees the old one.
LEMMA ChangeSlugInv ==
    ASSUME IInv, NEW d \in Daos, NEW s \in Slugs, ChangeSlug(d, s)
    PROVE  IInv'
  <1>1. /\ slugToDao \in [Slugs -> Daos \cup {None}] /\ daoSlug \in [Daos -> Slugs \cup {None}]
        /\ None \notin Daos /\ None \notin Slugs /\ MapsAgree /\ DaoOK(d)
        /\ dao \in [Daos -> DaoRecords] /\ dao[d] \in DaoRecords
    BY ManagerAssumption DEF IInv, TypeOK
  <1> DEFINE old == daoSlug[d]
  <1>2. /\ AdminActs(d) /\ old # None /\ slugToDao[s] = None /\ s # old
        /\ slugToDao' = [slugToDao EXCEPT ![old] = None, ![s] = d]
        /\ daoSlug' = [daoSlug EXCEPT ![d] = s]
        /\ UNCHANGED <<now, platformVars, dao, plans, builder>>
    BY DEF ChangeSlug, Unclaimed
  <1>3. Live(d) /\ old \in Slugs
    BY <1>1, <1>2 DEF DaoOK, AdminActs, InDrive
  <1> HIDE DEF old
  <1>4. /\ slugToDao' \in [Slugs -> Daos \cup {None}]
        /\ daoSlug' \in [Daos -> Slugs \cup {None}] /\ daoSlug'[d] = s
        /\ \A o \in Daos : o # d => daoSlug'[o] = daoSlug[o]
    BY <1>1, <1>2, <1>3
  <1>5. MapsAgree'
    <2>1. SUFFICES ASSUME NEW o \in Daos, NEW x \in Slugs
                   PROVE  slugToDao'[x] = o <=> daoSlug'[o] = x
      BY DEF MapsAgree
    <2>2. /\ slugToDao[x] = o <=> daoSlug[o] = x
          /\ slugToDao[old] = d /\ (slugToDao[s] = o <=> daoSlug[o] = s)
      BY <1>1, <1>3 DEF MapsAgree, old
    <2>3. slugToDao'[x] = IF x = s THEN d ELSE IF x = old THEN None ELSE slugToDao[x]
      BY <1>1, <1>2
    <2>4. daoSlug'[o] = IF o = d THEN s ELSE daoSlug[o]
      BY <1>1, <1>2
    <2> QED BY <1>1, <1>2, <2>2, <2>3, <2>4 DEF old
  <1>6. DaoOK(d)'
    BY <1>1, <1>2, <1>3, <1>4 DEF DaoOK, Pending, Live, InDrive, DriveFailed
  <1>7. ModulesAsPlanned'
    BY <1>2 DEF IInv, ModulesAsPlanned
  <1>8. Becomes(d, dao[d]) /\ Numbered(dao[d])
    BY <1>1, <1>2, RecordTyped DEF IInv, Becomes, Numbered
  <1> QED BY <1>1, <1>2, <1>4, <1>5, <1>6, <1>7, <1>8, StepInv DEF IInv, TypeOK

\* Pauses, releases and time, which can make a drive fail.
LEMMA PlatformStepInv ==
    ASSUME IInv, Platform \/ Tick \/ UNCHANGED vars
    PROVE  IInv'
  <1>1. /\ UNCHANGED <<dao, slugVars, plans, builder>>
        /\ now \in Nat /\ (now' = now \/ now' = now + 1)
        /\ paused' \in BOOLEAN /\ current' \in Hashes /\ revoked' \subseteq Hashes
    BY DEF IInv, TypeOK, Platform, SetFactoryPaused, Revoke, SetCurrent, Tick, vars,
           platformVars, slugVars
  <1>2. TypeOK'
    <2>1. now' \in Nat
      BY <1>1
    <2> QED BY <1>1, <2>1 DEF IInv, TypeOK, slugVars
  <1>3. ASSUME NEW d \in Daos
        PROVE  DaoOK(d)'
    <2>1. InDrive(d) => dao[d].drive.deadline \in Nat
      BY RecordTyped DEF IInv, DaoRecords
    <2>2. ~DriveFailed(d)' /\ InDrive(d) => ~DriveFailed(d)
      BY <1>1, <2>1 DEF DriveFailed, Live
    <2> QED BY <1>1, <2>2 DEF IInv, DaoOK, Pending, Live, InDrive, slugVars
  <1>4. MapsAgree' /\ ModulesAsPlanned'
    BY <1>1 DEF IInv, MapsAgree, ModulesAsPlanned, slugVars
  <1> QED BY <1>2, <1>3, <1>4 DEF IInv

-----------------------------------------------------------------------------
(* The invariant.                                                          *)

\* There are no DAOs at first.
LEMMA InitInv == Init => IInv
  <1> SUFFICES ASSUME Init PROVE IInv
    OBVIOUS
  <1>1. None \notin Daos /\ None \notin Slugs /\ FirstHash \in Hashes
    BY ManagerAssumption
  <1>2. TypeOK
    <2>1. dao \in [Daos -> DaoRecords]
      <3>1. NoDrive \in [deadline : Nat, config : Configs \cup {None}]
        BY DEF NoDrive
      <3> QED BY <1>1, <3>1 DEF Init, DaoRecords
    <2>2. \A d \in Daos, k \in Kinds : dao[d].modules[k] <= dao[d].count[k] + 1
      BY DEF Init
    <2>3. plans \in Seq(Plans)
      BY DEF Init
    <2>4. builder \in [Daos -> [Kinds -> Seq(Nat)]]
      BY DEF Init
    <2> QED BY <1>1, <2>1, <2>2, <2>3, <2>4 DEF Init, TypeOK
  <1>3. MapsAgree
    BY <1>1 DEF Init, MapsAgree
  <1>4. ModulesAsPlanned
    BY DEF Init, ModulesAsPlanned
  <1>5. \A d \in Daos : DaoOK(d)
    BY DEF Init, DaoOK, Pending, Live, InDrive
  <1> QED BY <1>2, <1>3, <1>4, <1>5 DEF IInv

\* Every step keeps the invariant.
LEMMA NextInv == ASSUME IInv, [Next]_vars PROVE IInv'
  <1>1. MaxModules \in Nat /\ MaxTime \in Nat /\ Kinds \subseteq Parts /\ "claims" \in Parts
    BY ManagerAssumption DEF Parts
  <1>2. ASSUME NEW d \in Daos, Setup(d)
        PROVE  IInv'
    <2>1. CASE \E s \in Slugs, kinds \in SUBSET Kinds : CreateDao(d, s, kinds)
      BY <2>1, CreateInv
    <2>2. CASE \E s \in Slugs : UpdatePendingSlug(d, s)
      BY <2>2, PendingSlugInv
    <2>3. CASE \E k \in Kinds, n \in 0 .. MaxModules : CreateModule(d, k, n)
      BY <1>1, <2>3, CreateModuleInv
    <2>4. CASE (\E k \in Kinds : TuneAsset(d, k)) \/ MintFounder(d)
      BY <2>4, SetupInv, ManagerAssumption
    <2>5. CASE \E t \in 1 .. MaxTime - 1, c \in Configs : OpenAssurance(d, t, c)
      BY <1>1, <2>5, OpenAssuranceInv
    <2> QED BY <1>2, <2>1, <2>2, <2>3, <2>4, <2>5 DEF Setup
  <1>3. ASSUME NEW d \in Daos, AnyTime(d)
        PROVE  IInv'
    <2>1. CASE \E p \in Parts, to \in Hashes : UpgradePart(d, p, to)
      BY <2>1, NewCodeInv DEF UpgradePart
    <2>2. CASE \E to \in Hashes : RecoverClaims(d, to)
      BY <1>1, <2>2, NewCodeInv DEF RecoverClaims
    <2>3. CASE ReachThreshold(d)
      BY <2>3, ReachThresholdInv
    <2>4. ASSUME NEW c \in Configs, LaunchDao(d, c)
          PROVE  IInv'
      <3>1. Pending(d) /\ ConfigOf(d, c) \in Configs \cup {None}
        BY <2>4, RecordTyped DEF LaunchDao, ConfigOf, IInv, DaoRecords
      <3> QED BY <2>4, <3>1, LaunchInv DEF LaunchDao
    <2>5. CASE LaunchWhenReady(d)
      <3>1. Pending(d) /\ dao[d].drive.config \in Configs \cup {None}
        BY <2>5, RecordTyped DEF LaunchWhenReady, InDrive, IInv, DaoRecords
      <3> QED BY <2>5, <3>1, LaunchInv DEF LaunchWhenReady
    <2>6. CASE ReleaseSlug(d)
      BY <2>6, ReleaseSlugInv
    <2>7. CASE \E s \in Slugs : ChangeSlug(d, s)
      BY <2>7, ChangeSlugInv
    <2>8. CASE \E k \in Kinds : Draft(d, k) \/ Unregister(d, k)
      BY <2>8, DraftInv, UnregisterInv
    <2> QED BY <1>3, <2>1, <2>2, <2>3, <2>4, <2>5, <2>6, <2>7, <2>8 DEF AnyTime
  <1>4. CASE \E p \in DOMAIN plans : Execute(p)
    BY <1>4, ExecuteInv
  <1>5. CASE Platform \/ Tick \/ UNCHANGED vars
    BY <1>5, PlatformStepInv
  <1> QED BY <1>2, <1>3, <1>4, <1>5 DEF Next

\* The inductive invariant: what the stage of a DAO says of its slug, its admin
\* and its modules.
THEOREM ManagerInvariant == Spec => []IInv
  <1>1. Init => IInv
    BY InitInv
  <1>2. IInv /\ [Next]_vars => IInv'
    BY NextInv
  <1> QED BY <1>1, <1>2, PTL DEF Spec

\* Slugs and the DAOs that hold them are inverse, whoever reserves, releases,
\* launches and moves; a drive that may launch holds its slug; and a proposal
\* deploys the module it registers.
THEOREM ManagerKeepsItsBooks == Spec => []ManagerInv
  <1>1. IInv => ManagerInv
    <2> SUFFICES ASSUME IInv PROVE ManagerInv
      OBVIOUS
    <2>1. SlugsInverse
      BY DEF IInv, MapsAgree, DaoOK, SlugsInverse
    <2>2. SlugReserved
      <3> SUFFICES ASSUME NEW d \in Daos, InDrive(d), ~DriveFailed(d)
                   PROVE  slugToDao[dao[d].slug] = d
        BY DEF SlugReserved
      <3>1. daoSlug[d] = dao[d].slug /\ dao[d].slug # None
        BY DEF IInv, DaoOK, InDrive
      <3>2. dao[d].slug \in Slugs
        BY <3>1, RecordTyped DEF IInv, DaoRecords
      <3> QED BY <3>1, <3>2 DEF IInv, MapsAgree
    <2> QED BY <2>1, <2>2 DEF IInv, ManagerInv
  <1> QED BY <1>1, ManagerInvariant, PTL

-----------------------------------------------------------------------------
(* The promise of a drive.                                                 *)

LaunchesNow(d) == (\E c \in Configs : LaunchDao(d, c)) \/ LaunchWhenReady(d)

\* No call for one DAO changes another.
LEMMA OthersUntouched ==
    ASSUME IInv, NEW o \in Daos, NEW d \in Daos, d # o, Setup(o) \/ AnyTime(o)
    PROVE  dao'[d] = dao[d]
  <1>1. dao \in [Daos -> DaoRecords]
    BY DEF IInv, TypeOK
  <1>2. CASE Setup(o)
    <2>1. ASSUME NEW k \in Kinds, NEW n \in 0 .. MaxModules, CreateModule(o, k, n)
          PROVE  dao'[d] = dao[d]
      BY <1>1, <2>1 DEF CreateModule, Deploy
    <2> QED BY <1>1, <1>2, <2>1 DEF Setup, CreateDao, UpdatePendingSlug, TuneAsset,
                                    MintFounder, OpenAssurance
  <1>3. CASE AnyTime(o)
    BY <1>1, <1>3 DEF AnyTime, UpgradePart, ReachThreshold, LaunchDao, LaunchWhenReady,
       LaunchPending, ReleaseSlug, RecoverClaims, ChangeSlug, Draft, Unregister
  <1> QED BY <1>2, <1>3

\* During a drive nobody acts for the DAO: its launch admin no more, its members
\* not yet.
LEMMA NobodyActs ==
    ASSUME IInv, NEW d \in Daos, InDrive(d)
    PROVE  Pending(d) /\ ~Live(d) /\ ~AdminActs(d) /\ dao[d].admin = "treasury"
  BY DEF IInv, DaoOK, InDrive, AdminActs, Pending, Live

\* What is left is to reach the threshold, to launch and, once the drive failed,
\* to recover the claims.
LEMMA DriveStands ==
    ASSUME IInv, NEW d \in Daos, InDrive(d), [Next]_vars, ~LaunchesNow(d)
    PROVE  \/ dao'[d] = dao[d]
           \/ dao'[d] = [dao[d] EXCEPT !.met = TRUE, !.supply = TRUE]
           \/ DriveFailed(d) /\ dao'[d].stage = dao[d].stage
  <1>1. /\ dao \in [Daos -> DaoRecords] /\ dao[d] \in DaoRecords
        /\ Pending(d) /\ ~Live(d) /\ ~AdminActs(d) /\ dao[d].admin = "treasury"
        /\ dao[d].stage = "pending"
    BY RecordTyped, NobodyActs DEF IInv, Pending
  <1>2. CASE Setup(d)
    BY <1>1, <1>2 DEF Setup, CreateDao, UpdatePendingSlug, CreateModule, Deploy, TuneAsset,
                      MintFounder, OpenAssurance
  <1>3. CASE AnyTime(d)
    <2>1. CASE ReachThreshold(d)
      BY <1>1, <2>1 DEF ReachThreshold
    <2>2. ASSUME NEW to \in Hashes, RecoverClaims(d, to)
          PROVE  DriveFailed(d) /\ dao'[d].stage = dao[d].stage
      BY <1>1, <2>2 DEF RecoverClaims, DaoRecords
    <2>3. CASE ReleaseSlug(d) \/ (\E s \in Slugs : ChangeSlug(d, s))
      BY <2>3 DEF ReleaseSlug, ChangeSlug
    <2> QED BY <1>1, <1>3, <2>1, <2>2, <2>3
            DEF AnyTime, LaunchesNow, UpgradePart, Draft, Unregister
  <1>4. ASSUME NEW o \in Daos, Setup(o) \/ AnyTime(o), o # d
        PROVE  dao'[d] = dao[d]
    BY <1>4, OthersUntouched
  <1>5. ASSUME NEW p \in DOMAIN plans, Execute(p)
        PROVE  dao'[d] = dao[d]
    <2>1. /\ AdminActs(plans[p].dao)
          /\ dao' = [dao EXCEPT ![plans[p].dao].count = NextCount(plans[p].dao, plans[p].kind),
                                ![plans[p].dao].modules[plans[p].kind] = plans[p].n + 2,
                                ![plans[p].dao].code[plans[p].kind] = current,
                                ![plans[p].dao].tuned = @ \ {plans[p].kind}]
      BY <1>5 DEF Execute, Deploy
    <2>2. plans[p].dao # d
      BY <1>1, <2>1
    <2> QED BY <1>1, <2>1, <2>2
  <1>6. CASE Platform \/ Tick \/ UNCHANGED vars
    BY <1>6 DEF Platform, SetFactoryPaused, Revoke, SetCurrent, Tick, vars
  <1> QED BY <1>2, <1>3, <1>4, <1>5, <1>6 DEF Next

\* A launch of a drive opens the config it announced, in the code and modules it had.
LEMMA LaunchOpens ==
    ASSUME IInv, NEW d \in Daos, InDrive(d), LaunchesNow(d)
    PROVE  /\ dao'[d].stage = "live" /\ dao'[d].opened = dao[d].drive.config
           /\ dao'[d].code = dao[d].code /\ dao'[d].modules = dao[d].modules
  <1>1. Pending(d) /\ LaunchPending(d, dao[d].drive.config)
    BY DEF LaunchesNow, LaunchDao, LaunchWhenReady, ConfigOf, InDrive
  <1>2. dao[d].drive.config \in Configs \cup {None}
    BY RecordTyped DEF IInv, DaoRecords
  <1>3. PICK r \in DaoRecords :
           /\ Becomes(d, r)
           /\ r.stage = "live" /\ r.opened = dao[d].drive.config
           /\ r.modules = dao[d].modules /\ r.code = dao[d].code
    BY <1>1, <1>2, LaunchRecord
  <1> QED BY <1>3 DEF Becomes

\* An undecided drive's record changes in its supply only, or the DAO launches.
LEMMA StandsUntilDecided ==
    ASSUME IInv, [Next]_vars, NEW d \in Daos, InDrive(d), ~DriveFailed(d)
    PROVE  \/ dao'[d] = [dao[d] EXCEPT !.met = dao'[d].met, !.supply = dao'[d].supply]
           \/ dao'[d].stage = "live"
  <1>1. dao[d] \in DaoRecords
    BY RecordTyped DEF IInv
  <1>2. CASE LaunchesNow(d)
    BY <1>2, LaunchOpens
  <1>3. CASE dao'[d] = dao[d]
    BY <1>1, <1>3 DEF DaoRecords
  <1>4. CASE dao'[d] = [dao[d] EXCEPT !.met = TRUE, !.supply = TRUE]
    <2>1. dao'[d].met = TRUE /\ dao'[d].supply = TRUE
      BY <1>1, <1>4 DEF DaoRecords
    <2> QED BY <1>4, <2>1
  <1> QED BY <1>2, <1>3, <1>4, DriveStands

\* So a drive that is live after a step is as announced.
LEMMA OpensAsAnnounced ==
    ASSUME IInv, [Next]_vars, NEW d \in Daos, InDrive(d), Live(d)'
    PROVE  /\ dao'[d].opened = dao[d].drive.config
           /\ dao'[d].code = dao[d].code /\ dao'[d].modules = dao[d].modules
  <1>1. dao[d] \in DaoRecords /\ dao[d].stage = "pending" /\ dao'[d].stage = "live"
    BY RecordTyped DEF IInv, InDrive, Pending, Live
  <1>2. [dao[d] EXCEPT !.met = TRUE, !.supply = TRUE].stage = "pending"
    BY <1>1 DEF DaoRecords
  <1>3. LaunchesNow(d)
    BY <1>1, <1>2, DriveStands
  <1> QED BY <1>3, LaunchOpens

\* While a drive is undecided its DAO stays as it was announced, in code,
\* modules, slug and terms, whoever signs what; and when it launches, it opens
\* with the config its members saw.
THEOREM DrivesKeepTheirPromise == Spec => PromiseKept
  <1>1. IInv /\ [Next]_vars =>
          [\A d \in Daos :
              InDrive(d) /\ ~DriveFailed(d) =>
                  LET was == dao[d]
                      is == dao'[d]
                  IN  \/ is = [was EXCEPT !.met = is.met, !.supply = is.supply]
                      \/ is.stage = "live"]_vars
    BY StandsUntilDecided
  <1>2. IInv /\ [Next]_vars =>
          [\A d \in Daos :
              InDrive(d) /\ Live(d)' =>
                  /\ dao'[d].opened = dao[d].drive.config
                  /\ dao'[d].code = dao[d].code /\ dao'[d].modules = dao[d].modules]_vars
    BY OpensAsAnnounced
  <1> QED BY <1>1, <1>2, ManagerInvariant, PTL
          DEF Spec, PromiseKept, FrozenUntilDecided, LaunchAsAnnounced

-----------------------------------------------------------------------------
-----------------------------------------------------------------------------
(* The registry of releases.                                                *)
\* Nobody is promised more than the notice in force.
PromiseWithinNotice == quietUntil <= ledger + Delay

\* A shorter notice waits for all that was promised under the one before it.
ReductionWaits ==
    pendingDelay # NoDelay /\ ledger < pendingDelay.effective =>
        quietUntil <= pendingDelay.effective

\* So does a Manager that was announced.
AnnouncedWaits ==
    latest["Manager"].hash \notin {Unset, code["Manager"]} =>
        \/ quietUntil <= latest["Manager"].set + Delay
        \/ quietUntil <= ledger

\* The inductive invariant.
NoticeIInv == RegistryTypeOK /\ PromiseWithinNotice /\ ReductionWaits /\ AnnouncedWaits /\ KindsKept

-----------------------------------------------------------------------------
(* The notice in force, and what a step adds to the promise.               *)

\* The notice in force: a pending one counts from its ledger on.
LEMMA NoticeInForce ==
    ASSUME RegistryTypeOK
    PROVE  /\ Delay \in Nat
           /\ pendingDelay # NoDelay => pendingDelay.ledgers \in Nat /\ pendingDelay.effective \in Nat
           /\ Delay = IF pendingDelay # NoDelay /\ ledger >= pendingDelay.effective
                      THEN pendingDelay.ledgers ELSE upgradeDelay
  <1>1. pendingDelay # NoDelay => pendingDelay.ledgers \in Nat /\ pendingDelay.effective \in Nat
    BY DEF RegistryTypeOK
  <1> QED BY <1>1 DEF RegistryTypeOK, Delay, DelayIn

\* The promise is the one before or, to who looks now, the notice now.
Promised ==
    \/ quietUntil' = quietUntil
    \/ Quiet' /\ quietUntil' = ledger' + Delay' /\ quietUntil' > quietUntil

\* What is promised now is remembered.
LEMMA RememberPromises == ASSUME Remember PROVE Promised
  BY DEF Remember, Promised

\* The types of everything but the history.
Typed ==
    /\ ledger \in Nat
    /\ implementations \in [Wasms -> {Unset, "active", "revoked"}]
    /\ latest \in [Names -> Pointers]
    /\ approvals \in [Wasms \X Wasms -> Nat \cup {-1}]
    /\ upgradeDelay \in Nat
    /\ pendingDelay \in [ledgers : Nat, effective : Nat] \cup {NoDelay}
    /\ code \in [Contracts \cup {"Manager"} -> Wasms]

\* The history keeps its types.
LEMMA PromiseTyped ==
    ASSUME RegistryTypeOK, Typed', Promised
    PROVE  RegistryTypeOK'
  <1>1. quietUntil \in Nat /\ ledger' \in Nat
    BY DEF RegistryTypeOK, Typed
  <1>2. Delay' \in Nat
    <2>1. pendingDelay' # NoDelay => pendingDelay'.ledgers \in Nat
      BY DEF Typed
    <2> QED BY <2>1 DEF Typed, Delay, DelayIn
  <1>3. quietUntil' \in Nat
    BY <1>1, <1>2 DEF Promised
  <1> QED BY <1>3 DEF RegistryTypeOK, Typed

\* A step that changes neither the notice nor what is announced.
LEMMA SameNotice ==
    ASSUME NoticeIInv, Typed', Promised, KindsKept',
           UNCHANGED <<ledger, latest, upgradeDelay, pendingDelay>>,
           code'["Manager"] = code["Manager"] \/ latest["Manager"].hash = code'["Manager"]
    PROVE  NoticeIInv'
  <1>1. RegistryTypeOK /\ PromiseWithinNotice /\ ReductionWaits /\ AnnouncedWaits
    BY DEF NoticeIInv
  <1>2. RegistryTypeOK' /\ Delay' = Delay
    BY <1>1, PromiseTyped DEF Delay
  <1>3. PromiseWithinNotice'
    BY <1>1, <1>2, NoticeInForce DEF PromiseWithinNotice, Promised, RegistryTypeOK
  <1>4. ReductionWaits'
    <2>1. SUFFICES ASSUME pendingDelay # NoDelay, ledger < pendingDelay.effective
                   PROVE  quietUntil' <= pendingDelay.effective
      BY DEF ReductionWaits
    <2>2. ~Quiet'
      BY <1>1, <2>1, NoticeInForce DEF Quiet, RegistryTypeOK
    <2> QED BY <1>1, <2>1, <2>2 DEF Promised, ReductionWaits
  <1>5. AnnouncedWaits'
    <2>1. SUFFICES ASSUME latest["Manager"].hash \notin {Unset, code'["Manager"]}
                   PROVE  \/ quietUntil' <= latest["Manager"].set + Delay
                          \/ quietUntil' <= ledger
      BY <1>2 DEF AnnouncedWaits
    <2>2. ~Quiet'
      BY <2>1 DEF Quiet
    <2> QED BY <1>1, <2>1, <2>2 DEF Promised, AnnouncedWaits
  <1> QED BY <1>2, <1>3, <1>4, <1>5 DEF NoticeIInv

-----------------------------------------------------------------------------
(* The steps.                                                              *)

\* Registering or withdrawing a release keeps the promises.
LEMMA RegistrationInv ==
    ASSUME NoticeIInv, Promised, NEW h \in Wasms, RegisterImplementation(h) \/ RevokeImplementation(h)
    PROVE  NoticeIInv'
  <1>1. /\ UNCHANGED <<ledger, latest, approvals, upgradeDelay, pendingDelay, code>>
        /\ implementations' \in [Wasms -> {Unset, "active", "revoked"}]
    BY DEF NoticeIInv, RegistryTypeOK, RegisterImplementation, RevokeImplementation
  <1>2. Typed'
    BY <1>1 DEF NoticeIInv, RegistryTypeOK, Typed
  <1>3. KindsKept'
    BY <1>1 DEF NoticeIInv, KindsKept
  <1> QED BY <1>1, <1>2, <1>3, SameNotice

\* An approval is effective after the notice in force.
LEMMA ApproveInv ==
    ASSUME NoticeIInv, Promised, NEW from \in Wasms, NEW to \in Wasms, ApproveUpgrade(from, to)
    PROVE  NoticeIInv'
  <1>1. /\ UNCHANGED <<ledger, latest, implementations, upgradeDelay, pendingDelay, code>>
        /\ approvals' \in [Wasms \X Wasms -> Nat \cup {-1}]
    BY DEF NoticeIInv, RegistryTypeOK, ApproveUpgrade
  <1>2. Typed'
    BY <1>1 DEF NoticeIInv, RegistryTypeOK, Typed
  <1>3. KindsKept'
    BY <1>1 DEF NoticeIInv, KindsKept
  <1> QED BY <1>1, <1>2, <1>3, SameNotice

\* Applying an approved upgrade keeps the promises.
LEMMA ApplyInv ==
    ASSUME NoticeIInv, Promised,
           NEW c \in Contracts, NEW from \in Wasms, NEW to \in Wasms, Apply(c, from, to)
    PROVE  NoticeIInv'
  <1>1. /\ UNCHANGED <<ledger, latest, implementations, approvals, upgradeDelay, pendingDelay>>
        /\ code' = [code EXCEPT ![c] = to] /\ code \in [Contracts \cup {"Manager"} -> Wasms]
        /\ from = code[c] /\ Released[from] = Released[to]
    BY DEF NoticeIInv, RegistryTypeOK, Apply, IsUpgradeApproved
  <1>2. Typed'
    BY <1>1 DEF NoticeIInv, RegistryTypeOK, Typed
  <1>3. c # "Manager"
    BY RegistryAssumption
  <1>4. KindsKept'
    BY <1>1, <1>3 DEF NoticeIInv, KindsKept
  <1> QED BY <1>1, <1>2, <1>3, <1>4, SameNotice

\* An announced Manager is applied when its notice is over.
LEMMA UpgradeManagerInv ==
    ASSUME NoticeIInv, Promised, NEW to \in Wasms, UpgradeManager(to)
    PROVE  NoticeIInv'
  <1>1. /\ UNCHANGED <<ledger, latest, implementations, approvals, upgradeDelay, pendingDelay>>
        /\ code' = [code EXCEPT !["Manager"] = to]
        /\ code \in [Contracts \cup {"Manager"} -> Wasms]
        /\ Released[to] = "Manager" /\ latest["Manager"].hash = to
    BY DEF NoticeIInv, RegistryTypeOK, UpgradeManager
  <1>2. Typed'
    BY <1>1 DEF NoticeIInv, RegistryTypeOK, Typed
  <1>3. code'["Manager"] = to /\ \A c \in Contracts : code'[c] = code[c]
    BY RegistryAssumption, <1>1
  <1>4. KindsKept'
    BY <1>1, <1>3 DEF NoticeIInv, KindsKept
  <1> QED BY <1>1, <1>2, <1>3, <1>4, SameNotice

\* A new latest: its notice starts where all the promises end.
LEMMA AnnounceInv ==
    ASSUME NoticeIInv, Promised, NEW h \in Wasms, SetLatestImplementation(h)
    PROVE  NoticeIInv'
  <1> DEFINE n == Released[h]
  <1>1. RegistryTypeOK /\ PromiseWithinNotice /\ ReductionWaits /\ AnnouncedWaits /\ KindsKept
    BY DEF NoticeIInv
  <1>2. /\ UNCHANGED <<ledger, implementations, approvals, upgradeDelay, pendingDelay, code>>
        /\ latest' = [latest EXCEPT ![n] = [hash |-> h, set |-> ledger]]
        /\ n \in Names /\ "Manager" \in Names
        /\ latest \in [Names -> Pointers] /\ ledger \in Nat
    BY RegistryAssumption, <1>1 DEF SetLatestImplementation, RegistryTypeOK
  <1>3. latest' \in [Names -> Pointers]
    BY <1>2 DEF Pointers
  <1>4. Typed' /\ KindsKept'
    BY <1>1, <1>2, <1>3 DEF RegistryTypeOK, Typed, KindsKept
  <1>5. RegistryTypeOK' /\ Delay' = Delay /\ Delay \in Nat
    BY <1>1, <1>2, <1>4, PromiseTyped, NoticeInForce DEF Delay
  <1>6. PromiseWithinNotice'
    BY <1>1, <1>2, <1>5 DEF PromiseWithinNotice, Promised
  <1>7. ReductionWaits'
    <2>1. SUFFICES ASSUME pendingDelay # NoDelay, ledger < pendingDelay.effective
                   PROVE  quietUntil' <= pendingDelay.effective
      BY <1>2 DEF ReductionWaits
    <2>2. ~Quiet'
      BY <1>1, <1>2, <2>1, NoticeInForce DEF Quiet
    <2> QED BY <1>1, <2>1, <2>2 DEF Promised, ReductionWaits
  <1>8. AnnouncedWaits'
    <2>1. SUFFICES ASSUME latest'["Manager"].hash \notin {Unset, code["Manager"]}
                   PROVE  \/ quietUntil' <= latest'["Manager"].set + Delay
                          \/ quietUntil' <= ledger
      BY <1>2, <1>5 DEF AnnouncedWaits
    <2>2. quietUntil' = quietUntil
      BY <1>2, <2>1 DEF Quiet, Promised
    <2>3. CASE n = "Manager"
      <3>1. latest'["Manager"].set = ledger
        BY <1>2, <2>3
      <3> QED BY <1>1, <2>2, <3>1 DEF PromiseWithinNotice
    <2>4. CASE n # "Manager"
      <3>1. latest'["Manager"] = latest["Manager"]
        BY <1>2, <2>4
      <3> QED BY <1>1, <2>1, <2>2, <3>1 DEF AnnouncedWaits
    <2> QED BY <2>3, <2>4
  <1> QED BY <1>4, <1>5, <1>6, <1>7, <1>8 DEF NoticeIInv

\* A longer notice is in force at once, a shorter one when all the promises end.
LEMMA SetDelayInv ==
    ASSUME NoticeIInv, Promised, NEW d \in Delays, SetUpgradeDelay(d)
    PROVE  NoticeIInv'
  <1>1. RegistryTypeOK /\ PromiseWithinNotice /\ ReductionWaits /\ AnnouncedWaits /\ KindsKept
    BY DEF NoticeIInv
  <1>2. /\ UNCHANGED <<ledger, implementations, latest, approvals, code>>
        /\ d \in Nat /\ Delay \in Nat /\ ledger \in Nat /\ quietUntil \in Nat
    BY RegistryAssumption, <1>1, NoticeInForce DEF SetUpgradeDelay, RegistryTypeOK
  <1>3. KindsKept'
    BY <1>1, <1>2 DEF KindsKept
  <1>4. "Manager" \in Names /\ latest["Manager"].set \in Nat
    BY RegistryAssumption, <1>1 DEF RegistryTypeOK, Pointers
  <1>5. CASE d >= Delay
    <2>1. upgradeDelay' = d /\ pendingDelay' = NoDelay
      BY <1>5 DEF SetUpgradeDelay
    <2>2. Delay' = d
      BY <2>1 DEF Delay, DelayIn
    <2>3. RegistryTypeOK'
      <3>1. Typed'
        BY <1>1, <1>2, <2>1 DEF RegistryTypeOK, Typed
      <3> QED BY <1>1, <3>1, PromiseTyped
    <2>4. PromiseWithinNotice'
      BY <1>1, <1>2, <1>5, <2>2 DEF PromiseWithinNotice, Promised
    <2>5. ReductionWaits'
      BY <2>1 DEF ReductionWaits
    <2>6. AnnouncedWaits'
      <3>1. SUFFICES ASSUME latest["Manager"].hash \notin {Unset, code["Manager"]}
                     PROVE  \/ quietUntil' <= latest["Manager"].set + d
                            \/ quietUntil' <= ledger
        BY <1>2, <2>2 DEF AnnouncedWaits
      <3>2. quietUntil' = quietUntil
        BY <1>2, <3>1 DEF Quiet, Promised
      <3> QED BY <1>1, <1>2, <1>4, <1>5, <3>1, <3>2 DEF AnnouncedWaits
    <2> QED BY <1>3, <2>3, <2>4, <2>5, <2>6 DEF NoticeIInv
  <1>6. CASE ~(d >= Delay)
    <2> DEFINE e == ledger + Delay
    <2>1. upgradeDelay' = Delay /\ pendingDelay' = [ledgers |-> d, effective |-> e]
      BY <1>6 DEF SetUpgradeDelay, Reduction
    <2>2. e \in Nat /\ ledger < e /\ pendingDelay' # NoDelay /\ pendingDelay'.effective = e
      <3>1. ledger < e /\ e \in Nat
        BY <1>2, <1>6
      <3>2. pendingDelay'.effective = e /\ NoDelay.effective = -1
        BY <2>1 DEF NoDelay
      <3> QED BY <3>1, <3>2
    <2>3. Delay' = Delay
      BY <1>2, <2>1, <2>2 DEF Delay, DelayIn
    <2>4. RegistryTypeOK'
      <3>1. pendingDelay' \in [ledgers : Nat, effective : Nat]
        BY <1>2, <2>1, <2>2
      <3>2. Typed'
        BY <1>1, <1>2, <2>1, <3>1 DEF RegistryTypeOK, Typed
      <3> QED BY <1>1, <3>2, PromiseTyped
    <2> HIDE DEF e
    <2>5. ~Quiet'
      BY <1>2, <2>2 DEF Quiet
    <2>6. quietUntil' = quietUntil
      BY <2>5 DEF Promised
    <2>7. PromiseWithinNotice' /\ ReductionWaits'
      BY <1>1, <1>2, <2>2, <2>3, <2>6 DEF PromiseWithinNotice, ReductionWaits, e
    <2>8. AnnouncedWaits'
      BY <1>1, <1>2, <2>3, <2>6 DEF AnnouncedWaits
    <2> QED BY <1>3, <2>4, <2>7, <2>8 DEF NoticeIInv
  <1> QED BY <1>5, <1>6

\* A ledger closes; a shorter notice may come into force with it.
LEMMA CloseLedgerInv ==
    ASSUME NoticeIInv, Promised, CloseLedger
    PROVE  NoticeIInv'
  <1>1. RegistryTypeOK /\ PromiseWithinNotice /\ ReductionWaits /\ AnnouncedWaits /\ KindsKept
    BY DEF NoticeIInv
  <1>2. /\ UNCHANGED <<implementations, latest, approvals, upgradeDelay, pendingDelay, code>>
        /\ ledger' = ledger + 1 /\ ledger \in Nat /\ quietUntil \in Nat
        /\ Delay \in Nat
    BY <1>1, NoticeInForce DEF CloseLedger, RegistryTypeOK
  <1>3. RegistryTypeOK' /\ KindsKept'
    <2>1. Typed'
      BY <1>1, <1>2 DEF RegistryTypeOK, Typed
    <2> QED BY <1>1, <1>2, <2>1, PromiseTyped DEF KindsKept
  <1>4. "Manager" \in Names /\ latest["Manager"].set \in Nat
    BY RegistryAssumption, <1>1 DEF RegistryTypeOK, Pointers
  <1>5. /\ Delay' \in Nat
        /\ Delay' = Delay \/ quietUntil <= ledger'
    <2>1. pendingDelay # NoDelay => pendingDelay.ledgers \in Nat /\ pendingDelay.effective \in Nat
      BY <1>1, NoticeInForce
    <2>2. Delay' = IF pendingDelay # NoDelay /\ ledger' >= pendingDelay.effective
                   THEN pendingDelay.ledgers ELSE upgradeDelay
      BY <1>2 DEF Delay, DelayIn
    <2>3. Delay = IF pendingDelay # NoDelay /\ ledger >= pendingDelay.effective
                  THEN pendingDelay.ledgers ELSE upgradeDelay
      BY DEF Delay, DelayIn
    <2>4. CASE pendingDelay # NoDelay /\ ledger < pendingDelay.effective
                 /\ ledger' >= pendingDelay.effective
      <3>1. quietUntil <= pendingDelay.effective
        BY <1>1, <2>4 DEF ReductionWaits
      <3>2. quietUntil <= ledger'
        BY <1>2, <2>1, <2>4, <3>1
      <3> QED BY <2>1, <2>2, <2>4, <3>2
    <2>5. CASE ~(pendingDelay # NoDelay /\ ledger < pendingDelay.effective
                   /\ ledger' >= pendingDelay.effective)
      <3>1. Delay' = Delay
        BY <1>2, <2>1, <2>2, <2>3, <2>5
      <3> QED BY <1>2, <3>1
    <2> QED BY <2>4, <2>5
  <1>6. PromiseWithinNotice'
    BY <1>1, <1>2, <1>5 DEF PromiseWithinNotice, Promised
  <1>7. ReductionWaits'
    <2>1. SUFFICES ASSUME pendingDelay # NoDelay, ledger' < pendingDelay.effective
                   PROVE  quietUntil' <= pendingDelay.effective
      BY <1>2 DEF ReductionWaits
    <2>2. pendingDelay.effective \in Nat
      BY <1>1, <2>1, NoticeInForce
    <2>3. ~Quiet' /\ ledger < pendingDelay.effective
      BY <1>2, <2>1, <2>2 DEF Quiet
    <2> QED BY <1>1, <2>1, <2>3 DEF Promised, ReductionWaits
  <1>8. AnnouncedWaits'
    <2>1. SUFFICES ASSUME latest["Manager"].hash \notin {Unset, code["Manager"]}
                   PROVE  \/ quietUntil' <= latest["Manager"].set + Delay'
                          \/ quietUntil' <= ledger'
      BY <1>2 DEF AnnouncedWaits
    <2>2. quietUntil' = quietUntil
      BY <1>2, <2>1 DEF Quiet, Promised
    <2>3. \/ quietUntil <= latest["Manager"].set + Delay
          \/ quietUntil <= ledger
      BY <1>1, <2>1 DEF AnnouncedWaits
    <2> QED BY <1>2, <1>4, <1>5, <2>2, <2>3
  <1> QED BY <1>3, <1>6, <1>7, <1>8 DEF NoticeIInv

-----------------------------------------------------------------------------
(* The invariant, and what follows.                                        *)

\* Nothing is promised at first.
LEMMA NoticeInit == ASSUME RegistryInit PROVE NoticeIInv
  <1>1. RegistryTypeOK
    <2>1. implementations \in [Wasms -> {Unset, "active", "revoked"}]
      BY DEF RegistryInit
    <2>2. latest \in [Names -> Pointers]
      BY DEF RegistryInit, NoPointer, Pointers
    <2>3. approvals \in [Wasms \X Wasms -> Nat \cup {-1}]
      BY DEF RegistryInit
    <2> QED BY RegistryAssumption, <2>1, <2>2, <2>3 DEF RegistryInit, RegistryTypeOK
  <1>2. Delay = FirstDelay
    BY DEF RegistryInit, Delay, DelayIn
  <1>3. PromiseWithinNotice /\ ReductionWaits /\ AnnouncedWaits
    BY RegistryAssumption, <1>2 DEF RegistryInit, PromiseWithinNotice, ReductionWaits, AnnouncedWaits,
                NoPointer
  <1>4. KindsKept
    BY RegistryAssumption DEF RegistryInit, KindsKept
  <1> QED BY <1>1, <1>3, <1>4 DEF NoticeIInv

\* Every step keeps the promises.
LEMMA NoticeNext == ASSUME NoticeIInv, [RegistryNext]_registryVars PROVE NoticeIInv'
  <1>1. CASE RegistryNext
    <2>1. Promised
      BY <1>1, RememberPromises DEF RegistryNext
    <2> QED BY <1>1, <2>1, RegistrationInv, ApproveInv, ApplyInv, UpgradeManagerInv,
               AnnounceInv, SetDelayInv, CloseLedgerInv DEF RegistryNext, Act
  <1>2. CASE UNCHANGED registryVars
    <2>1. Delay' = Delay
      BY <1>2 DEF registryVars, Delay
    <2>2. RegistryTypeOK' /\ KindsKept'
      BY <1>2 DEF NoticeIInv, registryVars, RegistryTypeOK, KindsKept
    <2>3. PromiseWithinNotice' /\ ReductionWaits' /\ AnnouncedWaits'
      BY <1>2, <2>1 DEF NoticeIInv, registryVars, PromiseWithinNotice, ReductionWaits, AnnouncedWaits
    <2> QED BY <2>2, <2>3 DEF NoticeIInv
  <1> QED BY <1>1, <1>2

\* The inductive invariant of the registry, KindsKept in it: whatever is
\* approved, withdrawn and applied, no contract turns into one of another kind.
THEOREM RegistryInvariant == RegistrySpec => []NoticeIInv
  <1>1. RegistryInit => NoticeIInv
    BY NoticeInit
  <1>2. NoticeIInv /\ [RegistryNext]_registryVars => NoticeIInv'
    BY NoticeNext
  <1> QED BY <1>1, <1>2, PTL DEF RegistrySpec

\* The Manager's code changes only to what is announced, in its notice.
LEMMA ManagerChangesAnnounced ==
    ASSUME NoticeIInv, [RegistryNext]_registryVars, code'["Manager"] # code["Manager"]
    PROVE  ledger >= quietUntil
  <1>1. PICK to \in Wasms : UpgradeManager(to)
    <2>1. ASSUME NEW c \in Contracts, NEW from \in Wasms, NEW to \in Wasms, Apply(c, from, to)
          PROVE  code'["Manager"] = code["Manager"]
      <3>1. c # "Manager" /\ code' = [code EXCEPT ![c] = to]
        BY RegistryAssumption, <2>1 DEF Apply
      <3> QED BY <3>1 DEF NoticeIInv, RegistryTypeOK
    <2> QED BY <2>1 DEF RegistryNext, Act, registryVars, SetUpgradeDelay, RegisterImplementation,
            SetLatestImplementation, RevokeImplementation, ApproveUpgrade, CloseLedger
  <1>2. /\ code' = [code EXCEPT !["Manager"] = to] /\ latest["Manager"].hash = to
        /\ NoticePassed(AnnouncedSince(code["Manager"], to))
    BY <1>1 DEF UpgradeManager
  <1>3. code \in [Contracts \cup {"Manager"} -> Wasms] /\ to # Unset /\ to # code["Manager"]
    BY RegistryAssumption, <1>2 DEF NoticeIInv, RegistryTypeOK
  <1>4. \/ quietUntil <= latest["Manager"].set + Delay
        \/ quietUntil <= ledger
    BY <1>2, <1>3 DEF NoticeIInv, AnnouncedWaits
  <1>5. /\ ledger \in Nat /\ quietUntil \in Nat /\ Delay \in Nat
        /\ latest["Manager"].set \in Nat /\ approvals[<<code["Manager"], to>>] \in Int
    BY RegistryAssumption, <1>3, NoticeInForce DEF NoticeIInv, RegistryTypeOK, Pointers
  <1>6. AnnouncedSince(code["Manager"], to) >= latest["Manager"].set
        /\ AnnouncedSince(code["Manager"], to) \in Int
    BY <1>5 DEF AnnouncedSince
  <1> QED BY <1>2, <1>4, <1>5, <1>6 DEF NoticePassed

\* No contract takes up a release that is withdrawn.
LEMMA WithdrawnSpreadsNot ==
    ASSUME NoticeIInv, [RegistryNext]_registryVars, NEW c \in DOMAIN code,
           implementations[code[c]] # "revoked", implementations'[code[c]] # "revoked"
    PROVE  implementations'[code'[c]] # "revoked"
  <1>1. code \in [Contracts \cup {"Manager"} -> Wasms]
    BY DEF NoticeIInv, RegistryTypeOK
  <1>2. CASE code' = code
    BY <1>2
  <1>3. ASSUME NEW d \in Contracts \cup {"Manager"}, NEW to \in Wasms, Active(to),
               implementations' = implementations, code' = [code EXCEPT ![d] = to]
        PROVE  implementations'[code'[c]] # "revoked"
    <2>1. code'[c] = to \/ code'[c] = code[c]
      BY <1>1, <1>3
    <2> QED BY <1>3, <2>1 DEF Active
  <1>4. CASE \E d \in Contracts, from, to \in Wasms : Apply(d, from, to)
    BY <1>3, <1>4 DEF Apply, IsUpgradeApproved
  <1>5. CASE \E to \in Wasms : UpgradeManager(to)
    BY <1>3, <1>5 DEF UpgradeManager
  <1> QED BY <1>2, <1>4, <1>5 DEF RegistryNext, Act, registryVars, SetUpgradeDelay, RegisterImplementation,
             SetLatestImplementation, RevokeImplementation, ApproveUpgrade, CloseLedger

\* Whoever saw the Manager run the announced latest, with no shorter notice on
\* its way, has the notice they saw, whatever else is signed in between; no
\* contract turns into one of another kind; and a release that was withdrawn
\* gains no contract, over no path.
THEOREM OrderlyUpgrades == RegistrySpec => UpgradesOrderly
  <1>1. NoticeIInv /\ [RegistryNext]_registryVars => [code'["Manager"] # code["Manager"] => ledger >= quietUntil]_registryVars
    BY ManagerChangesAnnounced
  <1>2. NoticeIInv /\ [RegistryNext]_registryVars =>
          [\A c \in DOMAIN code :
              implementations[code[c]] # "revoked" /\ implementations'[code[c]] # "revoked" =>
                  implementations'[code'[c]] # "revoked"]_registryVars
    BY WithdrawnSpreadsNot
  <1>3. RegistrySpec => []NoticeIInv
    BY RegistryInvariant
  <1>4. NoticeIInv => RegistryInv
    BY DEF NoticeIInv, RegistryInv
  <1> QED BY <1>1, <1>2, <1>3, <1>4, PTL DEF RegistrySpec, UpgradesOrderly, NoSurpriseUpgrade, RevokedSpreadsNot
=============================================================================
