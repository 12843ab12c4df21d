----------------------------- MODULE ClaimProofs -----------------------------
(***************************************************************************)
(* Proofs about the claim lists and the assurance drive for any claimers,  *)
(* assets, trees, terms and allowances.                                    *)
(***************************************************************************)
EXTENDS ClaimMinter, Sums, SequenceTheorems, FiniteSetTheorems, TLAPS

-----------------------------------------------------------------------------
(* The inductive invariant.                                                *)

\* There is one drive: the list with a threshold, in the Manager's record from
\* the time it is opened, with every admin handed over, until the launch.
OneDrive ==
    /\ \A l \in Ids : lists[l].threshold > 0 <=> l = assuranceList
    /\ assuranceList # 0 => lists[assuranceList].asset = PaymentAsset
    /\ IF live THEN drive = NoDrive /\ admin = "treasury"
       ELSE IF assuranceList = 0 THEN drive = NoDrive /\ admin = "launch_admin"
       ELSE /\ drive = [list |-> assuranceList, deadline |-> lists[assuranceList].deadline]
            /\ admin = "treasury"

\* Only the drive holds money, and only before the launch.
OnlyTheDriveEscrows ==
    /\ \A l \in Ids : live \/ l # assuranceList => lists[l].escrow = 0
    /\ ~live => \A l \in Ids : l # assuranceList =>
                   /\ lists[l].price = 0
                   /\ \A c \in Claimers : claims[l][c].escrowed = 0
    /\ \A a \in Assets :
          held[a] = IF ~live /\ assuranceList # 0 /\ a = PaymentAsset
                      THEN lists[assuranceList].escrow ELSE 0

\* What each claimer has in escrow, or has claimed, in a list.
EscrowedIn(l) == [c \in Claimers |-> claims[l][c].escrowed]
ClaimedIn(l) == [c \in Claimers |-> claims[l][c].claimed]

EscrowAddsUp ==
    ~live /\ assuranceList # 0 =>
        lists[assuranceList].escrow = SumFunctionOnSet(EscrowedIn(assuranceList), Claimers)

IInv ==
    /\ TypeOK /\ OneDrive
    /\ OnlyTheDriveEscrows /\ EscrowAddsUp /\ NobodyPaysBeforeLaunch
    /\ ClaimsWithinTree /\ DriveStocked

-----------------------------------------------------------------------------
(* What the steps do to the lists.                                         *)

\* Types of lists and records, as the steps use them.
LEMMA Listing ==
    ASSUME TypeOK
    PROVE  /\ Len(lists) \in Nat /\ Ids = 1 .. Len(lists)
           /\ \A l \in Ids : lists[l] \in Lists
           /\ claims \in [Ids -> [Claimers -> Records]]
           /\ \A l \in Ids, c \in Claimers : claims[l][c] \in Records
  BY DEF TypeOK, Ids

\* The list of the drive is one of the lists.
LEMMA TheDriveIsListed ==
    ASSUME TypeOK, assuranceList # 0
    PROVE  assuranceList \in Ids
  <1>1. assuranceList \in 0 .. Len(lists)
    BY DEF TypeOK
  <1> QED BY <1>1, Listing

\* A list is added, and the others stay as they were.
Added(leaves, asset, t) ==
    LET n == Len(lists) + 1
    IN  /\ lists' \in Seq(Lists) /\ Ids' = Ids \cup {n} /\ n \notin Ids /\ n \in Nat
        /\ Len(lists') = n
        /\ claims' \in [Ids' -> [Claimers -> Records]]
        /\ \A l \in Ids : lists'[l] = lists[l] /\ claims'[l] = claims[l]
        /\ lists'[n] = [leaves |-> leaves, asset |-> asset, price |-> t.price,
                        total |-> t.total, expires |-> t.expires,
                        threshold |-> t.threshold, deadline |-> t.deadline,
                        minted |-> 0, claimers |-> 0, escrow |-> 0]
        /\ claims'[n] = [c \in Claimers |-> NoClaim]

\* A new list is appended with nothing claimed; the others stay.
LEMMA AddListAdds ==
    ASSUME TypeOK, NEW leaves \in LeafSets, NEW asset \in Assets, NEW t \in Terms,
           AddList(leaves, asset, t)
    PROVE  Added(leaves, asset, t)
  <1> DEFINE n == Len(lists) + 1
             new == [leaves |-> leaves, asset |-> asset, price |-> t.price,
                     total |-> t.total, expires |-> t.expires,
                     threshold |-> t.threshold, deadline |-> t.deadline,
                     minted |-> 0, claimers |-> 0, escrow |-> 0]
             none == [c \in Claimers |-> NoClaim]
  <1>1. lists \in Seq(Lists) /\ lists' = Append(lists, new) /\ claims' = Append(claims, none)
    BY DEF TypeOK, AddList
  <1>2. new \in Lists
    BY DEF Lists, Terms
  <1>3. none \in [Claimers -> Records]
    BY DEF NoClaim, Records
  <1> HIDE DEF new, none
  <1>4. /\ lists' \in Seq(Lists) /\ Len(lists') = n /\ lists'[n] = new
        /\ \A l \in 1 .. Len(lists) : lists'[l] = lists[l]
    BY <1>1, <1>2
  <1>5. Ids = 1 .. Len(lists) /\ Len(lists) \in Nat /\ Ids' = 1 .. n
    BY <1>1, <1>4 DEF Ids
  <1>6. claims \in Seq([Claimers -> Records]) /\ Len(claims) = Len(lists)
    <2>1. claims \in [1 .. Len(lists) -> [Claimers -> Records]]
      BY <1>5 DEF TypeOK
    <2> QED BY <1>5, <2>1
  <1>7. /\ claims' \in Seq([Claimers -> Records]) /\ Len(claims') = n /\ claims'[n] = none
        /\ \A l \in 1 .. Len(lists) : claims'[l] = claims[l]
    BY <1>1, <1>3, <1>6
  <1>8. claims' \in [Ids' -> [Claimers -> Records]]
    BY <1>5, <1>7
  <1>9. Ids' = Ids \cup {n} /\ n \notin Ids
    BY <1>5
  <1> QED BY <1>4, <1>5, <1>7, <1>8, <1>9 DEF Added, new, none

SameTerms(l) ==
    /\ lists'[l].leaves = lists[l].leaves /\ lists'[l].asset = lists[l].asset
    /\ lists'[l].price = lists[l].price /\ lists'[l].total = lists[l].total
    /\ lists'[l].expires = lists[l].expires /\ lists'[l].threshold = lists[l].threshold
    /\ lists'[l].deadline = lists[l].deadline

\* One list changes, in what it has minted, in its claimers and in its escrow.
Changed(l, minted, claimers, escrow) ==
    /\ lists' \in Seq(Lists) /\ Len(lists') = Len(lists) /\ Ids' = Ids
    /\ \A m \in Ids : m # l => lists'[m] = lists[m]
    /\ \A m \in Ids : SameTerms(m)
    /\ lists'[l].minted = minted /\ lists'[l].claimers = claimers /\ lists'[l].escrow = escrow

\* Counters of one list change; its terms and the other lists stay.
LEMMA ListChanges ==
    ASSUME TypeOK, NEW l \in Ids, NEW minted \in Nat, NEW claimers \in Nat, NEW escrow \in Nat,
           lists' = [lists EXCEPT ![l].minted = minted, ![l].escrow = escrow,
                                  ![l].claimers = claimers]
    PROVE  Changed(l, minted, claimers, escrow)
  <1> DEFINE n == Len(lists)
             r == [lists[l] EXCEPT !.minted = minted, !.escrow = escrow, !.claimers = claimers]
  <1>1. n \in Nat /\ Ids = 1 .. n /\ lists \in [1 .. n -> Lists]
    BY DEF TypeOK, Ids
  <1>2. lists[l] \in Lists
    BY <1>1
  <1>3. /\ r \in Lists /\ r.minted = minted /\ r.claimers = claimers /\ r.escrow = escrow
        /\ r.leaves = lists[l].leaves /\ r.asset = lists[l].asset /\ r.price = lists[l].price
        /\ r.total = lists[l].total /\ r.expires = lists[l].expires
        /\ r.threshold = lists[l].threshold /\ r.deadline = lists[l].deadline
    BY <1>2 DEF Lists
  <1>4. lists' = [lists EXCEPT ![l] = r]
    BY <1>1, <1>2
  <1> HIDE DEF r
  <1>5. /\ lists' \in Seq(Lists) /\ Len(lists') = n /\ lists'[l] = r
        /\ \A m \in 1 .. n : m # l => lists'[m] = lists[m]
    <2>1. lists \in Seq(Lists) /\ l \in 1 .. Len(lists) /\ r \in Lists
      BY <1>1, <1>3 DEF TypeOK
    <2>2. /\ [lists EXCEPT ![l] = r] \in Seq(Lists)
          /\ Len([lists EXCEPT ![l] = r]) = Len(lists)
          /\ \A m \in 1 .. Len(lists) :
                [lists EXCEPT ![l] = r][m] = IF m = l THEN r ELSE lists[m]
      BY <2>1, ExceptSeq
    <2> QED BY <1>4, <2>1, <2>2
  <1>6. Ids' = Ids
    BY <1>1, <1>5 DEF Ids
  <1>7. \A m \in Ids : SameTerms(m)
    BY <1>1, <1>3, <1>5 DEF SameTerms
  <1> QED BY <1>1, <1>3, <1>5, <1>6, <1>7 DEF Changed

\* One record of a list changes, to this.
Recording(l, c, record) ==
    /\ claims' \in [Ids -> [Claimers -> Records]]
    /\ \A m \in Ids : m # l => claims'[m] = claims[m]
    /\ \A d \in Claimers : d # c => claims'[l][d] = claims[l][d]
    /\ claims'[l][c] = record

\* One claimer's record in one list changes.
LEMMA RecordChanges ==
    ASSUME TypeOK, NEW l \in Ids, NEW c \in Claimers, NEW record \in Records,
           claims' = [claims EXCEPT ![l][c] = record]
    PROVE  Recording(l, c, record)
  <1> DEFINE row == [claims[l] EXCEPT ![c] = record]
  <1>1. claims \in [Ids -> [Claimers -> Records]] /\ claims[l] \in [Claimers -> Records]
    BY DEF TypeOK
  <1>2. /\ row \in [Claimers -> Records] /\ row[c] = record
        /\ \A d \in Claimers : d # c => row[d] = claims[l][d]
    BY <1>1
  <1>3. claims' = [claims EXCEPT ![l] = row]
    BY <1>1
  <1> HIDE DEF row
  <1>4. /\ claims' \in [Ids -> [Claimers -> Records]] /\ claims'[l] = row
        /\ \A m \in Ids : m # l => claims'[m] = claims[m]
    BY <1>1, <1>2, <1>3
  <1> QED BY <1>2, <1>4 DEF Recording

\* A claim: one record grows, and with it its list.
Claimed(c, l, k, e) ==
    /\ Changed(l, lists[l].minted + k,
               lists[l].claimers + (IF claims[l][c].claimed = 0 THEN 1 ELSE 0),
               lists[l].escrow + e)
    /\ Recording(l, c, [claimed |-> claims[l][c].claimed + k,
                        escrowed |-> claims[l][c].escrowed + e])

\* What a claim moves: the cost, of which e stays in escrow.
Paid(c, asset, k, cost, e) ==
    /\ cost <= purse[c][asset]
    /\ purse' = [purse EXCEPT ![c][asset] = @ - cost]
    /\ held' = [held EXCEPT ![asset] = @ + e]
    /\ treasury' = [treasury EXCEPT ![asset] = @ + (cost - e)]
    /\ allowance' = allowance - k /\ k <= allowance

\* A claim enters one list, one record and the payment of its cost, in escrow or not.
LEMMA ClaimChanges ==
    ASSUME TypeOK, NEW c \in Claimers, NEW l \in Ids, NEW k \in 1 .. MaxBatch, Claim(c, l, k)
    PROVE  \E cost, e \in Nat :
              /\ cost = lists[l].price * k
              /\ e = IF Escrows(l) THEN cost ELSE 0
              /\ Claimed(c, l, k, e)
              /\ Paid(c, lists[l].asset, k, cost, e)
  <1> DEFINE cost == lists[l].price * k
             e == IF Escrows(l) THEN cost ELSE 0
             record == claims[l][c]
  <1>1. /\ lists[l] \in Lists /\ record \in Records /\ k \in Nat
        /\ lists[l].minted \in Nat /\ lists[l].escrow \in Nat /\ lists[l].claimers \in Nat
        /\ record.claimed \in Nat /\ record.escrowed \in Nat /\ lists[l].price \in Nat
    BY Listing, ClaimMinterAssumption DEF Lists, Records
  <1>2. cost \in Nat
    BY <1>1
  <1>3. /\ lists' = [lists EXCEPT ![l].minted = @ + k, ![l].escrow = @ + e,
                                  ![l].claimers = IF record.claimed = 0 THEN @ + 1 ELSE @]
        /\ claims' = [claims EXCEPT ![l][c] = [claimed |-> @.claimed + k,
                                               escrowed |-> @.escrowed + e]]
        /\ Paid(c, lists[l].asset, k, cost, e)
    BY DEF Claim, CountsAnew, SpendAllowance, Paid
  <1>4. e \in Nat
    BY <1>2
  <1>5. cost = lists[l].price * k /\ e = IF Escrows(l) THEN cost ELSE 0
    OBVIOUS
  <1> HIDE DEF cost, e
  <1>6. Changed(l, lists[l].minted + k,
                lists[l].claimers + (IF record.claimed = 0 THEN 1 ELSE 0),
                lists[l].escrow + e)
    <2> DEFINE minted == lists[l].minted + k
               claimers == lists[l].claimers + (IF record.claimed = 0 THEN 1 ELSE 0)
               escrow == lists[l].escrow + e
    <2>1. minted \in Nat /\ claimers \in Nat /\ escrow \in Nat
      BY <1>1, <1>4
    <2>2. claimers = IF record.claimed = 0 THEN lists[l].claimers + 1 ELSE lists[l].claimers
      BY <1>1
    <2>3. lists' = [lists EXCEPT ![l].minted = minted, ![l].escrow = escrow,
                                 ![l].claimers = claimers]
      BY <1>3, <2>2
    <2> HIDE DEF minted, claimers, escrow
    <2>4. Changed(l, minted, claimers, escrow)
      BY <2>1, <2>3, ListChanges
    <2> QED BY <2>4 DEF minted, claimers, escrow
  <1>7. Recording(l, c, [claimed |-> record.claimed + k, escrowed |-> record.escrowed + e])
    <2> DEFINE new == [claimed |-> record.claimed + k, escrowed |-> record.escrowed + e]
    <2>1. new \in Records
      BY <1>1, <1>4 DEF Records
    <2>2. claims' = [claims EXCEPT ![l][c] = new]
      BY <1>3
    <2> HIDE DEF new
    <2>3. Recording(l, c, new)
      BY <2>1, <2>2, RecordChanges
    <2> QED BY <2>3 DEF new
  <1>8. Claimed(c, l, k, e)
    BY <1>6, <1>7 DEF Claimed
  <1> QED BY <1>2, <1>3, <1>4, <1>5, <1>8

\* One account changes, by v.
LEMMA Booked ==
    ASSUME NEW S, NEW f \in [S -> Nat], NEW x \in S, NEW v \in Int, f[x] + v \in Nat,
           NEW g, g = [f EXCEPT ![x] = @ + v]
    PROVE  /\ g \in [S -> Nat]
           /\ \A y \in S : g[y] = f[y] + IF y = x THEN v ELSE 0
  OBVIOUS

\* One list may change, and the sum by as much.
LEMMA ListsSum ==
    ASSUME NEW S, IsFiniteSet(S), NEW f, NEW g, NEW l, NEW k \in Int,
           \A m \in S : f[m] \in Int /\ g[m] \in Int,
           \A m \in S : m # l => f[m] = g[m],
           l \in S => g[l] = f[l] + k
    PROVE  SumFunctionOnSet(g, S) = SumFunctionOnSet(f, S) + IF l \in S THEN k ELSE 0
  <1>1. SumFunctionOnSet(f, S) \in Int
    BY SumInt
  <1>2. CASE l \in S
    <2>1. SumFunctionOnSet(g, S) = SumFunctionOnSet(f, S) - f[l] + g[l]
      BY <1>2, SumUpdate
    <2> QED BY <1>1, <1>2, <2>1
  <1>3. CASE l \notin S
    <2>1. \A m \in S : f[m] = g[m]
      BY <1>3
    <2>2. SumFunctionOnSet(f, S) = SumFunctionOnSet(g, S)
      BY <2>1, SumSame
    <2> QED BY <1>1, <1>3, <2>2
  <1> QED BY <1>2, <1>3

\* One record changes, and the sum by as much.
LEMMA RecordsSum ==
    ASSUME NEW f \in [Claimers -> Nat], NEW g \in [Claimers -> Nat], NEW c \in Claimers,
           \A d \in Claimers : d # c => f[d] = g[d]
    PROVE  SumFunctionOnSet(g, Claimers) = SumFunctionOnSet(f, Claimers) - f[c] + g[c]
  <1>1. \A d \in Claimers : f[d] \in Int /\ g[d] \in Int
    OBVIOUS
  <1> QED BY <1>1, SumUpdate, ClaimMinterAssumption

-----------------------------------------------------------------------------
(* A claim.                                                                *)

\* Only the drive, before the launch, escrows.
LEMMA WhoEscrows ==
    ASSUME TypeOK, OneDrive, NEW l \in Ids
    PROVE  Escrows(l) <=> ~live /\ assuranceList = l
  BY DEF OneDrive, Escrows

\* A payment moves its cost from one purse, and what is escrowed stays in the contract.
LEMMA PaidTypes ==
    ASSUME TypeOK, NEW c \in Claimers, NEW asset \in Assets, NEW k \in Nat, NEW cost \in Nat,
           NEW e \in Nat, e <= cost, Paid(c, asset, k, cost, e)
    PROVE  /\ purse' \in [Claimers -> [Assets -> Nat]] /\ held' \in [Assets -> Nat]
           /\ treasury' \in [Assets -> Nat] /\ allowance' \in Nat
           /\ \A d \in Claimers, a \in Assets :
                 purse'[d][a] = purse[d][a] - IF d = c /\ a = asset THEN cost ELSE 0
           /\ \A a \in Assets : held'[a] = held[a] + IF a = asset THEN e ELSE 0
  <1>1. /\ purse \in [Claimers -> [Assets -> Nat]] /\ held \in [Assets -> Nat]
        /\ treasury \in [Assets -> Nat] /\ allowance \in Nat
    BY DEF TypeOK
  <1>2. /\ held' \in [Assets -> Nat]
        /\ \A a \in Assets : held'[a] = held[a] + IF a = asset THEN e ELSE 0
    <2>1. held' = [held EXCEPT ![asset] = @ + e] /\ held[asset] + e \in Nat
      BY <1>1 DEF Paid
    <2> QED BY <1>1, <2>1, Booked
  <1>3. treasury' \in [Assets -> Nat]
    <2> DEFINE v == cost - e
    <2>1. v \in Nat
      OBVIOUS
    <2>2. treasury' = [treasury EXCEPT ![asset] = @ + v]
      BY DEF Paid
    <2> HIDE DEF v
    <2>3. treasury[asset] + v \in Nat
      BY <1>1, <2>1
    <2> QED BY <1>1, <2>1, <2>2, <2>3, Booked
  <1>4. /\ purse' \in [Claimers -> [Assets -> Nat]]
        /\ \A d \in Claimers, a \in Assets :
              purse'[d][a] = purse[d][a] - IF d = c /\ a = asset THEN cost ELSE 0
    <2> DEFINE row == [purse[c] EXCEPT ![asset] = @ - cost]
    <2>1. cost <= purse[c][asset]
      BY DEF Paid
    <2>2. /\ row \in [Assets -> Nat]
          /\ \A a \in Assets : row[a] = purse[c][a] - IF a = asset THEN cost ELSE 0
      BY <1>1, <2>1
    <2>3. purse' = [purse EXCEPT ![c] = row]
      BY <1>1 DEF Paid
    <2> HIDE DEF row
    <2>4. /\ purse' \in [Claimers -> [Assets -> Nat]] /\ purse'[c] = row
          /\ \A d \in Claimers : d # c => purse'[d] = purse[d]
      BY <1>1, <2>2, <2>3
    <2>5. \A d \in Claimers, a \in Assets : purse[d][a] - 0 = purse[d][a]
      BY <1>1
    <2> QED BY <2>2, <2>4, <2>5
  <1>5. allowance' \in Nat
    BY <1>1 DEF Paid
  <1> QED BY <1>2, <1>3, <1>4, <1>5

\* The threshold counts addresses, and the list the tokens, of its records.
LEMMA ClaimKeepsTree ==
    ASSUME TypeOK, TypeOK', ClaimsWithinTree, NEW c \in Claimers, NEW l \in Ids,
           NEW k \in 1 .. MaxBatch, NEW e \in Nat, Claimed(c, l, k, e), Claim(c, l, k)
    PROVE  ClaimsWithinTree'
  <1>1. /\ Ids' = Ids /\ k \in Nat /\ k > 0 /\ IsFiniteSet(Claimers)
        /\ \A m \in Ids : m # l => lists'[m] = lists[m] /\ claims'[m] = claims[m]
        /\ \A m \in Ids : SameTerms(m)
        /\ lists'[l].minted = lists[l].minted + k
        /\ lists'[l].claimers = lists[l].claimers + (IF claims[l][c].claimed = 0 THEN 1 ELSE 0)
        /\ \A d \in Claimers : d # c => claims'[l][d] = claims[l][d]
        /\ claims'[l][c].claimed = claims[l][c].claimed + k
    BY ClaimMinterAssumption DEF Claimed, Changed, Recording
  <1>2. /\ claims[l][c].claimed + k <= lists[l].leaves[c]
        /\ lists[l].minted + k <= lists[l].total
    BY DEF Claim
  <1>3. \A d \in Claimers : claims[l][d].claimed \in Nat /\ claims'[l][d].claimed \in Nat
    <2>1. \A d \in Claimers : claims[l][d] \in Records /\ claims'[l][d] \in Records
      BY <1>1 DEF TypeOK
    <2> QED BY <2>1 DEF Records
  <1>4. ASSUME NEW m \in Ids, m # l
        PROVE  /\ \A d \in Claimers : claims'[m][d].claimed <= lists'[m].leaves[d]
               /\ lists'[m].claimers = Cardinality({d \in Claimers : claims'[m][d].claimed > 0})
               /\ lists'[m].minted = SumFunction([d \in Claimers |-> claims'[m][d].claimed])
               /\ lists'[m].minted <= lists'[m].total
    <2>1. lists'[m] = lists[m] /\ claims'[m] = claims[m]
      BY <1>1, <1>4
    <2> QED BY <2>1 DEF ClaimsWithinTree
  <1>5. \A d \in Claimers : claims'[l][d].claimed <= lists'[l].leaves[d]
    <2>1. \A d \in Claimers : claims[l][d].claimed <= lists[l].leaves[d]
      BY DEF ClaimsWithinTree
    <2>2. lists'[l].leaves = lists[l].leaves
      BY <1>1 DEF SameTerms
    <2> QED BY <1>1, <1>2, <2>1, <2>2
  <1>6. lists'[l].claimers = Cardinality({d \in Claimers : claims'[l][d].claimed > 0})
    <2> DEFINE S == {d \in Claimers : claims[l][d].claimed > 0}
               T == {d \in Claimers : claims'[l][d].claimed > 0}
    <2>1. IsFiniteSet(S) /\ T = S \cup {c} /\ (c \in S <=> claims[l][c].claimed # 0)
      <3>1. S \subseteq Claimers
        OBVIOUS
      <3>2. IsFiniteSet(S)
        BY <1>1, <3>1, FS_Subset
      <3> QED BY <1>1, <1>3, <3>2
    <2>2. lists[l].claimers = Cardinality(S)
      BY DEF ClaimsWithinTree
    <2> HIDE DEF S, T
    <2>3. Cardinality(T) = Cardinality(S) + (IF claims[l][c].claimed = 0 THEN 1 ELSE 0)
      <3>1. Cardinality(S) \in Nat
        BY <2>1, FS_CardinalityType
      <3>2. Cardinality(S \cup {c}) = IF c \in S THEN Cardinality(S) ELSE Cardinality(S) + 1
        BY <2>1, FS_AddElement
      <3> QED BY <2>1, <3>1, <3>2
    <2>4. Cardinality(T) = lists'[l].claimers
      BY <1>1, <2>2, <2>3
    <2> QED BY <2>4 DEF T
  <1>7. lists'[l].minted = SumFunction([d \in Claimers |-> claims'[l][d].claimed])
    <2> DEFINE f == [d \in Claimers |-> claims[l][d].claimed]
               g == [d \in Claimers |-> claims'[l][d].claimed]
    <2>1. /\ SumFunction(f) = SumFunctionOnSet(f, Claimers)
          /\ SumFunction(g) = SumFunctionOnSet(g, Claimers)
      BY DEF SumFunction
    <2>2. lists[l].minted = SumFunction(f)
      BY DEF ClaimsWithinTree
    <2>3. /\ f \in [Claimers -> Nat] /\ g \in [Claimers -> Nat]
          /\ \A d \in Claimers : d # c => f[d] = g[d]
          /\ g[c] = f[c] + k
      BY <1>1, <1>3
    <2> HIDE DEF f, g
    <2>4. SumFunctionOnSet(g, Claimers) = SumFunctionOnSet(f, Claimers) - f[c] + g[c]
      BY <2>3, RecordsSum
    <2>5. SumFunctionOnSet(f, Claimers) \in Int
      <3>1. \A d \in Claimers : f[d] \in Int
        BY <2>3
      <3> QED BY <1>1, <3>1, SumInt
    <2>6. lists'[l].minted = SumFunction(g)
      BY <1>1, <2>1, <2>2, <2>3, <2>4, <2>5
    <2> QED BY <2>6 DEF g
  <1>8. lists'[l].minted <= lists'[l].total
    BY <1>1, <1>2 DEF SameTerms
  <1> QED BY <1>1, <1>4, <1>5, <1>6, <1>7, <1>8 DEF ClaimsWithinTree

\* What nobody disturbs by a claim, a refund or a release: the terms, and
\* whose they are.
LEMMA DriveStays ==
    ASSUME TypeOK, OneDrive, Ids' = Ids, \A m \in Ids : SameTerms(m),
           UNCHANGED <<live, admin, assuranceList, drive>>
    PROVE  OneDrive'
  <1>1. assuranceList # 0 => assuranceList \in Ids
    BY TheDriveIsListed
  <1>2. \A l \in Ids : lists'[l].threshold > 0 <=> l = assuranceList
    BY DEF OneDrive, SameTerms
  <1>3. assuranceList # 0 => lists'[assuranceList].asset = PaymentAsset
                             /\ lists'[assuranceList].deadline = lists[assuranceList].deadline
    BY <1>1 DEF OneDrive, SameTerms
  <1> QED BY <1>2, <1>3 DEF OneDrive

\* A claim keeps the invariant: what it escrows is in the record and in the sum.
LEMMA ClaimInv ==
    ASSUME IInv, NEW c \in Claimers, NEW l \in Ids, NEW k \in 1 .. MaxBatch, Claim(c, l, k)
    PROVE  IInv'
  <1>1. TypeOK /\ OneDrive /\ OnlyTheDriveEscrows /\ EscrowAddsUp /\ NobodyPaysBeforeLaunch
        /\ ClaimsWithinTree /\ DriveStocked
    BY DEF IInv
  <1>2. PICK cost \in Nat, e \in Nat :
           /\ cost = lists[l].price * k
           /\ e = IF Escrows(l) THEN cost ELSE 0
           /\ Claimed(c, l, k, e)
           /\ Paid(c, lists[l].asset, k, cost, e)
    BY <1>1, ClaimChanges
  <1>3. /\ k \in Nat /\ l \in Ids /\ lists[l] \in Lists /\ lists[l].asset \in Assets
        /\ assuranceList # 0 => assuranceList \in Ids
    <2>1. k \in Nat
      BY ClaimMinterAssumption
    <2>2. lists[l] \in Lists /\ lists[l].asset \in Assets
      BY <1>1, Listing DEF Lists
    <2>3. assuranceList # 0 => assuranceList \in Ids
      BY <1>1, TheDriveIsListed
    <2> QED BY <2>1, <2>2, <2>3
  <1>4. /\ purse' \in [Claimers -> [Assets -> Nat]] /\ held' \in [Assets -> Nat]
        /\ treasury' \in [Assets -> Nat] /\ allowance' \in Nat
        /\ \A d \in Claimers, a \in Assets :
              purse'[d][a] = purse[d][a] - IF d = c /\ a = lists[l].asset THEN cost ELSE 0
        /\ \A a \in Assets : held'[a] = held[a] + IF a = lists[l].asset THEN e ELSE 0
    BY <1>1, <1>2, <1>3, PaidTypes
  <1>5. UNCHANGED <<now, live, admin, artwork, assuranceList, drive, refunded>>
    BY DEF Claim
  <1>6. /\ lists' \in Seq(Lists) /\ Len(lists') = Len(lists) /\ Ids' = Ids
        /\ claims' \in [Ids -> [Claimers -> Records]]
        /\ \A m \in Ids : SameTerms(m)
        /\ \A m \in Ids : m # l => lists'[m] = lists[m] /\ claims'[m] = claims[m]
        /\ lists'[l].minted = lists[l].minted + k
        /\ lists'[l].escrow = lists[l].escrow + e
        /\ \A d \in Claimers : d # c => claims'[l][d] = claims[l][d]
        /\ claims'[l][c].escrowed = claims[l][c].escrowed + e
    BY <1>2 DEF Claimed, Changed, Recording
  <1>7. TypeOK'
    BY <1>1, <1>4, <1>5, <1>6 DEF TypeOK
  <1>8. OneDrive'
    BY <1>1, <1>5, <1>6, DriveStays
  <1>9. /\ Escrows(l) <=> ~live /\ assuranceList = l
        /\ ~Escrows(l) => e = 0
        /\ l # assuranceList /\ ~live => cost = 0
    <2>1. l # assuranceList /\ ~live => lists[l].price = 0
      BY <1>1 DEF OnlyTheDriveEscrows
    <2>2. 0 * k = 0
      BY <1>3
    <2> QED BY <1>1, <1>2, <2>1, <2>2, WhoEscrows
  <1>10. \A m \in Ids : lists[m].escrow \in Nat /\ lists[m].minted \in Nat
                        /\ \A d \in Claimers : claims[m][d].escrowed \in Nat
    BY <1>1, Listing DEF Lists, Records
  <1>11. OnlyTheDriveEscrows'
    <2>1. \A m \in Ids : live \/ m # assuranceList => lists'[m].escrow = 0
      BY <1>1, <1>6, <1>9, <1>10 DEF OnlyTheDriveEscrows
    <2>2. ~live => \A m \in Ids : m # assuranceList =>
                     /\ lists'[m].price = 0
                     /\ \A d \in Claimers : claims'[m][d].escrowed = 0
      <3> SUFFICES ASSUME ~live, NEW m \in Ids, m # assuranceList
                   PROVE  /\ lists'[m].price = 0
                          /\ \A d \in Claimers : claims'[m][d].escrowed = 0
        OBVIOUS
      <3>1. lists[m].price = 0 /\ \A d \in Claimers : claims[m][d].escrowed = 0
        BY <1>1 DEF OnlyTheDriveEscrows
      <3>2. lists'[m].price = 0
        BY <1>6, <3>1 DEF SameTerms
      <3>3. ASSUME NEW d \in Claimers PROVE claims'[m][d].escrowed = 0
        <4>1. CASE m # l
          BY <1>6, <3>1, <4>1
        <4>2. CASE m = l
          BY <1>6, <1>9, <3>1, <4>2
        <4> QED BY <4>1, <4>2
      <3> QED BY <3>2, <3>3
    <2>3. ASSUME NEW a \in Assets
          PROVE  held'[a] = IF ~live /\ assuranceList # 0 /\ a = PaymentAsset
                              THEN lists'[assuranceList].escrow ELSE 0
      <3>1. held[a] = IF ~live /\ assuranceList # 0 /\ a = PaymentAsset
                        THEN lists[assuranceList].escrow ELSE 0
        BY <1>1 DEF OnlyTheDriveEscrows
      <3>2. assuranceList # 0 => lists[assuranceList].asset = PaymentAsset
        BY <1>1 DEF OneDrive
      <3>3. held[a] \in Nat
        BY <1>1 DEF TypeOK
      <3>4. CASE ~live /\ assuranceList = l
        <4>1. l # 0 /\ lists[l].asset = PaymentAsset
          BY <1>1, <1>3, <3>2, <3>4, Listing
        <4> QED BY <1>4, <1>6, <3>1, <3>3, <3>4, <4>1
      <3>5. CASE ~(~live /\ assuranceList = l)
        <4>1. held'[a] = held[a]
          BY <1>4, <1>9, <3>3, <3>5
        <4>2. ~live /\ assuranceList # 0 => lists'[assuranceList] = lists[assuranceList]
          BY <1>3, <1>6, <3>5
        <4> QED BY <3>1, <4>1, <4>2
      <3> QED BY <3>4, <3>5
    <2> QED BY <1>5, <1>6, <2>1, <2>2, <2>3 DEF OnlyTheDriveEscrows
  <1>12. EscrowAddsUp'
    <2> SUFFICES ASSUME ~live, assuranceList # 0
                 PROVE  lists'[assuranceList].escrow
                          = SumFunctionOnSet(EscrowedIn(assuranceList)', Claimers)
      BY <1>5 DEF EscrowAddsUp, EscrowedIn
    <2> DEFINE f == EscrowedIn(assuranceList)
               g == EscrowedIn(assuranceList)'
    <2>1. lists[assuranceList].escrow = SumFunctionOnSet(f, Claimers)
      BY <1>1 DEF EscrowAddsUp
    <2>2. CASE l = assuranceList
      <3>1. /\ f \in [Claimers -> Nat] /\ g \in [Claimers -> Nat]
            /\ \A d \in Claimers : d # c => f[d] = g[d]
            /\ g[c] = f[c] + e
        <4>1. /\ \A d \in Claimers : d # c => claims'[l][d].escrowed = claims[l][d].escrowed
              /\ claims'[l][c].escrowed = claims[l][c].escrowed + e
              /\ \A d \in Claimers : claims[l][d].escrowed \in Nat
          BY <1>6, <1>10
        <4>2. \A d \in Claimers : claims'[l][d].escrowed \in Nat
          BY <4>1
        <4>3. /\ f = [d \in Claimers |-> claims[l][d].escrowed]
              /\ g = [d \in Claimers |-> claims'[l][d].escrowed]
          BY <1>5, <2>2 DEF EscrowedIn
        <4> QED BY <4>1, <4>2, <4>3
      <3> HIDE DEF f, g
      <3>2. SumFunctionOnSet(g, Claimers) = SumFunctionOnSet(f, Claimers) - f[c] + g[c]
        BY <3>1, RecordsSum
      <3>3. lists[l].escrow \in Nat
        BY <1>10
      <3>4. lists'[assuranceList].escrow = SumFunctionOnSet(g, Claimers)
        BY <1>6, <2>1, <2>2, <3>1, <3>2, <3>3
      <3> QED BY <3>4 DEF g
    <2>3. CASE l # assuranceList
      <3>1. lists'[assuranceList] = lists[assuranceList] /\ g = f
        BY <1>3, <1>5, <1>6, <2>3 DEF EscrowedIn
      <3> QED BY <2>1, <3>1
    <2> QED BY <2>2, <2>3
  <1>13. NobodyPaysBeforeLaunch'
    <2> SUFFICES ASSUME ~live, NEW d \in Claimers, NEW a \in Assets
                 PROVE  purse'[d][a] + (IF assuranceList # 0 /\ a = PaymentAsset
                              THEN claims'[assuranceList][d].escrowed ELSE 0) = Funds
      BY <1>5 DEF NobodyPaysBeforeLaunch
    <2>1. purse[d][a] + (IF assuranceList # 0 /\ a = PaymentAsset
                           THEN claims[assuranceList][d].escrowed ELSE 0) = Funds
      BY <1>1 DEF NobodyPaysBeforeLaunch
    <2>2. purse[d][a] \in Nat /\ (assuranceList # 0 => claims[assuranceList][d].escrowed \in Nat)
      BY <1>1, <1>3, <1>10 DEF TypeOK
    <2>3. CASE l = assuranceList
      <3>1. l # 0 /\ lists[l].asset = PaymentAsset /\ e = cost
        BY <1>1, <1>2, <1>9, <2>3, Listing DEF OneDrive
      <3>2. CASE d = c /\ a = PaymentAsset
        BY <1>4, <1>6, <2>1, <2>2, <2>3, <3>1, <3>2
      <3>3. CASE ~(d = c /\ a = PaymentAsset)
        <4>1. purse'[d][a] = purse[d][a]
          BY <1>4, <2>2, <3>1, <3>3
        <4>2. a = PaymentAsset => claims'[assuranceList][d] = claims[assuranceList][d]
          BY <1>6, <2>3, <3>3
        <4> QED BY <2>1, <4>1, <4>2
      <3> QED BY <3>2, <3>3
    <2>4. CASE l # assuranceList
      <3>1. purse'[d][a] = purse[d][a]
        BY <1>4, <1>9, <2>2, <2>4
      <3>2. assuranceList # 0 => claims'[assuranceList] = claims[assuranceList]
        BY <1>3, <1>6, <2>4
      <3> QED BY <2>1, <3>1, <3>2
    <2> QED BY <2>3, <2>4
  <1>14. ClaimsWithinTree'
    BY <1>1, <1>2, <1>7, ClaimKeepsTree
  <1>15. DriveStocked'
    <2> SUFFICES ASSUME drive # NoDrive, ~live
                 PROVE  DriveStocked'
      BY <1>5 DEF DriveStocked
    <2> DEFINE D == drive.list
               S == Ids \ {D}
               f == [m \in Ids |-> lists[m].minted]
               g == [m \in Ids |-> lists'[m].minted]
    <2>1. D \in Ids /\ D = assuranceList
      BY <1>1, <1>3 DEF OneDrive
    <2>2. allowance + SumFunctionOnSet(f, S) >= lists[D].total - lists[D].minted
      BY <1>1 DEF DriveStocked
    <2>3. IsFiniteSet(S)
      <3>1. IsFiniteSet(Ids)
        BY <1>1, Listing, FS_Interval
      <3> QED BY <3>1, FS_RemoveElement
    <2>4. /\ \A m \in S : f[m] \in Int /\ g[m] \in Int
          /\ \A m \in S : m # l => f[m] = g[m]
          /\ l \in S => g[l] = f[l] + k
      <3>1. \A m \in Ids : lists'[m].minted \in Int
        BY <1>3, <1>6, <1>10
      <3> QED BY <1>3, <1>6, <1>10, <3>1
    <2>5. /\ lists'[D].total = lists[D].total
          /\ lists'[D].minted = IF l = D THEN lists[D].minted + k ELSE lists[D].minted
      BY <1>6, <2>1 DEF SameTerms
    <2>6. /\ lists[D].total \in Nat /\ lists[D].minted \in Nat /\ allowance \in Nat
          /\ allowance' = allowance - k
      BY <1>1, <1>2, <2>1, Listing DEF Paid, Lists, TypeOK
    <2> HIDE DEF S, f, g
    <2>7. SumFunctionOnSet(f, S) \in Int
      BY <2>3, <2>4, SumInt
    <2>8. SumFunctionOnSet(g, S) = SumFunctionOnSet(f, S) + IF l \in S THEN k ELSE 0
      <3>1. k \in Int
        BY <1>3
      <3> QED BY <2>3, <2>4, <3>1, ListsSum
    <2>9. l \in S <=> l # D
      BY <1>3 DEF S
    <2>10. allowance' + SumFunctionOnSet(g, S) >= lists'[D].total - lists'[D].minted
      BY <1>3, <2>2, <2>5, <2>6, <2>7, <2>8, <2>9
    <2> QED BY <1>5, <1>6, <2>10 DEF DriveStocked, g, S
  <1> QED BY <1>7, <1>8, <1>11, <1>12, <1>13, <1>14, <1>15 DEF IInv

-----------------------------------------------------------------------------
(* The other steps.                                                        *)

\* A new list has no claims.
LEMMA AddedTree ==
    ASSUME TypeOK, ClaimsWithinTree, NEW leaves \in LeafSets, NEW asset \in Assets,
           NEW t \in Terms, Added(leaves, asset, t)
    PROVE  ClaimsWithinTree'
  <1> DEFINE n == Len(lists) + 1
  <1>1. /\ Ids' = Ids \cup {n} /\ IsFiniteSet(Claimers)
        /\ \A l \in Ids : lists'[l] = lists[l] /\ claims'[l] = claims[l]
        /\ lists'[n].leaves = leaves /\ lists'[n].total = t.total
        /\ lists'[n].minted = 0 /\ lists'[n].claimers = 0
        /\ claims'[n] = [c \in Claimers |-> NoClaim]
    BY ClaimMinterAssumption DEF Added
  <1>2. \A c \in Claimers : claims'[n][c].claimed = 0
    BY <1>1 DEF NoClaim
  <1>3. leaves \in [Claimers -> Nat] /\ t.total \in Nat
    BY DEF LeafSets, Terms
  <1> HIDE DEF n
  <1>4. \A c \in Claimers : claims'[n][c].claimed <= lists'[n].leaves[c]
    BY <1>1, <1>2, <1>3
  <1>5. lists'[n].claimers = Cardinality({c \in Claimers : claims'[n][c].claimed > 0})
    <2>1. {c \in Claimers : claims'[n][c].claimed > 0} = {}
      BY <1>2
    <2> QED BY <1>1, <2>1, FS_EmptySet
  <1>6. lists'[n].minted = SumFunction([c \in Claimers |-> claims'[n][c].claimed])
    <2> DEFINE f == [c \in Claimers |-> claims'[n][c].claimed]
    <2>1. \A c \in Claimers : f[c] = 0
      BY <1>2
    <2>2. SumFunction(f) = SumFunctionOnSet(f, Claimers)
      BY DEF SumFunction
    <2> HIDE DEF f
    <2>3. lists'[n].minted = SumFunction(f)
      BY <1>1, <2>1, <2>2, SumZero
    <2> QED BY <2>3 DEF f
  <1>7. lists'[n].minted <= lists'[n].total
    BY <1>1, <1>3
  <1>8. ASSUME NEW m \in Ids
        PROVE  /\ \A d \in Claimers : claims'[m][d].claimed <= lists'[m].leaves[d]
               /\ lists'[m].claimers = Cardinality({d \in Claimers : claims'[m][d].claimed > 0})
               /\ lists'[m].minted = SumFunction([d \in Claimers |-> claims'[m][d].claimed])
               /\ lists'[m].minted <= lists'[m].total
    <2>1. lists'[m] = lists[m] /\ claims'[m] = claims[m]
      BY <1>1
    <2> QED BY <2>1 DEF ClaimsWithinTree
  <1> QED BY <1>1, <1>4, <1>5, <1>6, <1>7, <1>8 DEF ClaimsWithinTree

\* open_list by the admin.
LEMMA OpenListInv ==
    ASSUME IInv, NEW leaves \in LeafSets, NEW asset \in Assets, NEW t \in Terms,
           OpenList(leaves, asset, t)
    PROVE  IInv'
  <1> DEFINE n == Len(lists) + 1
  <1>1. TypeOK /\ OneDrive /\ OnlyTheDriveEscrows /\ EscrowAddsUp /\ NobodyPaysBeforeLaunch
        /\ ClaimsWithinTree
    BY DEF IInv
  <1>2. Added(leaves, asset, t)
    BY <1>1, AddListAdds DEF OpenList
  <1>3. /\ lists' \in Seq(Lists) /\ Ids' = Ids \cup {n} /\ n \notin Ids /\ n \in Nat
        /\ Len(lists') = n /\ claims' \in [Ids' -> [Claimers -> Records]]
        /\ \A l \in Ids : lists'[l] = lists[l] /\ claims'[l] = claims[l]
        /\ lists'[n].price = t.price /\ lists'[n].threshold = t.threshold
        /\ lists'[n].escrow = 0
        /\ \A c \in Claimers : claims'[n][c].escrowed = 0
    BY <1>2 DEF Added, NoClaim
  <1>4. /\ t.threshold = 0
        /\ live \/ (admin = "launch_admin" /\ t.price = 0)
        /\ UNCHANGED <<now, live, admin, artwork, assuranceList, drive, allowance,
                       purse, held, treasury, refunded>>
    BY DEF OpenList, moneyVars
  <1>5. assuranceList # n /\ (assuranceList # 0 => assuranceList \in Ids)
    BY <1>1, <1>3, TheDriveIsListed
  <1>6. TypeOK'
    BY <1>1, <1>3, <1>4 DEF TypeOK
  <1>7. live \/ (drive = NoDrive /\ assuranceList = 0)
    BY <1>1, <1>4 DEF OneDrive
  <1> HIDE DEF n
  <1>8. OneDrive'
    <2>1. \A l \in Ids' : lists'[l].threshold > 0 <=> l = assuranceList
      <3>1. \A l \in Ids : lists'[l].threshold > 0 <=> l = assuranceList
        BY <1>1, <1>3 DEF OneDrive
      <3>2. ~(lists'[n].threshold > 0)
        BY <1>3, <1>4
      <3> QED BY <1>3, <1>5, <3>1, <3>2
    <2>2. assuranceList # 0 => lists'[assuranceList] = lists[assuranceList]
      BY <1>3, <1>5
    <2> QED BY <1>1, <1>4, <2>1, <2>2 DEF OneDrive
  <1>9. OnlyTheDriveEscrows'
    <2>1. \A l \in Ids' : live \/ l # assuranceList => lists'[l].escrow = 0
      BY <1>1, <1>3 DEF OnlyTheDriveEscrows
    <2>2. ~live => \A l \in Ids' : l # assuranceList =>
                     /\ lists'[l].price = 0
                     /\ \A c \in Claimers : claims'[l][c].escrowed = 0
      BY <1>1, <1>3, <1>4 DEF OnlyTheDriveEscrows
    <2>3. assuranceList # 0 => lists'[assuranceList] = lists[assuranceList]
      BY <1>3, <1>5
    <2> QED BY <1>1, <1>4, <2>1, <2>2, <2>3 DEF OnlyTheDriveEscrows
  <1>10. EscrowAddsUp'
    BY <1>4, <1>7 DEF EscrowAddsUp
  <1>11. NobodyPaysBeforeLaunch'
    BY <1>1, <1>4, <1>7 DEF NobodyPaysBeforeLaunch
  <1>12. ClaimsWithinTree'
    BY <1>1, <1>2, AddedTree
  <1>13. DriveStocked'
    BY <1>4, <1>7 DEF DriveStocked
  <1> QED BY <1>6, <1>8, <1>9, <1>10, <1>11, <1>12, <1>13 DEF IInv

\* manager.open_assurance.
LEMMA OpenAssuranceInv ==
    ASSUME IInv, NEW leaves \in LeafSets, NEW t \in Terms, OpenAssurance(leaves, t)
    PROVE  IInv'
  <1> DEFINE n == Len(lists) + 1
  <1>1. TypeOK /\ OneDrive /\ OnlyTheDriveEscrows /\ NobodyPaysBeforeLaunch /\ ClaimsWithinTree
    BY DEF IInv
  <1>2. Added(leaves, PaymentAsset, t)
    BY <1>1, AddListAdds, ClaimMinterAssumption DEF OpenAssurance
  <1>3. /\ lists' \in Seq(Lists) /\ Ids' = Ids \cup {n} /\ n \notin Ids /\ n \in Nat /\ n # 0
        /\ Len(lists') = n /\ claims' \in [Ids' -> [Claimers -> Records]]
        /\ \A l \in Ids : lists'[l] = lists[l] /\ claims'[l] = claims[l]
        /\ lists'[n].price = t.price /\ lists'[n].threshold = t.threshold
        /\ lists'[n].escrow = 0 /\ lists'[n].asset = PaymentAsset /\ lists'[n].minted = 0
        /\ lists'[n].total = t.total /\ lists'[n].deadline = t.deadline
        /\ \A c \in Claimers : claims'[n][c].escrowed = 0
    BY <1>1, <1>2, Listing DEF Added, NoClaim
  <1>4. /\ t.threshold > 0 /\ ~live /\ assuranceList = 0 /\ assuranceList' = n
        /\ drive' = [list |-> n, deadline |-> t.deadline] /\ admin' = "treasury"
        /\ allowance' = allowance + t.total
        /\ UNCHANGED <<now, live, artwork, purse, held, treasury, refunded>>
    BY DEF OpenAssurance, moneyVars
  <1>5. t.total \in Nat /\ t.deadline \in Nat /\ t.threshold \in Nat /\ allowance \in Nat
    BY <1>1 DEF Terms, TypeOK
  <1>6. TypeOK'
    <2>1. assuranceList' \in 0 .. Len(lists')
      BY <1>3, <1>4
    <2> QED BY <1>1, <1>3, <1>4, <1>5, <2>1 DEF TypeOK
  <1> HIDE DEF n
  <1>7. OneDrive'
    <2>1. \A l \in Ids' : lists'[l].threshold > 0 <=> l = n
      <3>1. \A l \in Ids : ~(lists'[l].threshold > 0)
        <4>1. 0 \notin Ids
          BY <1>1, Listing
        <4> QED BY <1>1, <1>3, <1>4, <4>1 DEF OneDrive
      <3> QED BY <1>3, <1>4, <3>1
    <2> QED BY <1>3, <1>4, <2>1 DEF OneDrive
  <1>8. OnlyTheDriveEscrows'
    <2>1. \A l \in Ids' : lists'[l].escrow = 0
      <3>1. 0 \notin Ids
        BY <1>1, Listing
      <3> QED BY <1>1, <1>3, <1>4, <3>1 DEF OnlyTheDriveEscrows
    <2>2. \A l \in Ids' : l # n => /\ lists'[l].price = 0
                                   /\ \A c \in Claimers : claims'[l][c].escrowed = 0
      <3>1. 0 \notin Ids
        BY <1>1, Listing
      <3> QED BY <1>1, <1>3, <1>4, <3>1 DEF OnlyTheDriveEscrows
    <2>3. \A a \in Assets : held'[a] = 0
      BY <1>1, <1>4 DEF OnlyTheDriveEscrows
    <2> QED BY <1>3, <1>4, <2>1, <2>2, <2>3 DEF OnlyTheDriveEscrows
  <1>9. EscrowAddsUp'
    <2> DEFINE g == EscrowedIn(assuranceList)'
    <2>1. \A c \in Claimers : g[c] = 0
      BY <1>3, <1>4 DEF EscrowedIn
    <2> HIDE DEF g
    <2>2. SumFunctionOnSet(g, Claimers) = 0
      BY <2>1, SumZero, ClaimMinterAssumption
    <2> QED BY <1>3, <1>4, <2>2 DEF EscrowAddsUp, g
  <1>10. NobodyPaysBeforeLaunch'
    <2> SUFFICES ASSUME NEW c \in Claimers, NEW a \in Assets
                 PROVE  purse'[c][a] + (IF a = PaymentAsset
                              THEN claims'[n][c].escrowed ELSE 0) = Funds
      BY <1>3, <1>4 DEF NobodyPaysBeforeLaunch
    <2>1. purse[c][a] + 0 = Funds
      BY <1>1, <1>4 DEF NobodyPaysBeforeLaunch
    <2> QED BY <1>3, <1>4, <2>1
  <1>11. ClaimsWithinTree'
    BY <1>1, <1>2, AddedTree, ClaimMinterAssumption
  <1>12. DriveStocked'
    <2> DEFINE S == Ids' \ {n}
               g == [l \in Ids' |-> lists'[l].minted]
    <2>1. IsFiniteSet(S) /\ \A l \in S : g[l] \in Nat
      <3>1. S = Ids
        BY <1>3
      <3>2. IsFiniteSet(Ids)
        BY <1>1, Listing, FS_Interval
      <3>3. \A l \in Ids : lists[l].minted \in Nat
        BY <1>1, Listing DEF Lists
      <3> QED BY <1>3, <3>1, <3>2, <3>3
    <2> HIDE DEF S, g
    <2>2. SumFunctionOnSet(g, S) \in Nat
      BY <2>1, SumNat
    <2>3. allowance' + SumFunctionOnSet(g, S) >= lists'[n].total - lists'[n].minted
      BY <1>3, <1>4, <1>5, <2>2
    <2>4. drive'.list = n
      BY <1>4
    <2> QED BY <2>3, <2>4 DEF DriveStocked, S, g
  <1> QED BY <1>6, <1>7, <1>8, <1>9, <1>10, <1>11, <1>12 DEF IInv

\* A step that claims nothing.
LEMMA SameTree ==
    ASSUME ClaimsWithinTree, Ids' = Ids, \A m \in Ids : SameTerms(m),
           \A m \in Ids, d \in Claimers : claims'[m][d].claimed = claims[m][d].claimed,
           \A m \in Ids : lists'[m].minted = lists[m].minted
                          /\ lists'[m].claimers = lists[m].claimers
    PROVE  ClaimsWithinTree'
  <1>1. ASSUME NEW m \in Ids
        PROVE  /\ \A d \in Claimers : claims'[m][d].claimed <= lists'[m].leaves[d]
               /\ lists'[m].claimers = Cardinality({d \in Claimers : claims'[m][d].claimed > 0})
               /\ lists'[m].minted = SumFunction([d \in Claimers |-> claims'[m][d].claimed])
               /\ lists'[m].minted <= lists'[m].total
    <2>1. lists'[m].leaves = lists[m].leaves /\ lists'[m].total = lists[m].total
      BY DEF SameTerms
    <2>2. {d \in Claimers : claims'[m][d].claimed > 0} = {d \in Claimers : claims[m][d].claimed > 0}
      OBVIOUS
    <2>3. [d \in Claimers |-> claims'[m][d].claimed] = [d \in Claimers |-> claims[m][d].claimed]
      OBVIOUS
    <2> QED BY <2>1, <2>2, <2>3 DEF ClaimsWithinTree
  <1> QED BY <1>1 DEF ClaimsWithinTree

\* The drive stays stocked while neither its list nor the allowance changes.
LEMMA SameStock ==
    ASSUME TypeOK, OneDrive, DriveStocked, Ids' = Ids, \A m \in Ids : SameTerms(m),
           \A m \in Ids : lists'[m].minted = lists[m].minted,
           UNCHANGED <<live, drive, allowance>>
    PROVE  DriveStocked'
  <1>1. [m \in Ids' |-> lists'[m].minted] = [m \in Ids |-> lists[m].minted]
    OBVIOUS
  <1>2. drive # NoDrive => drive.list \in Ids
    BY TheDriveIsListed DEF OneDrive
  <1>3. drive # NoDrive => /\ lists'[drive.list].total = lists[drive.list].total
                           /\ lists'[drive.list].minted = lists[drive.list].minted
    BY <1>2 DEF SameTerms
  <1> QED BY <1>1, <1>3 DEF DriveStocked

\* refund: what one record and the list have less, the claimer has more.
LEMMA RefundInv ==
    ASSUME IInv, NEW c \in Claimers, NEW l \in Ids, Refund(c, l)
    PROVE  IInv'
  <1> DEFINE x == claims[l][c].escrowed
             f == EscrowedIn(l)
  <1>1. TypeOK /\ OneDrive /\ OnlyTheDriveEscrows /\ EscrowAddsUp /\ NobodyPaysBeforeLaunch
        /\ ClaimsWithinTree /\ DriveStocked
    BY DEF IInv
  <1>2. /\ lists[l].threshold > 0 /\ ~live /\ x > 0
        /\ claims' = [claims EXCEPT ![l][c].escrowed = 0]
        /\ lists' = [lists EXCEPT ![l].escrow = @ - x]
        /\ purse' = [purse EXCEPT ![c][lists[l].asset] = @ + x]
        /\ held[lists[l].asset] >= x
        /\ held' = [held EXCEPT ![lists[l].asset] = @ - x]
        /\ refunded' = [refunded EXCEPT ![c] = @ + x]
        /\ UNCHANGED <<now, live, admin, artwork, assuranceList, drive, allowance, treasury>>
    BY DEF Refund, Failed
  <1>3. /\ l = assuranceList /\ l # 0 /\ lists[l].asset = PaymentAsset /\ PaymentAsset \in Assets
        /\ lists[l] \in Lists /\ claims[l][c] \in Records
    BY <1>1, <1>2, Listing, ClaimMinterAssumption DEF OneDrive
  <1>4. /\ x \in Nat /\ lists[l].escrow \in Nat /\ lists[l].minted \in Nat
        /\ lists[l].claimers \in Nat /\ claims[l][c].claimed \in Nat
    BY <1>3 DEF Lists, Records
  <1>5. /\ f \in [Claimers -> Nat] /\ f[c] = x
        /\ lists[l].escrow = SumFunctionOnSet(f, Claimers)
    <2>1. \A d \in Claimers : claims[l][d].escrowed \in Nat
      BY <1>1, Listing DEF Records
    <2> QED BY <1>1, <1>2, <1>3, <2>1 DEF EscrowedIn, EscrowAddsUp
  <1> HIDE DEF f
  <1>6. x <= lists[l].escrow
    <2>1. \A d \in Claimers : f[d] \in Nat
      BY <1>5
    <2>2. f[c] <= SumFunctionOnSet(f, Claimers)
      BY <2>1, SumNat, ClaimMinterAssumption
    <2> QED BY <1>5, <2>2
  <1>7. Changed(l, lists[l].minted, lists[l].claimers, lists[l].escrow - x)
    <2> DEFINE y == lists[l].escrow - x
    <2>1. y \in Nat
      BY <1>4, <1>6
    <2>2. lists' = [lists EXCEPT ![l].minted = lists[l].minted, ![l].escrow = y,
                                 ![l].claimers = lists[l].claimers]
      <3>1. lists \in [Ids -> Lists]
        BY <1>1, Listing DEF TypeOK
      <3>2. lists' = [lists EXCEPT ![l].escrow = y]
        BY <1>2
      <3> HIDE DEF y
      <3> QED BY <1>3, <3>1, <3>2 DEF Lists
    <2> HIDE DEF y
    <2>3. Changed(l, lists[l].minted, lists[l].claimers, y)
      BY <1>1, <1>4, <2>1, <2>2, ListChanges
    <2> QED BY <2>3 DEF y
  <1>8. Recording(l, c, [claimed |-> claims[l][c].claimed, escrowed |-> 0])
    <2> DEFINE new == [claimed |-> claims[l][c].claimed, escrowed |-> 0]
    <2>1. new \in Records /\ new = [claims[l][c] EXCEPT !.escrowed = 0]
      BY <1>3, <1>4 DEF Records
    <2>2. claims' = [claims EXCEPT ![l][c] = new]
      BY <1>2, <2>1
    <2> HIDE DEF new
    <2>3. Recording(l, c, new)
      BY <1>1, <2>1, <2>2, RecordChanges
    <2> QED BY <2>3 DEF new
  <1>9. /\ lists' \in Seq(Lists) /\ Len(lists') = Len(lists) /\ Ids' = Ids
        /\ claims' \in [Ids -> [Claimers -> Records]]
        /\ \A m \in Ids : SameTerms(m)
        /\ \A m \in Ids : m # l => lists'[m] = lists[m] /\ claims'[m] = claims[m]
        /\ lists'[l].minted = lists[l].minted /\ lists'[l].claimers = lists[l].claimers
        /\ lists'[l].escrow = lists[l].escrow - x
        /\ \A d \in Claimers : d # c => claims'[l][d] = claims[l][d]
        /\ claims'[l][c].escrowed = 0 /\ claims'[l][c].claimed = claims[l][c].claimed
    BY <1>7, <1>8 DEF Changed, Recording
  <1> HIDE DEF x
  <1>10. /\ held' \in [Assets -> Nat]
         /\ \A a \in Assets : held'[a] = held[a] + IF a = PaymentAsset THEN 0 - x ELSE 0
    <2> DEFINE v == 0 - x
    <2>1. held \in [Assets -> Nat] /\ v \in Int /\ held[PaymentAsset] + v \in Nat
      <3>1. held \in [Assets -> Nat]
        BY <1>1 DEF TypeOK
      <3>2. held[PaymentAsset] >= x
        BY <1>2, <1>3
      <3> QED BY <1>3, <1>4, <3>1, <3>2
    <2>2. held' = [held EXCEPT ![PaymentAsset] = @ + v]
      <3>1. held' = [held EXCEPT ![PaymentAsset] = @ - x]
        BY <1>2, <1>3
      <3>2. held[PaymentAsset] - x = held[PaymentAsset] + v
        BY <1>3, <1>4, <2>1
      <3> QED BY <3>1, <3>2
    <2> HIDE DEF v
    <2>3. /\ held' \in [Assets -> Nat]
          /\ \A a \in Assets : held'[a] = held[a] + IF a = PaymentAsset THEN v ELSE 0
      BY <1>3, <2>1, <2>2, Booked
    <2> QED BY <2>3 DEF v
  <1>11. refunded' \in [Claimers -> Nat]
    BY <1>1, <1>2, <1>4 DEF TypeOK
  <1>12. /\ purse' \in [Claimers -> [Assets -> Nat]]
         /\ \A d \in Claimers, a \in Assets :
               purse'[d][a] = purse[d][a] + IF d = c /\ a = PaymentAsset THEN x ELSE 0
    <2> DEFINE row == [purse[c] EXCEPT ![PaymentAsset] = @ + x]
    <2>1. purse \in [Claimers -> [Assets -> Nat]]
      BY <1>1 DEF TypeOK
    <2>2. /\ row \in [Assets -> Nat]
          /\ \A a \in Assets : row[a] = purse[c][a] + IF a = PaymentAsset THEN x ELSE 0
      BY <1>3, <1>4, <2>1
    <2>3. purse' = [purse EXCEPT ![c] = row]
      BY <1>2, <1>3, <2>1
    <2> HIDE DEF row
    <2>4. /\ purse' \in [Claimers -> [Assets -> Nat]] /\ purse'[c] = row
          /\ \A d \in Claimers : d # c => purse'[d] = purse[d]
      BY <2>1, <2>2, <2>3
    <2>5. \A d \in Claimers, a \in Assets : purse[d][a] + 0 = purse[d][a]
      BY <2>1
    <2> QED BY <2>2, <2>4, <2>5
  <1>13. TypeOK'
    BY <1>1, <1>2, <1>9, <1>10, <1>11, <1>12 DEF TypeOK
  <1>14. OneDrive'
    BY <1>1, <1>2, <1>9, DriveStays
  <1>15. OnlyTheDriveEscrows'
    <2>1. \A m \in Ids : m # l => lists'[m].escrow = 0
      BY <1>1, <1>3, <1>9 DEF OnlyTheDriveEscrows
    <2>2. \A m \in Ids : m # l => /\ lists'[m].price = 0
                                  /\ \A d \in Claimers : claims'[m][d].escrowed = 0
      BY <1>1, <1>2, <1>3, <1>9 DEF OnlyTheDriveEscrows
    <2>3. ASSUME NEW a \in Assets
          PROVE  held'[a] = IF a = PaymentAsset THEN lists'[l].escrow ELSE 0
      <3>1. held[a] = IF a = PaymentAsset THEN lists[l].escrow ELSE 0
        BY <1>1, <1>2, <1>3 DEF OnlyTheDriveEscrows
      <3> QED BY <1>4, <1>9, <1>10, <3>1
    <2> QED BY <1>2, <1>3, <1>9, <2>1, <2>2, <2>3 DEF OnlyTheDriveEscrows
  <1>16. EscrowAddsUp'
    <2> DEFINE g == EscrowedIn(l)'
    <2>1. /\ g \in [Claimers -> Nat] /\ g[c] = 0
          /\ \A d \in Claimers : d # c => f[d] = g[d]
      <3>1. \A d \in Claimers : d # c => claims'[l][d].escrowed = f[d]
        BY <1>9 DEF f, EscrowedIn
      <3> QED BY <1>5, <1>9, <3>1 DEF EscrowedIn
    <2>2. EscrowedIn(assuranceList)' = g
      BY <1>2, <1>3 DEF EscrowedIn
    <2> HIDE DEF g
    <2>3. SumFunctionOnSet(g, Claimers) = SumFunctionOnSet(f, Claimers) - f[c] + g[c]
      BY <1>5, <2>1, RecordsSum
    <2>4. lists'[l].escrow = SumFunctionOnSet(g, Claimers)
      BY <1>4, <1>5, <1>9, <2>1, <2>3
    <2> QED BY <1>2, <1>3, <2>2, <2>4 DEF EscrowAddsUp
  <1>17. NobodyPaysBeforeLaunch'
    <2> SUFFICES ASSUME NEW d \in Claimers, NEW a \in Assets
                 PROVE  purse'[d][a] + (IF a = PaymentAsset
                              THEN claims'[l][d].escrowed ELSE 0) = Funds
      BY <1>2, <1>3 DEF NobodyPaysBeforeLaunch
    <2>1. purse[d][a] + (IF a = PaymentAsset THEN claims[l][d].escrowed ELSE 0) = Funds
      BY <1>1, <1>2, <1>3 DEF NobodyPaysBeforeLaunch
    <2>2. purse[d][a] \in Nat
      BY <1>1 DEF TypeOK
    <2>3. CASE d = c /\ a = PaymentAsset
      BY <1>4, <1>9, <1>12, <2>1, <2>2, <2>3 DEF x
    <2>4. CASE ~(d = c /\ a = PaymentAsset)
      BY <1>9, <1>12, <2>1, <2>2, <2>4
    <2> QED BY <2>3, <2>4
  <1>18. \A m \in Ids, d \in Claimers : claims'[m][d].claimed = claims[m][d].claimed
    BY <1>9
  <1>19. \A m \in Ids : lists'[m].minted = lists[m].minted /\ lists'[m].claimers = lists[m].claimers
    BY <1>9
  <1>20. ClaimsWithinTree'
    BY <1>1, <1>9, <1>18, <1>19, SameTree
  <1>21. DriveStocked'
    BY <1>1, <1>2, <1>9, <1>19, SameStock
  <1> QED BY <1>13, <1>14, <1>15, <1>16, <1>17, <1>20, <1>21 DEF IInv

\* A step that leaves the lists, their claims and the money alone.
LEMMA QuietInv ==
    ASSUME IInv, TypeOK', UNCHANGED <<lists, claims, live, admin, assuranceList, drive,
                                      purse, held>>,
           allowance' = allowance \/ drive = NoDrive
    PROVE  IInv'
  <1>1. Ids' = Ids
    BY DEF Ids
  <1>2. OneDrive' /\ OnlyTheDriveEscrows'
    BY <1>1 DEF IInv, OneDrive, OnlyTheDriveEscrows
  <1>3. EscrowAddsUp' /\ NobodyPaysBeforeLaunch'
    BY <1>1 DEF IInv, EscrowAddsUp, EscrowedIn, NobodyPaysBeforeLaunch
  <1>4. ClaimsWithinTree'
    BY <1>1 DEF IInv, ClaimsWithinTree
  <1>5. DriveStocked'
    BY <1>1 DEF IInv, DriveStocked
  <1> QED BY <1>2, <1>3, <1>4, <1>5 DEF IInv

\* add_property and the like, set_mint_allowance, and the passing of time.
LEMMA OtherInv ==
    ASSUME IInv, AddArtwork \/ (\E n \in Grants : SetAllowance(n)) \/ Tick \/ UNCHANGED vars
    PROVE  IInv'
  <1>1. TypeOK /\ OneDrive
    BY DEF IInv
  <1>2. /\ UNCHANGED <<lists, claims, live, admin, assuranceList, drive, purse, held>>
        /\ UNCHANGED <<treasury, refunded>>
    BY DEF AddArtwork, SetAllowance, Tick, vars, listVars, moneyVars
  <1>3. allowance' \in Nat /\ (allowance' = allowance \/ drive = NoDrive)
    <2>1. ASSUME NEW n \in Grants, SetAllowance(n)
          PROVE  allowance' \in Nat /\ drive = NoDrive
      BY <1>1, <2>1, ClaimMinterAssumption DEF SetAllowance, AdminActs, OneDrive
    <2>2. allowance \in Nat
      BY <1>1 DEF TypeOK
    <2> QED BY <2>1, <2>2 DEF AddArtwork, Tick, vars
  <1>4. now' \in Nat /\ artwork' \in BOOLEAN
    <2>1. now \in Nat /\ artwork \in BOOLEAN
      BY <1>1 DEF TypeOK
    <2>2. now' = now \/ now' = now + 1
      BY DEF AddArtwork, SetAllowance, Tick, vars
    <2>3. artwork' = artwork \/ artwork' = TRUE
      BY DEF AddArtwork, SetAllowance, Tick, vars
    <2>4. now' \in Nat
      BY <2>1, <2>2
    <2>5. artwork' \in BOOLEAN
      BY <2>1, <2>3
    <2> QED BY <2>4, <2>5
  <1>5. TypeOK'
    BY <1>1, <1>2, <1>3, <1>4 DEF TypeOK, Ids
  <1> QED BY <1>2, <1>3, <1>5, QuietInv

\* Emptying the escrow of a list, in the lists.
LEMMA Emptied ==
    ASSUME TypeOK, NEW l \in Ids, lists' = [lists EXCEPT ![l].escrow = 0]
    PROVE  Changed(l, lists[l].minted, lists[l].claimers, 0)
  <1>1. lists \in [Ids -> Lists] /\ lists[l] \in Lists
    BY Listing DEF TypeOK
  <1>2. lists[l].minted \in Nat /\ lists[l].claimers \in Nat
    BY <1>1 DEF Lists
  <1>3. lists' = [lists EXCEPT ![l].minted = lists[l].minted, ![l].escrow = 0,
                               ![l].claimers = lists[l].claimers]
    BY <1>1 DEF Lists
  <1> QED BY <1>2, <1>3, ListChanges

\* release: by then there is nothing to release, since the launch did.
LEMMA ReleaseInv ==
    ASSUME IInv, NEW l \in Ids, Release(l)
    PROVE  IInv' /\ lists' = lists
  <1>1. /\ TypeOK /\ live /\ lists[l].escrow = 0 /\ lists[l] \in Lists
    BY Listing DEF IInv, OnlyTheDriveEscrows, Release
  <1>2. /\ lists \in [Ids -> Lists] /\ lists[l].asset \in Assets
        /\ held \in [Assets -> Nat] /\ treasury \in [Assets -> Nat]
    <2>1. lists \in [Ids -> Lists]
      BY <1>1, Listing DEF TypeOK
    <2>2. lists[l].asset \in Assets
      BY <1>1 DEF Lists
    <2>3. held \in [Assets -> Nat] /\ treasury \in [Assets -> Nat]
      BY <1>1 DEF TypeOK
    <2> QED BY <2>1, <2>2, <2>3
  <1>3. /\ lists' = [lists EXCEPT ![l].escrow = 0]
        /\ held' = [held EXCEPT ![lists[l].asset] = @ - 0]
        /\ treasury' = [treasury EXCEPT ![lists[l].asset] = @ + 0]
        /\ UNCHANGED <<now, live, admin, artwork, assuranceList, claims, drive, allowance,
                       purse, refunded>>
    BY <1>1 DEF Release, ReleaseEscrow
  <1>4. lists' = lists
    <2>1. [lists[l] EXCEPT !.escrow = 0] = lists[l]
      BY <1>1 DEF Lists
    <2> QED BY <1>2, <1>3, <2>1
  <1>5. held' = held
    BY <1>2, <1>3
  <1>6. treasury' = treasury
    BY <1>2, <1>3
  <1>7. UNCHANGED vars
    BY <1>3, <1>4, <1>5, <1>6 DEF vars, listVars, moneyVars
  <1> QED BY <1>4, <1>7, OtherInv

\* launch: all that was escrowed goes to the Treasury, and the drive is over.
LEMMA LaunchInv ==
    ASSUME IInv, Launch
    PROVE  IInv'
  <1>1. TypeOK /\ OneDrive /\ OnlyTheDriveEscrows /\ ClaimsWithinTree
    BY DEF IInv
  <1>2. /\ ~live /\ live' = TRUE /\ admin' = "treasury" /\ drive' = NoDrive
        /\ UNCHANGED <<now, artwork, assuranceList, claims, allowance, purse, refunded>>
    BY DEF Launch
  <1>3. CASE assuranceList = 0
    <2>1. lists' = lists /\ held' = held /\ treasury' = treasury /\ Ids' = Ids
      BY <1>3 DEF Launch, Ids
    <2>2. TypeOK'
      BY <1>1, <1>2, <2>1 DEF TypeOK, NoDrive
    <2>3. OneDrive' /\ OnlyTheDriveEscrows'
      <3>1. \A l \in Ids : l # 0
        BY <1>1, Listing
      <3> QED BY <1>1, <1>2, <1>3, <2>1, <3>1 DEF OneDrive, OnlyTheDriveEscrows
    <2>4. ClaimsWithinTree'
      BY <1>1, <1>2, <2>1 DEF ClaimsWithinTree
    <2>5. EscrowAddsUp' /\ NobodyPaysBeforeLaunch' /\ DriveStocked'
      BY <1>2 DEF EscrowAddsUp, NobodyPaysBeforeLaunch, DriveStocked
    <2> QED BY <2>2, <2>3, <2>4, <2>5 DEF IInv
  <1>4. CASE assuranceList # 0
    <2> DEFINE l == assuranceList
               x == lists[l].escrow
    <2>1. /\ l \in Ids /\ lists[l].asset = PaymentAsset /\ PaymentAsset \in Assets
          /\ lists[l] \in Lists /\ x \in Nat
      <3>1. l \in Ids
        BY <1>1, <1>4, TheDriveIsListed
      <3>2. lists[l] \in Lists
        BY <1>1, <3>1, Listing
      <3> QED BY <1>1, <1>4, <3>1, <3>2, ClaimMinterAssumption DEF OneDrive, Lists
    <2>2. /\ lists' = [lists EXCEPT ![l].escrow = 0]
          /\ held' = [held EXCEPT ![PaymentAsset] = @ - x]
          /\ treasury' = [treasury EXCEPT ![PaymentAsset] = @ + x]
      BY <1>4, <2>1 DEF Launch, ReleaseEscrow
    <2> HIDE DEF l, x
    <2>3. Changed(l, lists[l].minted, lists[l].claimers, 0)
      BY <1>1, <2>1, <2>2, Emptied
    <2>4. /\ lists' \in Seq(Lists) /\ Len(lists') = Len(lists) /\ Ids' = Ids
          /\ \A m \in Ids : m # l => lists'[m] = lists[m]
          /\ \A m \in Ids : SameTerms(m)
          /\ lists'[l].minted = lists[l].minted /\ lists'[l].claimers = lists[l].claimers
          /\ lists'[l].escrow = 0
      BY <2>3 DEF Changed
    <2>5. \A a \in Assets : held'[a] = 0
      <3>1. \A a \in Assets : held[a] = IF a = PaymentAsset THEN x ELSE 0
        BY <1>1, <1>2, <1>4 DEF OnlyTheDriveEscrows, x, l
      <3>2. held \in [Assets -> Nat]
        BY <1>1 DEF TypeOK
      <3> QED BY <2>1, <2>2, <3>1, <3>2
    <2>6. held' \in [Assets -> Nat] /\ treasury' \in [Assets -> Nat]
      BY <1>1, <2>1, <2>2, <2>5 DEF TypeOK
    <2>7. TypeOK'
      BY <1>1, <1>2, <2>4, <2>6 DEF TypeOK, NoDrive
    <2>8. OneDrive'
      <3>1. \A m \in Ids : lists'[m].threshold > 0 <=> m = assuranceList
        BY <1>1, <2>4 DEF OneDrive, SameTerms
      <3>2. lists'[l].asset = PaymentAsset
        BY <2>1, <2>4 DEF SameTerms
      <3> QED BY <1>2, <2>4, <3>1, <3>2 DEF OneDrive, l
    <2>9. OnlyTheDriveEscrows'
      <3>1. \A m \in Ids : lists'[m].escrow = 0
        BY <1>1, <2>4 DEF OnlyTheDriveEscrows, l
      <3> QED BY <1>2, <2>4, <2>5, <3>1 DEF OnlyTheDriveEscrows
    <2>10. ClaimsWithinTree'
      <3>1. \A m \in Ids : lists'[m].minted = lists[m].minted
                           /\ lists'[m].claimers = lists[m].claimers
        BY <2>4
      <3>2. \A m \in Ids, d \in Claimers : claims'[m][d].claimed = claims[m][d].claimed
        BY <1>2
      <3> QED BY <1>1, <2>4, <3>1, <3>2, SameTree
    <2>11. EscrowAddsUp' /\ NobodyPaysBeforeLaunch' /\ DriveStocked'
      BY <1>2 DEF EscrowAddsUp, NobodyPaysBeforeLaunch, DriveStocked
    <2> QED BY <2>7, <2>8, <2>9, <2>10, <2>11 DEF IInv
  <1> QED BY <1>3, <1>4

-----------------------------------------------------------------------------
(* The invariant.                                                          *)

\* Nothing is listed and nothing held at first.
LEMMA InitInv == Init => IInv
  <1> SUFFICES ASSUME Init PROVE IInv
    OBVIOUS
  <1>1. /\ lists = <<>> /\ claims = <<>> /\ assuranceList = 0 /\ drive = NoDrive
        /\ live = FALSE /\ admin = "launch_admin" /\ Ids = {}
    BY DEF Init, Ids
  <1>2. TypeOK
    <2>1. lists \in Seq(Lists) /\ Len(lists) = 0
      BY <1>1
    <2>2. claims \in [Ids -> [Claimers -> Records]]
      BY <1>1
    <2>3. drive \in [list : Nat, deadline : Nat] /\ assuranceList \in 0 .. Len(lists)
      BY <1>1, <2>1 DEF NoDrive
    <2>4. now \in Nat /\ live \in BOOLEAN /\ artwork \in BOOLEAN /\ allowance \in Nat
      BY DEF Init
    <2>5. purse \in [Claimers -> [Assets -> Nat]] /\ refunded \in [Claimers -> Nat]
      BY ClaimMinterAssumption DEF Init
    <2>6. held \in [Assets -> Nat] /\ treasury \in [Assets -> Nat]
      BY DEF Init
    <2> QED BY <1>1, <2>1, <2>2, <2>3, <2>4, <2>5, <2>6 DEF TypeOK
  <1>3. OneDrive /\ EscrowAddsUp /\ ClaimsWithinTree /\ DriveStocked
    BY <1>1 DEF OneDrive, EscrowAddsUp, ClaimsWithinTree, DriveStocked
  <1>4. OnlyTheDriveEscrows /\ NobodyPaysBeforeLaunch
    BY <1>1, ClaimMinterAssumption DEF Init, OnlyTheDriveEscrows, NobodyPaysBeforeLaunch
  <1> QED BY <1>2, <1>3, <1>4 DEF IInv

\* Every step keeps the invariant.
LEMMA NextInv ==
    ASSUME IInv, [Next]_vars
    PROVE  IInv'
  <1>1. Trees \subseteq LeafSets /\ Offers \subseteq Terms
    BY ClaimMinterAssumption
  <1>2. ASSUME NEW leaves \in Trees, NEW asset \in Assets, NEW t \in Offers,
               OpenList(leaves, asset, t)
        PROVE  IInv'
    BY <1>1, <1>2, OpenListInv
  <1>3. ASSUME NEW leaves \in Trees, NEW t \in Offers, OpenAssurance(leaves, t)
        PROVE  IInv'
    BY <1>1, <1>3, OpenAssuranceInv
  <1>4. ASSUME NEW c \in Claimers, NEW l \in Ids, NEW k \in 1 .. MaxBatch, Claim(c, l, k)
        PROVE  IInv'
    BY <1>4, ClaimInv
  <1>5. ASSUME NEW c \in Claimers, NEW l \in Ids, Refund(c, l)
        PROVE  IInv'
    BY <1>5, RefundInv
  <1>6. ASSUME NEW l \in Ids, Release(l)
        PROVE  IInv'
    BY <1>6, ReleaseInv
  <1>7. CASE Launch
    BY <1>7, LaunchInv
  <1>8. CASE AddArtwork \/ (\E n \in Grants : SetAllowance(n)) \/ Tick \/ UNCHANGED vars
    BY <1>8, OtherInv
  <1> QED BY <1>2, <1>3, <1>4, <1>5, <1>6, <1>7, <1>8 DEF Next

\* The inductive invariant: one drive, the only list that holds money, whose
\* escrow is what its claimers are recorded to have paid.
THEOREM ClaimsInvariant == Spec => []IInv
  <1>1. Init => IInv
    BY InitInv
  <1>2. IInv /\ [Next]_vars => IInv'
    BY NextInv
  <1> QED BY <1>1, <1>2, PTL DEF Spec

\* What is held in an asset is the escrow of its lists: all others have none.
LEMMA HeldIsEscrow == ASSUME IInv PROVE BooksAgree
  <1> DEFINE f == [l \in Ids |-> lists[l].escrow]
             Of(a) == {l \in Ids : lists[l].asset = a}
  <1>1. TypeOK /\ OneDrive /\ OnlyTheDriveEscrows /\ EscrowAddsUp
    BY DEF IInv
  <1>2. IsFiniteSet(Ids) /\ \A l \in Ids : f[l] \in Int
    <2>1. IsFiniteSet(1 .. Len(lists))
      BY <1>1, Listing, FS_Interval
    <2>2. \A l \in Ids : lists[l].escrow \in Int
      BY <1>1, Listing DEF Lists
    <2> QED BY <1>1, <2>1, <2>2, Listing
  <1>3. ASSUME NEW a \in Assets
        PROVE  held[a] = SumFunctionOnSet(f, Of(a))
    <2>1. Of(a) \subseteq Ids /\ IsFiniteSet(Of(a))
      BY <1>2, FS_Subset
    <2>2. CASE ~live /\ assuranceList # 0 /\ a = PaymentAsset
      <3> DEFINE d == assuranceList
                 rest == Of(a) \ {d}
      <3>1. d \in Of(a) /\ held[a] = f[d]
        BY <1>1, <2>2, TheDriveIsListed DEF OneDrive, OnlyTheDriveEscrows
      <3>2. IsFiniteSet(rest) /\ \A l \in rest : f[l] = 0
        BY <1>1, <2>1, FS_RemoveElement DEF OnlyTheDriveEscrows
      <3>3. \A l \in Of(a) : f[l] \in Int
        BY <1>2
      <3> HIDE DEF f, Of
      <3>4. SumFunctionOnSet(f, Of(a)) = f[d] + SumFunctionOnSet(f, rest)
        BY <2>1, <3>1, <3>3, SumTakesOut
      <3>5. SumFunctionOnSet(f, rest) = 0
        BY <3>2, SumZero
      <3>6. f[d] \in Int
        BY <3>1, <3>3
      <3> QED BY <3>1, <3>4, <3>5, <3>6
    <2>3. CASE ~(~live /\ assuranceList # 0 /\ a = PaymentAsset)
      <3>1. held[a] = 0
        BY <1>1, <2>3 DEF OnlyTheDriveEscrows
      <3>2. \A l \in Of(a) : f[l] = 0
        <4>1. SUFFICES ASSUME NEW l \in Of(a) PROVE live \/ l # assuranceList
          BY <1>1 DEF OnlyTheDriveEscrows
        <4>2. l \in Ids /\ l # 0 /\ lists[l].asset = a
          BY <1>1, Listing
        <4> QED BY <1>1, <2>3, <4>2 DEF OneDrive
      <3> HIDE DEF f, Of
      <3>3. SumFunctionOnSet(f, Of(a)) = 0
        BY <2>1, <3>2, SumZero
      <3> QED BY <3>1, <3>3
    <2> QED BY <2>2, <2>3
  <1>4. ASSUME NEW l \in Ids
        PROVE  IF live THEN lists[l].escrow = 0
               ELSE lists[l].escrow = SumFunction([c \in Claimers |-> claims[l][c].escrowed])
    <2> DEFINE g == [c \in Claimers |-> claims[l][c].escrowed]
    <2>1. SumFunction(g) = SumFunctionOnSet(g, Claimers)
      BY DEF SumFunction
    <2>2. CASE live
      BY <1>1, <2>2 DEF OnlyTheDriveEscrows
    <2>3. CASE ~live /\ l = assuranceList
      <3>1. l # 0
        BY <1>1, Listing
      <3>2. g = EscrowedIn(assuranceList)
        BY <2>3 DEF EscrowedIn
      <3> HIDE DEF g
      <3>3. lists[l].escrow = SumFunction(g)
        BY <1>1, <2>1, <2>3, <3>1, <3>2 DEF EscrowAddsUp
      <3> QED BY <2>3, <3>3 DEF g
    <2>4. CASE ~live /\ l # assuranceList
      <3>1. lists[l].escrow = 0 /\ \A c \in Claimers : g[c] = 0
        BY <1>1, <2>4 DEF OnlyTheDriveEscrows
      <3> HIDE DEF g
      <3>2. lists[l].escrow = SumFunction(g)
        BY <2>1, <3>1, SumZero, ClaimMinterAssumption
      <3> QED BY <2>4, <3>2 DEF g
    <2> QED BY <2>2, <2>3, <2>4
  <1> QED BY <1>3, <1>4 DEF BooksAgree

\* Both contracts have the deadline of the one drive.
LEMMA OneVerdict == ASSUME IInv PROVE SameVerdict
  <1>1. drive # NoDrive => /\ drive.list = assuranceList /\ assuranceList # 0
                           /\ drive.deadline = lists[assuranceList].deadline
    BY DEF IInv, OneDrive
  <1>2. assuranceList # 0 => lists[assuranceList].threshold > 0
    BY TheDriveIsListed DEF IInv, OneDrive
  <1> QED BY <1>1, <1>2 DEF SameVerdict, DriveFailed, Failed

\* Whatever is claimed in parts, refunded or released, by however many claimers:
\* the three books agree, nobody pays before the launch, the drive stays stocked
\* and its two deadlines never contradict each other.
THEOREM ClaimsKeepTheirBooks == Spec => []ClaimsInv
  <1>1. IInv => ClaimsInv
    BY HeldIsEscrow, OneVerdict DEF IInv, ClaimsInv
  <1> QED BY <1>1, ClaimsInvariant, PTL

-----------------------------------------------------------------------------
(* The state chart of the drive.                                           *)

\* The phase, case by case.
PhaseIs(p) ==
    \/ p = "live" /\ live
    \/ p = "none" /\ ~live /\ assuranceList = 0
    \/ p = "failed" /\ ~live /\ assuranceList # 0 /\ Failed(assuranceList)
    \/ /\ p = "met" /\ ~live /\ assuranceList # 0 /\ ~Failed(assuranceList)
       /\ lists[assuranceList].claimers >= lists[assuranceList].threshold
    \/ /\ p = "open" /\ ~live /\ assuranceList # 0 /\ ~Failed(assuranceList)
       /\ ~(lists[assuranceList].claimers >= lists[assuranceList].threshold)

\* The phase is the one whose conditions hold.
LEMMA PhaseTold == ASSUME NEW p, PhaseIs(p) PROVE Phase = p
  BY DEF PhaseIs, Phase

\* And so it is after a step.
LEMMA NextPhaseTold == ASSUME NEW p, PhaseIs(p)' PROVE Phase' = p
  BY DEF PhaseIs, Phase

\* The conditions of some phase always hold.
LEMMA SomePhase == \E p : PhaseIs(p)
  <1>1. CASE live
    BY <1>1 DEF PhaseIs
  <1>2. CASE ~live /\ assuranceList = 0
    BY <1>2 DEF PhaseIs
  <1>3. CASE ~live /\ assuranceList # 0
    <2>1. CASE Failed(assuranceList)
      BY <1>3, <2>1 DEF PhaseIs
    <2>2. CASE ~Failed(assuranceList)
      BY <1>3, <2>2 DEF PhaseIs
    <2> QED BY <2>1, <2>2
  <1> QED BY <1>1, <1>2, <1>3

\* A step that changes no record, payment or phase is invisible on the chart.
LEMMA Stutters ==
    ASSUME Recorded' = Recorded, UNCHANGED <<live, refunded>>, Phase' = Phase
    PROVE  UNCHANGED Life!lifeVars
  BY DEF Life!lifeVars

\* A step that leaves the list of the drive as it is does nothing to its chart.
LEMMA DriveUntouched ==
    ASSUME UNCHANGED <<now, live, assuranceList, refunded>>,
           assuranceList # 0 =>
              /\ lists'[assuranceList].threshold = lists[assuranceList].threshold
              /\ lists'[assuranceList].deadline = lists[assuranceList].deadline
              /\ lists'[assuranceList].claimers = lists[assuranceList].claimers
              /\ \A c \in Claimers : claims'[assuranceList][c].escrowed
                                        = claims[assuranceList][c].escrowed
    PROVE  UNCHANGED Life!lifeVars
  <1>1. Recorded' = Recorded
    BY DEF Recorded
  <1>2. assuranceList # 0 => (Failed(assuranceList)' <=> Failed(assuranceList))
    BY DEF Failed
  <1>3. \A p : PhaseIs(p) => PhaseIs(p)'
    BY <1>2 DEF PhaseIs
  <1>4. Phase' = Phase
    BY <1>3, SomePhase, PhaseTold, NextPhaseTold
  <1> QED BY <1>1, <1>4, Stutters

\* Another list is invisible on the chart.
LEMMA OpenListOnChart ==
    ASSUME TypeOK, NEW leaves \in LeafSets, NEW asset \in Assets, NEW t \in Terms,
           OpenList(leaves, asset, t)
    PROVE  UNCHANGED Life!lifeVars
  <1>1. Added(leaves, asset, t)
    BY AddListAdds DEF OpenList
  <1>2. assuranceList # 0 => /\ lists'[assuranceList] = lists[assuranceList]
                             /\ claims'[assuranceList] = claims[assuranceList]
    BY <1>1, TheDriveIsListed DEF Added
  <1>3. UNCHANGED <<now, live, assuranceList, refunded>>
    BY DEF OpenList, moneyVars
  <1> QED BY <1>2, <1>3, DriveUntouched

\* Opening a drive opens the chart's escrow.
LEMMA OpenAssuranceOnChart ==
    ASSUME TypeOK, NEW leaves \in LeafSets, NEW t \in Terms, OpenAssurance(leaves, t)
    PROVE  Life!Open
  <1> DEFINE n == Len(lists) + 1
  <1>1. /\ Added(leaves, PaymentAsset, t) /\ assuranceList = 0 /\ assuranceList' = n
        /\ ~live /\ ~live' /\ now' = now /\ refunded' = refunded
        /\ t.threshold > 0 /\ t.deadline > now
    BY AddListAdds, ClaimMinterAssumption DEF OpenAssurance, AddList, ValidTerms, moneyVars
  <1>2. /\ n \in Nat /\ n # 0 /\ t.threshold \in Nat /\ t.deadline \in Nat /\ now \in Nat
        /\ lists'[n].threshold = t.threshold /\ lists'[n].deadline = t.deadline
        /\ lists'[n].claimers = 0 /\ claims'[n] = [c \in Claimers |-> NoClaim]
    BY <1>1, Listing DEF Added, Terms, TypeOK
  <1> HIDE DEF n
  <1>3. PhaseIs("none")
    BY <1>1 DEF PhaseIs
  <1>4. PhaseIs("open")'
    BY <1>1, <1>2 DEF PhaseIs, Failed
  <1>5. Phase = "none" /\ Phase' = "open"
    BY <1>3, <1>4, PhaseTold, NextPhaseTold
  <1>6. Recorded' = Recorded
    <2>1. Recorded = [c \in Claimers |-> 0]
      BY <1>1 DEF Recorded
    <2>2. Recorded' = [c \in Claimers |-> 0]
      BY <1>1, <1>2 DEF Recorded, NoClaim
    <2> QED BY <2>1, <2>2
  <1> QED BY <1>1, <1>5, <1>6 DEF Life!Open

\* A claim on the drive before the launch pays into it; any other does nothing.
LEMMA ClaimOnChart ==
    ASSUME IInv, NEW c \in Claimers, NEW l \in Ids, NEW k \in 1 .. MaxBatch, Claim(c, l, k)
    PROVE  Life!Pay(c) \/ UNCHANGED Life!lifeVars
  <1>1. TypeOK /\ OneDrive
    BY DEF IInv
  <1>2. PICK cost \in Nat, e \in Nat :
           /\ e = (IF Escrows(l) THEN cost ELSE 0) /\ Claimed(c, l, k, e)
    BY <1>1, ClaimChanges
  <1>3. /\ UNCHANGED <<now, live, assuranceList, refunded>> /\ ~Failed(l)
    BY DEF Claim
  <1> DEFINE more == IF claims[l][c].claimed = 0 THEN 1 ELSE 0
  <1>4. /\ claims[l][c].escrowed \in Nat /\ more \in Nat
        /\ lists[l].claimers \in Nat /\ lists[l].threshold \in Nat
    BY <1>1, Listing DEF Lists, Records
  <1>5. /\ \A m \in Ids : m # l => lists'[m] = lists[m] /\ claims'[m] = claims[m]
        /\ \A m \in Ids : SameTerms(m)
        /\ lists'[l].claimers = lists[l].claimers + more
        /\ \A d \in Claimers : d # c => claims'[l][d] = claims[l][d]
        /\ claims'[l][c].escrowed = claims[l][c].escrowed + e
    BY <1>2 DEF Claimed, Changed, Recording
  <1>6. CASE live
    <2>1. e = 0
      BY <1>2, <1>6 DEF Escrows
    <2>2. \A m \in Ids, d \in Claimers : claims'[m][d].escrowed = claims[m][d].escrowed
      BY <1>4, <1>5, <2>1
    <2>3. Recorded' = Recorded
      BY <1>1, <1>3, <2>2, TheDriveIsListed DEF Recorded
    <2>4. Phase = "live" /\ Phase' = "live"
      BY <1>3, <1>6 DEF Phase
    <2> QED BY <1>3, <2>3, <2>4, Stutters
  <1>7. CASE l # assuranceList
    <2>1. assuranceList # 0 => /\ lists'[assuranceList] = lists[assuranceList]
                               /\ claims'[assuranceList] = claims[assuranceList]
      BY <1>1, <1>5, <1>7, TheDriveIsListed
    <2> QED BY <1>3, <2>1, DriveUntouched
  <1>8. CASE ~live /\ l = assuranceList
    <2>1. assuranceList # 0 /\ ~live' /\ assuranceList' = l /\ refunded' = refunded
      BY <1>1, <1>3, <1>8, Listing
    <2>2. /\ Recorded = [d \in Claimers |-> claims[l][d].escrowed]
          /\ Recorded' = [d \in Claimers |-> claims'[l][d].escrowed]
      BY <1>8, <2>1 DEF Recorded
    <2>3. /\ Recorded'[c] >= Recorded[c]
          /\ Recorded' = [Recorded EXCEPT ![c] = Recorded'[c]]
      <3>1. Recorded[c] = claims[l][c].escrowed /\ Recorded'[c] = claims'[l][c].escrowed
        BY <2>2
      <3>2. \A d \in Claimers : d # c => claims'[l][d].escrowed = claims[l][d].escrowed
        BY <1>5
      <3> QED BY <1>2, <1>4, <1>5, <2>2, <3>1, <3>2
    <2>4. ~Failed(l)'
      BY <1>3, <1>5, <1>8 DEF Failed, SameTerms
    <2>5. \/ PhaseIs("open") /\ (PhaseIs("open")' \/ PhaseIs("met")')
          \/ PhaseIs("met") /\ PhaseIs("met")'
      <3>1. lists'[l].threshold = lists[l].threshold
        BY <1>5 DEF SameTerms
      <3>2. CASE lists[l].claimers >= lists[l].threshold
        <4>1. lists'[l].claimers >= lists'[l].threshold
          BY <1>4, <1>5, <3>1, <3>2
        <4> QED BY <1>3, <1>8, <2>1, <2>4, <3>2, <4>1 DEF PhaseIs
      <3>3. CASE ~(lists[l].claimers >= lists[l].threshold)
        BY <1>3, <1>8, <2>1, <2>4, <3>3 DEF PhaseIs
      <3> QED BY <3>2, <3>3
    <2>6. \/ Phase = "open" /\ Phase' \in {"open", "met"}
          \/ Phase = "met" /\ Phase' = "met"
      BY <2>5, PhaseTold, NextPhaseTold
    <2> QED BY <1>8, <2>1, <2>3, <2>6 DEF Life!Pay
  <1> QED BY <1>6, <1>7, <1>8

\* A refund is the chart's, to the same claimer.
LEMMA RefundOnChart ==
    ASSUME IInv, NEW c \in Claimers, NEW l \in Ids, Refund(c, l)
    PROVE  Life!Refund(c)
  <1> DEFINE amount == claims[l][c].escrowed
  <1>1. TypeOK /\ OneDrive
    BY DEF IInv
  <1>2. /\ l = assuranceList /\ ~live /\ Failed(l) /\ amount > 0
        /\ UNCHANGED <<now, live, assuranceList>>
        /\ lists' = [lists EXCEPT ![l].escrow = @ - amount]
        /\ claims' = [claims EXCEPT ![l][c].escrowed = 0]
        /\ refunded' = [refunded EXCEPT ![c] = @ + amount]
    BY <1>1 DEF Refund, Failed, OneDrive
  <1>3. /\ l # 0 /\ lists \in [Ids -> Lists] /\ claims \in [Ids -> [Claimers -> Records]]
        /\ lists[l] \in Lists
    BY <1>1, Listing DEF TypeOK
  <1>4. lists'[l].threshold = lists[l].threshold /\ lists'[l].deadline = lists[l].deadline
    BY <1>2, <1>3 DEF Lists
  <1>5. PhaseIs("failed") /\ PhaseIs("failed")'
    BY <1>2, <1>3, <1>4 DEF PhaseIs, Failed
  <1>6. Phase = "failed" /\ Phase' = "failed"
    BY <1>5, PhaseTold, NextPhaseTold
  <1>7. /\ Recorded = [d \in Claimers |-> claims[l][d].escrowed]
        /\ Recorded' = [d \in Claimers |-> claims'[l][d].escrowed]
    BY <1>2, <1>3 DEF Recorded
  <1>8. /\ \A d \in Claimers : d # c => claims'[l][d] = claims[l][d]
        /\ claims'[l][c].escrowed = 0
    <2>1. claims[l] \in [Claimers -> Records] /\ claims[l][c] \in Records
      BY <1>3
    <2>2. claims'[l] = [claims[l] EXCEPT ![c].escrowed = 0]
      BY <1>2, <1>3
    <2> QED BY <2>1, <2>2 DEF Records
  <1>9. Recorded[c] = amount /\ Recorded' = [Recorded EXCEPT ![c] = 0]
    BY <1>7, <1>8
  <1> QED BY <1>2, <1>6, <1>9 DEF Life!Refund

\* A launch is the chart's.
LEMMA LaunchOnChart == ASSUME IInv, Launch PROVE Life!Launch
  <1>1. /\ ~live /\ live' = TRUE /\ MayLaunch
        /\ UNCHANGED <<now, assuranceList, claims, refunded>>
    BY DEF Launch
  <1>2. PhaseIs("none") \/ PhaseIs("met")
    <2>1. CASE assuranceList = 0
      BY <1>1, <2>1 DEF PhaseIs
    <2>2. CASE assuranceList # 0
      <3>1. drive # NoDrive /\ drive.list = assuranceList
        BY <1>1, <2>2 DEF IInv, OneDrive, NoDrive
      <3>2. Met(assuranceList)
        BY <1>1, <3>1 DEF MayLaunch
      <3> QED BY <1>1, <2>2, <3>2 DEF PhaseIs, Met
    <2> QED BY <2>1, <2>2
  <1>3. Phase \in {"none", "met"} /\ Phase' = "live"
    BY <1>1, <1>2, PhaseTold DEF Phase
  <1>4. Recorded' = Recorded
    BY <1>1 DEF Recorded
  <1> QED BY <1>1, <1>3, <1>4 DEF Life!Launch, Life!Nothing

\* Time fails an open drive, or is invisible.
LEMMA TickOnChart == ASSUME IInv, Tick PROVE Life!Fail \/ UNCHANGED Life!lifeVars
  <1>1. /\ now' = now + 1
        /\ UNCHANGED <<live, assuranceList, lists, claims, refunded>>
    BY DEF Tick, listVars, moneyVars
  <1>2. Recorded' = Recorded
    BY <1>1 DEF Recorded
  <1>3. now \in Nat /\ (assuranceList # 0 => lists[assuranceList].deadline \in Nat)
    BY TheDriveIsListed, Listing DEF IInv, TypeOK, Lists
  <1>4. assuranceList # 0 => (Failed(assuranceList) => Failed(assuranceList)')
    BY <1>1, <1>3 DEF Failed
  <1>5. PICK p : PhaseIs(p)
    BY SomePhase
  <1>6. PhaseIs(p)' \/ (p \in {"open", "met"} /\ PhaseIs("failed")')
    <2>1. CASE live \/ assuranceList = 0
      BY <1>1, <1>5, <2>1 DEF PhaseIs
    <2>2. CASE ~live /\ assuranceList # 0 /\ Failed(assuranceList)'
      BY <1>1, <1>5, <2>2 DEF PhaseIs
    <2>3. CASE ~live /\ assuranceList # 0 /\ ~Failed(assuranceList)'
      BY <1>1, <1>4, <1>5, <2>3 DEF PhaseIs
    <2> QED BY <2>1, <2>2, <2>3
  <1>7. Phase = p
    BY <1>5, PhaseTold
  <1>8. CASE PhaseIs(p)'
    BY <1>1, <1>2, <1>7, <1>8, NextPhaseTold, Stutters
  <1>9. CASE p \in {"open", "met"} /\ PhaseIs("failed")'
    <2>1. Phase' = "failed"
      BY <1>9, NextPhaseTold
    <2> QED BY <1>1, <1>2, <1>7, <1>9, <2>1 DEF Life!Fail
  <1> QED BY <1>6, <1>8, <1>9

\* Every step of the contracts is one of the chart, or none.
LEMMA NextOnChart == ASSUME IInv, [Next]_vars PROVE [Life!Next]_(Life!lifeVars)
  <1>1. TypeOK /\ Trees \subseteq LeafSets /\ Offers \subseteq Terms
    BY ClaimMinterAssumption DEF IInv
  <1>2. ASSUME NEW leaves \in Trees, NEW asset \in Assets, NEW t \in Offers,
               OpenList(leaves, asset, t)
        PROVE  UNCHANGED Life!lifeVars
    BY <1>1, <1>2, OpenListOnChart
  <1>3. ASSUME NEW leaves \in Trees, NEW t \in Offers, OpenAssurance(leaves, t)
        PROVE  Life!Next
    BY <1>1, <1>3, OpenAssuranceOnChart DEF Life!Next
  <1>4. ASSUME NEW c \in Claimers, NEW l \in Ids, NEW k \in 1 .. MaxBatch, Claim(c, l, k)
        PROVE  Life!Next \/ UNCHANGED Life!lifeVars
    BY <1>4, ClaimOnChart DEF Life!Next
  <1>5. ASSUME NEW c \in Claimers, NEW l \in Ids, Refund(c, l)
        PROVE  Life!Next
    BY <1>5, RefundOnChart DEF Life!Next
  <1>6. ASSUME NEW l \in Ids, Release(l)
        PROVE  UNCHANGED Life!lifeVars
    <2>1. lists' = lists
      BY <1>6, ReleaseInv
    <2> QED BY <1>6, <2>1, DriveUntouched DEF Release
  <1>7. CASE Launch
    BY <1>7, LaunchOnChart DEF Life!Next
  <1>8. CASE AddArtwork \/ (\E n \in Grants : SetAllowance(n)) \/ UNCHANGED vars
    <2>1. UNCHANGED <<now, live, assuranceList, refunded, lists, claims>>
      BY <1>8 DEF AddArtwork, SetAllowance, vars, listVars, moneyVars
    <2> QED BY <2>1, DriveUntouched
  <1>9. CASE Tick
    BY <1>9, TickOnChart DEF Life!Next
  <1> QED BY <1>2, <1>3, <1>4, <1>5, <1>6, <1>7, <1>8, <1>9 DEF Next

\* The contracts and the Manager implement the state chart: money leaves the
\* escrow whole, at a launch of a met drive, or to its claimer, once it failed.
THEOREM ClaimsFollowTheChart == Spec => FollowsChart
  <1>1. Init => Life!Init
    <2> SUFFICES ASSUME Init PROVE Life!Init
      OBVIOUS
    <2>1. PhaseIs("none")
      BY DEF Init, PhaseIs
    <2>2. Phase = "none"
      BY <2>1, PhaseTold
    <2> QED BY <2>2 DEF Init, Life!Init, Life!Nothing, Recorded
  <1>2. IInv /\ [Next]_vars => [Life!Next]_(Life!lifeVars)
    BY NextOnChart
  <1> QED BY <1>1, <1>2, ClaimsInvariant, PTL DEF Spec, FollowsChart, Life!LifeSpec
=============================================================================
