---------------------------- MODULE TokenProofs ----------------------------
(***************************************************************************)
(* Proofs about the Token for any wallets, contracts, number of tokens and *)
(* allowances: its bookkeeping of votes is exact, and it implements one    *)
(* token, one vote.                                                        *)
(***************************************************************************)
EXTENDS Token, FiniteSetTheorems, SequenceTheorems, TLAPS

-----------------------------------------------------------------------------
(* Counting tokens.                                                        *)

\* Sets of tokens are finite, so their sizes are natural numbers.
LEMMA TokensFinite ==
    ASSUME NEW S \in SUBSET TokenIds
    PROVE  IsFiniteSet(S) /\ Cardinality(S) \in Nat
  <1>1. IsFiniteSet(TokenIds)
    BY FS_Interval, TokenAssumption DEF TokenIds
  <1> QED BY <1>1, FS_Subset, FS_CardinalityType

\* Two sets of tokens that differ in at most one token.
LEMMA CountOne ==
    ASSUME NEW S \in SUBSET TokenIds, NEW T \in SUBSET TokenIds,
           NEW t, S \ {t} = T \ {t}
    PROVE  Cardinality(T) = Cardinality(S) - (IF t \in S THEN 1 ELSE 0)
                                          + (IF t \in T THEN 1 ELSE 0)
  <1>1. /\ IsFiniteSet(S) /\ Cardinality(S) \in Nat
        /\ IsFiniteSet(T) /\ Cardinality(T) \in Nat
    BY TokensFinite
  <1>2. Cardinality(S \ {t}) = IF t \in S THEN Cardinality(S) - 1 ELSE Cardinality(S)
    BY <1>1, FS_RemoveElement
  <1>3. Cardinality(T \ {t}) = IF t \in T THEN Cardinality(T) - 1 ELSE Cardinality(T)
    BY <1>1, FS_RemoveElement
  <1>4. Cardinality(S \ {t}) = Cardinality(T \ {t})
    BY Zenon
  <1> QED BY <1>1, <1>2, <1>3, <1>4

\* Tokens added to a set they were not in.
LEMMA CountNew ==
    ASSUME NEW S \in SUBSET TokenIds, NEW N \in SUBSET TokenIds, S \cap N = {}
    PROVE  Cardinality(S \cup N) = Cardinality(S) + Cardinality(N)
  <1>1. /\ IsFiniteSet(S) /\ Cardinality(S) \in Nat
        /\ IsFiniteSet(N) /\ Cardinality(N) \in Nat
    BY TokensFinite
  <1>2. Cardinality(S \cup N) = Cardinality(S) + Cardinality(N) - Cardinality(S \cap N)
    BY <1>1, FS_Union
  <1>3. Cardinality(S \cap N) = 0
    BY FS_EmptySet, Zenon
  <1> QED BY <1>1, <1>2, <1>3

-----------------------------------------------------------------------------
(* Checkpoints.                                                            *)

Ckpts == Seq(Checkpoint)

\* A checkpoint list stays one, and its newest entry is the value recorded.
LEMMA PushType ==
    ASSUME NEW s \in Ckpts, NEW v \in Nat, ledger \in 1 .. MaxLedger
    PROVE  PushChanged(s, v) \in Ckpts /\ Latest(PushChanged(s, v)) = v
  <1> DEFINE e == [ledger |-> ledger, votes |-> v]
  <1>1. e \in Checkpoint /\ e.votes = v
    BY DEF Checkpoint
  <1>2. CASE v = Latest(s)
    BY <1>2 DEF PushChanged
  <1>3. CASE v # Latest(s) /\ s # <<>> /\ s[Len(s)].ledger = ledger
    <2>1. Len(s) \in 1 .. Len(s)
      BY <1>3, EmptySeq DEF Ckpts
    <2>2. PushChanged(s, v) = [s EXCEPT ![Len(s)] = e]
      BY <1>3 DEF PushChanged, Push
    <2>3. /\ [s EXCEPT ![Len(s)] = e] \in Ckpts
          /\ Len([s EXCEPT ![Len(s)] = e]) = Len(s)
          /\ [s EXCEPT ![Len(s)] = e][Len(s)] = e
      BY <1>1, <2>1, ExceptSeq DEF Ckpts
    <2>4. [s EXCEPT ![Len(s)] = e] # <<>>
      BY <2>1, <2>3, EmptySeq
    <2> QED BY <1>1, <2>2, <2>3, <2>4 DEF Latest
  <1>4. CASE v # Latest(s) /\ ~(s # <<>> /\ s[Len(s)].ledger = ledger)
    <2>1. PushChanged(s, v) = Append(s, e)
      BY <1>4 DEF PushChanged, Push
    <2>2. /\ Append(s, e) \in Ckpts
          /\ Append(s, e) # <<>>
          /\ Append(s, e)[Len(Append(s, e))] = e
      BY <1>1, AppendProperties DEF Ckpts
    <2> QED BY <1>1, <2>1, <2>2 DEF Latest
  <1> QED BY <1>2, <1>3, <1>4

\* The newest checkpoint of a list is a number of votes.
LEMMA LatestType == ASSUME NEW s \in Ckpts PROVE Latest(s) \in Nat
  <1>1. CASE s = <<>>
    BY <1>1 DEF Latest
  <1>2. CASE s # <<>>
    <2>1. Len(s) \in 1 .. Len(s)
      BY <1>2, EmptySeq DEF Ckpts
    <2>2. s[Len(s)] \in Checkpoint
      BY <2>1, ElementOfSeq DEF Ckpts
    <2> QED BY <1>2, <2>2 DEF Latest, Checkpoint
  <1> QED BY <1>1, <1>2

\* What RecordVotes leaves behind.
LEMMA Recorded ==
    ASSUME TypeOK, NEW nv \in [Addresses -> Nat], NEW ns \in Nat, RecordVotes(nv, ns)
    PROVE  /\ ckpts' \in [Addresses -> Seq(Checkpoint)]
           /\ supplyCkpts' \in Seq(Checkpoint)
           /\ \A a \in Addresses : VotesOf(a)' = nv[a]
           /\ VotingSupply' = ns
  BY PushType DEF TypeOK, RecordVotes, VotesOf, VotingSupply, Ckpts

-----------------------------------------------------------------------------
(* The tokens behind each number.                                          *)

Holding(a) == {t \in TokenIds : owner[t] = a}
Counted(a) == {t \in TokenIds : TokenVotes(t) /\ delegatee[owner[t]] = a}
VotingTokens == {t \in TokenIds : TokenVotes(t)}

\* A step that records a recount of the tokens keeps the votes exact.
LEMMA Recount ==
    ASSUME TypeOK, NEW nv, NEW ns, RecordVotes(nv, ns),
           \A a \in Addresses : nv[a] = Cardinality(Counted(a)'),
           ns = Cardinality(VotingTokens')
    PROVE  /\ ckpts' \in [Addresses -> Seq(Checkpoint)]
           /\ supplyCkpts' \in Seq(Checkpoint)
           /\ \A a \in Addresses : VotesOf(a)' = Cardinality(Counted(a)')
           /\ VotingSupply' = Cardinality(VotingTokens')
  <1>1. /\ \A a \in Addresses : Counted(a)' \in SUBSET TokenIds
        /\ VotingTokens' \in SUBSET TokenIds
    BY DEF Counted, VotingTokens
  <1>2. /\ \A a \in Addresses : nv[a] \in Nat
        /\ ns \in Nat
    BY <1>1, TokensFinite
  <1>3. /\ ckpts' = [a \in Addresses |-> PushChanged(ckpts[a], nv[a])]
        /\ supplyCkpts' = PushChanged(supplyCkpts, ns)
    BY DEF RecordVotes
  <1>4. \A a \in Addresses : ckpts[a] \in Ckpts /\ supplyCkpts \in Ckpts
    BY DEF TypeOK, Ckpts
  <1>5. \A a \in Addresses : /\ PushChanged(ckpts[a], nv[a]) \in Ckpts
                             /\ Latest(PushChanged(ckpts[a], nv[a])) = nv[a]
    BY <1>2, <1>4, PushType DEF TypeOK
  <1>6. PushChanged(supplyCkpts, ns) \in Ckpts /\ Latest(PushChanged(supplyCkpts, ns)) = ns
    BY <1>2, PushType DEF TypeOK, Ckpts
  <1> QED BY <1>3, <1>5, <1>6 DEF VotesOf, VotingSupply, Ckpts

\* The invariant, read as sets of tokens.
LEMMA Exact ==
    ASSUME IndInv
    PROVE  /\ \A a \in Addresses : /\ balance[a] = Cardinality(Holding(a))
                                   /\ VotesOf(a) = Cardinality(Counted(a))
           /\ VotingSupply = Cardinality(VotingTokens)
  BY DEF IndInv, UnitsMatchBalances, VotesMatchTokens, Holding, Counted, VotingTokens

\* Moving a token (transfer, transfer_from, dao_transfer, agent_transfer) keeps
\* the invariant, whether either side is in custody or delegated.
LEMMA MoveTokenInv ==
    ASSUME IndInv, NEW from \in Addresses, NEW to \in Addresses, NEW t \in TokenIds,
           MoveToken(from, to, t)
    PROVE  IndInv'
  <1> DEFINE Bit(b) == IF b THEN 1 ELSE 0
  <1>1. /\ TypeOK /\ None \notin Addresses
        /\ owner[t] = from
        /\ owner' = [owner EXCEPT ![t] = to]
        /\ delegatee' = SelfDelegated({to})
        /\ UNCHANGED <<phaseVars, settings, registryVars, minted, operators, ledger>>
    BY TokenAssumption DEF MoveToken, IndInv
  <1>2. \A s \in TokenIds : owner'[s] = IF s = t THEN to ELSE owner[s]
    BY <1>1 DEF TypeOK
  <1>3. \A a \in Addresses : IsCustody(a)' <=> IsCustody(a)
    BY <1>1 DEF IsCustody, registryVars
  <1>4. \A s \in TokenIds : TokenVotes(s) => delegatee[owner[s]] \in Addresses
    BY <1>1 DEF IndInv, VotesMatchTokens, TokenVotes, TypeOK
  <1>5. /\ delegatee' \in [Addresses -> Addresses \cup {None}]
        /\ \A s \in TokenIds : TokenVotes(s) => delegatee'[owner[s]] = delegatee[owner[s]]
        /\ ~IsCustody(to) => delegatee'[to] # None
    BY <1>1, <1>4 DEF SelfDelegated, TypeOK, TokenVotes
  <1>6. \A s \in TokenIds \ {t} : /\ TokenVotes(s)' <=> TokenVotes(s)
                                  /\ TokenVotes(s) => delegatee'[owner'[s]] = delegatee[owner[s]]
    BY <1>1, <1>2, <1>3, <1>5 DEF TokenVotes, TypeOK
  <1>7. /\ TokenVotes(t) <=> ~IsCustody(from)
        /\ TokenVotes(t)' <=> ~IsCustody(to)
    BY <1>1, <1>2, <1>3 DEF TokenVotes
  <1>8. \A s \in TokenIds : TokenVotes(s)' => delegatee'[owner'[s]] # None
    BY <1>1, <1>2, <1>4, <1>5, <1>6, <1>7
  <1>9. \A a \in Addresses :
           /\ balance'[a] = Cardinality(Holding(a)')
           /\ balance'[a] \in Nat
    <2> TAKE a \in Addresses
    <2>1. /\ Holding(a) \in SUBSET TokenIds /\ Holding(a)' \in SUBSET TokenIds
          /\ Holding(a) \ {t} = Holding(a)' \ {t}
          /\ t \in Holding(a) <=> a = from
          /\ t \in Holding(a)' <=> a = to
      BY <1>1, <1>2 DEF Holding
    <2>2. Cardinality(Holding(a)') = Cardinality(Holding(a)) - Bit(t \in Holding(a))
                                                         + Bit(t \in Holding(a)')
      BY <2>1, CountOne
    <2>3. Cardinality(Holding(a)') \in Nat
      BY <2>1, TokensFinite
    <2>4. balance'[a] = balance[a] - Bit(a = from) + Bit(a = to)
      BY DEF MoveToken, When
    <2> QED BY <2>1, <2>2, <2>3, <2>4, Exact
  <1>10. \A a \in Addresses : units'[a] = IF IsCustody(a)' THEN 0 ELSE balance'[a]
    <2> TAKE a \in Addresses
    <2>1. units'[a] = units[a] - Bit(a = VotingHolder(from)) + Bit(a = VotingHolder(to))
      BY DEF MoveToken, TransferVotingUnits, When
    <2>2. balance'[a] = balance[a] - Bit(a = from) + Bit(a = to)
      BY DEF MoveToken, When
    <2>3. units[a] = IF IsCustody(a) THEN 0 ELSE balance[a]
      BY DEF IndInv, UnitsMatchBalances
    <2>4. /\ a = VotingHolder(from) <=> a = from /\ ~IsCustody(a)
          /\ a = VotingHolder(to) <=> a = to /\ ~IsCustody(a)
      BY <1>1 DEF VotingHolder
    <2>5. balance[a] \in Nat
      BY <1>1 DEF TypeOK
    <2> QED BY <1>3, <2>1, <2>2, <2>3, <2>4, <2>5
  <1>11. \A a \in Addresses : Cardinality(Counted(a)') =
            VotesOf(a) - Bit(~IsCustody(from) /\ delegatee'[from] = a)
                       + Bit(~IsCustody(to) /\ delegatee'[to] = a)
    <2> TAKE a \in Addresses
    <2>1. /\ Counted(a) \in SUBSET TokenIds /\ Counted(a)' \in SUBSET TokenIds
          /\ Counted(a) \ {t} = Counted(a)' \ {t}
          /\ t \in Counted(a) <=> ~IsCustody(from) /\ delegatee'[from] = a
          /\ t \in Counted(a)' <=> ~IsCustody(to) /\ delegatee'[to] = a
      BY <1>1, <1>2, <1>5, <1>6, <1>7 DEF Counted
    <2>2. Cardinality(Counted(a)') = Cardinality(Counted(a)) - Bit(t \in Counted(a))
                                                         + Bit(t \in Counted(a)')
      BY <2>1, CountOne
    <2> QED BY <2>1, <2>2, Exact
  <1>12. Cardinality(VotingTokens') = VotingSupply - Bit(~IsCustody(from)) + Bit(~IsCustody(to))
    <2>1. /\ VotingTokens \in SUBSET TokenIds /\ VotingTokens' \in SUBSET TokenIds
          /\ VotingTokens \ {t} = VotingTokens' \ {t}
          /\ t \in VotingTokens <=> ~IsCustody(from)
          /\ t \in VotingTokens' <=> ~IsCustody(to)
      BY <1>6, <1>7 DEF VotingTokens
    <2>2. Cardinality(VotingTokens') = Cardinality(VotingTokens) - Bit(t \in VotingTokens)
                                                         + Bit(t \in VotingTokens')
      BY <2>1, CountOne
    <2> QED BY <2>1, <2>2, Exact
  <1> DEFINE Through(a, x) == x # None /\ delegatee'[x] = a
             nv == [a \in Addresses |-> VotesOf(a) - When(Through(a, VotingHolder(from)), 1)
                                              + When(Through(a, VotingHolder(to)), 1)]
             ns == VotingSupply + When(VotingHolder(from) = None, 1)
                                - When(VotingHolder(to) = None, 1)
  <1>13. RecordVotes(nv, ns)
    BY DEF MoveToken, TransferVotingUnits
  <1>14. \A a \in Addresses : nv[a] = Cardinality(Counted(a)')
    BY <1>1, <1>11 DEF VotingHolder, When
  <1>15. ns = Cardinality(VotingTokens')
    <2>1. Cardinality(VotingTokens') \in Nat /\ VotingSupply \in Nat
      BY TokensFinite, Exact DEF VotingTokens
    <2> QED BY <1>1, <1>12, <2>1 DEF VotingHolder, When
  <1>16. /\ ckpts' \in [Addresses -> Seq(Checkpoint)]
         /\ supplyCkpts' \in Seq(Checkpoint)
         /\ \A a \in Addresses : VotesOf(a)' = Cardinality(Counted(a)')
         /\ VotingSupply' = Cardinality(VotingTokens')
    <2> HIDE DEF nv, ns
    <2> QED BY <1>1, <1>13, <1>14, <1>15, Recount
  <1>17. VotesMatchTokens'
    BY <1>8, <1>16 DEF VotesMatchTokens, Counted, VotingTokens
  <1>18. UnitsMatchBalances'
    BY <1>9, <1>10 DEF UnitsMatchBalances, Holding
  <1>19. TypeOK'
    <2>1. units' \in [Addresses -> Nat] /\ balance' \in [Addresses -> Nat]
      BY <1>9, <1>10 DEF MoveToken, TransferVotingUnits
    <2>2. owner' \in [TokenIds -> Addresses \cup {None}]
      BY <1>1 DEF TypeOK
    <2>3. approval' \in [TokenIds -> Approvals \cup {NoApproval}]
      BY <1>1 DEF MoveToken, TypeOK
    <2> QED BY <1>1, <1>5, <1>16, <2>1, <2>2, <2>3
        DEF TypeOK, phaseVars, registryVars, Checkpoint
  <1>20. (live => admin = Treasury)' /\ (\A s \in TokenIds : owner[s] = None <=> s >= minted)'
    BY <1>1, <1>2 DEF IndInv, phaseVars
  <1> QED BY <1>17, <1>18, <1>19, <1>20 DEF IndInv

\* Minting any number of tokens to any recipients keeps the invariant.
LEMMA MintToInv ==
    ASSUME IndInv, NEW minter, NEW n \in Nat \ {0},
           NEW to \in [minted .. minted + n - 1 -> Addresses], MintTo(minter, n, to)
    PROVE  IndInv'
  <1> DEFINE ids == minted .. minted + n - 1
  <1>1. /\ TypeOK /\ None \notin Addresses
        /\ DOMAIN to = ids
        /\ minted + n <= MaxTokens
        /\ minted' = minted + n
        /\ owner' = [t \in TokenIds |-> IF t \in ids THEN to[t] ELSE owner[t]]
        /\ delegatee' = SelfDelegated({to[t] : t \in ids})
        /\ UNCHANGED <<phaseVars, settings, modules, agents, approvalVars, ledger>>
    BY TokenAssumption DEF MintTo, IndInv
  <1>2. /\ ids \subseteq TokenIds
        /\ \A t \in ids : owner[t] = None /\ owner'[t] = to[t] /\ to[t] \in Addresses
        /\ \A t \in TokenIds \ ids : owner'[t] = owner[t]
    BY <1>1, TokenAssumption DEF TokenIds, TypeOK, IndInv
  <1>3. \A a \in Addresses : IsCustody(a)' <=> IsCustody(a)
    BY <1>1 DEF IsCustody
  <1>4. \A s \in TokenIds : TokenVotes(s) => delegatee[owner[s]] \in Addresses
    BY <1>1 DEF IndInv, VotesMatchTokens, TokenVotes, TypeOK
  <1>5. /\ delegatee' \in [Addresses -> Addresses \cup {None}]
        /\ \A s \in TokenIds : TokenVotes(s) => delegatee'[owner[s]] = delegatee[owner[s]]
        /\ \A s \in ids : ~IsCustody(to[s]) => delegatee'[to[s]] # None
    BY <1>1, <1>2, <1>4 DEF SelfDelegated, TypeOK, TokenVotes
  <1>6. \A s \in TokenIds \ ids : /\ TokenVotes(s)' <=> TokenVotes(s)
                                  /\ TokenVotes(s) => delegatee'[owner'[s]] = delegatee[owner[s]]
    <2>1. \A s \in TokenIds : owner[s] \in Addresses \cup {None}
      BY <1>1 DEF TypeOK
    <2> QED BY <1>2, <1>3, <1>5, <2>1 DEF TokenVotes
  <1>7. \A s \in ids : /\ TokenVotes(s)' <=> ~IsCustody(to[s])
                       /\ ~TokenVotes(s)
    BY <1>1, <1>2, <1>3 DEF TokenVotes
  <1>8. \A s \in TokenIds : TokenVotes(s)' => delegatee'[owner'[s]] # None
    BY <1>1, <1>2, <1>4, <1>5, <1>6, <1>7
  <1>9. \A a \in Addresses : /\ balance'[a] = Cardinality(Holding(a)')
                             /\ balance'[a] \in Nat
    <2> TAKE a \in Addresses
    <2> DEFINE N == {t \in ids : to[t] = a}
    <2>1. /\ Holding(a) \in SUBSET TokenIds /\ N \in SUBSET TokenIds
          /\ Holding(a) \cap N = {}
      BY <1>1, <1>2 DEF Holding
    <2>2. Holding(a)' = Holding(a) \cup N
      BY <1>1, <1>2 DEF Holding
    <2>3. Cardinality(Holding(a) \cup N) = Cardinality(Holding(a)) + Cardinality(N)
      BY <2>1, CountNew
    <2>4. balance'[a] = balance[a] + Cardinality(N)
      BY <1>1 DEF MintTo
    <2>5. Cardinality(Holding(a) \cup N) \in Nat
      BY <2>1, TokensFinite
    <2> HIDE DEF N
    <2> QED BY <2>2, <2>3, <2>4, <2>5, Exact
  <1>10. \A a \in Addresses : units'[a] = IF IsCustody(a)' THEN 0 ELSE balance'[a]
    <2> TAKE a \in Addresses
    <2> DEFINE N == {t \in ids : to[t] = a}
               V == {t \in ids : ~IsCustody(to[t]) /\ to[t] = a}
    <2>1. /\ units'[a] = units[a] + Cardinality(V)
          /\ balance'[a] = balance[a] + Cardinality(N)
      BY <1>1 DEF MintTo
    <2>2. units[a] = IF IsCustody(a) THEN 0 ELSE balance[a]
      BY DEF IndInv, UnitsMatchBalances
    <2>3. CASE IsCustody(a)
      <3>1. V = {}
        BY <2>3
      <3>2. Cardinality(V) = 0
        BY <3>1, FS_EmptySet, Zenon
      <3> QED BY <1>3, <2>1, <2>2, <2>3, <3>2
    <2>4. CASE ~IsCustody(a)
      <3>1. V = N
        BY <2>4
      <3> HIDE DEF V, N
      <3> QED BY <1>3, <2>1, <2>2, <2>4, <3>1
    <2> QED BY <2>3, <2>4
  <1>11. \A a \in Addresses : Cardinality(Counted(a)') = VotesOf(a) +
            Cardinality({t \in ids : ~IsCustody(to[t]) /\ delegatee'[to[t]] = a})
    <2> TAKE a \in Addresses
    <2> DEFINE N == {t \in ids : ~IsCustody(to[t]) /\ delegatee'[to[t]] = a}
    <2>1. /\ Counted(a) \in SUBSET TokenIds /\ N \in SUBSET TokenIds
          /\ Counted(a) \cap N = {}
      BY <1>2, <1>7 DEF Counted
    <2>2. Counted(a)' = Counted(a) \cup N
      BY <1>2, <1>6, <1>7 DEF Counted
    <2>3. Cardinality(Counted(a) \cup N) = Cardinality(Counted(a)) + Cardinality(N)
      BY <2>1, CountNew
    <2>4. Cardinality(Counted(a)') = VotesOf(a) + Cardinality(N)
      <3> HIDE DEF N
      <3> QED BY <2>2, <2>3, Exact
    <2> QED BY <2>4
  <1>12. Cardinality(VotingTokens') = VotingSupply +
            Cardinality({t \in ids : ~IsCustody(to[t])})
    <2> DEFINE N == {t \in ids : ~IsCustody(to[t])}
    <2>1. /\ VotingTokens \in SUBSET TokenIds /\ N \in SUBSET TokenIds
          /\ VotingTokens \cap N = {}
      BY <1>2, <1>7 DEF VotingTokens
    <2>2. VotingTokens' = VotingTokens \cup N
      BY <1>2, <1>6, <1>7 DEF VotingTokens
    <2>3. Cardinality(VotingTokens \cup N) = Cardinality(VotingTokens) + Cardinality(N)
      BY <2>1, CountNew
    <2>4. Cardinality(VotingTokens') = VotingSupply + Cardinality(N)
      <3> HIDE DEF N
      <3> QED BY <2>2, <2>3, Exact
    <2> QED BY <2>4
  <1> DEFINE nv == [a \in Addresses |-> VotesOf(a) + Cardinality(
                       {t \in ids : ~IsCustody(to[t]) /\ delegatee'[to[t]] = a})]
             ns == VotingSupply + Cardinality({t \in ids : ~IsCustody(to[t])})
  <1>13. RecordVotes(nv, ns)
    BY <1>1 DEF MintTo
  <1>14. \A a \in Addresses : nv[a] = Cardinality(Counted(a)')
    BY <1>11
  <1>15. ns = Cardinality(VotingTokens')
    BY <1>12
  <1>16. /\ ckpts' \in [Addresses -> Seq(Checkpoint)]
         /\ supplyCkpts' \in Seq(Checkpoint)
         /\ \A a \in Addresses : VotesOf(a)' = Cardinality(Counted(a)')
         /\ VotingSupply' = Cardinality(VotingTokens')
    <2> HIDE DEF nv, ns
    <2> QED BY <1>1, <1>13, <1>14, <1>15, Recount
  <1>17. VotesMatchTokens'
    BY <1>8, <1>16 DEF VotesMatchTokens, Counted, VotingTokens
  <1>18. UnitsMatchBalances'
    BY <1>9, <1>10 DEF UnitsMatchBalances, Holding
  <1>19. TypeOK'
    <2>1. units' \in [Addresses -> Nat] /\ balance' \in [Addresses -> Nat]
      <3>1. /\ units' = [a \in Addresses |-> units'[a]]
            /\ balance' = [a \in Addresses |-> balance'[a]]
        BY DEF MintTo
      <3> QED BY <1>9, <1>10, <3>1
    <2>2. owner' \in [TokenIds -> Addresses \cup {None}] /\ minted' \in 0 .. MaxTokens
      BY <1>1, <1>2, TokenAssumption DEF TypeOK
    <2>3. allowance' \in [Contracts -> Allowances]
      <3>1. allowance \in [Contracts -> 0 .. Unlimited]
        BY <1>1 DEF TypeOK, Allowances
      <3>2. SpendMintAuthority(minter, n)
        BY DEF MintTo
      <3> QED BY <3>1, <3>2, TokenAssumption DEF SpendMintAuthority, Registered, Allowances
    <2> QED BY <1>1, <1>5, <1>16, <2>1, <2>2, <2>3
        DEF TypeOK, phaseVars, approvalVars, Checkpoint
  <1>20. (live => admin = Treasury)' /\ (\A s \in TokenIds : owner[s] = None <=> s >= minted)'
    BY <1>1, <1>2 DEF IndInv, phaseVars, TokenIds, TypeOK
  <1> QED BY <1>17, <1>18, <1>19, <1>20 DEF IndInv

\* A step that changes no token, no delegation and nobody's custody status
\* while it owns a token leaves every count as it was.
LEMMA CountsKept ==
    ASSUME IndInv, TypeOK', UNCHANGED <<owner, minted, balance, voteVars>>,
           (live => admin = Treasury)',
           \A a \in Addresses : balance[a] > 0 => (IsCustody(a)' <=> IsCustody(a)),
           \A a \in Addresses : balance[a] = 0 => units[a] = 0
    PROVE  IndInv'
  <1>1. TypeOK /\ None \notin Addresses
    BY TokenAssumption DEF IndInv
  <1>2. \A t \in TokenIds : owner[t] # None => owner[t] \in Addresses /\ balance[owner[t]] > 0
    <2> SUFFICES ASSUME NEW t \in TokenIds, owner[t] # None
                 PROVE  owner[t] \in Addresses /\ balance[owner[t]] > 0
      OBVIOUS
    <2>1. owner[t] \in Addresses
      BY <1>1 DEF TypeOK
    <2>2. Holding(owner[t]) \in SUBSET TokenIds /\ Holding(owner[t]) # {}
      BY DEF Holding
    <2>3. Cardinality(Holding(owner[t])) # 0 /\ Cardinality(Holding(owner[t])) \in Nat
      BY <2>2, TokensFinite, FS_EmptySet
    <2> QED BY <2>1, <2>3, Exact
  <1>3. \A t \in TokenIds : TokenVotes(t)' <=> TokenVotes(t)
    BY <1>2 DEF TokenVotes
  <1>4. VotesMatchTokens'
    BY <1>3 DEF IndInv, VotesMatchTokens, voteVars, VotesOf, VotingSupply
  <1>5. \A a \in Addresses : units[a] = IF IsCustody(a)' THEN 0 ELSE balance[a]
    <2> TAKE a \in Addresses
    <2>1. units[a] = IF IsCustody(a) THEN 0 ELSE balance[a]
      BY DEF IndInv, UnitsMatchBalances
    <2>2. balance[a] \in Nat
      BY <1>1 DEF TypeOK
    <2> QED BY <2>1, <2>2
  <1>6. UnitsMatchBalances'
    BY <1>5 DEF IndInv, UnitsMatchBalances, voteVars
  <1> QED BY <1>4, <1>6 DEF IndInv

\* The same, when nobody's custody status changes at all.
LEMMA VotesUntouched ==
    ASSUME IndInv, TypeOK', UNCHANGED <<owner, minted, balance, voteVars>>,
           (live => admin = Treasury)',
           \A a \in Addresses : IsCustody(a)' <=> IsCustody(a)
    PROVE  IndInv'
  <1>1. \A a \in Addresses : balance[a] = 0 => units[a] = 0
    BY DEF IndInv, UnitsMatchBalances
  <1> QED BY <1>1, CountsKept

\* A module that starts or stops being custody while it owns tokens takes
\* its tokens' votes out of the supply, or puts them back.
LEMMA CustodyMove ==
    ASSUME IndInv, NEW m \in Contracts, balance[m] > 0,
           UNCHANGED <<owner, minted, balance>>,
           delegatee' \in [Addresses -> Addresses \cup {None}],
           delegatee'[m] \in Addresses,
           \A a \in Addresses \ {m} : /\ IsCustody(a)' <=> IsCustody(a)
                                      /\ delegatee'[a] = delegatee[a],
           IsCustody(m)' <=> ~IsCustody(m),
           ~IsCustody(m) => delegatee'[m] = delegatee[m],
           TransferVotingUnits(VotingHolder(m), VotingHolder(m)', balance[m], delegatee')
    PROVE  /\ VotesMatchTokens' /\ UnitsMatchBalances'
           /\ units' \in [Addresses -> Nat]
           /\ ckpts' \in [Addresses -> Seq(Checkpoint)]
           /\ supplyCkpts' \in Seq(Checkpoint)
  <1> DEFINE k == balance[m]
             H == Holding(m)
  <1>1. /\ TypeOK /\ None \notin Addresses /\ m \in Addresses
        /\ k \in Nat /\ k = Cardinality(H) /\ H \in SUBSET TokenIds
    BY TokenAssumption, Exact DEF IndInv, TypeOK, Addresses, Holding
  <1>2. \A s \in TokenIds : owner[s] \in Addresses \cup {None}
    BY <1>1 DEF TypeOK
  <1>3. /\ \A s \in TokenIds \ H : /\ TokenVotes(s)' <=> TokenVotes(s)
                                   /\ TokenVotes(s) => delegatee'[owner[s]] = delegatee[owner[s]]
        /\ \A s \in H : /\ TokenVotes(s)' <=> IsCustody(m)
                        /\ TokenVotes(s) <=> ~IsCustody(m)
    BY <1>1, <1>2 DEF TokenVotes, Holding
  <1>4. \A s \in TokenIds : TokenVotes(s)' => delegatee'[owner'[s]] # None
    BY <1>1, <1>2, <1>3 DEF IndInv, VotesMatchTokens, Holding
  <1>5. /\ VotingHolder(m) = IF IsCustody(m) THEN None ELSE m
        /\ VotingHolder(m)' = IF IsCustody(m) THEN m ELSE None
    BY DEF VotingHolder
  <1>6. \A a \in Addresses : Cardinality(Counted(a)') =
            IF delegatee'[m] # a THEN VotesOf(a)
            ELSE IF IsCustody(m) THEN VotesOf(a) + k ELSE VotesOf(a) - k
    <2> TAKE a \in Addresses
    <2>0. Counted(a) \in SUBSET TokenIds /\ Counted(a)' \in SUBSET TokenIds
      BY DEF Counted
    <2>1. CASE delegatee'[m] # a
      <3>1. Counted(a)' = Counted(a)
        BY <1>3, <2>1 DEF Counted, Holding
      <3> QED BY <2>1, <3>1, Exact
    <2>2. CASE delegatee'[m] = a /\ IsCustody(m)
      <3>1. Counted(a)' = Counted(a) \cup H /\ Counted(a) \cap H = {}
        BY <1>1, <1>3, <2>2 DEF Counted, Holding
      <3>2. Cardinality(Counted(a) \cup H) = Cardinality(Counted(a)) + Cardinality(H)
        BY <1>1, <2>0, <3>1, CountNew
      <3> HIDE DEF H
      <3> QED BY <1>1, <2>2, <3>1, <3>2, Exact
    <2>3. CASE delegatee'[m] = a /\ ~IsCustody(m)
      <3>1. Counted(a) = Counted(a)' \cup H /\ Counted(a)' \cap H = {}
        BY <1>1, <1>3, <2>3 DEF Counted, Holding
      <3>2. Cardinality(Counted(a)' \cup H) = Cardinality(Counted(a)') + Cardinality(H)
        BY <1>1, <2>0, <3>1, CountNew
      <3>3. Cardinality(Counted(a)') \in Nat
        BY <2>0, TokensFinite
      <3>4. VotesOf(a) = Cardinality(Counted(a)' \cup H)
        BY <3>1, Exact
      <3> HIDE DEF H
      <3> QED BY <1>1, <2>3, <3>2, <3>3, <3>4
    <2> QED BY <2>1, <2>2, <2>3
  <1>7. Cardinality(VotingTokens') =
            IF IsCustody(m) THEN VotingSupply + k ELSE VotingSupply - k
    <2>0. VotingTokens \in SUBSET TokenIds /\ VotingTokens' \in SUBSET TokenIds
      BY DEF VotingTokens
    <2>1. CASE IsCustody(m)
      <3>1. VotingTokens' = VotingTokens \cup H /\ VotingTokens \cap H = {}
        BY <1>1, <1>3, <2>1 DEF VotingTokens
      <3>2. Cardinality(VotingTokens \cup H) = Cardinality(VotingTokens) + Cardinality(H)
        BY <1>1, <2>0, <3>1, CountNew
      <3> HIDE DEF H
      <3> QED BY <1>1, <2>1, <3>1, <3>2, Exact
    <2>2. CASE ~IsCustody(m)
      <3>1. VotingTokens = VotingTokens' \cup H /\ VotingTokens' \cap H = {}
        BY <1>1, <1>3, <2>2 DEF VotingTokens
      <3>2. Cardinality(VotingTokens' \cup H) = Cardinality(VotingTokens') + Cardinality(H)
        BY <1>1, <2>0, <3>1, CountNew
      <3>3. Cardinality(VotingTokens') \in Nat
        BY <2>0, TokensFinite
      <3> HIDE DEF H
      <3> QED BY <1>1, <2>2, <3>1, <3>2, <3>3, Exact
    <2> QED BY <2>1, <2>2
  <1> DEFINE from == VotingHolder(m)
             to == VotingHolder(m)'
             Through(a, x) == x # None /\ delegatee'[x] = a
             nv == [a \in Addresses |-> VotesOf(a) - When(Through(a, from), k)
                                              + When(Through(a, to), k)]
             ns == VotingSupply + When(from = None, k) - When(to = None, k)
  <1>8. RecordVotes(nv, ns)
    BY DEF TransferVotingUnits
  <1>9. \A a \in Addresses : nv[a] = Cardinality(Counted(a)')
    <2> TAKE a \in Addresses
    <2>1. VotesOf(a) \in Nat
      BY TokensFinite, Exact DEF Counted
    <2> HIDE DEF k
    <2> QED BY <1>1, <1>5, <1>6, <2>1 DEF When
  <1>10. ns = Cardinality(VotingTokens')
    <2>1. VotingSupply \in Nat
      BY TokensFinite, Exact DEF VotingTokens
    <2> HIDE DEF k
    <2> QED BY <1>1, <1>5, <1>7, <2>1 DEF When
  <1>11. /\ ckpts' \in [Addresses -> Seq(Checkpoint)]
         /\ supplyCkpts' \in Seq(Checkpoint)
         /\ \A a \in Addresses : VotesOf(a)' = Cardinality(Counted(a)')
         /\ VotingSupply' = Cardinality(VotingTokens')
    <2> HIDE DEF nv, ns
    <2> QED BY <1>1, <1>8, <1>9, <1>10, Recount
  <1>12. VotesMatchTokens'
    BY <1>4, <1>11 DEF VotesMatchTokens, Counted, VotingTokens
  <1>13. \A a \in Addresses : units'[a] = IF IsCustody(a)' THEN 0 ELSE balance[a]
    <2> TAKE a \in Addresses
    <2>1. units'[a] = units[a] - When(a = from, k) + When(a = to, k)
      BY DEF TransferVotingUnits
    <2>2. units[a] = IF IsCustody(a) THEN 0 ELSE balance[a]
      BY DEF IndInv, UnitsMatchBalances
    <2>3. balance[a] \in Nat
      BY <1>1 DEF TypeOK
    <2> QED BY <1>1, <1>5, <2>1, <2>2, <2>3 DEF When
  <1>14. UnitsMatchBalances'
    BY <1>13 DEF UnitsMatchBalances, IndInv
  <1>15. units' \in [Addresses -> Nat]
    <2>1. units' = [a \in Addresses |-> units'[a]]
      BY DEF TransferVotingUnits
    <2>2. \A a \in Addresses : balance[a] \in Nat
      BY <1>1 DEF TypeOK
    <2>3. \A a \in Addresses : units'[a] \in Nat
      BY <1>13, <2>2
    <2> QED BY <2>1, <2>3
  <1> QED BY <1>11, <1>12, <1>14, <1>15

\* register_module keeps the invariant: a non-voting module that already holds
\* tokens takes their votes out of the supply.
LEMMA RegisterInv ==
    ASSUME IndInv, NEW caller, NEW m \in Contracts, NEW kind \in Kinds,
           NEW nonVoting \in BOOLEAN, RegisterModule(caller, m, kind, nonVoting)
    PROVE  IndInv'
  <1>1. /\ TypeOK /\ m \in Addresses /\ m # Treasury
        /\ modules' = [modules EXCEPT ![m] = [kind |-> kind, nonVoting |-> nonVoting]]
        /\ modules[m] = NotRegistered
        /\ UNCHANGED <<phaseVars, settings, agents, allowance, nftVars, approvalVars,
                       delegatee, ledger>>
    BY TokenAssumption DEF RegisterModule, IndInv, Addresses, Registered
  <1>2. /\ \A a \in Addresses \ {m} : IsCustody(a)' <=> IsCustody(a)
        /\ IsCustody(m)' <=> nonVoting
        /\ ~IsCustody(m)
    BY <1>1 DEF IsCustody, NotRegistered, TypeOK
  <1>3. modules' \in [Contracts -> Entries \cup {NotRegistered}]
    BY <1>1 DEF TypeOK, Entries
  <1>4. CASE nonVoting /\ balance[m] > 0
    <2>1. TransferVotingUnits(m, None, balance[m], delegatee)
      BY <1>4 DEF RegisterModule
    <2>2. delegatee[m] \in Addresses
      <3>1. Cardinality(Holding(m)) # 0
        BY <1>1, <1>4, Exact
      <3>2. PICK t \in TokenIds : owner[t] = m
        <4>1. Holding(m) # {}
          BY <3>1, FS_EmptySet, Zenon
        <4> QED BY <4>1 DEF Holding
      <3>3. TokenVotes(t)
        BY <1>1, <1>2, <3>2, TokenAssumption DEF TokenVotes
      <3> QED BY <1>1, <3>2, <3>3 DEF IndInv, VotesMatchTokens, TypeOK
    <2>3. /\ VotingHolder(m) = m /\ VotingHolder(m)' = None
          /\ delegatee' = delegatee /\ delegatee \in [Addresses -> Addresses \cup {None}]
          /\ UNCHANGED <<owner, minted, balance>>
      BY <1>1, <1>2, <1>4 DEF VotingHolder, TypeOK, nftVars
    <2>4. TransferVotingUnits(VotingHolder(m), VotingHolder(m)', balance[m], delegatee')
      BY <2>1, <2>3
    <2>5. /\ VotesMatchTokens' /\ UnitsMatchBalances'
          /\ units' \in [Addresses -> Nat]
          /\ ckpts' \in [Addresses -> Seq(Checkpoint)]
          /\ supplyCkpts' \in Seq(Checkpoint)
      BY <1>2, <1>4, <2>2, <2>3, <2>4, CustodyMove
    <2>6. TypeOK'
      BY <1>1, <1>3, <2>5 DEF TypeOK, phaseVars, nftVars, approvalVars, Checkpoint
    <2> QED BY <1>1, <2>5, <2>6 DEF IndInv, phaseVars, nftVars
  <1>5. CASE ~(nonVoting /\ balance[m] > 0)
    <2>1. UNCHANGED <<units, ckpts, supplyCkpts>>
      BY <1>5 DEF RegisterModule
    <2>2. TypeOK'
      BY <1>1, <1>3, <2>1 DEF TypeOK, phaseVars, nftVars, approvalVars, Checkpoint
    <2>3. \A a \in Addresses : balance[a] > 0 => (IsCustody(a)' <=> IsCustody(a))
      BY <1>2, <1>5
    <2>4. \A a \in Addresses : balance[a] = 0 => units[a] = 0
      BY DEF IndInv, UnitsMatchBalances
    <2>5. UNCHANGED <<owner, minted, balance, voteVars>> /\ (live => admin = Treasury)'
      BY <1>1, <2>1 DEF nftVars, voteVars, phaseVars, IndInv
    <2> QED BY <2>2, <2>3, <2>4, <2>5, CountsKept
  <1> QED BY <1>4, <1>5

\* unregister_module keeps the invariant: leftover tokens vote again, through
\* the address the module delegates to.
LEMMA UnregisterInv ==
    ASSUME IndInv, NEW caller, NEW m \in Contracts, UnregisterModule(caller, m)
    PROVE  IndInv'
  <1>1. /\ TypeOK /\ m \in Addresses /\ m # Treasury /\ None \notin Addresses
        /\ modules' = [modules EXCEPT ![m] = NotRegistered]
        /\ agents' = agents \ {m}
        /\ allowance' = [allowance EXCEPT ![m] = 0]
        /\ UNCHANGED <<phaseVars, settings, nftVars, approvalVars, ledger>>
    BY TokenAssumption DEF UnregisterModule, IndInv, Addresses
  <1>2. /\ \A a \in Addresses \ {m} : IsCustody(a)' <=> IsCustody(a)
        /\ ~IsCustody(m)'
        /\ IsCustody(m) <=> modules[m].nonVoting
    BY <1>1 DEF IsCustody, NotRegistered, TypeOK
  <1>3. /\ modules' \in [Contracts -> Entries \cup {NotRegistered}]
        /\ agents' \subseteq Contracts
        /\ allowance' \in [Contracts -> Allowances]
    BY <1>1, TokenAssumption DEF TypeOK, Allowances
  <1>4. CASE modules[m].nonVoting /\ balance[m] > 0
    <2>1. /\ delegatee' = [delegatee EXCEPT ![m] = IF @ = None THEN m ELSE @]
          /\ TransferVotingUnits(None, m, balance[m], delegatee')
      BY <1>4 DEF UnregisterModule
    <2>2. /\ delegatee' \in [Addresses -> Addresses \cup {None}]
          /\ delegatee'[m] \in Addresses
          /\ \A a \in Addresses \ {m} : delegatee'[a] = delegatee[a]
      BY <1>1, <2>1 DEF TypeOK
    <2>3. /\ VotingHolder(m) = None /\ VotingHolder(m)' = m
          /\ UNCHANGED <<owner, minted, balance>>
      BY <1>1, <1>2, <1>4 DEF VotingHolder, nftVars
    <2>4. TransferVotingUnits(VotingHolder(m), VotingHolder(m)', balance[m], delegatee')
      BY <2>1, <2>3
    <2>5. /\ VotesMatchTokens' /\ UnitsMatchBalances'
          /\ units' \in [Addresses -> Nat]
          /\ ckpts' \in [Addresses -> Seq(Checkpoint)]
          /\ supplyCkpts' \in Seq(Checkpoint)
      BY <1>2, <1>4, <2>2, <2>3, <2>4, CustodyMove
    <2>6. TypeOK'
      BY <1>1, <1>3, <2>2, <2>5 DEF TypeOK, phaseVars, nftVars, approvalVars, Checkpoint
    <2> QED BY <1>1, <2>5, <2>6 DEF IndInv, phaseVars, nftVars
  <1>5. CASE ~(modules[m].nonVoting /\ balance[m] > 0)
    <2>1. UNCHANGED voteVars
      BY <1>5 DEF UnregisterModule
    <2>2. TypeOK'
      BY <1>1, <1>3, <2>1 DEF TypeOK, phaseVars, nftVars, approvalVars, voteVars, Checkpoint
    <2>3. \A a \in Addresses : balance[a] > 0 => (IsCustody(a)' <=> IsCustody(a))
      BY <1>2, <1>5
    <2>4. \A a \in Addresses : balance[a] = 0 => units[a] = 0
      BY DEF IndInv, UnitsMatchBalances
    <2>5. UNCHANGED <<owner, minted, balance, voteVars>> /\ (live => admin = Treasury)'
      BY <1>1, <2>1 DEF nftVars, phaseVars, IndInv
    <2> QED BY <2>2, <2>3, <2>4, <2>5, CountsKept
  <1> QED BY <1>4, <1>5

\* delegate keeps the invariant: all of the account's units move together.
LEMMA DelegateInv ==
    ASSUME IndInv, NEW x \in Addresses, NEW to \in Addresses, Delegate(x, to)
    PROVE  IndInv'
  <1> DEFINE k == units[x]
             H == IF IsCustody(x) THEN {} ELSE Holding(x)
             Bit(b) == IF b THEN k ELSE 0
  <1>1. /\ TypeOK /\ None \notin Addresses
        /\ delegatee[x] # to
        /\ delegatee' = [delegatee EXCEPT ![x] = to]
        /\ UNCHANGED <<phaseVars, settings, registryVars, nftVars, approvalVars,
                       units, ledger>>
    BY TokenAssumption DEF Delegate, IndInv
  <1>2. k \in Nat /\ H \in SUBSET TokenIds /\ k = Cardinality(H)
    <2>1. k = IF IsCustody(x) THEN 0 ELSE Cardinality(Holding(x))
      BY Exact DEF IndInv, UnitsMatchBalances
    <2>2. Cardinality({}) = 0
      BY FS_EmptySet
    <2>3. CASE IsCustody(x)
      BY <1>1, <2>1, <2>2, <2>3 DEF TypeOK
    <2>4. CASE ~IsCustody(x)
      BY <1>1, <2>1, <2>4 DEF TypeOK, Holding
    <2> QED BY <2>3, <2>4
  <1>3. \A a \in Addresses : IsCustody(a)' <=> IsCustody(a)
    BY <1>1 DEF IsCustody, registryVars
  <1>4. /\ \A s \in TokenIds : owner[s] \in Addresses \cup {None}
        /\ \A s \in TokenIds : owner'[s] = owner[s] /\ (TokenVotes(s)' <=> TokenVotes(s))
        /\ \A s \in TokenIds : s \in H <=> TokenVotes(s) /\ owner[s] = x
    BY <1>1, <1>3 DEF TokenVotes, Holding, TypeOK, nftVars
  <1>5. \A s \in TokenIds : TokenVotes(s) =>
            delegatee'[owner[s]] = IF s \in H THEN to ELSE delegatee[owner[s]]
    BY <1>1, <1>4 DEF TypeOK, TokenVotes
  <1>6. \A a \in Addresses : Cardinality(Counted(a)') =
            VotesOf(a) - Bit(delegatee[x] = a) + Bit(to = a)
    <2> TAKE a \in Addresses
    <2>0. Counted(a) \in SUBSET TokenIds /\ Counted(a)' \in SUBSET TokenIds
      BY DEF Counted
    <2>1. VotesOf(a) = Cardinality(Counted(a)) /\ VotesOf(a) \in Nat
      BY <2>0, Exact, TokensFinite
    <2>2. CASE to = a
      <3>1. Counted(a)' = Counted(a) \cup H /\ Counted(a) \cap H = {}
        <4> HIDE DEF H
        <4> QED BY <1>1, <1>2, <1>4, <1>5, <2>2 DEF Counted
      <3>2. Cardinality(Counted(a) \cup H) = Cardinality(Counted(a)) + Cardinality(H)
        BY <1>2, <2>0, <3>1, CountNew
      <3>3. Cardinality(Counted(a)') = Cardinality(Counted(a) \cup H)
        BY <3>1
      <3> HIDE DEF H, k
      <3> QED BY <1>1, <1>2, <2>1, <2>2, <3>2, <3>3
    <2>3. CASE delegatee[x] = a
      <3>1. Counted(a) = Counted(a)' \cup H /\ Counted(a)' \cap H = {}
        <4> HIDE DEF H
        <4> QED BY <1>1, <1>2, <1>4, <1>5, <2>3 DEF Counted
      <3>2. Cardinality(Counted(a)' \cup H) = Cardinality(Counted(a)') + Cardinality(H)
        BY <1>2, <2>0, <3>1, CountNew
      <3>3. Cardinality(Counted(a)) = Cardinality(Counted(a)' \cup H)
        BY <3>1
      <3>4. Cardinality(Counted(a)') \in Nat
        BY <2>0, TokensFinite
      <3> HIDE DEF H, k
      <3> QED BY <1>1, <1>2, <2>1, <2>3, <3>2, <3>3, <3>4
    <2>4. CASE to # a /\ delegatee[x] # a
      <3>1. Counted(a)' = Counted(a)
        BY <1>4, <1>5, <2>4 DEF Counted
      <3> QED BY <2>1, <2>4, <3>1
    <2> QED BY <2>2, <2>3, <2>4
  <1>7. VotingTokens' = VotingTokens
    BY <1>4 DEF VotingTokens
  <1> DEFINE nv == [a \in Addresses |-> VotesOf(a) - When(delegatee[x] = a, k)
                                              + When(to = a, k)]
  <1>8. RecordVotes(nv, VotingSupply)
    BY DEF Delegate
  <1>9. \A a \in Addresses : nv[a] = Cardinality(Counted(a)')
    BY <1>6 DEF When
  <1>10. VotingSupply = Cardinality(VotingTokens')
    BY <1>7, Exact
  <1>11. /\ ckpts' \in [Addresses -> Seq(Checkpoint)]
         /\ supplyCkpts' \in Seq(Checkpoint)
         /\ \A a \in Addresses : VotesOf(a)' = Cardinality(Counted(a)')
         /\ VotingSupply' = Cardinality(VotingTokens')
    <2> HIDE DEF nv
    <2> QED BY <1>1, <1>8, <1>9, <1>10, Recount
  <1>12. \A s \in TokenIds : TokenVotes(s)' => delegatee'[owner'[s]] # None
    BY <1>1, <1>4, <1>5 DEF IndInv, VotesMatchTokens
  <1>13. VotesMatchTokens'
    BY <1>11, <1>12 DEF VotesMatchTokens, Counted, VotingTokens
  <1>14. UnitsMatchBalances'
    BY <1>1, <1>3 DEF IndInv, UnitsMatchBalances, nftVars
  <1>15. TypeOK'
    BY <1>1, <1>11 DEF TypeOK, phaseVars, registryVars, nftVars, approvalVars, Checkpoint
  <1> QED BY <1>1, <1>13, <1>14, <1>15 DEF IndInv, phaseVars, nftVars

-----------------------------------------------------------------------------
(* The steps that touch no vote.                                           *)

\* approve and approve_for_all keep the invariant.
LEMMA ApprovingInv == ASSUME IndInv, Approving PROVE IndInv'
  <1>1. TypeOK
    BY DEF IndInv
  <1>2. \A t \in TokenIds : \A s \in Spenders : \A u \in 0 .. MaxLedger : u >= ledger =>
            [approval EXCEPT ![t] = [spender |-> s, until |-> u]]
               \in [TokenIds -> Approvals \cup {NoApproval}]
    BY <1>1 DEF TypeOK, Approvals
  <1>3. TypeOK' /\ UNCHANGED <<phaseVars, registryVars, nftVars, voteVars>>
    <2>1. PICK signer \in Signers, spender \in Spenders, until \in 0 .. MaxLedger :
             \/ \E t \in TokenIds : Approve(signer, spender, t, until)
             \/ ApproveForAll(signer, spender, until)
      BY DEF Approving
    <2>2. ASSUME NEW t \in TokenIds, Approve(signer, spender, t, until)
          PROVE  TypeOK' /\ UNCHANGED <<phaseVars, registryVars, nftVars, voteVars>>
      <3>1. approval' \in [TokenIds -> Approvals \cup {NoApproval}]
        <4>1. [approval EXCEPT ![t] = NoApproval] \in [TokenIds -> Approvals \cup {NoApproval}]
          BY <1>1 DEF TypeOK
        <4> QED BY <1>2, <2>2, <4>1 DEF Approve
      <3> QED BY <1>1, <2>2, <3>1
          DEF Approve, TypeOK, phaseVars, registryVars, nftVars, voteVars
    <2>3. CASE ApproveForAll(signer, spender, until)
      <3>1. operators' \in [Addresses -> [Spenders -> 0 .. MaxLedger]]
        BY <1>1, <2>3 DEF ApproveForAll, TypeOK, Signers
      <3> QED BY <1>1, <2>3, <3>1
          DEF ApproveForAll, TypeOK, phaseVars, registryVars, nftVars, voteVars
    <2> QED BY <2>1, <2>2, <2>3
  <1> QED BY <1>3, VotesUntouched DEF IndInv, IsCustody, phaseVars, registryVars, nftVars

\* A new allowance that is a number up to Unlimited keeps the invariant.
LEMMA AllowanceInv ==
    ASSUME IndInv, NEW m \in Contracts, NEW n \in Allowances, SetAllowance(m, n)
    PROVE  IndInv'
  <1>1. TypeOK'
    BY DEF IndInv, SetAllowance, TypeOK, phaseVars, nftVars, approvalVars, voteVars
  <1> QED BY <1>1, VotesUntouched DEF SetAllowance, IndInv, IsCustody, phaseVars, nftVars

\* Saturating arithmetic stays within the allowances.
LEMMA SaturatingType ==
    ASSUME NEW x \in Allowances, NEW y \in Amounts
    PROVE  SaturatingAdd(x, y) \in Allowances /\ SaturatingSub(x, y) \in Allowances
  BY TokenAssumption DEF Allowances, SaturatingAdd, SaturatingSub

\* handoff and launch keep the invariant; launch leaves the Treasury as admin.
LEMMA LaunchingInv == ASSUME IndInv, Launching PROVE IndInv'
  <1>1. TypeOK
    BY DEF IndInv
  <1>2. PICK caller \in Callers, to \in Addresses :
            \/ Handoff(caller, to)
            \/ \E S \in SUBSET Contracts : \E g \in [S -> Amounts] : Launch(caller, to, g)
    BY DEF Launching
  <1>3. CASE Handoff(caller, to)
    <2>1. TypeOK'
      BY <1>1, <1>3 DEF Handoff, TypeOK, registryVars, nftVars, approvalVars, voteVars
    <2> QED BY <1>3, <2>1, VotesUntouched DEF Handoff, IsCustody, registryVars, nftVars
  <1>4. ASSUME NEW S \in SUBSET Contracts, NEW g \in [S -> Amounts], Launch(caller, to, g)
        PROVE  IndInv'
    <2>1. allowance' \in [Contracts -> Allowances]
      BY <1>1, <1>4, SaturatingType DEF Launch, TypeOK
    <2>2. TypeOK'
      BY <1>1, <1>4, <2>1 DEF Launch, TypeOK, nftVars, approvalVars, voteVars
    <2> QED BY <1>4, <2>2, VotesUntouched DEF Launch, IsCustody, nftVars
  <1> QED BY <1>2, <1>3, <1>4

-----------------------------------------------------------------------------
(* The inductive invariant.                                                *)

\* One case per group of operations; what each preserves is proved above.
LEMMA NextInv == ASSUME IndInv, [Next]_vars PROVE IndInv'
  <1>1. TypeOK /\ None \notin Addresses /\ TokenAssumption
    BY TokenAssumption DEF IndInv
  <1>2. CASE Minting
    <2>1. PICK minter \in Callers :
             \/ \E a \in Recipients : Mint(minter, a)
             \/ \E n \in BatchSizes : BatchMint(minter, n)
      BY <1>2 DEF Minting
    <2>2. ASSUME NEW a \in Recipients, Mint(minter, a) PROVE IndInv'
      <3>1. minted = minted + 1 - 1 /\ a \in Addresses
        BY <1>1 DEF TokenAssumption, TypeOK
      <3> DEFINE to == [t \in minted .. minted |-> a]
      <3>2. to \in [minted .. minted + 1 - 1 -> Addresses] /\ MintTo(minter, 1, to)
        BY <2>2, <3>1 DEF Mint
      <3> HIDE DEF to
      <3> QED BY <3>2, MintToInv
    <2>3. ASSUME NEW n \in BatchSizes, BatchMint(minter, n) PROVE IndInv'
      <3>1. PICK to \in [minted .. minted + n - 1 -> Recipients] : MintTo(minter, n, to)
        BY <2>3 DEF BatchMint
      <3>2. to \in [minted .. minted + n - 1 -> Addresses] /\ n \in Nat \ {0}
        BY <1>1, <3>1 DEF TokenAssumption
      <3> QED BY <3>1, <3>2, MintToInv
    <2> QED BY <2>1, <2>2, <2>3
  <1>3. CASE Moving
    <2>1. PICK signer \in Signers, t \in TokenIds, to \in Recipients :
             \/ Transfer(signer, to, t)
             \/ \E from \in Addresses : TransferFrom(signer, from, to, t)
             \/ DaoTransfer(signer, t, to)
             \/ \E agent \in Contracts : AgentTransfer(agent, signer, to, t)
      BY <1>3 DEF Moving
    <2>2. to \in Addresses /\ signer \in Addresses
      BY <1>1 DEF TokenAssumption, Signers
    <2>3. \E from \in Addresses : MoveToken(from, to, t)
      BY <1>1, <2>1, <2>2 DEF Transfer, TransferFrom, DaoTransfer, AgentTransfer, TypeOK
    <2> QED BY <2>2, <2>3, MoveTokenInv
  <1>4. CASE Approving
    BY <1>4, ApprovingInv
  <1>5. CASE Delegating
    BY <1>1, <1>5, DelegateInv DEF Delegating, TokenAssumption
  <1>6. CASE Administering
    <2>1. PICK caller \in Callers, m \in Contracts :
             \/ \E kind \in Kinds, nv \in BOOLEAN : RegisterModule(caller, m, kind, nv)
             \/ UnregisterModule(caller, m)
             \/ \E on \in BOOLEAN : SetTransferAgent(caller, m, on)
             \/ \E n \in Amounts : IncreaseMintAllowance(caller, m, n)
             \/ \E n \in Amounts : DecreaseMintAllowance(caller, m, n)
      BY <1>6 DEF Administering
    <2>2. ASSUME NEW on \in BOOLEAN, SetTransferAgent(caller, m, on) PROVE IndInv'
      <3>1. TypeOK'
        BY <1>1, <2>2
        DEF SetTransferAgent, TypeOK, phaseVars, nftVars, approvalVars, voteVars
      <3> QED BY <2>2, <3>1, VotesUntouched
          DEF SetTransferAgent, IndInv, IsCustody, phaseVars, nftVars
    <2>3. ASSUME NEW n \in Amounts,
                 IncreaseMintAllowance(caller, m, n) \/ DecreaseMintAllowance(caller, m, n)
          PROVE  IndInv'
      <3>1. allowance[m] \in Allowances
        BY <1>1 DEF TypeOK
      <3> QED BY <2>3, <3>1, SaturatingType, AllowanceInv
          DEF IncreaseMintAllowance, DecreaseMintAllowance
    <2> QED BY <2>1, <2>2, <2>3, RegisterInv, UnregisterInv
  <1>7. CASE Releasing
    <2>1. PICK m \in Contracts, n \in Amounts : ReleaseMintAllowance(m, n)
      BY <1>7 DEF Releasing
    <2>2. allowance[m] \in Allowances
      BY <1>1 DEF TypeOK
    <2> QED BY <2>1, <2>2, SaturatingType, AllowanceInv DEF ReleaseMintAllowance
  <1>8. CASE Switching
    <2>1. PICK caller \in Callers, s \in Switches, on \in BOOLEAN : SetSwitch(caller, s, on)
      BY <1>8 DEF Switching
    <2>2. TypeOK'
      BY <1>1, <2>1 DEF SetSwitch, TypeOK, TokenAssumption, Settings,
                        phaseVars, registryVars, nftVars, approvalVars, voteVars
    <2> QED BY <2>1, <2>2, VotesUntouched
        DEF SetSwitch, IndInv, IsCustody, phaseVars, registryVars, nftVars
  <1>9. CASE Launching
    BY <1>9, LaunchingInv
  <1>10. CASE NextLedger
    <2>1. TypeOK'
      BY <1>1, <1>10 DEF NextLedger, TypeOK, TokenAssumption,
                         phaseVars, registryVars, nftVars, approvalVars, voteVars
    <2> QED BY <1>10, <2>1, VotesUntouched
        DEF NextLedger, IndInv, IsCustody, phaseVars, registryVars, nftVars
  <1>11. CASE UNCHANGED vars
    <2>1. TypeOK'
      BY <1>1, <1>11 DEF TypeOK, vars, phaseVars, registryVars, nftVars, approvalVars, voteVars
    <2> QED BY <1>11, <2>1, VotesUntouched
        DEF vars, IndInv, IsCustody, phaseVars, registryVars, nftVars
  <1> QED BY <1>2, <1>3, <1>4, <1>5, <1>6, <1>7, <1>8, <1>9, <1>10, <1>11 DEF Next

\* A token nobody has minted yet: no votes, no supply.
LEMMA InitInv == Init => IndInv
  <1> SUFFICES ASSUME Init PROVE IndInv
    OBVIOUS
  <1>1. TypeOK
    <2>1. <<>> \in Seq(Checkpoint)
      BY EmptySeq
    <2>2. ckpts \in [Addresses -> Seq(Checkpoint)] /\ supplyCkpts \in Seq(Checkpoint)
      BY <2>1 DEF Init
    <2>3. allowance \in [Contracts -> Allowances] /\ settings \in Settings
      BY TokenAssumption DEF Init, Allowances
    <2>4. /\ operators \in [Addresses -> [Spenders -> 0 .. MaxLedger]]
          /\ minted \in 0 .. MaxTokens /\ ledger \in 1 .. MaxLedger
      BY TokenAssumption DEF Init
    <2> QED BY <2>2, <2>3, <2>4 DEF Init, TypeOK
  <1>2. \A t \in TokenIds : owner[t] = None /\ t >= minted /\ ~TokenVotes(t)
    BY DEF Init, TokenIds, TokenVotes
  <1>3. \A a \in Addresses : Holding(a) = {} /\ Counted(a) = {}
    BY <1>2, TokenAssumption DEF Holding, Counted
  <1>4. VotingTokens = {}
    BY <1>2 DEF VotingTokens
  <1>5. /\ \A a \in Addresses : Cardinality(Holding(a)) = 0 /\ Cardinality(Counted(a)) = 0
        /\ Cardinality(VotingTokens) = 0
    BY <1>3, <1>4, FS_EmptySet
  <1>6. UnitsMatchBalances
    BY <1>5 DEF UnitsMatchBalances, Holding, Init
  <1>7. VotesMatchTokens
    BY <1>2, <1>5 DEF VotesMatchTokens, Counted, VotingTokens, Init, VotesOf,
                      VotingSupply, Latest
  <1> QED BY <1>1, <1>2, <1>6, <1>7 DEF IndInv, Init

\* The Token's bookkeeping invariant holds for any wallets, modules, amounts
\* and number of tokens and ledgers.
THEOREM TokenInvariant == Spec => []IndInv
  <1> QED BY InitInv, NextInv, PTL DEF Spec

\* Type correctness.
THEOREM TokenTypes == Spec => []TypeOK
  <1>1. IndInv => TypeOK
    BY DEF IndInv
  <1> QED BY <1>1, TokenInvariant, PTL

\* "Balances and voting units can never drift apart" (contract doc, Voting
\* supply): one unit per token of a voting holder, none in custody.
THEOREM UnitsNeverDrift == Spec => []UnitsMatchBalances
  <1>1. IndInv => UnitsMatchBalances
    BY DEF IndInv
  <1> QED BY <1>1, TokenInvariant, PTL

\* Every vote is a token outside custody, counted once, and the supply the
\* quorum is taken from is the number of those tokens.
THEOREM VotesAreTokens == Spec => []VotesMatchTokens
  <1>1. IndInv => VotesMatchTokens
    BY DEF IndInv
  <1> QED BY <1>1, TokenInvariant, PTL

-----------------------------------------------------------------------------
(* The history of closed ledgers.                                          *)

\* A checkpoint list has one entry per ledger, in order, none in the future.
Ordered(s) ==
    /\ \A i \in DOMAIN s : s[i].ledger <= ledger
    /\ \A i, j \in DOMAIN s : i < j => s[i].ledger < s[j].ledger

CheckpointsOrdered == Ordered(supplyCkpts) /\ \A a \in Addresses : Ordered(ckpts[a])

\* What is newest at ledger l is what is read there.
LEMMA LookupIs ==
    ASSUME NEW s \in Ckpts, NEW l \in Int, NEW i \in DOMAIN s, IsNewestAt(s, i, l)
    PROVE  Lookup(s, l) = s[i].votes
  <1> DEFINE c == CHOOSE j \in DOMAIN s : IsNewestAt(s, j, l)
  <1>1. c \in DOMAIN s /\ IsNewestAt(s, c, l)
    OBVIOUS
  <1>2. DOMAIN s \subseteq Int
    BY LenProperties DEF Ckpts
  <1>3. c = i
    BY <1>1, <1>2 DEF IsNewestAt
  <1>4. Lookup(s, l) = s[c].votes
    BY <1>1 DEF Lookup
  <1> QED BY <1>3, <1>4

\* The value at the current ledger is the newest one.
LEMMA LookupNow ==
    ASSUME NEW s \in Ckpts, Ordered(s), ledger \in Nat
    PROVE  Lookup(s, ledger) = Latest(s)
  <1>1. DOMAIN s = 1 .. Len(s) /\ Len(s) \in Nat
    BY LenProperties DEF Ckpts
  <1>2. CASE s = <<>>
    <2>1. DOMAIN s = {}
      BY <1>2
    <2> QED BY <1>2, <2>1 DEF Lookup, Latest
  <1>3. CASE s # <<>>
    <2>1. Len(s) \in DOMAIN s
      BY <1>1, <1>3, EmptySeq DEF Ckpts
    <2>2. IsNewestAt(s, Len(s), ledger)
      BY <1>1, <2>1 DEF IsNewestAt, Ordered
    <2> QED BY <1>3, <2>1, <2>2, LookupIs DEF Latest
  <1> QED BY <1>2, <1>3

\* Recording a value keeps the list ordered and rewrites no closed ledger.
LEMMA PushKeepsHistory ==
    ASSUME NEW s \in Ckpts, Ordered(s), NEW v, PushChanged(s, v) \in Ckpts,
           ledger \in 1 .. MaxLedger
    PROVE  /\ Ordered(PushChanged(s, v))
           /\ \A l \in 1 .. ledger - 1 : Lookup(PushChanged(s, v), l) = Lookup(s, l)
  <1> DEFINE e == [ledger |-> ledger, votes |-> v]
             p == PushChanged(s, v)
  <1>1. /\ DOMAIN s = 1 .. Len(s) /\ Len(s) \in Nat
        /\ \A i \in DOMAIN s : s[i].ledger \in Int
        /\ ledger \in Int /\ e.ledger = ledger
    <2>1. DOMAIN s = 1 .. Len(s) /\ Len(s) \in Nat
      BY LenProperties DEF Ckpts
    <2>2. \A i \in DOMAIN s : s[i] \in Checkpoint
      BY <2>1, ElementOfSeq DEF Ckpts
    <2>3. \A i \in DOMAIN s : s[i].ledger \in Int
      BY <2>2 DEF Checkpoint
    <2> QED BY <2>1, <2>3
  <1>2. CASE v = Latest(s)
    BY <1>2 DEF PushChanged
  <1>3. CASE v # Latest(s) /\ s # <<>> /\ s[Len(s)].ledger = ledger
    <2>1. /\ DOMAIN p = DOMAIN s /\ Len(s) \in DOMAIN s
          /\ p[Len(s)] = e
          /\ \A i \in DOMAIN s : i # Len(s) => p[i] = s[i]
      <3>1. p = [s EXCEPT ![Len(s)] = e]
        BY <1>3 DEF PushChanged, Push
      <3>2. Len(s) \in DOMAIN s
        BY <1>1, <1>3, EmptySeq DEF Ckpts
      <3> HIDE DEF p
      <3> QED BY <1>1, <3>1, <3>2
    <2>2. \A i \in DOMAIN s : p[i].ledger = s[i].ledger
      BY <1>1, <1>3, <2>1
    <2>3. Ordered(p)
      BY <2>1, <2>2 DEF Ordered
    <2>4. ASSUME NEW l \in 1 .. ledger - 1 PROVE Lookup(p, l) = Lookup(s, l)
      <3>1. \A i \in DOMAIN s : IsNewestAt(p, i, l) <=> IsNewestAt(s, i, l)
        BY <2>1, <2>2 DEF IsNewestAt
      <3>2. \A i \in DOMAIN s : IsNewestAt(s, i, l) => p[i] = s[i]
        BY <1>1, <1>3, <2>1 DEF IsNewestAt
      <3>3. CASE \E i \in DOMAIN s : IsNewestAt(s, i, l)
        <4>1. PICK i \in DOMAIN s : IsNewestAt(s, i, l)
          BY <3>3
        <4> HIDE DEF p
        <4> QED BY <2>1, <3>1, <3>2, <4>1, LookupIs DEF p
      <3>4. CASE ~\E i \in DOMAIN s : IsNewestAt(s, i, l)
        BY <2>1, <3>1, <3>4 DEF Lookup
      <3> QED BY <3>3, <3>4
    <2> QED BY <2>3, <2>4
  <1>4. CASE v # Latest(s) /\ ~(s # <<>> /\ s[Len(s)].ledger = ledger)
    <2>1. /\ DOMAIN p = 1 .. Len(s) + 1
          /\ p[Len(s) + 1] = e
          /\ \A i \in DOMAIN s : p[i] = s[i]
      <3>1. p = Append(s, e)
        BY <1>4 DEF PushChanged, Push
      <3> HIDE DEF p
      <3> QED BY <1>1, <3>1
    <2>2. \A i \in DOMAIN s : s[i].ledger < ledger
      <3>1. s # <<>> => Len(s) \in DOMAIN s
        BY <1>1, EmptySeq DEF Ckpts
      <3> QED BY <1>1, <1>4, <3>1 DEF Ordered
    <2>3. Ordered(p)
      BY <1>1, <2>1, <2>2 DEF Ordered
    <2>4. ASSUME NEW l \in 1 .. ledger - 1 PROVE Lookup(p, l) = Lookup(s, l)
      <3>1. ~(p[Len(s) + 1].ledger <= l)
        BY <1>1, <2>1
      <3>2. /\ \A i \in DOMAIN s : IsNewestAt(p, i, l) <=> IsNewestAt(s, i, l)
            /\ ~IsNewestAt(p, Len(s) + 1, l)
        BY <1>1, <2>1, <3>1 DEF IsNewestAt
      <3>3. CASE \E i \in DOMAIN s : IsNewestAt(s, i, l)
        <4>1. PICK i \in DOMAIN s : IsNewestAt(s, i, l)
          BY <3>3
        <4>2. i \in DOMAIN p
          BY <1>1, <2>1
        <4> HIDE DEF p
        <4> QED BY <2>1, <3>2, <4>1, <4>2, LookupIs DEF p
      <3>4. CASE ~\E i \in DOMAIN s : IsNewestAt(s, i, l)
        BY <1>1, <2>1, <3>2, <3>4 DEF Lookup
      <3> QED BY <3>3, <3>4
    <2> QED BY <2>3, <2>4
  <1> QED BY <1>2, <1>3, <1>4

\* A step either closes the ledger and records nothing, or records values in
\* the same ledger.
Records(s, t) == t = s \/ \E v : t = PushChanged(s, v)
StepRecords ==
    /\ ledger' = ledger
    /\ \A a \in Addresses : Records(ckpts[a], ckpts'[a])
    /\ Records(supplyCkpts, supplyCkpts')

\* RecordVotes touches checkpoint lists only by recording values.
LEMMA RecordVotesRecords ==
    ASSUME NEW nv, NEW ns, RecordVotes(nv, ns), ledger' = ledger
    PROVE  StepRecords
  BY DEF RecordVotes, StepRecords, Records

\* So does a movement of voting units.
LEMMA UnitsMoveRecords ==
    ASSUME NEW from, NEW to, NEW n, NEW d, TransferVotingUnits(from, to, n, d),
           ledger' = ledger
    PROVE  StepRecords
  BY RecordVotesRecords DEF TransferVotingUnits

\* Leaving the lists alone counts as recording nothing.
LEMMA KeptRecords ==
    ASSUME UNCHANGED <<ckpts, supplyCkpts>>, ledger' = ledger
    PROVE  StepRecords
  BY DEF StepRecords, Records

\* Every operation of the contract writes checkpoints only by recording values.
LEMMA StepsRecord ==
    ASSUME [Next]_vars
    PROVE  StepRecords \/ NextLedger
  <1>1. ASSUME NEW minter, NEW n, NEW to, MintTo(minter, n, to) PROVE StepRecords
    BY <1>1, RecordVotesRecords DEF MintTo
  <1>2. CASE Minting
    BY <1>1, <1>2 DEF Minting, Mint, BatchMint
  <1>3. ASSUME NEW from, NEW to, NEW t, MoveToken(from, to, t) PROVE StepRecords
    BY <1>3, UnitsMoveRecords DEF MoveToken
  <1>4. CASE Moving
    BY <1>3, <1>4 DEF Moving, Transfer, TransferFrom, DaoTransfer, AgentTransfer
  <1>5. CASE Approving
    BY <1>5, KeptRecords DEF Approving, Approve, ApproveForAll, voteVars
  <1>6. CASE Delegating
    <2>1. ASSUME NEW x, NEW to, Delegate(x, to) PROVE StepRecords
      BY <2>1, RecordVotesRecords DEF Delegate
    <2> QED BY <1>6, <2>1 DEF Delegating
  <1>7. CASE Administering
    <2>1. ASSUME NEW c, NEW m, NEW k, NEW nv, RegisterModule(c, m, k, nv) PROVE StepRecords
      BY <2>1, UnitsMoveRecords, KeptRecords DEF RegisterModule
    <2>2. ASSUME NEW c, NEW m, UnregisterModule(c, m) PROVE StepRecords
      BY <2>2, UnitsMoveRecords, KeptRecords DEF UnregisterModule, voteVars
    <2>3. ASSUME NEW c, NEW m, NEW x,
                 \/ SetTransferAgent(c, m, x)
                 \/ IncreaseMintAllowance(c, m, x)
                 \/ DecreaseMintAllowance(c, m, x)
          PROVE  StepRecords
      BY <2>3, KeptRecords
      DEF SetTransferAgent, IncreaseMintAllowance, DecreaseMintAllowance,
          SetAllowance, voteVars
    <2> QED BY <1>7, <2>1, <2>2, <2>3 DEF Administering
  <1>8. CASE Releasing \/ Switching \/ Launching \/ UNCHANGED vars
    BY <1>8, KeptRecords
    DEF Releasing, ReleaseMintAllowance, SetAllowance, Switching, SetSwitch, Launching,
        Handoff, Launch, voteVars, vars
  <1> QED BY <1>2, <1>4, <1>5, <1>6, <1>7, <1>8 DEF Next

\* The step keeps the lists ordered, and every closed ledger as it was.
LEMMA StepKeepsHistory ==
    ASSUME IndInv, IndInv', CheckpointsOrdered, StepRecords
    PROVE  /\ CheckpointsOrdered'
           /\ \A l \in 1 .. ledger - 1 :
                 /\ \A a \in Addresses : Lookup(ckpts'[a], l) = Lookup(ckpts[a], l)
                 /\ Lookup(supplyCkpts', l) = Lookup(supplyCkpts, l)
  <1>1. /\ ledger' = ledger /\ ledger \in 1 .. MaxLedger
        /\ \A a \in Addresses : ckpts[a] \in Ckpts /\ ckpts'[a] \in Ckpts
        /\ supplyCkpts \in Ckpts /\ supplyCkpts' \in Ckpts
    BY DEF IndInv, TypeOK, Ckpts, StepRecords
  <1>2. ASSUME NEW s \in Ckpts, NEW t \in Ckpts, Ordered(s), Records(s, t)
        PROVE  Ordered(t) /\ \A l \in 1 .. ledger - 1 : Lookup(t, l) = Lookup(s, l)
    BY <1>1, <1>2, PushKeepsHistory DEF Records
  <1>4. Ordered(supplyCkpts) /\ \A a \in Addresses : Ordered(ckpts[a])
    BY DEF CheckpointsOrdered
  <1>5. /\ Ordered(supplyCkpts)'
        /\ \A l \in 1 .. ledger - 1 : Lookup(supplyCkpts', l) = Lookup(supplyCkpts, l)
    BY <1>1, <1>2, <1>4 DEF StepRecords, Ordered
  <1>6. \A a \in Addresses :
           /\ Ordered(ckpts[a])'
           /\ \A l \in 1 .. ledger - 1 : Lookup(ckpts'[a], l) = Lookup(ckpts[a], l)
    BY <1>1, <1>2, <1>4 DEF StepRecords, Ordered
  <1> QED BY <1>5, <1>6 DEF CheckpointsOrdered

\* Every step keeps the checkpoint lists in ledger order.
LEMMA NextOrdered ==
    ASSUME IndInv, IndInv', CheckpointsOrdered, [Next]_vars
    PROVE  CheckpointsOrdered'
  <1>1. CASE StepRecords
    BY <1>1, StepKeepsHistory
  <1>2. CASE NextLedger
    <2>1. /\ ledger' = ledger + 1 /\ ledger \in Int
          /\ ckpts' = ckpts /\ supplyCkpts' = supplyCkpts
          /\ \A a \in Addresses : ckpts[a] \in Ckpts
          /\ supplyCkpts \in Ckpts
      BY <1>2, TokenAssumption DEF NextLedger, voteVars, IndInv, TypeOK, Ckpts
    <2>2. ASSUME NEW s \in Ckpts, Ordered(s)
          PROVE  \A i \in DOMAIN s : s[i].ledger <= ledger + 1
      <3>1. \A i \in DOMAIN s : s[i] \in Checkpoint
        BY LenProperties, ElementOfSeq DEF Ckpts
      <3>2. \A i \in DOMAIN s : s[i].ledger \in Int
        BY <3>1 DEF Checkpoint
      <3> QED BY <2>1, <2>2, <3>2 DEF Ordered
    <2> QED BY <2>1, <2>2 DEF CheckpointsOrdered, Ordered
  <1> QED BY <1>1, <1>2, StepsRecord

\* Checkpoint lists stay in ledger order, with at most one entry per ledger.
THEOREM CheckpointsStayOrdered == Spec => [](IndInv /\ CheckpointsOrdered)
  <1>1. Init => IndInv /\ CheckpointsOrdered
    BY InitInv DEF Init, CheckpointsOrdered, Ordered
  <1>2. (IndInv /\ CheckpointsOrdered) /\ [Next]_vars => (IndInv /\ CheckpointsOrdered)'
    BY NextInv, NextOrdered
  <1> QED BY <1>1, <1>2, PTL DEF Spec

\* The shortcut of voting_supply_at_previous_ledger reads the right entry.
LEMMA PreviousSupply ==
    ASSUME IndInv, CheckpointsOrdered
    PROVE  PreviousSupplyExact
  <1> DEFINE s == supplyCkpts
             n == Len(s)
  <1>1. /\ s \in Ckpts /\ Ordered(s) /\ ledger \in Int
        /\ DOMAIN s = 1 .. n /\ n \in Nat
    BY LenProperties DEF IndInv, TypeOK, Ckpts, CheckpointsOrdered
  <1>2. \A i \in DOMAIN s : s[i].ledger \in Int
    <2>1. \A i \in DOMAIN s : s[i] \in Checkpoint
      BY <1>1, ElementOfSeq DEF Ckpts
    <2> QED BY <2>1 DEF Checkpoint
  <1>3. CASE n = 0
    BY <1>1, <1>3 DEF PreviousSupplyExact, VotingSupplyAtPreviousLedger, Lookup
  <1>4. CASE n # 0 /\ s[n].ledger < ledger
    <2>1. n \in DOMAIN s /\ IsNewestAt(s, n, ledger - 1)
      BY <1>1, <1>2, <1>4 DEF IsNewestAt
    <2> QED BY <1>1, <1>4, <2>1, LookupIs
        DEF PreviousSupplyExact, VotingSupplyAtPreviousLedger
  <1>5. CASE n = 1 /\ ~(s[n].ledger < ledger)
    BY <1>1, <1>2, <1>5
    DEF PreviousSupplyExact, VotingSupplyAtPreviousLedger, Lookup, IsNewestAt
  <1>6. CASE n > 1 /\ ~(s[n].ledger < ledger)
    <2>1. /\ n - 1 \in DOMAIN s /\ n \in DOMAIN s
          /\ s[n].ledger = ledger /\ s[n - 1].ledger < ledger
      BY <1>1, <1>2, <1>6 DEF Ordered
    <2>2. IsNewestAt(s, n - 1, ledger - 1)
      BY <1>1, <1>2, <2>1 DEF IsNewestAt
    <2> QED BY <1>1, <1>6, <2>1, <2>2, LookupIs
        DEF PreviousSupplyExact, VotingSupplyAtPreviousLedger
  <1> QED BY <1>1, <1>3, <1>4, <1>5, <1>6

\* The Governor's quorum is always taken from the supply the previous ledger
\* closed with, never from what changed in the proposing ledger.
THEOREM PreviousSupplyIsExact == Spec => []PreviousSupplyExact
  <1>1. IndInv /\ CheckpointsOrdered => PreviousSupplyExact
    BY PreviousSupply
  <1> QED BY <1>1, CheckpointsStayOrdered, PTL

-----------------------------------------------------------------------------
(* One token, one vote.                                                    *)

\* The instance of FiniteSets inside VotingPower counts as this one does.
LEMMA SameCardinality == ASSUME NEW S PROVE VP!Cardinality(S) = Cardinality(S)
  BY DEF VP!Cardinality, Cardinality

\* In every reachable state the numbers read are the recount of the tokens.
Voter == [t \in TokenIds |-> CountedFor(t)]
ReadsRecount == /\ Voter \in VP!Assignments
                /\ [a \in Addresses |-> VotesOf(a)] = VP!VotesIn(Voter)
                /\ VotingSupply = VP!SupplyIn(Voter)

\* What a reader sees of the votes is a recount of the tokens.
LEMMA Recounted == IndInv => ReadsRecount
  <1> SUFFICES ASSUME IndInv PROVE ReadsRecount
    OBVIOUS
  <1> DEFINE v == [t \in TokenIds |-> CountedFor(t)]
  <1>1. /\ TypeOK /\ None \notin Addresses
        /\ \A t \in TokenIds : TokenVotes(t) => delegatee[owner[t]] \in Addresses
    BY TokenAssumption DEF IndInv, VotesMatchTokens, TokenVotes, TypeOK
  <1>2. v \in VP!Assignments
    BY <1>1 DEF VP!Assignments, CountedFor
  <1>3. \A a \in Addresses : {t \in TokenIds : v[t] = a} = Counted(a)
    BY <1>1 DEF CountedFor, Counted
  <1>4. {t \in TokenIds : v[t] # None} = VotingTokens
    BY <1>1 DEF CountedFor, VotingTokens
  <1>5. \A a \in Addresses : VotesOf(a) = Cardinality({t \in TokenIds : v[t] = a})
    BY <1>3, Exact, Zenon
  <1>6. VotingSupply = Cardinality({t \in TokenIds : v[t] # None})
    BY <1>4, Exact, Zenon
  <1> HIDE DEF v
  <1>7. [a \in Addresses |-> VotesOf(a)] = VP!VotesIn(v) /\ VotingSupply = VP!SupplyIn(v)
    BY <1>5, <1>6, SameCardinality DEF VP!VotesIn, VP!SupplyIn
  <1> QED BY <1>2, <1>7 DEF v, Voter, ReadsRecount

\* An empty token is an empty assignment of votes.
LEMMA InitRefines == Init => VP!Init
  <1> SUFFICES ASSUME Init PROVE VP!Init
    OBVIOUS
  <1>1. \A t \in TokenIds : CountedFor(t) = None
    BY DEF Init, CountedFor, TokenVotes
  <1>2. (\A a \in Addresses : VotesOf(a) = 0) /\ VotingSupply = 0
    BY DEF Init, VotesOf, VotingSupply, Latest
  <1>3. 1 .. ledger - 1 = {} /\ ledger = 1
    BY DEF Init
  <1> QED BY <1>1, <1>2, <1>3 DEF VP!Init

\* Every step of the token reassigns votes, closes a ledger, or changes nothing
\* a reader of votes can see.
LEMMA NextRefines ==
    ASSUME IndInv, IndInv', CheckpointsOrdered, [Next]_vars
    PROVE  VP!Next
  <1> DEFINE v == [t \in TokenIds |-> CountedFor(t)]
             Snapshot(l) == [votes |-> [a \in Addresses |-> Lookup(ckpts[a], l)],
                             supply |-> Lookup(supplyCkpts, l)]
             history == [l \in 1 .. ledger - 1 |-> Snapshot(l)]
  <1>1. CASE StepRecords
    <2>1. ledger' = ledger
      BY <1>1 DEF StepRecords
    <2>2. \A l \in 1 .. ledger - 1 :
             /\ \A a \in Addresses : Lookup(ckpts'[a], l) = Lookup(ckpts[a], l)
             /\ Lookup(supplyCkpts', l) = Lookup(supplyCkpts, l)
      BY <1>1, StepKeepsHistory
    <2>3. \A l \in 1 .. ledger - 1 : Snapshot(l)' = Snapshot(l)
      BY <2>2
    <2>4. history' = history
      BY <2>1, <2>3
    <2>5. /\ v' \in VP!Assignments
          /\ [a \in Addresses |-> VotesOf(a)]' = VP!VotesIn(v')
          /\ VotingSupply' = VP!SupplyIn(v')
      <3>1. ReadsRecount'
        BY Recounted, PTL
      <3> QED BY <3>1 DEF ReadsRecount, Voter
    <2> QED BY <2>1, <2>4, <2>5 DEF VP!Next, VP!Reassign
  <1>2. CASE NextLedger
    <2>1. /\ ledger \in 1 .. MaxLedger /\ ledger < MaxLedger /\ ledger' = ledger + 1
          /\ UNCHANGED <<ckpts, supplyCkpts, owner, modules, delegatee>>
      BY <1>2 DEF NextLedger, registryVars, nftVars, voteVars, IndInv, TypeOK
    <2>2. \A t \in TokenIds : CountedFor(t)' = CountedFor(t)
      BY <2>1 DEF CountedFor, TokenVotes, IsCustody
    <2>3. /\ \A a \in Addresses : ckpts[a] \in Ckpts /\ Ordered(ckpts[a])
          /\ supplyCkpts \in Ckpts /\ Ordered(supplyCkpts)
      BY DEF IndInv, TypeOK, Ckpts, CheckpointsOrdered
    <2>4. /\ \A a \in Addresses : Lookup(ckpts[a], ledger) = VotesOf(a)
          /\ Lookup(supplyCkpts, ledger) = VotingSupply
      BY <2>1, <2>3, LookupNow DEF VotesOf, VotingSupply
    <2>5. Snapshot(ledger) = [votes |-> [a \in Addresses |-> VotesOf(a)],
                              supply |-> VotingSupply]
      BY <2>4
    <2>6. \A l : Snapshot(l)' = Snapshot(l)
      BY <2>1
    <2>7. history' = Append(history, Snapshot(ledger))
      <3> DEFINE S == {Snapshot(l) : l \in 1 .. ledger}
                 h == history
                 e == Snapshot(ledger)
      <3>1. /\ h \in [1 .. ledger - 1 -> S] /\ e \in S
            /\ \A l \in 1 .. ledger - 1 : h[l] = Snapshot(l)
        BY <2>1
      <3>2. history' = [l \in 1 .. ledger |-> Snapshot(l)]
        BY <2>1, <2>6
      <3> HIDE DEF S, h, e
      <3>3. h \in Seq(S) /\ Len(h) = ledger - 1
        BY <2>1, <3>1
      <3>4. /\ Append(h, e) \in Seq(S) /\ Len(Append(h, e)) = ledger
            /\ \A l \in 1 .. ledger - 1 : Append(h, e)[l] = h[l]
            /\ Append(h, e)[ledger] = e
        BY <2>1, <3>1, <3>3, AppendProperties
      <3>5. Append(h, e) \in [1 .. ledger -> S]
        BY <3>4, LenProperties
      <3> HIDE DEF Snapshot
      <3>6. \A l \in 1 .. ledger : Append(h, e)[l] = Snapshot(l)
        BY <2>1, <3>1, <3>4 DEF e
      <3>7. Append(h, e) = [l \in 1 .. ledger |-> Snapshot(l)]
        BY <3>5, <3>6
      <3> QED BY <3>2, <3>7 DEF h, e
    <2> QED BY <2>1, <2>2, <2>5, <2>7
        DEF VP!Next, VP!CloseLedger, VotesOf, VotingSupply
  <1> QED BY <1>1, <1>2, StepsRecord

\* The Token implements one token, one vote: a reader of its checkpoints sees
\* a recount of the tokens, and a history of closed ledgers never rewritten.
THEOREM TokenImplementsVotingPower == Spec => ImplementsVotingPower
  <1>1. (IndInv /\ CheckpointsOrdered) /\ (IndInv /\ CheckpointsOrdered)' /\ [Next]_vars
            => [VP!Next]_(VP!vars)
    BY NextRefines
  <1> QED BY <1>1, InitRefines, CheckpointsStayOrdered, PTL
      DEF Spec, ImplementsVotingPower, VP!Spec
-----------------------------------------------------------------------------
(* Who may move a token, and who may do anything during a drive.           *)

\* A mint in either form is one of new ids.
LEMMA MintsAre ==
    ASSUME IndInv, Minting
    PROVE  \E minter \in Callers : \E n \in Nat \ {0} :
              \E to \in [minted .. minted + n - 1 -> Addresses] : MintTo(minter, n, to)
  <1>1. TypeOK /\ TokenAssumption
    BY TokenAssumption DEF IndInv
  <1>2. PICK minter \in Callers :
           \/ \E a \in Recipients : Mint(minter, a)
           \/ \E n \in BatchSizes : BatchMint(minter, n)
    BY DEF Minting
  <1>3. ASSUME NEW a \in Recipients, Mint(minter, a)
        PROVE  \E to \in [minted .. minted + 1 - 1 -> Addresses] : MintTo(minter, 1, to)
    <2> DEFINE to == [t \in minted .. minted |-> a]
    <2>1. minted = minted + 1 - 1 /\ a \in Addresses
      BY <1>1 DEF TokenAssumption, TypeOK
    <2>2. to \in [minted .. minted + 1 - 1 -> Addresses] /\ MintTo(minter, 1, to)
      BY <1>3, <2>1 DEF Mint
    <2> HIDE DEF to
    <2> QED BY <2>2
  <1>4. ASSUME NEW n \in BatchSizes, BatchMint(minter, n)
        PROVE  n \in Nat \ {0} /\ \E to \in [minted .. minted + n - 1 -> Addresses] : MintTo(minter, n, to)
    BY <1>1, <1>4 DEF BatchMint, TokenAssumption
  <1> QED BY <1>2, <1>3, <1>4

\* The steps that leave tokens where they are, and their number.
Stays == owner' = owner /\ minted' = minted

\* Operations that neither mint nor move change no owner.
LEMMA OthersStay ==
    ASSUME [Next]_vars, ~Minting, ~Moving
    PROVE  Stays
  <1>1. CASE Approving \/ Delegating
    BY <1>1 DEF Approving, Approve, ApproveForAll, Delegating, Delegate, nftVars, Stays
  <1>2. CASE Administering \/ Releasing
    BY <1>2 DEF Administering, RegisterModule, UnregisterModule, SetTransferAgent,
                IncreaseMintAllowance, DecreaseMintAllowance, Releasing,
                ReleaseMintAllowance, SetAllowance, nftVars, Stays
  <1>3. CASE Switching \/ Launching \/ NextLedger \/ UNCHANGED vars
    BY <1>3 DEF Switching, SetSwitch, Launching, Handoff, Launch, NextLedger, vars, nftVars,
                Stays
  <1> QED BY <1>1, <1>2, <1>3 DEF Next

\* With the lock on, a token changes hands to the Treasury or by its approval only.
LEMMA LockedStays ==
    ASSUME IndInv, [Next]_vars, NEW t \in TokenIds,
           settings["transfers_locked"], ~settings["dao_recovery"], agents = {},
           TokenVotes(t), owner'[t] # owner[t]
    PROVE  owner'[t] = Treasury \/ MaySpend(Treasury, owner[t], t)
  <1>1. /\ TypeOK /\ None \notin Addresses /\ Treasury \in Addresses
        /\ owner[t] \in Addresses /\ ~IsCustody(owner[t]) /\ ~(t >= minted)
    BY TokenAssumption DEF IndInv, TypeOK, TokenVotes, Addresses
  <1>2. CASE Minting
    <2>1. PICK minter \in Callers, n \in Nat \ {0} :
             \E to \in [minted .. minted + n - 1 -> Addresses] : MintTo(minter, n, to)
      BY <1>2, MintsAre
    <2>2. PICK to \in [minted .. minted + n - 1 -> Addresses] : MintTo(minter, n, to)
      BY <2>1
    <2>3. t \notin DOMAIN to
      BY <1>1 DEF TypeOK, TokenIds
    <2>4. owner'[t] = owner[t]
      BY <2>2, <2>3 DEF MintTo
    <2> QED BY <2>4
  <1>3. CASE Moving
    <2>1. PICK signer \in Signers, x \in TokenIds, to \in Recipients :
             \/ Transfer(signer, to, x)
             \/ \E from \in Addresses : TransferFrom(signer, from, to, x)
             \/ DaoTransfer(signer, x, to)
             \/ \E agent \in Contracts : AgentTransfer(agent, signer, to, x)
      BY <1>3 DEF Moving
    <2>2. ASSUME NEW from, MoveToken(from, to, x)
          PROVE  x = t /\ from = owner[t] /\ owner'[t] = to
      BY <1>1, <2>2 DEF MoveToken, TypeOK
    <2>3. CASE Transfer(signer, to, x)
      <3>1. LockedPathAllows(signer, to, None) /\ signer = owner[t] /\ owner'[t] = to
        BY <2>2, <2>3 DEF Transfer
      <3> QED BY <1>1, <3>1 DEF LockedPathAllows
    <2>4. ASSUME NEW from \in Addresses, TransferFrom(signer, from, to, x)
          PROVE  owner'[t] = Treasury \/ MaySpend(Treasury, owner[t], t)
      <3>1. /\ MaySpend(signer, from, x) /\ LockedPathAllows(from, to, signer)
            /\ x = t /\ from = owner[t] /\ owner'[t] = to
        BY <2>2, <2>4 DEF TransferFrom
      <3>2. to = Treasury \/ signer = Treasury
        BY <1>1, <3>1 DEF LockedPathAllows
      <3> QED BY <3>1, <3>2
    <2> QED BY <2>1, <2>3, <2>4 DEF DaoTransfer, AgentTransfer
  <1>4. CASE ~Minting /\ ~Moving
    BY <1>4, OthersStay DEF Stays
  <1> QED BY <1>2, <1>3, <1>4

\* Locked tokens stay with their holder, over any approvals that were given
\* before the lock and any batch of mints, moves and registrations.
THEOREM LockedTokensStay == Spec => LockHolds
  <1>1. IndInv /\ [Next]_vars =>
          [\A t \in TokenIds :
             (/\ settings["transfers_locked"] /\ ~settings["dao_recovery"]
              /\ agents = {} /\ TokenVotes(t) /\ owner'[t] # owner[t])
             => owner'[t] = Treasury \/ MaySpend(Treasury, owner[t], t)]_vars
    BY LockedStays
  <1> QED BY <1>1, TokenInvariant, PTL DEF Spec, LockHolds

\* What a step may do between the handoff and the launch.
Frozen ==
    /\ settings' = settings
    /\ \A m \in Contracts : allowance'[m] <= allowance[m]
    /\ minted' # minted => \E m \in Contracts :
          /\ modules[m].kind = "claims"
          /\ \/ allowance[m] = Unlimited
             \/ allowance'[m] = allowance[m] - (minted' - minted)

\* Nobody can sign for the admin then: the Treasury is not live either.
LEMMA AdminSilent ==
    ASSUME ~live, admin = Treasury
    PROVE  admin \notin Callers /\ admin \notin Signers
  BY TokenAssumption DEF Callers, Signers, Addresses

\* During a drive a step raises no allowance, changes no switch, and mints for claims only.
LEMMA FrozenStep ==
    ASSUME IndInv, [Next]_vars, ~live, admin = Treasury, ~live'
    PROVE  Frozen
  <1>1. /\ TypeOK /\ \A m \in Contracts : allowance[m] \in Nat
        /\ admin \notin Callers /\ Signers \subseteq Callers
    BY AdminSilent, TokenAssumption DEF IndInv, TypeOK, Allowances, Callers
  <1>2. CASE Minting
    <2>1. PICK minter \in Callers, n \in Nat \ {0} :
             \E to \in [minted .. minted + n - 1 -> Addresses] : MintTo(minter, n, to)
      BY <1>2, MintsAre
    <2>2. SpendMintAuthority(minter, n) /\ minted' = minted + n /\ settings' = settings
      BY <2>1 DEF MintTo
    <2>3. /\ minter \in Contracts /\ modules[minter].kind = "claims"
          /\ allowance' = IF allowance[minter] = Unlimited THEN allowance
                          ELSE [allowance EXCEPT ![minter] = @ - n]
      BY <1>1, <2>1, <2>2 DEF SpendMintAuthority, Registered
    <2>4. minted' - minted = n
      BY <1>1, <2>2 DEF TypeOK
    <2>5. allowance[minter] # Unlimited => allowance'[minter] = allowance[minter] - n
      BY <1>1, <2>3 DEF TypeOK
    <2>6. \A m \in Contracts : allowance'[m] <= allowance[m]
      BY <1>1, <2>3 DEF TypeOK
    <2> QED BY <2>2, <2>3, <2>4, <2>5, <2>6 DEF Frozen
  <1>3. CASE ~Minting
    <2>1. minted' = minted
      <3>1. CASE Moving
        BY <3>1 DEF Moving, Transfer, TransferFrom, DaoTransfer, AgentTransfer, MoveToken
      <3> QED BY <1>3, <3>1, OthersStay DEF Stays
    <2>2. settings' = settings
      <3>1. ASSUME NEW caller \in Callers, NEW s \in Switches, NEW on \in BOOLEAN,
                   SetSwitch(caller, s, on)
            PROVE  FALSE
        BY <1>1, <3>1 DEF SetSwitch
      <3>2. CASE Switching
        BY <3>1, <3>2 DEF Switching
      <3>3. CASE Moving
        BY <3>3 DEF Moving, Transfer, TransferFrom, DaoTransfer, AgentTransfer, MoveToken
      <3>4. CASE Administering
        BY <3>4 DEF Administering, RegisterModule, UnregisterModule, SetTransferAgent,
                    IncreaseMintAllowance, DecreaseMintAllowance, SetAllowance
      <3>5. CASE Approving \/ Delegating
        BY <3>5 DEF Approving, Approve, ApproveForAll, Delegating, Delegate
      <3>6. CASE Releasing \/ Launching \/ NextLedger \/ UNCHANGED vars
        BY <3>6 DEF Releasing, ReleaseMintAllowance, SetAllowance, Launching, Handoff, Launch,
                    NextLedger, vars
      <3> QED BY <1>3, <3>2, <3>3, <3>4, <3>5, <3>6 DEF Next
    <2>3. \A m \in Contracts : allowance'[m] <= allowance[m]
      <3>1. ASSUME NEW m \in Contracts, NEW n \in Nat, n <= allowance[m],
                   allowance' = [allowance EXCEPT ![m] = n]
            PROVE  \A c \in Contracts : allowance'[c] <= allowance[c]
        BY <1>1, <3>1 DEF TypeOK
      <3>2. CASE Administering
        <4>1. PICK caller \in Callers, m \in Contracts :
                 \/ \E kind \in Kinds, nv \in BOOLEAN : RegisterModule(caller, m, kind, nv)
                 \/ UnregisterModule(caller, m)
                 \/ \E on \in BOOLEAN : SetTransferAgent(caller, m, on)
                 \/ \E n \in Amounts : IncreaseMintAllowance(caller, m, n)
                 \/ \E n \in Amounts : DecreaseMintAllowance(caller, m, n)
          BY <3>2 DEF Administering
        <4>2. CASE UnregisterModule(caller, m)
          <5>1. allowance' = [allowance EXCEPT ![m] = 0] /\ 0 <= allowance[m]
            BY <1>1, <4>2 DEF UnregisterModule
          <5> QED BY <3>1, <5>1
        <4>3. CASE \/ \E kind \in Kinds, nv \in BOOLEAN : RegisterModule(caller, m, kind, nv)
                   \/ \E on \in BOOLEAN : SetTransferAgent(caller, m, on)
          <5>1. allowance' = allowance
            BY <4>3 DEF RegisterModule, SetTransferAgent
          <5> QED BY <1>1, <5>1
        <4>4. ASSUME NEW n \in Amounts,
                     IncreaseMintAllowance(caller, m, n) \/ DecreaseMintAllowance(caller, m, n)
              PROVE  FALSE
          BY <1>1, <4>4 DEF IncreaseMintAllowance, DecreaseMintAllowance
        <4> QED BY <4>1, <4>2, <4>3, <4>4
      <3>3. CASE Releasing
        <4>1. PICK m \in Contracts, n \in Amounts : ReleaseMintAllowance(m, n)
          BY <3>3 DEF Releasing
        <4>2. /\ n \in Nat /\ allowance[m] \in Nat
              /\ allowance' = [allowance EXCEPT ![m] = SaturatingSub(allowance[m], n)]
          BY <1>1, <4>1, TokenAssumption DEF ReleaseMintAllowance, SetAllowance
        <4>3. SaturatingSub(allowance[m], n) \in Nat /\ SaturatingSub(allowance[m], n) <= allowance[m]
          BY <4>2 DEF SaturatingSub
        <4> QED BY <3>1, <4>2, <4>3
      <3>4. CASE ~Administering /\ ~Releasing
        <4>1. allowance' = allowance
          <5>1. CASE Moving
            BY <5>1 DEF Moving, Transfer, TransferFrom, DaoTransfer, AgentTransfer, MoveToken,
                        registryVars
          <5>2. CASE Approving \/ Delegating
            BY <5>2 DEF Approving, Approve, ApproveForAll, Delegating, Delegate, registryVars
          <5>3. CASE Switching \/ Launching \/ NextLedger \/ UNCHANGED vars
            <6>1. ~(\E caller, to, g : Launch(caller, to, g))
              BY DEF Launch
            <6> QED BY <5>3, <6>1 DEF Switching, SetSwitch, Launching, Handoff, NextLedger, vars,
                                      registryVars
          <5> QED BY <1>3, <3>4, <5>1, <5>2, <5>3 DEF Next
        <4> QED BY <1>1, <4>1
      <3> QED BY <3>2, <3>3, <3>4
    <2> QED BY <2>1, <2>2, <2>3 DEF Frozen
  <1> QED BY <1>2, <1>3

\* From the early handoff to the launch only the claims module mints, out of the
\* allowance it was given, no allowance rises and no switch changes. Modules and
\* agents are not part of it: the Manager may still register them for the DAO.
THEOREM DriveFreezesToken == Spec => FrozenDuringDrive
  <1>1. IndInv /\ [Next]_vars =>
          [~live /\ admin = Treasury /\ ~live' =>
             /\ settings' = settings
             /\ \A m \in Contracts : allowance'[m] <= allowance[m]
             /\ minted' # minted => \E m \in Contracts :
                   /\ modules[m].kind = "claims"
                   /\ \/ allowance[m] = Unlimited
                      \/ allowance'[m] = allowance[m] - (minted' - minted)]_vars
    BY FrozenStep DEF Frozen
  <1> QED BY <1>1, TokenInvariant, PTL DEF Spec, FrozenDuringDrive

\* A step after which nobody has a power it did not have.
LEMMA NoNewPower ==
    ASSUME NoPowerWithoutRegistration, modules' = modules, agents' \subseteq agents,
           \A m \in Contracts : allowance'[m] > 0 => allowance[m] > 0 \/ Registered(m)
    PROVE  NoPowerWithoutRegistration'
  BY DEF NoPowerWithoutRegistration, Registered

\* No step gives an unregistered contract power.
LEMMA PowerStep ==
    ASSUME IndInv, [Next]_vars, NoPowerWithoutRegistration
    PROVE  NoPowerWithoutRegistration'
  <1>1. /\ TypeOK /\ allowance \in [Contracts -> Allowances] /\ Allowances \subseteq Nat
        /\ modules \in [Contracts -> Entries \cup {NotRegistered}]
        /\ \A m \in Contracts : allowance[m] \in Nat
        /\ \A n \in Amounts : n \in Nat
    BY TokenAssumption DEF IndInv, TypeOK, Allowances
  <1>2. CASE Minting
    <2>1. PICK minter \in Callers, n \in Nat \ {0} :
             \E to \in [minted .. minted + n - 1 -> Addresses] : MintTo(minter, n, to)
      BY <1>2, MintsAre
    <2>2. SpendMintAuthority(minter, n) /\ modules' = modules /\ agents' = agents
      BY <2>1 DEF MintTo
    <2>3. \A m \in Contracts : allowance'[m] > 0 => allowance[m] > 0
      <3>1. \/ allowance' = allowance
            \/ minter \in Contracts /\ allowance' = [allowance EXCEPT ![minter] = @ - n]
        BY <2>2 DEF SpendMintAuthority, Registered
      <3>2. n \in Nat
        BY <2>1
      <3> QED BY <1>1, <3>1, <3>2
    <2> QED BY <2>2, <2>3, NoNewPower
  <1>3. CASE Administering
    <2>1. PICK caller \in Callers, m \in Contracts :
             \/ \E kind \in Kinds, nv \in BOOLEAN : RegisterModule(caller, m, kind, nv)
             \/ UnregisterModule(caller, m)
             \/ \E on \in BOOLEAN : SetTransferAgent(caller, m, on)
             \/ \E n \in Amounts : IncreaseMintAllowance(caller, m, n)
             \/ \E n \in Amounts : DecreaseMintAllowance(caller, m, n)
      BY <1>3 DEF Administering
    <2>2. ASSUME NEW kind, NEW nv, RegisterModule(caller, m, kind, nv)
          PROVE  NoPowerWithoutRegistration'
      <3>1. /\ ~Registered(m) /\ UNCHANGED <<agents, allowance>>
            /\ modules' = [modules EXCEPT ![m] = [kind |-> kind, nonVoting |-> nv]]
        BY <2>2 DEF RegisterModule
      <3> QED BY <1>1, <3>1 DEF NoPowerWithoutRegistration, Registered
    <2>3. CASE UnregisterModule(caller, m)
      <3>1. /\ agents' = agents \ {m} /\ allowance' = [allowance EXCEPT ![m] = 0]
            /\ modules' = [modules EXCEPT ![m] = NotRegistered]
        BY <2>3 DEF UnregisterModule
      <3>2. ~(allowance'[m] > 0) /\ m \notin agents'
        BY <1>1, <3>1
      <3>3. \A c \in Contracts : c # m => /\ modules'[c] = modules[c]
                                          /\ allowance'[c] = allowance[c]
        BY <1>1, <3>1
      <3> QED BY <3>1, <3>2, <3>3 DEF NoPowerWithoutRegistration, Registered
    <2>4. ASSUME NEW on, SetTransferAgent(caller, m, on)
          PROVE  NoPowerWithoutRegistration'
      <3>1. /\ Registered(m) /\ UNCHANGED <<modules, allowance>> /\ agents' \subseteq agents \cup {m}
        BY <2>4 DEF SetTransferAgent
      <3> QED BY <3>1 DEF NoPowerWithoutRegistration, Registered
    <2>5. ASSUME NEW n \in Amounts,
                 IncreaseMintAllowance(caller, m, n) \/ DecreaseMintAllowance(caller, m, n)
          PROVE  NoPowerWithoutRegistration'
      <3>1. PICK x \in Nat :
               /\ SetAllowance(m, x)
               /\ x > 0 => allowance[m] > 0 \/ Registered(m)
        <4>1. n \in Nat /\ allowance[m] \in Nat /\ Unlimited \in Nat
          BY <1>1, TokenAssumption, SMT
        <4>2. /\ SaturatingAdd(allowance[m], n) \in Nat /\ SaturatingSub(allowance[m], n) \in Nat
              /\ SaturatingSub(allowance[m], n) > 0 => allowance[m] > 0
          BY <4>1 DEF SaturatingAdd, SaturatingSub
        <4> QED BY <2>5, <4>2 DEF IncreaseMintAllowance, DecreaseMintAllowance
      <3>2. \A c \in Contracts : allowance'[c] > 0 => allowance[c] > 0 \/ Registered(c)
        BY <1>1, <3>1 DEF SetAllowance
      <3> QED BY <3>1, <3>2, NoNewPower DEF SetAllowance
    <2> QED BY <2>1, <2>2, <2>3, <2>4, <2>5
  <1>4. CASE Releasing
    <2>1. PICK m \in Contracts, n \in Amounts : ReleaseMintAllowance(m, n)
      BY <1>4 DEF Releasing
    <2>2. n \in Nat /\ allowance[m] \in Nat
      BY <1>1, TokenAssumption
    <2>3. \A c \in Contracts : allowance'[c] > 0 => allowance[c] > 0
      BY <1>1, <2>1, <2>2 DEF ReleaseMintAllowance, SetAllowance, SaturatingSub
    <2> QED BY <2>1, <2>3, NoNewPower DEF ReleaseMintAllowance, SetAllowance
  <1>5. CASE Launching
    <2>1. CASE \E caller, to : Handoff(caller, to)
      BY <2>1, NoNewPower DEF Handoff, registryVars
    <2>2. ASSUME NEW caller, NEW to, NEW S \in SUBSET Contracts, NEW g \in [S -> Amounts],
                 Launch(caller, to, g)
          PROVE  NoPowerWithoutRegistration'
      <3>1. \A c \in Contracts : allowance'[c] > 0 => allowance[c] > 0 \/ Registered(c)
        BY <1>1, <2>2 DEF Launch
      <3> QED BY <2>2, <3>1, NoNewPower DEF Launch
    <2> QED BY <1>5, <2>1, <2>2 DEF Launching
  <1>6. CASE Moving \/ Approving \/ Delegating \/ Switching \/ NextLedger \/ UNCHANGED vars
    <2>1. UNCHANGED <<modules, agents, allowance>>
      <3>1. CASE Moving
        BY <3>1 DEF Moving, Transfer, TransferFrom, DaoTransfer, AgentTransfer, MoveToken,
                    registryVars
      <3>2. CASE Approving \/ Delegating
        BY <3>2 DEF Approving, Approve, ApproveForAll, Delegating, Delegate, registryVars
      <3>3. CASE Switching \/ NextLedger \/ UNCHANGED vars
        BY <3>3 DEF Switching, SetSwitch, NextLedger, vars, registryVars
      <3> QED BY <1>6, <3>1, <3>2, <3>3
    <2> QED BY <2>1, NoNewPower
  <1> QED BY <1>2, <1>3, <1>4, <1>5, <1>6 DEF Next

\* Unregistering a module takes back every power it was granted, and no order
\* of grants, launches and removals leaves one behind.
THEOREM PowerNeedsRegistration == Spec => []NoPowerWithoutRegistration
  <1>1. Init => NoPowerWithoutRegistration
    BY DEF Init, NoPowerWithoutRegistration
  <1>2. IndInv /\ [Next]_vars /\ NoPowerWithoutRegistration => NoPowerWithoutRegistration'
    BY PowerStep
  <1> QED BY <1>1, <1>2, TokenInvariant, PTL DEF Spec

=============================================================================
