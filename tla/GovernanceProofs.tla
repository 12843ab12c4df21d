--------------------------- MODULE GovernanceProofs ---------------------------
(***************************************************************************)
(* Proofs about the Governor, for any voters, tokens, proposals, delays and*)
(* ledgers, over any token that implements VotingPower; and about the      *)
(* Treasury composed with it, for any proposals of any length, calls,      *)
(* authorizations and implementations.                                     *)
(***************************************************************************)
EXTENDS Treasury, Sums, SequenceTheorems

-----------------------------------------------------------------------------
(* Counting tokens, and arithmetic.                                        *)

\* Sets of tokens are finite, so their sizes are natural numbers.
LEMMA TokensFinite ==
    ASSUME NEW S \in SUBSET TokenIds
    PROVE  IsFiniteSet(S) /\ Cardinality(S) \in Nat
  BY GovernorAssumption, FS_Subset, FS_CardinalityType

\* The instance of FiniteSets inside VotingPower counts as this one does.
LEMMA SameCardinality == ASSUME NEW S PROVE VP!Cardinality(S) = Cardinality(S)
  BY DEF VP!Cardinality, Cardinality

\* What an assignment of tokens amounts to.
LEMMA RecountIs ==
    ASSUME NEW v \in VP!Assignments
    PROVE  /\ VP!VotesIn(v) \in [Voters -> Nat]
           /\ \A a \in Voters :
                 VP!VotesIn(v)[a] = Cardinality({t \in TokenIds : v[t] = a})
           /\ VP!SupplyIn(v) = Cardinality({t \in TokenIds : v[t] # NoVoter})
           /\ VP!SupplyIn(v) \in Nat
  <1>1. \A a \in Voters : Cardinality({t \in TokenIds : v[t] = a}) \in Nat
    BY TokensFinite
  <1>2. Cardinality({t \in TokenIds : v[t] # NoVoter}) \in Nat
    BY TokensFinite
  <1>3. \A a \in Voters : VP!VotesIn(v)[a] = Cardinality({t \in TokenIds : v[t] = a})
    BY SameCardinality DEF VP!VotesIn
  <1>4. VP!SupplyIn(v) = Cardinality({t \in TokenIds : v[t] # NoVoter})
    BY SameCardinality DEF VP!SupplyIn
  <1>5. VP!VotesIn(v) = [a \in Voters |-> VP!VotesIn(v)[a]]
    BY DEF VP!VotesIn
  <1>6. VP!VotesIn(v) \in [Voters -> Nat]
    BY <1>1, <1>3, <1>5
  <1> QED BY <1>2, <1>3, <1>4, <1>6

\* Rounding up a part of s never gives more than s, nor nothing of something.
LEMMA QuorumBounds ==
    ASSUME NEW s \in Nat, NEW bps \in 1 .. BPS
    PROVE  /\ QuorumOf(s, bps) \in Nat
           /\ QuorumOf(s, bps) <= s
           /\ s > 0 => QuorumOf(s, bps) > 0
  <1> DEFINE n == s * bps + BPS - 1
             q == n \div BPS
  <1>1. BPS \in Nat \ {0}
    BY GovernorAssumption
  <1>2. s * bps \in Nat /\ s * bps <= s * BPS /\ s * BPS \in Nat
    <2>1. BPS - bps \in Nat /\ s * (BPS - bps) \in Nat
      BY <1>1
    <2> QED BY <1>1, <2>1
  <1>3. n \in Nat
    BY <1>1, <1>2
  <1>4. q \in Nat /\ q * BPS <= n /\ n < q * BPS + BPS
    BY <1>1, <1>3
  <1>5. q <= s
    <2> SUFFICES ASSUME q >= s + 1 PROVE FALSE
      BY <1>4
    <2>1. q * BPS >= (s + 1) * BPS
      BY <1>1, <1>4
    <2>2. (s + 1) * BPS = s * BPS + BPS
      BY <1>1
    <2> QED BY <1>1, <1>2, <1>4, <2>1, <2>2
  <1>6. s > 0 => q > 0
    <2> SUFFICES ASSUME s > 0, q = 0 PROVE FALSE
      BY <1>4
    <2>1. s * bps >= 1
      OBVIOUS
    <2>2. q * BPS = 0
      BY <1>1
    <2> QED BY <1>1, <1>2, <1>4, <2>1, <2>2
  <1> QED BY <1>4, <1>5, <1>6 DEF QuorumOf

-----------------------------------------------------------------------------
(* Reads of the closed history.                                            *)

\* Closed ledgers are numbers of votes, and recounts.
LEMMA HistoryRead ==
    ASSUME IndInv, NEW l \in 0 .. ledger - 1
    PROVE  \E v \in VP!Assignments : IsRecount(v, l)
  <1>1. CASE l = 0
    <2> DEFINE v == [t \in TokenIds |-> NoVoter]
    <2>1. v \in VP!Assignments
      BY DEF VP!Assignments
    <2>2. l \notin DOMAIN closed
      BY <1>1 DEF IndInv, TypeOK, VP!TypeOK
    <2>3. (\A a \in Voters : VP!VotesAt(a, l) = 0) /\ VP!SupplyAt(l) = 0
      BY <2>2 DEF VP!VotesAt, VP!SupplyAt
    <2>4. \A a \in Voters : {t \in TokenIds : v[t] = a} = {}
      BY GovernorAssumption
    <2>5. {t \in TokenIds : v[t] # NoVoter} = {}
      OBVIOUS
    <2> HIDE DEF v
    <2>6. \A a \in Voters : Cardinality({t \in TokenIds : v[t] = a}) = 0
      BY <2>4, FS_EmptySet, Zenon
    <2>7. Cardinality({t \in TokenIds : v[t] # NoVoter}) = 0
      BY <2>5, FS_EmptySet, Zenon
    <2>8. IsRecount(v, l)
      BY <2>1, <2>3, <2>6, <2>7, RecountIs DEF IsRecount
    <2> QED BY <2>1, <2>8
  <1>2. CASE l # 0
    <2>1. l \in 1 .. ledger - 1
      BY <1>2 DEF IndInv, TypeOK, VP!TypeOK
    <2> QED BY <2>1 DEF IndInv, HistoryIsRecounts
  <1> QED BY <1>1, <1>2

\* A snapshot's recount is in natural numbers.
LEMMA ReadType ==
    ASSUME NEW l, NEW v \in VP!Assignments, IsRecount(v, l)
    PROVE  /\ \A a \in Voters : VP!VotesAt(a, l) \in Nat
           /\ VP!SupplyAt(l) \in Nat
  BY RecountIs DEF IsRecount
-----------------------------------------------------------------------------
(* One proposal at a time.                                                 *)

\* What the invariant says of one proposal.
Fine(id) ==
    /\ ~Proposed(id) => tally[id] = NoVotes /\ hasVoted[id] = {}
    /\ Proposed(id) =>
         LET p == proposal[id]
         IN  /\ p.snapshot < ledger
             /\ now < p.start => tally[id] = NoVotes
             /\ p.end >= p.start + MinDelay
             /\ p.state \in {"Queued", "Executed"} =>
                   p.eta >= p.end + MinDelay /\ now >= p.end /\ Passed(id)
             /\ p.state = "Executed" => now >= p.eta
             /\ p.quorum <= VP!SupplyAt(p.snapshot)
             /\ VP!SupplyAt(p.snapshot) > 0 => p.quorum > 0
             /\ \E v \in VP!Assignments :
                   /\ IsRecount(v, p.snapshot)
                   /\ VotesCast(id) = Cardinality({t \in TokenIds : v[t] \in hasVoted[id]})

\* The invariant is this, of every proposal.
LEMMA AllFine == IndInv <=> TypeOK /\ HistoryIsRecounts /\ \A id \in Ids : Fine(id)
  BY DEF IndInv, TallyIsRecount, VotesInTime, ScheduleKept, QuorumReachable,
         OnlyPassedProceed, Fine

\* So a step that leaves every proposal fine keeps it.
LEMMA InvKept ==
    ASSUME TypeOK', HistoryIsRecounts', \A id \in Ids : Fine(id)'
    PROVE  IndInv'
  <1>1. (IndInv <=> TypeOK /\ HistoryIsRecounts /\ \A id \in Ids : Fine(id))'
    BY AllFine, PTL
  <1> QED BY <1>1

\* What is read of the ledgers closed so far.
ReadsKept ==
    \A l \in 0 .. ledger - 1 :
        /\ \A a \in Voters : VP!VotesAt(a, l)' = VP!VotesAt(a, l)
        /\ VP!SupplyAt(l)' = VP!SupplyAt(l)

\* A proposal that a step does not touch stays fine as time goes by.
LEMMA UntouchedFine ==
    ASSUME IndInv, TypeOK', NEW id \in Ids, now <= now', ledger <= ledger', ReadsKept,
           proposal'[id] = proposal[id], tally'[id] = tally[id],
           hasVoted'[id] = hasVoted[id]
    PROVE  Fine(id)'
  <1>1. Fine(id)
    BY AllFine
  <1>2. CASE ~Proposed(id)
    BY <1>1, <1>2 DEF Fine, Proposed
  <1>3. CASE Proposed(id)
    <2>1. /\ proposal[id] \in Proposals /\ ledger \in Nat /\ ledger' \in Nat
          /\ now \in Nat /\ now' \in Nat
      BY <1>3 DEF IndInv, TypeOK, VP!TypeOK, Proposed
    <2>2. proposal[id].snapshot \in 0 .. ledger - 1
      BY <1>1, <1>3, <2>1 DEF Fine, Proposals
    <2>3. /\ \A a \in Voters : VP!VotesAt(a, proposal[id].snapshot)'
                                = VP!VotesAt(a, proposal[id].snapshot)
          /\ VP!SupplyAt(proposal[id].snapshot)' = VP!SupplyAt(proposal[id].snapshot)
      BY <2>2 DEF ReadsKept, VP!VotesAt, VP!SupplyAt
    <2>4. \A v : IsRecount(v, proposal[id].snapshot)'
                    <=> IsRecount(v, proposal[id].snapshot)
      BY <2>3 DEF IsRecount, VP!VotesIn, VP!SupplyIn
    <2>5. /\ Passed(id)' <=> Passed(id)
          /\ VotesCast(id)' = VotesCast(id)
          /\ Proposed(id)'
      BY <1>3 DEF Passed, VotesCast, Proposed
    <2>6. \E v \in VP!Assignments :
             /\ IsRecount(v, proposal[id].snapshot)'
             /\ VotesCast(id)' = Cardinality({t \in TokenIds : v[t] \in hasVoted'[id]})
      BY <1>1, <1>3, <2>4, <2>5 DEF Fine
    <2>7. VP!Assignments' = VP!Assignments
      BY DEF VP!Assignments
    <2> QED BY <1>1, <1>3, <2>1, <2>3, <2>5, <2>6, <2>7 DEF Fine, Proposals
  <1> QED BY <1>2, <1>3

\* Nothing is read differently while no ledger closes.
LEMMA SameLedger ==
    ASSUME UNCHANGED <<ledger, closed>>
    PROVE  ReadsKept
  BY DEF ReadsKept, VP!VotesAt, VP!SupplyAt

\* The history is a recount as long as the token does not move.
LEMMA SameToken ==
    ASSUME IndInv, UNCHANGED tokenVars
    PROVE  HistoryIsRecounts' /\ VP!TypeOK' /\ ReadsKept
  <1>1. ReadsKept
    BY SameLedger DEF tokenVars
  <1>2. VP!TypeOK'
    BY DEF IndInv, TypeOK, VP!TypeOK, tokenVars, VP!Assignments, VP!Snapshots
  <1>3. HistoryIsRecounts'
    BY DEF IndInv, HistoryIsRecounts, tokenVars, VP!Assignments, IsRecount,
           VP!VotesIn, VP!SupplyIn, VP!VotesAt, VP!SupplyAt
  <1> QED BY <1>1, <1>2, <1>3
-----------------------------------------------------------------------------
(* One lemma per operation.                                                *)

\* propose: a new proposal starts without votes, under a quorum its snapshot
\* can reach.
LEMMA ProposeInv ==
    ASSUME IndInv, NEW id \in Ids, NEW proposer \in Voters, Propose(id, proposer)
    PROVE  IndInv'
  <1> DEFINE start == now + settings.votingDelay
             p == [proposer |-> proposer, snapshot |-> ledger - 1,
                   start |-> start, end |-> start + settings.votingPeriod,
                   eta |-> 0, state |-> "Pending", quorum |-> QuorumNow,
                   seq |-> proposalCount]
  <1>1. /\ proposal' = [proposal EXCEPT ![id] = p]
        /\ proposalCount' = proposalCount + 1
        /\ UNCHANGED <<tokenVars, now, live, admin, settings, tally, hasVoted>>
        /\ ~Proposed(id)
    BY DEF Propose, phaseVars
  <1>2. /\ TypeOK /\ MinDelay \in Nat \ {0} /\ MaxDelay \in Nat
        /\ ledger \in Nat \ {0} /\ now \in Nat
        /\ settings.votingDelay \in MinDelay .. MaxDelay
        /\ settings.votingPeriod \in MinDelay .. MaxDelay
        /\ settings.quorumBps \in 1 .. BPS
    BY GovernorAssumption DEF IndInv, TypeOK, VP!TypeOK, ValidSettings
  <1>3. PICK v \in VP!Assignments : IsRecount(v, ledger - 1)
    BY <1>2, HistoryRead
  <1>4. VP!SupplyAt(ledger - 1) \in Nat
    BY <1>3, ReadType
  <1>5. /\ QuorumNow \in Nat
        /\ QuorumNow <= VP!SupplyAt(ledger - 1)
        /\ VP!SupplyAt(ledger - 1) > 0 => QuorumNow > 0
    BY <1>2, <1>4, QuorumBounds DEF QuorumNow
  <1>6. p \in Proposals
    <2>1. ledger - 1 \in Nat /\ start \in Nat /\ start + settings.votingPeriod \in Nat
          /\ proposalCount \in Nat
      BY <1>2 DEF TypeOK
    <2> QED BY <1>5, <2>1 DEF Proposals
  <1> HIDE DEF p
  <1>7. proposal' \in [Ids -> Proposals \cup {NoProposal}] /\ proposal'[id] = p
    BY <1>1, <1>2, <1>6 DEF TypeOK
  <1>8. HistoryIsRecounts' /\ VP!TypeOK' /\ ReadsKept
    BY <1>1, SameToken
  <1>9. TypeOK'
    BY <1>1, <1>2, <1>7, <1>8 DEF TypeOK
  <1>10. Fine(id)'
    <2>1. tally[id] = NoVotes /\ hasVoted[id] = {}
      BY <1>1, AllFine DEF Fine
    <2>2. /\ p.snapshot = ledger - 1 /\ p.start = now + settings.votingDelay
          /\ p.end = p.start + settings.votingPeriod /\ p.state = "Pending"
          /\ p.quorum = QuorumNow
      BY DEF p
    <2>3. ledger - 1 \in 0 .. ledger - 1
      BY <1>2
    <2>4. /\ \A a \in Voters : VP!VotesAt(a, ledger - 1)' = VP!VotesAt(a, ledger - 1)
          /\ VP!SupplyAt(ledger - 1)' = VP!SupplyAt(ledger - 1)
          /\ ledger' = ledger
      BY <1>1, <1>8, <2>3 DEF ReadsKept, tokenVars, VP!VotesAt, VP!SupplyAt
    <2>5. IsRecount(v, ledger - 1)'
      BY <1>3, <2>4 DEF IsRecount, VP!VotesIn, VP!SupplyIn
    <2>6. /\ v \in VP!Assignments'
          /\ IsRecount(v, proposal[id].snapshot)'
      BY <1>3, <1>7, <2>2, <2>4, <2>5 DEF VP!Assignments
    <2>7. VotesCast(id)' = 0
      BY <1>1, <2>1 DEF VotesCast, NoVotes, VoteTypes
    <2>8. {t \in TokenIds : v[t] \in hasVoted'[id]} = {}
      BY <1>1, <2>1
    <2>9. Cardinality({t \in TokenIds : v[t] \in hasVoted'[id]}) = 0
      BY <2>8, FS_EmptySet, Zenon
    <2>10. \E w \in VP!Assignments' :
              /\ IsRecount(w, proposal[id].snapshot)'
              /\ VotesCast(id)' = Cardinality({t \in TokenIds : w[t] \in hasVoted'[id]})
      BY <2>6, <2>7, <2>9
    <2>11. VP!SupplyAt(proposal[id].snapshot)' = VP!SupplyAt(ledger - 1)
      BY <1>7, <2>2, <2>4 DEF VP!SupplyAt
    <2>12. Proposed(id)'
      BY <1>7, <2>2 DEF Proposed, NoProposal
    <2>13. /\ proposal'[id].snapshot < ledger'
           /\ proposal'[id].end >= proposal'[id].start + MinDelay
           /\ proposal'[id].state = "Pending"
           /\ tally'[id] = NoVotes
      BY <1>1, <1>2, <1>7, <2>1, <2>2, <2>4
    <2>14. /\ proposal'[id].quorum <= VP!SupplyAt(proposal[id].snapshot)'
           /\ VP!SupplyAt(proposal[id].snapshot)' > 0 => proposal'[id].quorum > 0
      BY <1>5, <1>7, <2>2, <2>4, <2>11
    <2> QED BY <2>10, <2>12, <2>13, <2>14 DEF Fine, NoVotes
  <1>11. \A i \in Ids \ {id} : Fine(i)'
    <2> TAKE i \in Ids \ {id}
    <2>1. /\ proposal'[i] = proposal[i] /\ tally'[i] = tally[i]
          /\ hasVoted'[i] = hasVoted[i] /\ now <= now' /\ ledger <= ledger'
      BY <1>1, <1>2 DEF TypeOK, tokenVars
    <2> QED BY <1>8, <1>9, <2>1, UntouchedFine
  <1>12. TypeOK' /\ HistoryIsRecounts' /\ \A i \in Ids : Fine(i)'
    BY <1>8, <1>9, <1>10, <1>11
  <1> QED BY <1>12, InvKept
\* A proposal is open to votes only between its start and its end.
LEMMA WhenActive ==
    ASSUME TypeOK, NEW id \in Ids
    PROVE  /\ ProposalState(id) = "Active" =>
                 /\ Proposed(id) /\ proposal[id].state = "Pending"
                 /\ now >= proposal[id].start /\ now < proposal[id].end
           /\ ProposalState(id) = "Pending" =>
                 Proposed(id) /\ proposal[id].state = "Pending" /\ now < proposal[id].start
           /\ ProposalState(id) = "Succeeded" =>
                 /\ Proposed(id) /\ proposal[id].state = "Pending"
                 /\ now >= proposal[id].end /\ Passed(id)
           /\ ProposalState(id) = "Queued" =>
                 /\ Proposed(id) /\ proposal[id].state = "Queued"
                 /\ now < proposal[id].eta + ExpirationPeriod
  <1>1. CASE ~Proposed(id)
    BY <1>1 DEF Proposed, NoProposal, ProposalState
  <1>2. CASE Proposed(id)
    <2>1. /\ proposal[id].start \in Nat /\ proposal[id].end \in Nat
          /\ proposal[id].eta \in Nat /\ now \in Nat /\ ExpirationPeriod \in Nat
          /\ proposal[id].state \in {"Pending", "Queued", "Canceled", "Executed"}
      BY <1>2, GovernorAssumption DEF TypeOK, Proposed, Proposals
    <2> QED BY <1>2, <2>1 DEF ProposalState, Expired
  <1> QED BY <1>1, <1>2

\* cast_vote: the tokens of the snapshot that have voted grow by exactly the
\* voter's, which had not voted.
LEMMA CastVoteInv ==
    ASSUME IndInv, NEW id \in Ids, NEW account \in Voters, NEW type \in VoteTypes,
           CastVote(id, account, type)
    PROVE  IndInv'
  <1> DEFINE weight == VP!VotesAt(account, proposal[id].snapshot)
  <1>1. /\ tally' = [tally EXCEPT ![id][type] = @ + weight]
        /\ hasVoted' = [hasVoted EXCEPT ![id] = @ \cup {account}]
        /\ account \notin hasVoted[id]
        /\ UNCHANGED <<tokenVars, now, live, admin, settings, proposal, proposalCount>>
    BY DEF CastVote, CountVote, phaseVars
  <1>2. TypeOK /\ Fine(id)
    BY AllFine
  <1>3. /\ Proposed(id) /\ proposal[id].state = "Pending"
        /\ proposal[id].start \in Nat /\ now \in Nat /\ now >= proposal[id].start
    BY <1>2, WhenActive DEF CastVote, TypeOK, Proposed, Proposals
  <1>4. PICK v \in VP!Assignments :
           /\ IsRecount(v, proposal[id].snapshot)
           /\ VotesCast(id) = Cardinality({t \in TokenIds : v[t] \in hasVoted[id]})
    BY <1>2, <1>3 DEF Fine
  <1>5. weight = Cardinality({t \in TokenIds : v[t] = account}) /\ weight \in Nat
    BY <1>4, RecountIs, ReadType DEF IsRecount
  <1> HIDE DEF weight
  <1>6. HistoryIsRecounts' /\ VP!TypeOK' /\ ReadsKept
    BY <1>1, SameToken
  <1>7. /\ tally' \in [Ids -> [VoteTypes -> Nat]]
        /\ hasVoted' \in [Ids -> SUBSET Voters]
    BY <1>1, <1>2, <1>5 DEF TypeOK
  <1>8. TypeOK'
    BY <1>1, <1>2, <1>6, <1>7 DEF TypeOK
  <1>9. Fine(id)'
    <2> DEFINE S == {t \in TokenIds : v[t] \in hasVoted[id]}
               N == {t \in TokenIds : v[t] = account}
               T == {t \in TokenIds : v[t] \in hasVoted'[id]}
    <2>1. hasVoted'[id] = hasVoted[id] \cup {account}
      BY <1>1, <1>2 DEF TypeOK
    <2>2. T = S \cup N /\ S \cap N = {} /\ S \in SUBSET TokenIds /\ N \in SUBSET TokenIds
      BY <1>1, <2>1
    <2> HIDE DEF S, N, T
    <2>3. Cardinality(S \cup N) = Cardinality(S) + Cardinality(N)
      <3>1. /\ IsFiniteSet(S) /\ Cardinality(S) \in Nat
            /\ IsFiniteSet(N) /\ Cardinality(N) \in Nat
        BY <2>2, TokensFinite
      <3>2. Cardinality(S \cup N) = Cardinality(S) + Cardinality(N) - Cardinality(S \cap N)
        BY <3>1, FS_Union
      <3>3. Cardinality(S \cap N) = 0
        BY <2>2, FS_EmptySet, Zenon
      <3> QED BY <3>1, <3>2, <3>3
    <2>4. Cardinality(T) = Cardinality(S \cup N)
      BY <2>2, Zenon
    <2>5. VotesCast(id)' = VotesCast(id) + weight
      <3>1. tally'[id] = [tally[id] EXCEPT ![type] = @ + weight]
        BY <1>1, <1>2 DEF TypeOK
      <3>2. tally[id] \in [VoteTypes -> Nat]
        BY <1>2 DEF TypeOK
      <3> QED BY <1>5, <3>1, <3>2 DEF VotesCast, VoteTypes
    <2>6. VotesCast(id)' = Cardinality(T)
      BY <1>4, <1>5, <2>3, <2>4, <2>5 DEF S, N
    <2>7. /\ IsRecount(v, proposal[id].snapshot)'
          /\ VP!SupplyAt(proposal[id].snapshot)' = VP!SupplyAt(proposal[id].snapshot)
          /\ v \in VP!Assignments'
      BY <1>1, <1>4 DEF IsRecount, tokenVars, VP!VotesAt, VP!SupplyAt, VP!VotesIn,
                        VP!SupplyIn, VP!Assignments
    <2>8. \E w \in VP!Assignments' :
             /\ IsRecount(w, proposal[id].snapshot)'
             /\ VotesCast(id)' = Cardinality({t \in TokenIds : w[t] \in hasVoted'[id]})
      BY <2>6, <2>7 DEF T
    <2>9. Proposed(id)' /\ proposal' = proposal /\ ledger' = ledger /\ now' = now
      BY <1>1, <1>3 DEF Proposed, tokenVars
    <2>10. LET p == proposal[id]
           IN  /\ p.snapshot < ledger /\ p.end >= p.start + MinDelay
               /\ ~(now < p.start)
               /\ p.state = "Pending"
               /\ p.quorum <= VP!SupplyAt(p.snapshot)
               /\ VP!SupplyAt(p.snapshot) > 0 => p.quorum > 0
      BY <1>2, <1>3 DEF Fine
    <2> QED BY <2>7, <2>8, <2>9, <2>10 DEF Fine
  <1>10. \A i \in Ids \ {id} : Fine(i)'
    <2> TAKE i \in Ids \ {id}
    <2>1. /\ proposal'[i] = proposal[i] /\ tally'[i] = tally[i]
          /\ hasVoted'[i] = hasVoted[i] /\ now <= now' /\ ledger <= ledger'
      BY <1>1, <1>2 DEF TypeOK, VP!TypeOK, tokenVars
    <2> QED BY <1>6, <1>8, <2>1, UntouchedFine
  <1> QED BY <1>6, <1>8, <1>9, <1>10, InvKept

\* Nothing but the stored state and eta of one proposal changes, and what an
\* execution does to the parameters.
Moves(id) ==
    /\ Proposed(id)
    /\ \E s \in {"Queued", "Canceled", "Executed"}, eta \in Nat :
          proposal' = [proposal EXCEPT ![id].state = s, ![id].eta = eta]
    /\ settings' \in ValidSettings
    /\ UNCHANGED <<tokenVars, now, phaseVars, proposalCount, tally, hasVoted>>

\* Such a step keeps the invariant if it keeps the schedule.
LEMMA MovesInv ==
    ASSUME IndInv, NEW id \in Ids, Moves(id),
           LET q == proposal'[id]
           IN  /\ q.state \in {"Queued", "Executed"} =>
                     q.eta >= q.end + MinDelay /\ now >= q.end /\ Passed(id)
               /\ q.state = "Executed" => now >= q.eta
    PROVE  IndInv'
  <1> DEFINE q == proposal'[id]
  <1>1. /\ TypeOK /\ Fine(id) /\ Proposed(id) /\ proposal[id] \in Proposals
    BY AllFine DEF Moves, TypeOK, Proposed
  <1>2. /\ proposal' \in [Ids -> Proposals \cup {NoProposal}]
        /\ q \in Proposals
        /\ q.snapshot = proposal[id].snapshot /\ q.start = proposal[id].start
        /\ q.end = proposal[id].end /\ q.quorum = proposal[id].quorum
        /\ \A i \in Ids \ {id} : proposal'[i] = proposal[i]
    <2>1. PICK s \in {"Queued", "Canceled", "Executed"}, eta \in Nat :
             proposal' = [proposal EXCEPT ![id].state = s, ![id].eta = eta]
      BY DEF Moves
    <2> DEFINE r == [proposal[id] EXCEPT !.state = s, !.eta = eta]
    <2>2. /\ r \in Proposals
          /\ r.snapshot = proposal[id].snapshot /\ r.start = proposal[id].start
          /\ r.end = proposal[id].end /\ r.quorum = proposal[id].quorum
      BY <1>1 DEF Proposals
    <2>3. proposal' = [proposal EXCEPT ![id] = r]
      BY <2>1, <1>1 DEF TypeOK
    <2> HIDE DEF r
    <2> QED BY <1>1, <2>2, <2>3 DEF TypeOK
  <1> HIDE DEF q
  <1>3. /\ UNCHANGED <<tokenVars, now, live, admin, proposalCount, tally, hasVoted>>
        /\ settings' \in ValidSettings
    BY DEF Moves, phaseVars
  <1>4. HistoryIsRecounts' /\ VP!TypeOK' /\ ReadsKept
    BY <1>3, SameToken
  <1>5. TypeOK'
    BY <1>1, <1>2, <1>3, <1>4 DEF TypeOK
  <1>6. Fine(id)'
    <2>1. /\ VP!SupplyAt(proposal[id].snapshot)' = VP!SupplyAt(proposal[id].snapshot)
          /\ \A v : IsRecount(v, proposal[id].snapshot)'
                       <=> IsRecount(v, proposal[id].snapshot)
      BY <1>2, <1>3 DEF q, IsRecount, tokenVars, VP!VotesAt, VP!SupplyAt, VP!VotesIn,
                        VP!SupplyIn
    <2>2. Proposed(id)' /\ (Passed(id)' <=> Passed(id)) /\ VotesCast(id)' = VotesCast(id)
      BY <1>2, <1>3 DEF q, Proposed, Proposals, NoProposal, Passed, VotesCast
    <2>3. \E v \in VP!Assignments :
             /\ IsRecount(v, proposal[id].snapshot)'
             /\ VotesCast(id)' = Cardinality({t \in TokenIds : v[t] \in hasVoted'[id]})
      BY <1>1, <1>3, <2>1, <2>2 DEF Fine
    <2>4. VP!Assignments' = VP!Assignments
      BY DEF VP!Assignments
    <2>5. ledger' = ledger /\ now' = now /\ tally' = tally
      BY <1>3 DEF tokenVars
    <2>6. /\ q.snapshot < ledger /\ (now < q.start => tally[id] = NoVotes)
          /\ q.end >= q.start + MinDelay
          /\ q.quorum <= VP!SupplyAt(proposal[id].snapshot)'
          /\ VP!SupplyAt(proposal[id].snapshot)' > 0 => q.quorum > 0
      BY <1>1, <1>2, <2>1 DEF Fine
    <2> QED BY <2>2, <2>3, <2>4, <2>5, <2>6 DEF Fine, q, NoVotes
  <1>7. \A i \in Ids \ {id} : Fine(i)'
    <2> TAKE i \in Ids \ {id}
    <2>1. /\ proposal'[i] = proposal[i] /\ tally'[i] = tally[i]
          /\ hasVoted'[i] = hasVoted[i] /\ now <= now' /\ ledger <= ledger'
      BY <1>1, <1>2, <1>3 DEF TypeOK, VP!TypeOK, tokenVars
    <2> QED BY <1>4, <1>5, <2>1, UntouchedFine
  <1> QED BY <1>4, <1>5, <1>6, <1>7, InvKept
\* queue: only what has passed, and at least MinDelay before it can execute.
LEMMA QueueInv ==
    ASSUME IndInv, NEW id \in Ids, Queue(id)
    PROVE  IndInv'
  <1> DEFINE eta == now + settings.queueDelay
             q == proposal'[id]
  <1>1. /\ TypeOK /\ Fine(id) /\ Proposed(id) /\ now >= proposal[id].end /\ Passed(id)
    BY AllFine, WhenActive DEF Queue
  <1>2. /\ proposal[id] \in Proposals /\ now \in Nat /\ MinDelay \in Nat
        /\ settings.queueDelay \in MinDelay .. MaxDelay /\ MaxDelay \in Nat
    BY <1>1, GovernorAssumption DEF TypeOK, Proposed, ValidSettings
  <1>3. proposal' = [proposal EXCEPT ![id].eta = eta, ![id].state = "Queued"]
    BY DEF Queue
  <1>4. proposal' = [proposal EXCEPT ![id] =
                        [proposal[id] EXCEPT !.eta = eta, !.state = "Queued"]]
    BY <1>1, <1>3 DEF TypeOK
  <1>5. q.state = "Queued" /\ q.eta = eta /\ q.end = proposal[id].end
    BY <1>1, <1>2, <1>4 DEF TypeOK, Proposals
  <1>6. proposal' = [proposal EXCEPT ![id].state = "Queued", ![id].eta = eta]
    BY <1>1, <1>2, <1>4 DEF TypeOK, Proposals
  <1>7. eta \in Nat /\ eta >= proposal[id].end + MinDelay
    BY <1>1, <1>2 DEF Proposals
  <1>8. Moves(id)
    BY <1>1, <1>6, <1>7 DEF Moves, Queue, TypeOK
  <1> QED BY <1>1, <1>5, <1>7, <1>8, MovesInv

\* A change of state alone, to one that ends the proposal.
LEMMA EndsIt ==
    ASSUME TypeOK, NEW id \in Ids, Proposed(id), NEW s \in {"Canceled", "Executed"},
           proposal' = [proposal EXCEPT ![id].state = s],
           settings' \in ValidSettings,
           UNCHANGED <<tokenVars, now, phaseVars, proposalCount, tally, hasVoted>>
    PROVE  /\ Moves(id)
           /\ proposal'[id].state = s
           /\ proposal'[id].eta = proposal[id].eta
           /\ proposal'[id].end = proposal[id].end
  <1>1. proposal[id] \in Proposals
    BY DEF TypeOK, Proposed
  <1>2. proposal' = [proposal EXCEPT ![id] = [proposal[id] EXCEPT !.state = s]]
    BY DEF TypeOK
  <1>3. /\ proposal'[id].state = s /\ proposal'[id].eta = proposal[id].eta
        /\ proposal'[id].end = proposal[id].end
    BY <1>1, <1>2 DEF TypeOK, Proposals
  <1>4. [proposal[id] EXCEPT !.state = s]
            = [proposal[id] EXCEPT !.state = s, !.eta = proposal[id].eta]
    BY <1>1 DEF Proposals
  <1>5. proposal' = [proposal EXCEPT ![id].state = s, ![id].eta = proposal[id].eta]
    BY <1>1, <1>2, <1>4 DEF TypeOK
  <1>6. proposal[id].eta \in Nat
    BY <1>1 DEF Proposals
  <1> QED BY <1>3, <1>5, <1>6 DEF Moves

\* consume: a queued proposal whose time has come, and what its actions do to
\* the parameters.
LEMMA MarkExecutedInv ==
    ASSUME IndInv, NEW id \in Ids, MarkExecuted(id), UNCHANGED <<tokenVars, now, phaseVars>>,
           settings' \in ValidSettings
    PROVE  IndInv'
  <1>1. /\ TypeOK /\ Fine(id) /\ Proposed(id) /\ proposal[id].state = "Queued"
        /\ now >= proposal[id].eta
    BY AllFine, WhenActive DEF MarkExecuted
  <1>2. /\ Moves(id) /\ proposal'[id].state = "Executed"
        /\ proposal'[id].eta = proposal[id].eta /\ proposal'[id].end = proposal[id].end
    BY <1>1, EndsIt DEF MarkExecuted
  <1>3. proposal[id].eta >= proposal[id].end + MinDelay /\ now >= proposal[id].end
        /\ Passed(id)
    BY <1>1 DEF Fine
  <1> QED BY <1>1, <1>2, <1>3, MovesInv

\* cancel: nothing is promised of a canceled proposal.
LEMMA CancelInv ==
    ASSUME IndInv, NEW id \in Ids, NEW operator, Cancel(id, operator)
    PROVE  IndInv'
  <1>1. TypeOK /\ Proposed(id)
    BY DEF Cancel, IndInv
  <1>2. Moves(id) /\ proposal'[id].state = "Canceled"
    BY <1>1, EndsIt DEF Cancel, TypeOK
  <1> QED BY <1>2, MovesInv

\* A step that touches no proposal keeps the invariant if it keeps the types
\* and the history, and no clock runs backwards.
LEMMA ElsewhereInv ==
    ASSUME IndInv, TypeOK', HistoryIsRecounts', ReadsKept, now <= now', ledger <= ledger',
           UNCHANGED proposalVars
    PROVE  IndInv'
  <1>1. \A id \in Ids : Fine(id)'
    BY UntouchedFine DEF proposalVars
  <1> QED BY <1>1, InvKept

\* The setters keep the parameters within their bounds; handoff and launch
\* give the admin to the Treasury.  Neither touches a proposal.
LEMMA AdministeringInv ==
    ASSUME IndInv, Setting \/ Launching
    PROVE  IndInv'
  <1>1. UNCHANGED <<tokenVars, now, proposalVars>>
    BY DEF Setting, Launching, SetParameter, Handoff, Launch
  <1>2. live' \in BOOLEAN /\ admin' \in {LaunchAdmin, Treasury} /\ settings' \in ValidSettings
    BY DEF IndInv, TypeOK, Setting, Launching, SetParameter, MaySet, Handoff, Launch,
           phaseVars
  <1>3. HistoryIsRecounts' /\ VP!TypeOK' /\ ReadsKept
    BY <1>1, SameToken
  <1>4. TypeOK' /\ now <= now' /\ ledger <= ledger'
    BY <1>1, <1>2, <1>3 DEF IndInv, TypeOK, VP!TypeOK, tokenVars, proposalVars
  <1> QED BY <1>1, <1>3, <1>4, ElsewhereInv

\* Tokens move: votes and supply are recounted, closed ledgers stay.
LEMMA ReassignInv ==
    ASSUME IndInv, Reassign
    PROVE  IndInv'
  <1>1. /\ voter' \in VP!Assignments
        /\ votes' = VP!VotesIn(voter') /\ supply' = VP!SupplyIn(voter')
        /\ UNCHANGED <<ledger, closed, now, live, admin, settings, proposalVars>>
    BY DEF Reassign, VP!Reassign, phaseVars
  <1>2. votes' \in [Voters -> Nat] /\ supply' \in Nat
    BY <1>1, RecountIs
  <1>3. ReadsKept
    BY <1>1, SameLedger
  <1>4. VP!TypeOK'
    BY <1>1, <1>2 DEF IndInv, TypeOK, VP!TypeOK, VP!Assignments, VP!Snapshots
  <1>5. HistoryIsRecounts'
    <2>1. votes' = VP!VotesIn(voter)' /\ supply' = VP!SupplyIn(voter)'
      BY <1>1 DEF VP!VotesIn, VP!SupplyIn
    <2>2. \A l \in 1 .. ledger - 1 : \E v \in VP!Assignments : IsRecount(v, l)
      BY DEF IndInv, HistoryIsRecounts
    <2>3. \A l, v : IsRecount(v, l)' <=> IsRecount(v, l)
      BY <1>1 DEF IsRecount, VP!VotesAt, VP!SupplyAt, VP!VotesIn, VP!SupplyIn
    <2> QED BY <1>1, <2>1, <2>2, <2>3 DEF HistoryIsRecounts, VP!Assignments
  <1>6. TypeOK' /\ now <= now' /\ ledger <= ledger'
    BY <1>1, <1>4 DEF IndInv, TypeOK, VP!TypeOK, proposalVars
  <1> QED BY <1>1, <1>3, <1>5, <1>6, ElsewhereInv
\* A ledger closes: its votes and supply, a recount of its tokens, are appended
\* to a history that otherwise stays, and the clock moves on.
LEMMA NextLedgerInv ==
    ASSUME IndInv, NextLedger
    PROVE  IndInv' /\ now < now'
  <1> DEFINE e == [votes |-> votes, supply |-> supply]
  <1>1. /\ ledger < MaxLedger /\ ledger' = ledger + 1 /\ closed' = Append(closed, e)
        /\ UNCHANGED <<voter, votes, supply, live, admin, settings, proposalVars>>
    BY DEF NextLedger, VP!CloseLedger, phaseVars
  <1>2. /\ TypeOK /\ ledger \in Nat \ {0} /\ MaxLedger \in Nat \ {0}
        /\ ledger \in 1 .. MaxLedger /\ e \in VP!Snapshots
        /\ closed \in [1 .. ledger - 1 -> VP!Snapshots]
    BY GovernorAssumption DEF IndInv, TypeOK, VP!TypeOK, VP!Snapshots
  <1>3. now < now' /\ now' \in Nat
    BY <1>2, GovernorAssumption DEF NextLedger, TypeOK
  <1>4. closed \in Seq(VP!Snapshots) /\ Len(closed) = ledger - 1
    BY <1>2
  <1> HIDE DEF e
  <1>5. /\ closed' \in Seq(VP!Snapshots) /\ Len(closed') = ledger
        /\ \A l \in 1 .. ledger - 1 : closed'[l] = closed[l]
        /\ closed'[ledger] = e
    BY <1>1, <1>2, <1>4, AppendProperties
  <1>6. closed' \in [1 .. ledger -> VP!Snapshots] /\ DOMAIN closed' = 1 .. ledger
    BY <1>2, <1>5, LenProperties
  <1>7. VP!TypeOK'
    <2>1. ledger' \in 1 .. MaxLedger /\ ledger' - 1 = ledger
      BY <1>1, <1>2
    <2>2. /\ voter \in VP!Assignments /\ votes \in [Voters -> Nat] /\ supply \in Nat
      BY <1>2 DEF TypeOK, VP!TypeOK
    <2> QED BY <1>1, <1>6, <2>1, <2>2 DEF VP!TypeOK, VP!Assignments, VP!Snapshots
  <1>8. ReadsKept
    <2> SUFFICES ASSUME NEW l \in 0 .. ledger - 1
                 PROVE  /\ \A a \in Voters : VP!VotesAt(a, l)' = VP!VotesAt(a, l)
                        /\ VP!SupplyAt(l)' = VP!SupplyAt(l)
      BY DEF ReadsKept
    <2>1. CASE l = 0
      <3>1. l \notin DOMAIN closed /\ l \notin DOMAIN closed'
        BY <1>2, <1>6, <2>1
      <3> QED BY <3>1 DEF VP!VotesAt, VP!SupplyAt
    <2>2. CASE l # 0
      <3>1. l \in DOMAIN closed /\ l \in DOMAIN closed' /\ closed'[l] = closed[l]
        BY <1>2, <1>5, <1>6, <2>2
      <3> QED BY <3>1 DEF VP!VotesAt, VP!SupplyAt
    <2> QED BY <2>1, <2>2
  <1>9. HistoryIsRecounts'
    <2>1. votes = VP!VotesIn(voter) /\ supply = VP!SupplyIn(voter)
      BY DEF IndInv, HistoryIsRecounts
    <2>2. \A l \in 1 .. ledger - 1 : \E v \in VP!Assignments : IsRecount(v, l)'
      <3> TAKE l \in 1 .. ledger - 1
      <3>1. PICK v \in VP!Assignments : IsRecount(v, l)
        BY DEF IndInv, HistoryIsRecounts
      <3>2. l \in 0 .. ledger - 1
        BY <1>2
      <3>3. IsRecount(v, l)'
        BY <1>8, <3>1, <3>2 DEF ReadsKept, IsRecount, VP!VotesIn, VP!SupplyIn
      <3> QED BY <3>3
    <2>3. \A l, v : l = ledger /\ v = voter => IsRecount(v, l)'
      <3> SUFFICES ASSUME NEW l, NEW v, l = ledger, v = voter PROVE IsRecount(v, l)'
        OBVIOUS
      <3>1. l \in DOMAIN closed' /\ closed'[l].votes = votes /\ closed'[l].supply = supply
        BY <1>2, <1>5, <1>6 DEF e
      <3>2. VP!VotesIn(v)' = VP!VotesIn(v) /\ VP!SupplyIn(v)' = VP!SupplyIn(v)
        BY DEF VP!VotesIn, VP!SupplyIn
      <3> QED BY <2>1, <3>1, <3>2 DEF IsRecount, VP!VotesAt, VP!SupplyAt
    <2>4. \A l \in 1 .. ledger : \E v \in VP!Assignments : IsRecount(v, l)'
      <3> TAKE l \in 1 .. ledger
      <3>1. CASE l = ledger
        BY <1>2, <2>3, <3>1 DEF TypeOK, VP!TypeOK
      <3>2. CASE l # ledger
        BY <1>2, <2>2, <3>2
      <3> QED BY <3>1, <3>2
    <2>5. VP!Assignments' = VP!Assignments /\ ledger' - 1 = ledger
      BY <1>1, <1>2 DEF VP!Assignments
    <2>6. votes' = VP!VotesIn(voter)' /\ supply' = VP!SupplyIn(voter)'
      BY <1>1, <2>1 DEF VP!VotesIn, VP!SupplyIn
    <2> QED BY <2>4, <2>5, <2>6 DEF HistoryIsRecounts
  <1>10. TypeOK' /\ now <= now' /\ ledger <= ledger'
    BY <1>1, <1>2, <1>3, <1>7 DEF TypeOK, proposalVars
  <1> QED BY <1>1, <1>3, <1>8, <1>9, <1>10, ElsewhereInv
-----------------------------------------------------------------------------
(* The invariant.                                                          *)

\* At deployment no ledger is closed and nothing is proposed.
LEMMA InitInv == Init => IndInv
  <1> SUFFICES ASSUME Init PROVE IndInv
    OBVIOUS
  <1>1. /\ voter \in VP!Assignments
        /\ votes = VP!VotesIn(voter) /\ supply = VP!SupplyIn(voter)
        /\ ledger = 1 /\ closed = << >>
    <2>1. /\ voter = [t \in TokenIds |-> NoVoter]
          /\ votes = [a \in Voters |-> 0] /\ supply = 0
          /\ ledger = 1 /\ closed = << >>
      BY DEF Init, VP!Init
    <2>2. voter \in VP!Assignments
      BY <2>1 DEF VP!Assignments
    <2>3. \A a \in Voters : {t \in TokenIds : voter[t] = a} = {}
      BY <2>1, GovernorAssumption
    <2>4. {t \in TokenIds : voter[t] # NoVoter} = {}
      BY <2>1
    <2>5. \A a \in Voters : Cardinality({t \in TokenIds : voter[t] = a}) = 0
      BY <2>3, FS_EmptySet, Zenon
    <2>6. Cardinality({t \in TokenIds : voter[t] # NoVoter}) = 0
      BY <2>4, FS_EmptySet, Zenon
    <2>7. VP!VotesIn(voter) = [a \in Voters |-> 0] /\ VP!SupplyIn(voter) = 0
      BY <2>2, <2>5, <2>6, RecountIs DEF VP!VotesIn
    <2> QED BY <2>1, <2>2, <2>7
  <1>2. VP!TypeOK
    <2>1. closed \in [1 .. ledger - 1 -> VP!Snapshots]
      BY <1>1, EmptySeq
    <2>2. votes \in [Voters -> Nat] /\ supply \in Nat
      BY <1>1, RecountIs
    <2> QED BY <1>1, <2>1, <2>2, GovernorAssumption DEF VP!TypeOK
  <1>3. TypeOK
    BY <1>2, GovernorAssumption DEF Init, TypeOK, NoVotes
  <1>4. HistoryIsRecounts
    BY <1>1 DEF HistoryIsRecounts
  <1>5. \A id \in Ids : Fine(id)
    BY DEF Init, Fine, Proposed
  <1> QED BY <1>3, <1>4, <1>5, AllFine

\* Every step keeps it.
LEMMA NextInv ==
    ASSUME IndInv, [Next]_vars
    PROVE  IndInv'
  <1>1. CASE Proposing
    BY <1>1, ProposeInv DEF Proposing
  <1>2. CASE Voting
    BY <1>2, CastVoteInv DEF Voting
  <1>3. CASE Queueing
    BY <1>3, QueueInv DEF Queueing
  <1>4. CASE Consuming
    BY <1>4, MarkExecutedInv DEF Consuming, Consume, IndInv, TypeOK
  <1>5. CASE Cancelling
    BY <1>5, CancelInv DEF Cancelling
  <1>6. CASE Setting \/ Launching
    BY <1>6, AdministeringInv
  <1>7. CASE Reassign
    BY <1>7, ReassignInv
  <1>8. CASE NextLedger
    BY <1>8, NextLedgerInv
  <1>9. CASE UNCHANGED vars
    <2>1. UNCHANGED <<tokenVars, now, live, admin, settings, proposalVars>>
      BY <1>9 DEF vars, phaseVars
    <2>2. HistoryIsRecounts' /\ VP!TypeOK' /\ ReadsKept
      BY <2>1, SameToken
    <2>3. TypeOK' /\ now <= now' /\ ledger <= ledger'
      BY <2>1, <2>2 DEF IndInv, TypeOK, VP!TypeOK, tokenVars, proposalVars
    <2> QED BY <2>1, <2>2, <2>3, ElsewhereInv
  <1> QED BY <1>1, <1>2, <1>3, <1>4, <1>5, <1>6, <1>7, <1>8, <1>9 DEF Next

\* The inductive invariant of the Governor: closed ledgers and tallies are
\* recounts of the members' tokens, and every proposal keeps its schedule.
THEOREM GovernorInvariant == Spec => []IndInv
  <1>1. Init => IndInv
    BY InitInv
  <1>2. IndInv /\ [Next]_vars => IndInv'
    BY NextInv
  <1> QED BY <1>1, <1>2, PTL DEF Spec

\* The Governor's state is always of its type: a proposal's times and quorum
\* are natural numbers and the parameters stay within validate_params.
THEOREM GovernorTypes == Spec => []TypeOK
  BY GovernorInvariant, PTL DEF IndInv

\* quorum_now reads the supply of the ledger the votes are read at, so every
\* quorum can be reached and none is zero while there are votes.
THEOREM QuorumIsReachable == Spec => []QuorumReachable
  BY GovernorInvariant, PTL DEF IndInv

\* What queue and consume let through has passed its vote, after its end.
THEOREM PassedBeforeProceeding == Spec => []OnlyPassedProceed
  BY GovernorInvariant, PTL DEF IndInv

\* The invariant implies the notice before voting.
LEMMA InvGivesNotice == ASSUME IndInv PROVE NoticeGiven
  <1> SUFFICES ASSUME NEW id \in Ids, Proposed(id)
               PROVE  /\ proposal[id].end >= proposal[id].start + MinDelay
                      /\ proposal[id].state = "Executed" => now >= proposal[id].end + MinDelay
    BY DEF NoticeGiven
  <1>1. proposal[id].eta \in Nat /\ proposal[id].end \in Nat /\ now \in Nat /\ MinDelay \in Nat
    BY GovernorAssumption DEF IndInv, TypeOK, Proposed, Proposals
  <1> QED BY <1>1 DEF IndInv, ScheduleKept

\* Members have MIN_VOTING_PERIOD to vote, and MIN_QUEUE_DELAY from the vote's
\* end until anything executes, whatever the setters are called with.
THEOREM NoticeIsGiven == Spec => []NoticeGiven
  BY InvGivesNotice, GovernorInvariant, PTL

\* The invariant implies that tallies stay within the supply of their snapshot.
LEMMA InvCountsOnce == ASSUME IndInv PROVE TallyWithinSnapshot
  <1> SUFFICES ASSUME NEW id \in Ids, Proposed(id)
               PROVE  VotesCast(id) <= VP!SupplyAt(proposal[id].snapshot)
    BY DEF TallyWithinSnapshot
  <1>1. PICK v \in VP!Assignments :
           /\ IsRecount(v, proposal[id].snapshot)
           /\ VotesCast(id) = Cardinality({t \in TokenIds : v[t] \in hasVoted[id]})
    BY DEF IndInv, TallyIsRecount
  <1> DEFINE Cast == {t \in TokenIds : v[t] \in hasVoted[id]}
             Held == {t \in TokenIds : v[t] # NoVoter}
  <1>2. Cast \subseteq Held
    BY GovernorAssumption DEF IndInv, TypeOK
  <1>3. VP!SupplyAt(proposal[id].snapshot) = Cardinality(Held)
    BY <1>1, RecountIs DEF IsRecount
  <1>4. IsFiniteSet(Held)
    BY TokensFinite
  <1> HIDE DEF Cast, Held
  <1>5. Cardinality(Cast) <= Cardinality(Held)
    BY <1>2, <1>4, FS_Subset
  <1> QED BY <1>1, <1>3, <1>5 DEF Cast

\* cast_vote and count_vote never count a token twice, however tokens move and
\* are delegated between votes: a tally never exceeds its snapshot's supply.
THEOREM NoVoteCountsTwice == Spec => []TallyWithinSnapshot
  BY InvCountsOnce, GovernorInvariant, PTL

-----------------------------------------------------------------------------
(* The Governor implements the published life of a proposal.               *)

\* What one step may do to the state that is read of one proposal.
Follows(id) ==
    \/ ProposalState(id)' = ProposalState(id)
    \/ ProposalState(id)' \in Life!Succession[ProposalState(id)]

\* What the state of a proposal is computed from.
LEMMA StateIs ==
    ASSUME TypeOK, NEW id \in Ids
    PROVE  /\ ~Proposed(id) => ProposalState(id) = "None"
           /\ Proposed(id) =>
                LET p == proposal[id]
                IN  /\ p.state \in {"Pending", "Queued", "Canceled", "Executed"}
                    /\ p.state \in {"Canceled", "Executed"} => ProposalState(id) = p.state
                    /\ p.state = "Queued" =>
                         ProposalState(id) = IF now >= p.eta + ExpirationPeriod THEN "Expired" ELSE "Queued"
                    /\ p.state = "Pending" =>
                         ProposalState(id) = IF now < p.start THEN "Pending"
                                             ELSE IF now < p.end THEN "Active"
                                             ELSE IF ~Passed(id) THEN "Defeated"
                                             ELSE IF now >= p.end + ExpirationPeriod THEN "Expired"
                                             ELSE "Succeeded"
  <1>1. CASE ~Proposed(id)
    BY <1>1 DEF Proposed, NoProposal, ProposalState
  <1>2. CASE Proposed(id)
    <2>1. proposal[id].state \in {"Pending", "Queued", "Canceled", "Executed"}
      BY <1>2 DEF TypeOK, Proposed, Proposals
    <2> QED BY <1>2, <2>1 DEF ProposalState, Expired
  <1> QED BY <1>1, <1>2

\* The same, of the state after a step.
LEMMA StateIsNext ==
    ASSUME TypeOK', NEW id \in Ids
    PROVE  /\ ~Proposed(id)' => ProposalState(id)' = "None"
           /\ Proposed(id)' =>
                LET p == proposal'[id]
                IN  /\ p.state \in {"Pending", "Queued", "Canceled", "Executed"}
                    /\ p.state \in {"Canceled", "Executed"} => ProposalState(id)' = p.state
                    /\ p.state = "Queued" =>
                         ProposalState(id)' = IF now' >= p.eta + ExpirationPeriod THEN "Expired" ELSE "Queued"
                    /\ p.state = "Pending" =>
                         ProposalState(id)' = IF now' < p.start THEN "Pending"
                                              ELSE IF now' < p.end THEN "Active"
                                              ELSE IF ~Passed(id)' THEN "Defeated"
                                              ELSE IF now' >= p.end + ExpirationPeriod THEN "Expired"
                                              ELSE "Succeeded"
  <1>1. CASE ~Proposed(id)'
    BY <1>1 DEF Proposed, NoProposal, ProposalState
  <1>2. CASE Proposed(id)'
    <2>1. proposal'[id].state \in {"Pending", "Queued", "Canceled", "Executed"}
      BY <1>2 DEF TypeOK, Proposed, Proposals
    <2> QED BY <1>2, <2>1 DEF ProposalState, Expired
  <1> QED BY <1>1, <1>2

\* Time alone moves a proposal along its life, and never past the vote into
\* success: before its start nobody has voted on it.
LEMMA TimeFollows ==
    ASSUME IndInv, TypeOK', NEW id \in Ids, now <= now', proposal'[id] = proposal[id],
           tally'[id] = tally[id]
    PROVE  Follows(id)
  <1>1. TypeOK /\ Fine(id)
    BY AllFine
  <1>2. CASE ~Proposed(id)
    <2>1. ~Proposed(id)'
      BY <1>2 DEF Proposed
    <2> QED BY <1>1, <1>2, <2>1, StateIs, StateIsNext DEF Follows
  <1>3. CASE Proposed(id)
    <2> DEFINE p == proposal[id]
    <2>1. /\ p \in Proposals /\ Proposed(id)' /\ now \in Nat /\ now' \in Nat
          /\ ExpirationPeriod \in Nat
      BY <1>1, <1>3, GovernorAssumption DEF TypeOK, Proposed
    <2>2. p.start \in Nat /\ p.end \in Nat /\ p.eta \in Nat
      BY <2>1 DEF Proposals
    <2>3. Passed(id)' <=> Passed(id)
      BY DEF Passed
    <2>4. now < p.start => ~Passed(id)
      BY <1>1, <1>3 DEF Fine, Passed, NoVotes, VoteTypes
    <2>5. CASE p.state \in {"Canceled", "Executed"}
      BY <1>1, <1>3, <2>1, <2>5, StateIs, StateIsNext DEF Follows
    <2>6. CASE p.state = "Queued"
      <3>1. ProposalState(id) = IF now >= p.eta + ExpirationPeriod THEN "Expired" ELSE "Queued"
        BY <1>1, <1>3, <2>6, StateIs
      <3>2. ProposalState(id)' = IF now' >= p.eta + ExpirationPeriod THEN "Expired" ELSE "Queued"
        BY <2>1, <2>6, StateIsNext
      <3> QED BY <2>1, <2>2, <3>1, <3>2 DEF Follows, Life!Succession
    <2>7. CASE p.state = "Pending"
      <3>1. ProposalState(id) = IF now < p.start THEN "Pending"
                                ELSE IF now < p.end THEN "Active"
                                ELSE IF ~Passed(id) THEN "Defeated"
                                ELSE IF now >= p.end + ExpirationPeriod THEN "Expired"
                                ELSE "Succeeded"
        BY <1>1, <1>3, <2>7, StateIs
      <3>2. ProposalState(id)' = IF now' < p.start THEN "Pending"
                                 ELSE IF now' < p.end THEN "Active"
                                 ELSE IF ~Passed(id) THEN "Defeated"
                                 ELSE IF now' >= p.end + ExpirationPeriod THEN "Expired"
                                 ELSE "Succeeded"
        BY <2>1, <2>3, <2>7, StateIsNext
      <3> QED BY <2>1, <2>2, <2>4, <3>1, <3>2 DEF Follows, Life!Succession
    <2>8. p.state \in {"Pending", "Queued", "Canceled", "Executed"}
      BY <2>1 DEF Proposals
    <2> QED BY <2>5, <2>6, <2>7, <2>8
  <1> QED BY <1>2, <1>3

\* A proposal that ends leaves the others where they are, and becomes Canceled
\* before its vote is over or Executed out of the queue.
LEMMA EndFollows ==
    ASSUME IndInv, TypeOK', NEW i \in Ids, NEW id \in Ids, Moves(i),
           \/ /\ ProposalState(i) \in {"Pending", "Active"}
              /\ proposal'[i].state = "Canceled"
           \/ ProposalState(i) = "Queued" /\ proposal'[i].state = "Executed"
    PROVE  Follows(id)
  <1>1. TypeOK /\ now \in Nat
    BY DEF IndInv, TypeOK
  <1>2. CASE i # id
    <2>1. now' = now /\ proposal'[id] = proposal[id] /\ tally'[id] = tally[id]
      BY <1>1, <1>2 DEF Moves, TypeOK
    <2> QED BY <1>1, <2>1, TimeFollows
  <1>3. CASE i = id
    <2>1. Proposed(id)'
      BY <1>3 DEF Proposed, NoProposal
    <2>2. ProposalState(id)' = proposal'[id].state
      BY <1>3, <2>1, StateIsNext
    <2> QED BY <1>3, <2>2 DEF Follows, Life!Succession
  <1> QED BY <1>2, <1>3

\* Executing a proposal, whatever its actions do to the parameters.
LEMMA MarkExecutedFollows ==
    ASSUME IndInv, TypeOK', NEW i \in Ids, NEW id \in Ids, MarkExecuted(i),
           UNCHANGED <<tokenVars, now, phaseVars>>
    PROVE  Follows(id)
  <1>1. TypeOK /\ settings' \in ValidSettings
    BY DEF IndInv, TypeOK
  <1>2. ProposalState(i) = "Queued" /\ Proposed(i)
    BY <1>1, WhenActive DEF MarkExecuted
  <1>3. Moves(i) /\ proposal'[i].state = "Executed"
    BY <1>1, <1>2, EndsIt DEF MarkExecuted
  <1> QED BY <1>2, <1>3, EndFollows

\* Each operation takes its own proposal along its life, and the others only
\* as far as time does.
LEMMA StepFollows ==
    ASSUME IndInv, [Next]_vars, NEW id \in Ids
    PROVE  Follows(id)
  <1>1. /\ TypeOK /\ TypeOK' /\ now \in Nat /\ ExpirationPeriod \in Nat
        /\ settings' \in ValidSettings
    BY NextInv, GovernorAssumption DEF IndInv, TypeOK
  <1>2. CASE /\ now <= now' /\ proposal'[id] = proposal[id] /\ tally'[id] = tally[id]
    BY <1>1, <1>2, TimeFollows
  <1>3. ASSUME NEW i \in Ids, NEW proposer \in Voters, Propose(i, proposer)
        PROVE  Follows(id)
    <2>1. CASE i # id
      <3>1. now' = now /\ proposal'[id] = proposal[id] /\ tally'[id] = tally[id]
        BY <1>1, <1>3, <2>1 DEF Propose, TypeOK
      <3> QED BY <1>1, <1>2, <3>1
    <2>2. CASE i = id
      <3>1. /\ ~Proposed(id) /\ now' = now
            /\ proposal'[id].state = "Pending"
            /\ proposal'[id].start = now + settings.votingDelay
        BY <1>1, <1>3, <2>2 DEF Propose, TypeOK
      <3>2. settings.votingDelay > 0 /\ settings.votingDelay \in Nat
        BY <1>1, GovernorAssumption DEF TypeOK, ValidSettings
      <3>3. Proposed(id)'
        BY <3>1 DEF Proposed, NoProposal
      <3>4. ProposalState(id) = "None" /\ ProposalState(id)' = "Pending"
        BY <1>1, <3>1, <3>2, <3>3, StateIs, StateIsNext
      <3> QED BY <3>4 DEF Follows, Life!Succession
    <2> QED BY <2>1, <2>2
  <1>4. ASSUME NEW i \in Ids, NEW account \in Voters, NEW type \in VoteTypes,
               CastVote(i, account, type)
        PROVE  Follows(id)
    <2>1. now' = now /\ proposal' = proposal
      BY <1>4 DEF CastVote
    <2>2. CASE i # id
      <3>1. tally'[id] = tally[id]
        BY <1>1, <1>4, <2>2 DEF CastVote, CountVote, TypeOK
      <3> QED BY <1>1, <1>2, <2>1, <3>1
    <2>3. CASE i = id
      <3>1. /\ Proposed(id) /\ proposal[id].state = "Pending"
            /\ now >= proposal[id].start /\ now < proposal[id].end
            /\ ProposalState(id) = "Active"
        BY <1>1, <1>4, <2>3, WhenActive DEF CastVote
      <3>2. proposal[id].start \in Nat /\ Proposed(id)'
        BY <1>1, <2>1, <3>1 DEF TypeOK, Proposed, Proposals
      <3>3. ProposalState(id)' = "Active"
        BY <1>1, <2>1, <3>1, <3>2, StateIsNext
      <3> QED BY <3>1, <3>3 DEF Follows
    <2> QED BY <2>2, <2>3
  <1>5. ASSUME NEW i \in Ids, NEW caller, Consume(caller, i)
        PROVE  Follows(id)
    BY <1>1, <1>5, MarkExecutedFollows DEF Consume
  <1>6. ASSUME NEW i \in Ids, Queue(i)
        PROVE  Follows(id)
    <2> DEFINE eta == now + settings.queueDelay
    <2>1. ProposalState(i) = "Succeeded" /\ Proposed(i) /\ now' = now
      BY <1>1, <1>6, WhenActive DEF Queue
    <2>2. /\ proposal' = [proposal EXCEPT ![i].eta = eta, ![i].state = "Queued"]
          /\ proposal[i] \in Proposals
      BY <1>1, <1>6, <2>1 DEF Queue, TypeOK, Proposed
    <2>3. eta \in Nat /\ eta >= now
      BY <1>1, GovernorAssumption DEF TypeOK, ValidSettings
    <2>4. proposal' = [proposal EXCEPT ![i] =
                          [proposal[i] EXCEPT !.eta = eta, !.state = "Queued"]]
      BY <1>1, <2>2 DEF TypeOK
    <2>5. proposal'[i].state = "Queued" /\ proposal'[i].eta = eta
      BY <1>1, <2>2, <2>4 DEF TypeOK, Proposals
    <2>6. CASE i # id
      <3>1. proposal'[id] = proposal[id] /\ tally'[id] = tally[id]
        BY <1>1, <1>6, <2>4, <2>6 DEF Queue, TypeOK
      <3> QED BY <1>1, <1>2, <2>1, <3>1
    <2>7. CASE i = id
      <3>1. Proposed(id)'
        BY <2>5, <2>7 DEF Proposed, NoProposal
      <3>2. eta + ExpirationPeriod > now
        BY <1>1, <2>3, GovernorAssumption
      <3>3. ~(now' >= proposal'[id].eta + ExpirationPeriod)
        BY <1>1, <2>1, <2>3, <2>5, <2>7, <3>2
      <3>4. ProposalState(id)' = "Queued"
        BY <1>1, <2>5, <2>7, <3>1, <3>3, StateIsNext
      <3> QED BY <2>1, <2>7, <3>4 DEF Follows, Life!Succession
    <2> QED BY <2>6, <2>7
  <1>7. ASSUME NEW i \in Ids, NEW operator, Cancel(i, operator)
        PROVE  Follows(id)
    <2>1. ProposalState(i) \in {"Pending", "Active"} /\ Proposed(i)
      BY <1>7 DEF Cancel
    <2>2. Moves(i) /\ proposal'[i].state = "Canceled"
      BY <1>1, <1>7, <2>1, EndsIt DEF Cancel
    <2> QED BY <1>1, <2>1, <2>2, EndFollows
  <1>8. CASE Setting \/ Launching \/ Reassign \/ UNCHANGED vars
    <2>1. UNCHANGED <<now, proposal, tally>>
      BY <1>8 DEF Setting, Launching, SetParameter, Handoff, Launch, Reassign, vars,
                  proposalVars
    <2> QED BY <1>1, <1>2, <2>1
  <1>9. CASE NextLedger
    <2>1. now < now' /\ now' \in Nat
      BY <1>1, <1>9, NextLedgerInv DEF TypeOK
    <2>2. UNCHANGED <<proposal, tally>>
      BY <1>9 DEF NextLedger, proposalVars
    <2> QED BY <1>1, <1>2, <2>1, <2>2
  <1> QED BY <1>3, <1>4, <1>5, <1>6, <1>7, <1>8, <1>9
          DEF Next, Proposing, Voting, Queueing, Consuming, Cancelling

\* proposal_state, read at any two ledgers, only ever moves along the life the
\* governor crate documents: no operation, and no late ledger, takes a proposal
\* back, past its vote, or out of a final state.
THEOREM GovernorFollowsLife == Spec => FollowsLife
  <1>1. Init => Life!Init
    BY DEF Init, Life!Init, ProposalState, NoProposal
  <1>2. ASSUME IndInv, [Next]_vars
        PROVE  [Life!Next]_([id \in Ids |-> ProposalState(id)])
    <2>1. \A id \in Ids : Follows(id)
      BY <1>2, StepFollows
    <2> QED BY <2>1 DEF Life!Next, Follows
  <1> QED BY <1>1, <1>2, GovernorInvariant, PTL DEF Spec, FollowsLife, Life!Spec

-----------------------------------------------------------------------------
-----------------------------------------------------------------------------
(* The Treasury composed with the Governor.                                 *)
Calls == [id : Ids, action : {a \in Actions : External(a)}, trees : SUBSET Trees]

\* A run that has not failed.
Runs ==
    [ok : {TRUE}, pending : SUBSET Trees, settings : ValidSettings, hash : Hashes,
     layout : Nat, calls : Seq(Calls)]

-----------------------------------------------------------------------------
(* The recursion of a run.                                                 *)

Start ==
    [ok |-> TRUE, pending |-> NothingPending, settings |-> settings,
     hash |-> hash, layout |-> layout, calls |-> calls]

\* f is the run of the first N actions.
IsRun(f, id, list, broken, N) ==
    f = [n \in 0 .. N |->
            IF n = 0
            THEN [ok |-> TRUE, pending |-> NothingPending, settings |-> settings,
                  hash |-> hash, layout |-> layout, calls |-> calls]
            ELSE LET before == f[n - 1]
                 IN  Then(before, Dispatch(before, list[n], id, broken))]

\* Run is the last value of a function that folds Dispatch over the list.
LEMMA RunIs ==
    ASSUME NEW id, NEW list, NEW broken
    PROVE  Run(id, list, broken) =
              (CHOOSE f : IsRun(f, id, list, broken, Len(list)))[Len(list)]
  BY Zenon DEF Run, IsRun

\* A run of N actions extends to one of N + 1.
LEMMA RunExists ==
    ASSUME NEW id, NEW list, NEW broken, NEW N \in Nat
    PROVE  \E f : IsRun(f, id, list, broken, N)
  <1> DEFINE T == {n \in Nat : \E f : IsRun(f, id, list, broken, n)}
             Step(r, n) == Then(r, Dispatch(r, list[n], id, broken))
  <1>1. 0 \in T
    <2> DEFINE f == [n \in 0 .. 0 |-> Start]
    <2>1. IsRun(f, id, list, broken, 0)
      BY DEF IsRun, Start
    <2> QED BY <2>1
  <1>2. ASSUME NEW n \in T PROVE n + 1 \in T
    <2>1. PICK f : IsRun(f, id, list, broken, n)
      OBVIOUS
    <2> DEFINE g == [m \in 0 .. n + 1 |-> IF m = 0 THEN Start ELSE Step(f[m - 1], m)]
    <2>2. f = [m \in 0 .. n |-> IF m = 0 THEN Start ELSE Step(f[m - 1], m)]
      BY <2>1 DEF IsRun, Start
    <2> HIDE DEF Step
    <2>3. \A m \in 0 .. n : g[m] = f[m]
      BY <2>2
    <2>4. g = [m \in 0 .. n + 1 |-> IF m = 0 THEN Start ELSE Step(g[m - 1], m)]
      <3>1. g = [m \in 0 .. n + 1 |-> IF m = 0 THEN Start ELSE Step(f[m - 1], m)]
        OBVIOUS
      <3> HIDE DEF g
      <3>2. ASSUME NEW m \in 0 .. n + 1, m # 0 PROVE g[m - 1] = f[m - 1]
        BY <2>3, <3>2
      <3> QED BY <3>1, <3>2, Zenon
    <2> HIDE DEF g
    <2>5. IsRun(g, id, list, broken, n + 1)
      BY <2>4 DEF IsRun, Start, Step
    <2> QED BY <2>5
  <1> HIDE DEF T
  <1>3. T = Nat
    <2>1. T \in SUBSET Nat
      BY DEF T
    <2> QED BY <1>1, <1>2, <2>1, Naturals
  <1> QED BY <1>3 DEF T

-----------------------------------------------------------------------------
(* What the actions so far amount to.                                      *)

Calling(list, n) == {i \in 1 .. n : External(list[i])}
CallFor(id, list, i) == [id |-> id, action |-> list[i], trees |-> TreesFor(list, i)]

\* `at' is where the calls among the first n actions have been appended to c.
PlacedAt(at, c, id, list, n) ==
    /\ at \in [Calling(list, n) -> Len(calls) + 1 .. Len(c)]
    /\ \A m \in Len(calls) + 1 .. Len(c) : \E i \in Calling(list, n) : at[i] = m
    /\ \A i, j \in Calling(list, n) : i < j => at[i] < at[j]
    /\ \A i \in Calling(list, n) : c[at[i]] = CallFor(id, list, i)

Extends(c) == Len(calls) <= Len(c) /\ \A m \in 1 .. Len(calls) : c[m] = calls[m]

\* Every change is one that some action asked for.
Asked(r, list, n) ==
    /\ \A name \in DOMAIN settings : r.settings[name] # settings[name] =>
          \E i \in 1 .. n : /\ list[i].kind = "set" /\ list[i].name = name
                            /\ list[i].value = r.settings[name]
    /\ r.hash # hash => \E i \in 1 .. n : list[i].kind = "upgrade" /\ list[i].to = r.hash
    /\ r.layout # layout => \E i \in 1 .. n : list[i].kind = "migrate"

Good(r, id, list, n) ==
    /\ r \in Runs
    /\ Extends(r.calls) /\ \E at : PlacedAt(at, r.calls, id, list, n)
    /\ Asked(r, list, n)
    /\ r.pending = TreesFor(list, n + 1)

\* An action that is no call adds nothing to the calls.
LEMMA PlacedSame ==
    ASSUME NEW id, NEW list, NEW n \in Nat, NEW c, NEW at, PlacedAt(at, c, id, list, n),
           ~External(list[n + 1])
    PROVE  PlacedAt(at, c, id, list, n + 1)
  <1>1. Calling(list, n + 1) = Calling(list, n)
    BY DEF Calling
  <1> QED BY <1>1 DEF PlacedAt

\* A call comes after all the others.
LEMMA PlacedMore ==
    ASSUME NEW id \in Ids, NEW list, NEW n \in Nat, NEW c \in Seq(Calls), NEW at,
           PlacedAt(at, c, id, list, n), Extends(c), calls \in Seq(Calls),
           External(list[n + 1]), CallFor(id, list, n + 1) \in Calls,
           NEW d, d = Append(c, CallFor(id, list, n + 1))
    PROVE  d \in Seq(Calls) /\ Extends(d) /\ \E to : PlacedAt(to, d, id, list, n + 1)
  <1> DEFINE M == Len(calls)
             L == Len(c)
             call == CallFor(id, list, n + 1)
             to == [i \in Calling(list, n + 1) |-> IF i = n + 1 THEN L + 1 ELSE at[i]]
  <1>1. /\ M \in Nat /\ L \in Nat /\ M <= L
        /\ d \in Seq(Calls) /\ Len(d) = L + 1 /\ d[L + 1] = call
        /\ \A m \in 1 .. L : d[m] = c[m]
    BY AppendProperties DEF Extends
  <1>2. Extends(d)
    BY <1>1 DEF Extends
  <1>3. Calling(list, n + 1) = Calling(list, n) \cup {n + 1} /\ n + 1 \notin Calling(list, n)
    BY DEF Calling
  <1>4. \A i \in Calling(list, n) : i \in 1 .. n /\ at[i] \in M + 1 .. L
    BY DEF PlacedAt, Calling
  <1>5. \A i \in Calling(list, n) : to[i] = at[i]
    BY <1>3
  <1>6. to[n + 1] = L + 1
    BY <1>3
  <1>7. to \in [Calling(list, n + 1) -> M + 1 .. L + 1]
    BY <1>1, <1>3, <1>4
  <1> HIDE DEF to, call
  <1>8. \A m \in M + 1 .. L + 1 : \E i \in Calling(list, n + 1) : to[i] = m
    <2> TAKE m \in M + 1 .. L + 1
    <2>1. CASE m = L + 1
      BY <1>3, <1>6, <2>1
    <2>2. CASE m # L + 1
      <3>1. m \in M + 1 .. L
        BY <1>1, <2>2
      <3> QED BY <1>3, <1>5, <3>1 DEF PlacedAt
    <2> QED BY <2>1, <2>2
  <1>9. \A i, j \in Calling(list, n + 1) : i < j => to[i] < to[j]
    <2> TAKE i, j \in Calling(list, n + 1)
    <2>1. HAVE i < j
    <2>2. i \in Calling(list, n)
      BY <1>3, <1>4, <2>1
    <2>3. CASE j = n + 1
      <3>1. to[i] \in M + 1 .. L /\ to[j] = L + 1
        BY <1>4, <1>5, <1>6, <2>2, <2>3
      <3> QED BY <1>1, <3>1
    <2>4. CASE j # n + 1
      BY <1>3, <1>5, <2>1, <2>2, <2>4 DEF PlacedAt
    <2> QED BY <2>3, <2>4
  <1>10. \A i \in Calling(list, n + 1) : d[to[i]] = CallFor(id, list, i)
    <2> TAKE i \in Calling(list, n + 1)
    <2>1. CASE i = n + 1
      BY <1>1, <1>6, <2>1 DEF call
    <2>2. CASE i # n + 1
      <3>1. i \in Calling(list, n) /\ to[i] = at[i] /\ at[i] \in 1 .. L
        BY <1>1, <1>3, <1>4, <1>5, <2>2
      <3> QED BY <1>1, <3>1 DEF PlacedAt
    <2> QED BY <2>1, <2>2
  <1>11. PlacedAt(to, d, id, list, n + 1)
    BY <1>1, <1>7, <1>8, <1>9, <1>10 DEF PlacedAt
  <1> QED BY <1>1, <1>2, <1>11

-----------------------------------------------------------------------------
(* One action more.                                                        *)

\* The kinds of actions there are.
LEMMA KindsOfActions ==
    ASSUME NEW a \in Actions
    PROVE  a.kind \in {"set", "call", "authorize", "upgrade", "migrate", "unknown"}
  BY DEF Actions

\* What an action that succeeds leaves behind, by its kind.
LEMMA DispatchAuthorize ==
    ASSUME NEW r \in Runs, NEW a, a.kind = "authorize", NEW id, NEW broken,
           Dispatch(r, a, id, broken).ok
    PROVE  ValidTrees(a.trees) /\ Dispatch(r, a, id, broken) = [r EXCEPT !.pending = a.trees]
  <1>1. Dispatch(r, a, id, broken) =
          [r EXCEPT !.ok = r.ok /\ r.pending = NothingPending /\ ValidTrees(a.trees),
                    !.pending = a.trees]
    BY DEF Dispatch, External
  <1> QED BY <1>1 DEF Runs

\* An upgrade that succeeds was approved, had no authorization pending, and changes the code.
LEMMA DispatchUpgrade ==
    ASSUME NEW r \in Runs, NEW a, a.kind = "upgrade", NEW id, NEW broken,
           Dispatch(r, a, id, broken).ok
    PROVE  /\ r.pending = NothingPending /\ <<a.from, a.to>> \in Approved
           /\ Dispatch(r, a, id, broken) = [r EXCEPT !.hash = a.to]
  <1>1. Dispatch(r, a, id, broken) =
          [r EXCEPT !.ok = r.ok /\ r.pending = NothingPending
                                /\ a.from = r.hash /\ <<a.from, a.to>> \in Approved,
                    !.hash = a.to]
    BY DEF Dispatch, External
  <1> QED BY <1>1 DEF Runs

\* A migration that succeeds had nothing pending and takes the layout of the code that runs.
LEMMA DispatchMigrate ==
    ASSUME NEW r \in Runs, NEW a, a.kind = "migrate", NEW id, NEW broken,
           Dispatch(r, a, id, broken).ok
    PROVE  /\ r.pending = NothingPending
           /\ Dispatch(r, a, id, broken) = [r EXCEPT !.layout = Layout[hash]]
  <1>1. Dispatch(r, a, id, broken) =
          [r EXCEPT !.ok = r.ok /\ r.pending = NothingPending /\ r.layout < Layout[hash],
                    !.layout = Layout[hash]]
    BY DEF Dispatch, External
  <1> QED BY <1>1 DEF Runs

\* An action of an unknown kind fails.
LEMMA DispatchUnknown ==
    ASSUME NEW r \in Runs, NEW a, a.kind = "unknown", NEW id, NEW broken
    PROVE  ~Dispatch(r, a, id, broken).ok
  BY DEF Dispatch, External, Runs

\* The parameters after a call.
Changed(s, a) == IF a.kind = "set" THEN [s EXCEPT ![a.name] = a.value] ELSE s

\* The run after a call, if it was allowed.
Added(r, a, id, q) ==
    /\ a.kind = "set" => MaySet(r.settings, a.name, a.value)
    /\ q = [r EXCEPT !.settings = Changed(r.settings, a), !.pending = NothingPending,
                     !.calls = Append(r.calls, [id |-> id, action |-> a,
                                                trees |-> r.pending])]

\* A call that succeeds is recorded with the authorizations that were pending.
LEMMA DispatchCall ==
    ASSUME NEW r \in Runs, NEW a, External(a), NEW id, NEW broken,
           Dispatch(r, a, id, broken).ok
    PROVE  Added(r, a, id, Dispatch(r, a, id, broken))
  <1> DEFINE works == IF a.kind = "set" THEN MaySet(r.settings, a.name, a.value)
                      ELSE a.callee \notin broken /\ a.needs \subseteq r.pending
             s == Changed(r.settings, a)
  <1>1. Dispatch(r, a, id, broken) =
          [r EXCEPT !.ok = r.ok /\ works, !.settings = s,
                    !.calls = Append(r.calls, [id |-> id, action |-> a,
                                               trees |-> r.pending]),
                    !.pending = NothingPending]
    BY DEF Dispatch, External, Changed
  <1> HIDE DEF works, s
  <1>2. works
    BY <1>1 DEF Runs
  <1>3. Dispatch(r, a, id, broken) =
          [r EXCEPT !.settings = s, !.pending = NothingPending,
                    !.calls = Append(r.calls, [id |-> id, action |-> a,
                                               trees |-> r.pending])]
    BY <1>1, <1>2 DEF Runs
  <1> QED BY <1>2, <1>3 DEF works, s, Added, Changed

\* What the invariant and the inputs say before an execution.
Before(id, list) ==
    /\ settings \in ValidSettings /\ hash \in Hashes /\ layout \in Nat
    /\ calls \in Seq(Calls)
    /\ id \in Ids /\ list \in Seq(Actions)

\* An authorization continues a good run.
LEMMA StepAuthorize ==
    ASSUME NEW id, NEW list, Before(id, list), NEW n \in Nat, n + 1 \in 1 .. Len(list),
           NEW r, Good(r, id, list, n), list[n + 1].kind = "authorize", NEW broken,
           Dispatch(r, list[n + 1], id, broken).ok
    PROVE  Good(Dispatch(r, list[n + 1], id, broken), id, list, n + 1)
  <1> DEFINE q == Dispatch(r, list[n + 1], id, broken)
             trees == list[n + 1].trees
  <1>1. r \in Runs /\ ValidTrees(trees) /\ q = [r EXCEPT !.pending = trees]
    BY DispatchAuthorize DEF Good
  <1> HIDE DEF q
  <1>2. q \in Runs /\ q.pending = trees /\ q.settings = r.settings /\ q.hash = r.hash
        /\ q.layout = r.layout /\ q.calls = r.calls
    BY <1>1 DEF Runs, ValidTrees
  <1>3. \E at : PlacedAt(at, q.calls, id, list, n + 1)
    BY <1>2, PlacedSame DEF Good, External
  <1>4. Asked(q, list, n + 1)
    BY <1>2 DEF Good, Asked
  <1>5. TreesFor(list, n + 1 + 1) = trees
    BY DEF TreesFor
  <1>6. Extends(q.calls)
    BY <1>2 DEF Good
  <1> QED BY <1>2, <1>3, <1>4, <1>5, <1>6 DEF Good, q

\* An upgrade continues a good run.
LEMMA StepUpgrade ==
    ASSUME NEW id, NEW list, Before(id, list), NEW n \in Nat, n + 1 \in 1 .. Len(list),
           NEW r, Good(r, id, list, n), list[n + 1].kind = "upgrade", NEW broken,
           Dispatch(r, list[n + 1], id, broken).ok
    PROVE  Good(Dispatch(r, list[n + 1], id, broken), id, list, n + 1)
  <1> DEFINE q == Dispatch(r, list[n + 1], id, broken)
             to == list[n + 1].to
  <1>1. r \in Runs /\ r.pending = {} /\ <<list[n + 1].from, to>> \in Approved
        /\ q = [r EXCEPT !.hash = to]
    BY DispatchUpgrade DEF Good, NothingPending
  <1>2. to \in Hashes
    BY <1>1, TreasuryAssumption
  <1> HIDE DEF q
  <1>3. q \in Runs /\ q.pending = {} /\ q.settings = r.settings /\ q.hash = to
        /\ q.layout = r.layout /\ q.calls = r.calls
    BY <1>1, <1>2 DEF Runs
  <1>4. \E at : PlacedAt(at, q.calls, id, list, n + 1)
    BY <1>3, PlacedSame DEF Good, External
  <1>5. Asked(q, list, n + 1)
    <2>1. Asked(r, list, n) /\ 1 .. n \subseteq 1 .. n + 1 /\ n + 1 \in 1 .. n + 1
      BY DEF Good
    <2> QED BY <1>3, <2>1 DEF Asked
  <1>6. TreesFor(list, n + 1 + 1) = {}
    BY DEF TreesFor, NothingPending
  <1>7. Extends(q.calls)
    BY <1>3 DEF Good
  <1> QED BY <1>3, <1>4, <1>5, <1>6, <1>7 DEF Good, q

\* A migration continues a good run.
LEMMA StepMigrate ==
    ASSUME NEW id, NEW list, Before(id, list), NEW n \in Nat, n + 1 \in 1 .. Len(list),
           NEW r, Good(r, id, list, n), list[n + 1].kind = "migrate", NEW broken,
           Dispatch(r, list[n + 1], id, broken).ok
    PROVE  Good(Dispatch(r, list[n + 1], id, broken), id, list, n + 1)
  <1> DEFINE q == Dispatch(r, list[n + 1], id, broken)
             newer == Layout[hash]
  <1>1. r \in Runs /\ r.pending = {} /\ q = [r EXCEPT !.layout = newer]
    BY DispatchMigrate DEF Good, NothingPending
  <1>2. newer \in Nat
    BY TreasuryAssumption DEF Before
  <1> HIDE DEF q, newer
  <1>3. q \in Runs /\ q.pending = {} /\ q.settings = r.settings /\ q.hash = r.hash
        /\ q.calls = r.calls
    BY <1>1, <1>2 DEF Runs
  <1>4. \E at : PlacedAt(at, q.calls, id, list, n + 1)
    BY <1>3, PlacedSame DEF Good, External
  <1>5. Asked(q, list, n + 1)
    <2>1. Asked(r, list, n) /\ 1 .. n \subseteq 1 .. n + 1 /\ n + 1 \in 1 .. n + 1
      BY DEF Good
    <2> QED BY <1>3, <2>1 DEF Asked
  <1>6. TreesFor(list, n + 1 + 1) = {}
    BY DEF TreesFor, NothingPending
  <1>7. Extends(q.calls)
    BY <1>3 DEF Good
  <1> QED BY <1>3, <1>4, <1>5, <1>6, <1>7 DEF Good, q

\* A call continues a good run.
LEMMA StepCall ==
    ASSUME NEW id, NEW list, Before(id, list), NEW n \in Nat, n + 1 \in 1 .. Len(list),
           NEW r, Good(r, id, list, n), External(list[n + 1]), NEW broken,
           Dispatch(r, list[n + 1], id, broken).ok
    PROVE  Good(Dispatch(r, list[n + 1], id, broken), id, list, n + 1)
  <1> DEFINE q == Dispatch(r, list[n + 1], id, broken)
             a == list[n + 1]
             call == CallFor(id, list, n + 1)
             s == Changed(r.settings, a)
  <1>1. r \in Runs /\ r.pending = TreesFor(list, n + 1) /\ Asked(r, list, n)
    BY DEF Good
  <1>2. /\ a.kind = "set" => MaySet(r.settings, a.name, a.value)
        /\ q = [r EXCEPT !.settings = s, !.pending = NothingPending,
                         !.calls = Append(r.calls, [id |-> id, action |-> a,
                                                    trees |-> r.pending])]
    <2>1. Added(r, a, id, q)
      BY <1>1, DispatchCall
    <2> QED BY <2>1 DEF Added
  <1>3. a \in Actions
    BY DEF Before
  <1> HIDE DEF q
  <1>4. call \in Calls /\ call = [id |-> id, action |-> a, trees |-> r.pending]
    BY <1>1, <1>3 DEF CallFor, Calls, Runs, Before
  <1> HIDE DEF a, call
  <1>5. s \in ValidSettings
    BY <1>1, <1>2 DEF MaySet, Runs, Changed
  <1> HIDE DEF s
  <1>6. /\ q.settings = s /\ q.pending = {} /\ q.hash = r.hash /\ q.layout = r.layout
        /\ q.ok = TRUE /\ q.calls = Append(r.calls, call)
        /\ q = [ok |-> TRUE, pending |-> {}, settings |-> s, hash |-> r.hash,
                layout |-> r.layout, calls |-> q.calls]
    BY <1>1, <1>2, <1>4 DEF Runs, NothingPending
  <1>7. PICK at : PlacedAt(at, r.calls, id, list, n)
    BY DEF Good
  <1>8. /\ q.calls \in Seq(Calls) /\ Extends(q.calls)
        /\ \E to : PlacedAt(to, q.calls, id, list, n + 1)
    BY <1>1, <1>4, <1>6, <1>7, PlacedMore DEF Good, Before, Runs, call
  <1>9. q \in Runs
    BY <1>1, <1>5, <1>6, <1>8 DEF Runs
  <1>10. Asked(q, list, n + 1)
    <2>1. 1 .. n \subseteq 1 .. n + 1 /\ n + 1 \in 1 .. n + 1
      OBVIOUS
    <2>2. ASSUME NEW name \in DOMAIN settings, s[name] # settings[name]
          PROVE  \E i \in 1 .. n + 1 : /\ list[i].kind = "set" /\ list[i].name = name
                                       /\ list[i].value = s[name]
      <3>1. CASE s[name] = r.settings[name]
        BY <1>1, <2>1, <2>2, <3>1 DEF Asked
      <3>2. CASE s[name] # r.settings[name]
        <4>1. /\ a.kind = "set" /\ s = [r.settings EXCEPT ![a.name] = a.value]
              /\ r.settings \in ValidSettings
          BY <1>1, <3>2 DEF Runs, s, Changed
        <4>2. name \in DOMAIN r.settings
          BY <2>2, <4>1 DEF Before, ValidSettings
        <4>3. a.name = name /\ a.value = s[name]
          BY <3>2, <4>1, <4>2
        <4> QED BY <2>1, <4>1, <4>3 DEF a
      <3> QED BY <3>1, <3>2
    <2>3. /\ r.hash # hash => \E i \in 1 .. n + 1 :
                                 list[i].kind = "upgrade" /\ list[i].to = r.hash
          /\ r.layout # layout => \E i \in 1 .. n + 1 : list[i].kind = "migrate"
      BY <1>1, <2>1 DEF Asked
    <2> QED BY <1>6, <2>2, <2>3 DEF Asked
  <1>11. TreesFor(list, n + 1 + 1) = {}
    BY DEF TreesFor, NothingPending, External
  <1> QED BY <1>6, <1>8, <1>9, <1>10, <1>11 DEF Good, q

\* Whatever its kind, an action that succeeds does what was voted and no more.
LEMMA StepGood ==
    ASSUME NEW id, NEW list, Before(id, list), NEW n \in Nat, n + 1 \in 1 .. Len(list),
           NEW r, Good(r, id, list, n), NEW broken,
           Dispatch(r, list[n + 1], id, broken).ok
    PROVE  Good(Dispatch(r, list[n + 1], id, broken), id, list, n + 1)
  <1>1. list[n + 1] \in Actions /\ r \in Runs
    BY DEF Before, Good
  <1>2. list[n + 1].kind # "unknown"
    BY <1>1, DispatchUnknown
  <1> QED BY <1>1, <1>2, KindsOfActions, StepAuthorize, StepUpgrade, StepMigrate, StepCall
          DEF External

-----------------------------------------------------------------------------
(* A whole run.                                                            *)

\* A run that has not begun is good.
LEMMA StartGood ==
    ASSUME NEW id, NEW list, Before(id, list)
    PROVE  Good(Start, id, list, 0)
  <1>1. Start \in Runs
    BY DEF Before, Start, Runs, NothingPending
  <1>2. Extends(calls)
    BY DEF Extends, Before
  <1>3. \E at : PlacedAt(at, calls, id, list, 0)
    <2> DEFINE at == [i \in {} |-> 0]
    <2>1. Calling(list, 0) = {} /\ Len(calls) + 1 .. Len(calls) = {}
      BY DEF Calling, Before
    <2>2. at \in [{} -> {}]
      OBVIOUS
    <2> HIDE DEF at
    <2>3. PlacedAt(at, calls, id, list, 0)
      BY <2>1, <2>2 DEF PlacedAt
    <2> QED BY <2>3
  <1>4. TreesFor(list, 0 + 1) = NothingPending
    BY DEF TreesFor
  <1> QED BY <1>1, <1>2, <1>3, <1>4 DEF Good, Start, Asked

\* A run that succeeds has done exactly what its actions say.
LEMMA RunGood ==
    ASSUME NEW id, NEW list, Before(id, list), NEW broken, Run(id, list, broken).ok
    PROVE  Good(Run(id, list, broken), id, list, Len(list))
  <1> DEFINE L == Len(list)
             f == CHOOSE g : IsRun(g, id, list, broken, L)
             T == {n \in Nat : n <= L => (f[n].ok => Good(f[n], id, list, n))}
  <1>1. L \in Nat
    BY DEF Before
  <1>2. IsRun(f, id, list, broken, L) /\ Run(id, list, broken) = f[L]
    BY <1>1, RunExists, RunIs, Zenon
  <1> HIDE DEF f
  <1>3. \A n \in 0 .. L :
           f[n] = IF n = 0 THEN Start
                  ELSE Then(f[n - 1], Dispatch(f[n - 1], list[n], id, broken))
    BY <1>2 DEF IsRun, Start
  <1>4. 0 \in T
    <2>1. f[0] = Start
      BY <1>1, <1>3
    <2> QED BY <2>1, StartGood
  <1>5. ASSUME NEW n \in T PROVE n + 1 \in T
    <2>1. SUFFICES ASSUME n + 1 <= L, f[n + 1].ok PROVE Good(f[n + 1], id, list, n + 1)
      OBVIOUS
    <2>2. n \in Nat /\ n + 1 \in 1 .. L /\ n <= L /\ n + 1 # 0 /\ n + 1 - 1 = n
      BY <1>1, <2>1
    <2>3. f[n + 1] = Then(f[n], Dispatch(f[n], list[n + 1], id, broken))
      <3>1. n + 1 \in 0 .. L
        BY <2>2
      <3> QED BY <1>3, <2>2, <3>1
    <2>4. f[n].ok /\ f[n + 1] = Dispatch(f[n], list[n + 1], id, broken)
      BY <2>1, <2>3 DEF Then
    <2>5. Good(f[n], id, list, n)
      BY <2>2, <2>4
    <2>6. Dispatch(f[n], list[n + 1], id, broken).ok
      BY <2>1, <2>4
    <2>7. Good(Dispatch(f[n], list[n + 1], id, broken), id, list, n + 1)
      BY <2>2, <2>5, <2>6, StepGood
    <2> QED BY <2>4, <2>7
  <1>6. T = Nat
    <2>1. T \in SUBSET Nat
      OBVIOUS
    <2> HIDE DEF T
    <2> QED BY <1>4, <1>5, <2>1, Naturals
  <1> QED BY <1>1, <1>2, <1>6

-----------------------------------------------------------------------------
(* The composition.                                                        *)

\* The inductive invariant.
TreasuryInv ==
    /\ IndInv
    /\ TreasuryTypeOK
    /\ live => admin = Treasury
    /\ ActsExactlyAsVoted

\* The history of calls is a sequence of calls.
LEMMA CallsType == TreasuryTypeOK => calls \in Seq(Calls)
  BY DEF TreasuryTypeOK, Calls

\* The invariant says what an execution starts from.
LEMMA BeforeExecute ==
    ASSUME TreasuryInv, NEW id \in Ids
    PROVE  Before(id, actions[id])
  <1>1. actions[id] \in Seq(Actions)
    BY TreasuryAssumption DEF TreasuryInv, TreasuryTypeOK
  <1> QED BY <1>1, CallsType DEF TreasuryInv, TreasuryTypeOK, TypeOK, Before

Done(id) == Proposed(id) /\ proposal[id].state = "Executed"

\* The Governor's other operations execute nothing.
LEMMA GoverningExecutesNothing ==
    ASSUME IndInv, Governing, NEW id \in Ids
    PROVE  Done(id)' <=> Done(id)
  <1>1. TypeOK
    BY DEF IndInv
  <1>2. CASE UNCHANGED proposal
    BY <1>2 DEF Done, Proposed
  <1>3. ASSUME NEW i \in Ids, proposal[i].state # "Executed", NEW p,
               proposal' = [proposal EXCEPT ![i] = p], p.state # "Executed"
        PROVE  Done(id)' <=> Done(id)
    BY <1>1, <1>3 DEF Done, Proposed, TypeOK
  <1>4. CASE Proposing
    <2>1. PICK i \in Ids, proposer \in Voters : Propose(i, proposer)
      BY <1>4 DEF Proposing
    <2>2. proposal[i] = NoProposal
      BY <2>1 DEF Propose, Proposed
    <2> DEFINE start == now + settings.votingDelay
               p == [proposer |-> proposer, snapshot |-> ledger - 1,
                     start |-> start, end |-> start + settings.votingPeriod,
                     eta |-> 0, state |-> "Pending", quorum |-> QuorumNow,
                     seq |-> proposalCount]
    <2>3. proposal' = [proposal EXCEPT ![i] = p] /\ p.state # "Executed"
      BY <2>1 DEF Propose
    <2> HIDE DEF p
    <2>4. proposal[i].state # "Executed"
      BY <2>2 DEF NoProposal
    <2> QED BY <1>3, <2>3, <2>4
  <1>5. CASE Voting
    BY <1>2, <1>5 DEF Voting, CastVote
  <1>6. CASE Queueing
    <2>1. PICK i \in Ids : Queue(i)
      BY <1>6 DEF Queueing
    <2>2. Proposed(i) /\ proposal[i].state # "Executed"
      BY <1>1, <2>1, StateIs DEF Queue
    <2> DEFINE p == [proposal[i] EXCEPT !.eta = now + settings.queueDelay,
                                        !.state = "Queued"]
    <2>3. proposal' = [proposal EXCEPT ![i] = p]
      BY <1>1, <2>1 DEF Queue, TypeOK
    <2>4. p.state # "Executed"
      BY <1>1, <2>2 DEF TypeOK, Proposed, Proposals
    <2> HIDE DEF p
    <2> QED BY <1>3, <2>2, <2>3, <2>4
  <1>7. CASE Cancelling
    <2>1. PICK i \in Ids, operator \in Voters : Cancel(i, operator)
      BY <1>7 DEF Cancelling
    <2>2. Proposed(i) /\ proposal[i].state # "Executed"
      BY <1>1, <2>1, StateIs DEF Cancel
    <2> DEFINE p == [proposal[i] EXCEPT !.state = "Canceled"]
    <2>3. proposal' = [proposal EXCEPT ![i] = p]
      BY <1>1, <2>1 DEF Cancel, TypeOK
    <2>4. p.state # "Executed"
      BY <1>1, <2>2 DEF TypeOK, Proposed, Proposals
    <2> HIDE DEF p
    <2> QED BY <1>3, <2>2, <2>3, <2>4
  <1>8. CASE SettingUp \/ Launching \/ Reassign \/ NextLedger
    <2>1. UNCHANGED proposal
      BY <1>8 DEF SettingUp, SetParameter, Launching, Handoff, Launch, Reassign,
                  NextLedger, proposalVars
    <2> QED BY <1>2, <2>1
  <1> QED BY <1>4, <1>5, <1>6, <1>7, <1>8 DEF Governing

\* What the Treasury leaves alone is a step of the Governor.
LEMMA GoverningIsNext == Governing => Next
  <1>1. SettingUp => Setting
    BY DEF SettingUp, Setting, Callers
  <1> QED BY <1>1 DEF Governing, Next

\* Nor do they make a call; once the DAO is live the admin is the Treasury.
LEMMA GoverningInv ==
    ASSUME TreasuryInv, Governing
    PROVE  TreasuryInv'
  <1>1. UNCHANGED <<actions, hash, layout, calls>>
    BY DEF Governing, treasuryVars
  <1>2. Next
    BY GoverningIsNext
  <1>3. IndInv'
    BY <1>2, NextInv DEF TreasuryInv
  <1>4. TreasuryTypeOK'
    BY <1>1, <1>3 DEF IndInv, TreasuryInv, TreasuryTypeOK
  <1>5. (live => admin = Treasury)'
    <2>1. CASE Launching
      BY <2>1 DEF Launching, Handoff, Launch, TreasuryInv
    <2>2. CASE ~Launching
      <3>1. UNCHANGED phaseVars
        BY <2>2 DEF Governing, Proposing, Propose, Voting, CastVote, Queueing, Queue,
                    Cancelling, Cancel, SettingUp, SetParameter, Reassign, NextLedger
      <3> QED BY <3>1 DEF phaseVars, TreasuryInv
    <2> QED BY <2>1, <2>2
  <1>6. \A id \in Ids : /\ Done(id)' <=> Done(id)
                        /\ CallsOf(id)' = CallsOf(id)
                        /\ Performed(id, actions[id])' <=> Performed(id, actions[id])
    BY <1>1, GoverningExecutesNothing DEF TreasuryInv, CallsOf, Performed
  <1>7. ActsExactlyAsVoted'
    BY <1>6 DEF ActsExactlyAsVoted, TreasuryInv, Done
  <1> QED BY <1>3, <1>4, <1>5, <1>7 DEF TreasuryInv

\* An execution is a whole run of its proposal's actions, every one successful.
LEMMA ExecuteIs ==
    ASSUME TreasuryInv, NEW id \in Ids, Execute(id)
    PROVE  /\ MarkExecuted(id) /\ ProposalState(id) = "Queued" /\ Proposed(id)
           /\ proposal' = [proposal EXCEPT ![id] = [proposal[id] EXCEPT !.state = "Executed"]]
           /\ proposal'[id].state = "Executed" /\ proposal[id].state # "Executed"
           /\ UNCHANGED <<tokenVars, now, phaseVars, actions>>
           /\ \E r : /\ Good(r, id, actions[id], Len(actions[id]))
                     /\ settings' = r.settings /\ hash' = r.hash
                     /\ layout' = r.layout /\ calls' = r.calls
  <1>1. TypeOK
    BY DEF TreasuryInv, IndInv
  <1>2. /\ MarkExecuted(id) /\ UNCHANGED <<tokenVars, now, phaseVars, actions>>
        /\ \E r : /\ Good(r, id, actions[id], Len(actions[id]))
                  /\ settings' = r.settings /\ hash' = r.hash
                  /\ layout' = r.layout /\ calls' = r.calls
    <2>1. PICK broken \in SUBSET Callees :
             LET run == Run(id, actions[id], broken)
             IN  /\ run.ok /\ settings' = run.settings /\ hash' = run.hash
                 /\ layout' = run.layout /\ calls' = run.calls
      BY DEF Execute
    <2>2. Good(Run(id, actions[id], broken), id, actions[id], Len(actions[id]))
      BY <2>1, BeforeExecute, RunGood
    <2> QED BY <2>1, <2>2 DEF Execute
  <1>3. ProposalState(id) = "Queued" /\ Proposed(id) /\ proposal[id].state # "Executed"
    BY <1>1, <1>2, StateIs DEF MarkExecuted
  <1>4. /\ proposal' = [proposal EXCEPT ![id] = [proposal[id] EXCEPT !.state = "Executed"]]
        /\ proposal'[id].state = "Executed"
    BY <1>1, <1>2, <1>3 DEF MarkExecuted, TypeOK, Proposed, Proposals
  <1> QED BY <1>2, <1>3, <1>4

\* What it adds to the calls is what its proposal says, and belongs to it.
LEMMA ExecutePerforms ==
    ASSUME NEW id, NEW list, Before(id, list), CallsOf(id) = {},
           NEW r, Good(r, id, list, Len(list)), calls' = r.calls
    PROVE  /\ Performed(id, list)'
           /\ \A i \in Ids \ {id} :
                 CallsOf(i)' = CallsOf(i) /\ \A l : Performed(i, l)' <=> Performed(i, l)
  <1> DEFINE M == Len(calls)
             L == Len(calls')
  <1>1. PICK at : PlacedAt(at, calls', id, list, Len(list))
    BY DEF Good
  <1>2. /\ calls \in Seq(Calls) /\ calls' \in Seq(Calls) /\ M \in Nat /\ L \in Nat
        /\ M <= L /\ \A m \in 1 .. M : calls'[m] = calls[m]
        /\ DOMAIN calls = 1 .. M /\ DOMAIN calls' = 1 .. L
    BY DEF Good, Extends, Before, Runs
  <1>3. Calling(list, Len(list)) = {i \in DOMAIN list : External(list[i])}
    BY DEF Calling, Before
  <1>4. \A m \in M + 1 .. L : calls'[m].id = id
    <2> TAKE m \in M + 1 .. L
    <2>1. PICK i \in Calling(list, Len(list)) : at[i] = m
      BY <1>1 DEF PlacedAt
    <2>2. calls'[m] = CallFor(id, list, i)
      BY <1>1, <2>1 DEF PlacedAt
    <2> QED BY <2>2 DEF CallFor
  <1> HIDE DEF M, L
  <1>5. \A m \in 1 .. M : calls[m].id # id
    BY <1>2 DEF CallsOf
  <1>6. CallsOf(id)' = M + 1 .. L
    <2>1. CallsOf(id)' = {n \in 1 .. L : calls'[n].id = id}
      BY <1>2 DEF CallsOf
    <2>2. \A m \in 1 .. L : m \in 1 .. M \/ m \in M + 1 .. L
      BY <1>2
    <2>3. M + 1 .. L \subseteq 1 .. L
      BY <1>2
    <2>4. \A m \in 1 .. M : calls'[m].id # id
      BY <1>2, <1>5
    <2> QED BY <1>4, <2>1, <2>2, <2>3, <2>4
  <1>7. Performed(id, list)'
    <2> DEFINE voted == {i \in DOMAIN list : External(list[i])}
    <2>1. /\ at \in [voted -> CallsOf(id)']
          /\ \A n \in CallsOf(id)' : \E i \in voted : at[i] = n
          /\ \A i, j \in voted : i < j => at[i] < at[j]
          /\ \A i \in voted : calls'[at[i]] =
                [id |-> id, action |-> list[i], trees |-> TreesFor(list, i)]
      BY <1>1, <1>3, <1>6 DEF PlacedAt, CallFor, M, L
    <2> QED BY <2>1 DEF Performed
  <1>8. ASSUME NEW i \in Ids \ {id}, NEW l
        PROVE  CallsOf(i)' = CallsOf(i) /\ (Performed(i, l)' <=> Performed(i, l))
    <2>1. CallsOf(i)' = CallsOf(i)
      <3>1. \A m \in 1 .. L : calls'[m].id = i <=> m \in 1 .. M /\ calls[m].id = i
        <4> TAKE m \in 1 .. L
        <4>1. CASE m \in 1 .. M
          BY <1>2, <4>1
        <4>2. CASE m \in M + 1 .. L
          <5>1. m \notin 1 .. M /\ calls'[m].id = id
            BY <1>2, <1>4, <4>2
          <5> QED BY <5>1
        <4>3. m \in 1 .. M \/ m \in M + 1 .. L
          BY <1>2
        <4> QED BY <4>1, <4>2, <4>3
      <3>2. 1 .. M \subseteq 1 .. L
        BY <1>2
      <3> QED BY <1>2, <3>1, <3>2 DEF CallsOf
    <2>2. \A n \in CallsOf(i) : calls'[n] = calls[n]
      BY <1>2 DEF CallsOf
    <2> DEFINE voted == {k \in DOMAIN l : External(l[k])}
               Is(at1) == /\ \A n \in CallsOf(i) : \E k \in voted : at1[k] = n
                         /\ \A j, k \in voted : j < k => at1[j] < at1[k]
               said(k) == [id |-> i, action |-> l[k], trees |-> TreesFor(l, k)]
    <2> HIDE DEF voted, Is, said
    <2>3. Performed(i, l) <=>
             \E at1 \in [voted -> CallsOf(i)] :
                Is(at1) /\ \A k \in voted : calls[at1[k]] = said(k)
      BY DEF Performed, voted, Is, said
    <2>4. Performed(i, l)' <=>
             \E at1 \in [voted -> CallsOf(i)] :
                Is(at1) /\ \A k \in voted : calls'[at1[k]] = said(k)
      BY <2>1 DEF Performed, voted, Is, said
    <2>5. ASSUME NEW at1 \in [voted -> CallsOf(i)]
          PROVE  \A k \in voted : calls'[at1[k]] = calls[at1[k]]
      BY <2>2
    <2> QED BY <2>1, <2>3, <2>4, <2>5
  <1> QED BY <1>7, <1>8

\* An execution keeps the invariant of both contracts.
LEMMA ExecuteInv ==
    ASSUME TreasuryInv, NEW id \in Ids, Execute(id)
    PROVE  TreasuryInv'
  <1>1. PICK r : /\ Good(r, id, actions[id], Len(actions[id]))
                 /\ settings' = r.settings /\ hash' = r.hash
                 /\ layout' = r.layout /\ calls' = r.calls
    BY ExecuteIs
  <1>2. r \in Runs
    BY <1>1 DEF Good
  <1>3. UNCHANGED <<tokenVars, now, phaseVars, actions>>
    BY ExecuteIs
  <1>4. IndInv'
    <2>1. settings' \in ValidSettings
      BY <1>1, <1>2 DEF Runs
    <2> QED BY <1>3, <2>1, ExecuteIs, MarkExecutedInv DEF TreasuryInv
  <1>5. TreasuryTypeOK'
    <2>1. hash' \in Hashes /\ layout' \in Nat /\ calls' \in Seq(Calls)
      BY <1>1, <1>2 DEF Runs
    <2> QED BY <1>3, <1>4, <2>1 DEF IndInv, TreasuryInv, TreasuryTypeOK, Calls
  <1>6. ~Done(id) /\ Done(id)' /\ \A i \in Ids \ {id} : Done(i)' <=> Done(i)
    <2>1. proposal \in [Ids -> Proposals \cup {NoProposal}]
      BY DEF TreasuryInv, IndInv, TypeOK
    <2>2. proposal'[id].state = "Executed" /\ \A i \in Ids \ {id} : proposal'[i] = proposal[i]
      BY <2>1, ExecuteIs
    <2> QED BY <2>2, ExecuteIs DEF Done, Proposed, NoProposal
  <1>7. CallsOf(id) = {}
    BY <1>6 DEF TreasuryInv, ActsExactlyAsVoted, Done
  <1>8. /\ Performed(id, actions[id])'
        /\ \A i \in Ids \ {id} : /\ CallsOf(i)' = CallsOf(i)
                                 /\ Performed(i, actions[i])' <=> Performed(i, actions[i])
    <2>1. PICK lists : lists = actions /\ lists = actions'
      BY <1>3
    <2>2. /\ Before(id, lists[id]) /\ Good(r, id, lists[id], Len(lists[id]))
          /\ calls' = r.calls
      BY <1>1, <2>1, BeforeExecute
    <2>3. /\ Performed(id, lists[id])'
          /\ \A i \in Ids \ {id} : /\ CallsOf(i)' = CallsOf(i)
                                   /\ Performed(i, lists[i])' <=> Performed(i, lists[i])
      BY <1>7, <2>2, ExecutePerforms
    <2>4. \A i \in Ids : /\ Performed(i, lists[i])' <=> Performed(i, actions[i])'
                         /\ Performed(i, lists[i]) <=> Performed(i, actions[i])
      BY <2>1 DEF Performed
    <2> QED BY <2>3, <2>4
  <1>9. ActsExactlyAsVoted'
    BY <1>6, <1>8 DEF ActsExactlyAsVoted, TreasuryInv, Done
  <1> QED BY <1>3, <1>4, <1>5, <1>9 DEF TreasuryInv, phaseVars

\* What is voted and what is done are proposals, actions and calls.
LEMMA VotedKept ==
    ASSUME ActsExactlyAsVoted, UNCHANGED <<proposal, actions, calls>>
    PROVE  ActsExactlyAsVoted'
  <1>1. \A id \in Ids : /\ Done(id)' <=> Done(id)
                        /\ CallsOf(id)' = CallsOf(id)
                        /\ Performed(id, actions[id])' <=> Performed(id, actions[id])
    BY DEF Done, Proposed, CallsOf, Performed
  <1> QED BY <1>1 DEF ActsExactlyAsVoted, Done

\* Calls from outside need an admin that is not the Treasury itself.
LEMMA MaintainInv ==
    ASSUME TreasuryInv, Upgrading \/ Migrating
    PROVE  TreasuryInv' /\ UNCHANGED vars /\ ~live
  <1>1. /\ UNCHANGED <<vars, actions, calls>> /\ admin # Treasury
        /\ hash' \in Hashes /\ layout' \in Nat
    BY TreasuryAssumption DEF Upgrading, Migrating, Upgrade, Migrate, TreasuryInv,
                              TreasuryTypeOK
  <1>2. IndInv'
    BY <1>1, NextInv DEF TreasuryInv
  <1>3. TreasuryTypeOK'
    BY <1>1, <1>2 DEF IndInv, TreasuryInv, TreasuryTypeOK
  <1>4. ActsExactlyAsVoted'
    <2>1. UNCHANGED proposal
      BY <1>1 DEF vars, proposalVars
    <2> QED BY <1>1, <2>1, VotedKept DEF TreasuryInv
  <1>5. (live => admin = Treasury)'
    BY <1>1 DEF TreasuryInv, vars, phaseVars
  <1> QED BY <1>1, <1>2, <1>3, <1>4, <1>5 DEF TreasuryInv

\* The invariant of both contracts holds at first.
LEMMA TreasuryInitInv == ASSUME TreasuryInit PROVE TreasuryInv
  <1>1. IndInv
    BY InitInv DEF TreasuryInit
  <1>2. TreasuryTypeOK
    BY <1>1, TreasuryAssumption DEF TreasuryInit, TreasuryTypeOK, IndInv
  <1>3. \A id \in Ids : ~Proposed(id) /\ CallsOf(id) = {}
    BY DEF TreasuryInit, Init, Proposed, CallsOf
  <1> QED BY <1>1, <1>2, <1>3 DEF TreasuryInv, ActsExactlyAsVoted, TreasuryInit, Init

\* Every step of either contract keeps it.
LEMMA TreasuryNextInv ==
    ASSUME TreasuryInv, [TreasuryNext]_allVars
    PROVE  TreasuryInv'
  <1>1. CASE Governing
    BY <1>1, GoverningInv
  <1>2. CASE Executing
    BY <1>2, ExecuteInv DEF Executing
  <1>3. CASE Upgrading \/ Migrating
    BY <1>3, MaintainInv
  <1>4. CASE UNCHANGED allVars
    <2>1. UNCHANGED <<vars, actions, hash, layout, calls>>
      BY <1>4 DEF allVars, treasuryVars
    <2>2. IndInv'
      BY <2>1, NextInv DEF TreasuryInv
    <2>3. TreasuryTypeOK' /\ UNCHANGED <<proposal, live, admin>>
      BY <2>1, <2>2 DEF IndInv, TreasuryInv, TreasuryTypeOK, vars, proposalVars, phaseVars
    <2>4. ActsExactlyAsVoted'
      BY <2>1, <2>3, VotedKept DEF TreasuryInv
    <2> QED BY <2>2, <2>3, <2>4 DEF TreasuryInv
  <1> QED BY <1>1, <1>2, <1>3, <1>4 DEF TreasuryNext

\* The inductive invariant of the composition: the Governor's own, and that
\* the calls made so far are those of the proposals executed so far.
THEOREM TreasuryInvariant == TreasurySpec => []TreasuryInv
  BY TreasuryInitInv, TreasuryNextInv, PTL DEF TreasurySpec

\* The Treasury's execute makes the calls of an executed proposal once, in
\* order, each with the authorization voted for that call; nothing else that
\* anyone can do makes the Treasury call.
THEOREM TreasuryActsAsVoted == TreasurySpec => []ActsExactlyAsVoted
  BY TreasuryInvariant, PTL DEF TreasuryInv

\* Execution changes the parameters in the middle of everything else; what the
\* Governor promises of votes, quorum and notice survives it.
THEOREM GovernorKeepsItsPromises ==
    TreasurySpec => [](TallyWithinSnapshot /\ OnlyPassedProceed /\ NoticeGiven)
  <1>1. TreasuryInv => TallyWithinSnapshot /\ OnlyPassedProceed /\ NoticeGiven
    BY InvCountsOnce, InvGivesNotice DEF TreasuryInv, IndInv
  <1> QED BY <1>1, TreasuryInvariant, PTL

\* Every step moves each proposal along its published life, or leaves it.
LEMMA EveryStepFollows ==
    ASSUME TreasuryInv, [TreasuryNext]_allVars, NEW id \in Ids
    PROVE  Follows(id)
  <1>1. IndInv /\ TypeOK'
    BY TreasuryNextInv DEF TreasuryInv, IndInv
  <1>2. CASE Governing
    BY <1>1, <1>2, GoverningIsNext, StepFollows
  <1>3. CASE Executing
    <2>1. PICK i \in Ids : Execute(i)
      BY <1>3 DEF Executing
    <2>2. MarkExecuted(i) /\ UNCHANGED <<tokenVars, now, phaseVars>>
      BY <2>1, ExecuteIs
    <2> QED BY <1>1, <2>2, MarkExecutedFollows
  <1>4. CASE Upgrading \/ Migrating \/ UNCHANGED allVars
    <2>1. UNCHANGED vars
      BY <1>4, MaintainInv DEF allVars
    <2> QED BY <1>1, <2>1, StepFollows
  <1> QED BY <1>2, <1>3, <1>4 DEF TreasuryNext

\* A proposal's life is the published one when its actions run, too.
THEOREM ExecutionFollowsLife == TreasurySpec => FollowsLife
  <1>1. TreasuryInit => Life!Init
    BY DEF TreasuryInit, Init, Life!Init, ProposalState, NoProposal
  <1>2. ASSUME TreasuryInv, [TreasuryNext]_allVars
        PROVE  [Life!Next]_([id \in Ids |-> ProposalState(id)])
    <2>1. \A id \in Ids : Follows(id)
      BY <1>2, EveryStepFollows
    <2> QED BY <2>1 DEF Life!Next, Follows
  <1> QED BY <1>1, <1>2, TreasuryInvariant, PTL DEF TreasurySpec, FollowsLife, Life!Spec

\* In a live DAO the setters, upgrade and migrate succeed only from within the
\* execution of a proposal that asked for exactly that.
THEOREM LiveChangesAreVoted == TreasurySpec => [][ByProposal]_allVars
  <1>1. ASSUME TreasuryInv, TreasuryNext
        PROVE  ByProposal
    <2>1. CASE ~live
      BY <2>1 DEF ByProposal
    <2>2. CASE live /\ Governing
      <3>1. UNCHANGED <<hash, layout>>
        BY <2>2 DEF Governing, treasuryVars
      <3>2. ~SettingUp
        BY <1>1, <2>2, TreasuryAssumption DEF SettingUp, SetParameter, TreasuryInv
      <3>3. UNCHANGED settings
        BY <2>2, <3>2 DEF Governing, Proposing, Propose, Voting, CastVote, Queueing, Queue,
                          Cancelling, Cancel, Launching, Handoff, Launch, Reassign,
                          NextLedger
      <3> QED BY <3>1, <3>3 DEF ByProposal
    <2>3. CASE Executing
      <3>1. PICK id \in Ids : Execute(id)
        BY <2>3 DEF Executing
      <3>2. PICK r : /\ Good(r, id, actions[id], Len(actions[id]))
                     /\ settings' = r.settings /\ hash' = r.hash /\ layout' = r.layout
        BY <1>1, <3>1, ExecuteIs
      <3>3. Asked(r, actions[id], Len(actions[id]))
        BY <3>2 DEF Good
      <3>4. DOMAIN actions[id] = 1 .. Len(actions[id])
        BY <1>1, BeforeExecute DEF Before
      <3>5. ProposalState(id) = "Queued" /\ proposal'[id].state = "Executed"
        BY <1>1, <3>1, ExecuteIs
      <3> QED BY <3>2, <3>3, <3>4, <3>5 DEF ByProposal, Asked
    <2>4. CASE live /\ (Upgrading \/ Migrating)
      BY <1>1, <2>4, MaintainInv
    <2> QED BY <1>1, <2>1, <2>2, <2>3, <2>4 DEF TreasuryNext
  <1> QED BY <1>1, TreasuryInvariant, PTL DEF TreasurySpec
=============================================================================
