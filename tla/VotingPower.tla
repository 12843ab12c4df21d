---------------------------- MODULE VotingPower ----------------------------
(***************************************************************************)
(* What the Token promises the Governor: one token, one vote.              *)
(*                                                                         *)
(* Every token that votes is counted for exactly one address, `voter'; the *)
(* votes of an address and the voting supply are recounts of `voter'; and  *)
(* what they were when a ledger closed can be read for ever and never      *)
(* changes.  The Token keeps these numbers incrementally, in checkpoints;  *)
(* Token.tla is shown to implement this module, and Governor.tla is built  *)
(* on it.                                                                  *)
(***************************************************************************)
EXTENDS Integers, FiniteSets, Sequences

CONSTANTS
    Voters,         \* addresses votes can be counted for
    TokenIds,       \* ids of the tokens the bounded collection may mint
    NoVoter,        \* "nobody's vote": the token is not minted or in custody
    MaxLedger       \* bound: the ledgers explored are 1 .. MaxLedger

VARIABLES
    voter,          \* [TokenIds -> Voters \cup {NoVoter}], whose vote each token is
    votes,          \* [Voters -> Nat], current voting power
    supply,         \* current voting supply
    ledger,         \* sequence number of the ledger being built
    closed          \* closed[l]: votes and supply when ledger l closed

vars == <<voter, votes, supply, ledger, closed>>

\* The votes and the voting supply an assignment of tokens amounts to.
VotesIn(v) == [a \in Voters |-> Cardinality({t \in TokenIds : v[t] = a})]
SupplyIn(v) == Cardinality({t \in TokenIds : v[t] # NoVoter})

Assignments == [TokenIds -> Voters \cup {NoVoter}]
Snapshots == [votes : [Voters -> Nat], supply : Nat]

TypeOK ==
    /\ voter \in Assignments
    /\ votes \in [Voters -> Nat]
    /\ supply \in Nat
    /\ ledger \in 1 .. MaxLedger
    /\ closed \in [1 .. ledger - 1 -> Snapshots]

Init ==
    /\ voter = [t \in TokenIds |-> NoVoter]
    /\ votes = [a \in Voters |-> 0]
    /\ supply = 0
    /\ ledger = 1
    /\ closed = <<>>

\* Any token operation: votes move, and both numbers are recounted.
Reassign ==
    /\ voter' \in Assignments
    /\ votes' = VotesIn(voter')
    /\ supply' = SupplyIn(voter')
    /\ UNCHANGED <<ledger, closed>>

\* The ledger closes: its votes and supply become history.
CloseLedger ==
    /\ ledger < MaxLedger
    /\ ledger' = ledger + 1
    /\ closed' = Append(closed, [votes |-> votes, supply |-> supply])
    /\ UNCHANGED <<voter, votes, supply>>

Next == Reassign \/ CloseLedger

Spec == Init /\ [][Next]_vars

-----------------------------------------------------------------------------
\* Reads of the closed history, as the Governor makes them.
VotesAt(a, l) == IF l \in DOMAIN closed THEN closed[l].votes[a] ELSE 0
SupplyAt(l) == IF l \in DOMAIN closed THEN closed[l].supply ELSE 0
=============================================================================
