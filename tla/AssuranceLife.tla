--------------------------- MODULE AssuranceLife ---------------------------
(***************************************************************************)
(* What an assurance drive promises the people who pay into it (the state  *)
(* chart at the head of src/contracts/minter/src/contract.rs): their money *)
(* waits in escrow while the drive is open, all of it goes to the Treasury *)
(* when the DAO launches, and each gets the own share back if it does not. *)
(***************************************************************************)
EXTENDS Integers

CONSTANTS Claimers

VARIABLES
    phase,
    escrow,     \* [Claimers -> Nat], held for each claimer
    taken,      \* [Claimers -> Nat], released to the Treasury
    returned    \* [Claimers -> Nat], refunded

lifeVars == <<phase, escrow, taken, returned>>

Nothing == [c \in Claimers |-> 0]

Init ==
    /\ phase = "none"
    /\ escrow = Nothing /\ taken = Nothing /\ returned = Nothing

Open ==
    /\ phase = "none"
    /\ phase' = "open"
    /\ UNCHANGED <<escrow, taken, returned>>

\* A claim may complete the threshold, and never takes it back.
Pay(c) ==
    /\ \/ phase = "open" /\ phase' \in {"open", "met"}
       \/ phase = "met" /\ phase' = "met"
    /\ escrow'[c] >= escrow[c]
    /\ escrow' = [escrow EXCEPT ![c] = escrow'[c]]
    /\ UNCHANGED <<taken, returned>>

\* The deadline passes: also for a drive that is met but was not launched.
Fail ==
    /\ phase \in {"open", "met"}
    /\ phase' = "failed"
    /\ UNCHANGED <<escrow, taken, returned>>

\* A DAO that never opened a drive launches with nothing to release.
Launch ==
    /\ phase \in {"none", "met"}
    /\ phase' = "live"
    /\ taken' = escrow
    /\ escrow' = Nothing
    /\ UNCHANGED returned

Refund(c) ==
    /\ phase = "failed"
    /\ escrow[c] > 0
    /\ escrow' = [escrow EXCEPT ![c] = 0]
    /\ returned' = [returned EXCEPT ![c] = @ + escrow[c]]
    /\ UNCHANGED <<phase, taken>>

Next ==
    \/ Open \/ Fail \/ Launch
    \/ \E c \in Claimers : Refund(c) \/ Pay(c)

LifeSpec == Init /\ [][Next]_lifeVars
=============================================================================
