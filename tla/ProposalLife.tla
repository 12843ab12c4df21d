---------------------------- MODULE ProposalLife ----------------------------
(***************************************************************************)
(* The life of proposals as their readers know it (the states of the       *)
(* governor crate): which state may follow which.  A ledger may be late,   *)
(* so time can pass over states, but never over a vote: only a proposal    *)
(* that was seen Active can succeed.  What is final stays final.           *)
(***************************************************************************)
CONSTANT Ids
VARIABLE state      \* [Ids -> DOMAIN Succession]

Succession ==
    [ None      |-> {"Pending"},
      Pending   |-> {"Active", "Canceled", "Defeated"},
      Active    |-> {"Canceled", "Defeated", "Succeeded", "Expired"},
      Succeeded |-> {"Queued", "Expired"},
      Queued    |-> {"Executed", "Expired"},
      Executed  |-> {},
      Canceled  |-> {},
      Defeated  |-> {},
      Expired   |-> {} ]

Init == state = [id \in Ids |-> "None"]

\* One ledger's time can move several proposals.
Next ==
    /\ DOMAIN state' = Ids
    /\ \A id \in Ids :
          state'[id] = state[id] \/ state'[id] \in Succession[state[id]]

Spec == Init /\ [][Next]_state
=============================================================================
