---------------------------- MODULE MCClaimMinter ----------------------------
(***************************************************************************)
(* Two claimers, a free list and a drive, with the launch and the deadline *)
(* in any order.                                                           *)
(***************************************************************************)
EXTENDS ClaimMinter

CONSTANTS alice, bob

\* Leaves of one and of two tokens; and a tree without bob.
MCTrees == {[c \in Claimers |-> IF c = alice THEN 2 ELSE 1],
            [c \in Claimers |-> IF c = alice THEN 1 ELSE 0]}

\* A drive that needs two claimers by second 2, one that needs one by second 1
\* and ends selling with it, and a list without assurance.
MCOffers ==
    {[price |-> 2, total |-> 3, expires |-> 3, threshold |-> 2, deadline |-> 2],
     [price |-> 1, total |-> 1, expires |-> 1, threshold |-> 1, deadline |-> 1],
     [price |-> 0, total |-> 2, expires |-> 3, threshold |-> 0, deadline |-> 0],
     [price |-> 1, total |-> 2, expires |-> 4, threshold |-> 0, deadline |-> 0]}
=============================================================================
