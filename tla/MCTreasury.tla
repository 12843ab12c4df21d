----------------------------- MODULE MCTreasury -----------------------------
(***************************************************************************)
(* Execution: a proposal for every list of at most three actions out of    *)
(* a set with every kind, the failing ones included; supply and parameters *)
(* decide whether the calls to the Governor succeed.                       *)
(***************************************************************************)
EXTENDS Treasury

CONSTANTS w1

MCInitSettings ==
    {[votingDelay |-> 1, votingPeriod |-> 1, queueDelay |-> 1, threshold |-> 1,
      quorumBps |-> 1]}

MCLayout == [h \in Hashes |-> IF h = "v1" THEN 1 ELSE 2]
MCApproved == {<<"v1", "v2">>, <<"v2", "v1">>}

MCActions ==
    { [kind |-> "set", name |-> "queueDelay", value |-> 2],
      [kind |-> "set", name |-> "threshold", value |-> 2],
      [kind |-> "call", callee |-> "buy", needs |-> {"pay"}],
      [kind |-> "call", callee |-> "send", needs |-> {}],
      [kind |-> "authorize", trees |-> {"pay"}],
      [kind |-> "authorize", trees |-> {"huge"}],
      [kind |-> "authorize", trees |-> {}],
      [kind |-> "upgrade", from |-> "v1", to |-> "v2"],
      [kind |-> "migrate"],
      [kind |-> "unknown"] }
MCActionLists == UNION {[1 .. n -> MCActions] : n \in 1 .. 3}

\* Bound: launched in the first ledger with one token, no early handoff.
MCBound ==
    /\ admin = Treasury <=> live
    /\ live \/ ledger = 1
    /\ live => supply = 1
=============================================================================
