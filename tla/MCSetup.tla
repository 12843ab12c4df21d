------------------------------- MODULE MCSetup ------------------------------
(***************************************************************************)
(* The checklist of the setup with artwork of two calls, and runs that     *)
(* stop anywhere.                                                          *)
(***************************************************************************)
EXTENDS DaoSetup

MCArtworks == {<<2, 1>>}
MCAllocations == {<< [to |-> "a", amount |-> 1] >>}
=============================================================================
