-------------------------- MODULE MCOperatorProcess --------------------------
(***************************************************************************)
(* Instances of OperatorProcess for TLC.                                   *)
(***************************************************************************)
EXTENDS OperatorProcess

CONSTANTS p1, p2, node

Two == {p1, p2}
OneHost == [p \in Two |-> node]
=============================================================================
