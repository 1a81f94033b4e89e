------------------------ MODULE MCClusterController ------------------------
(***************************************************************************)
(* Instances of ClusterController for TLC.                                 *)
(***************************************************************************)
EXTENDS ClusterController, TLC

CONSTANTS n1, w1, w2

OneName == {n1}
OneWorker == {w1}
TwoWorkers == {w1, w2}

Symmetry == Permutations(Worker) \cup Permutations(Name)
=============================================================================
