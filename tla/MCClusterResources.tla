------------------------ MODULE MCClusterResources ------------------------
(***************************************************************************)
(* Instances of ClusterResources for TLC.                                  *)
(***************************************************************************)
EXTENDS ClusterResources

CONSTANTS l1, l2

OneLoop == {l1}
TwoLoops == {l1, l2}

\* Two kinds of certificate: what concerns the peers' is the same as the clients'.
TwoCerts == {"server", "client"}

\* Nothing of what is optional, and everything.
Contrast == {[lb |-> FALSE, auto |-> {}], [lb |-> TRUE, auto |-> TwoCerts]}
=============================================================================
