--------------------------- MODULE ElasticCluster ---------------------------
(***************************************************************************)
(* What the operator promises to a user who waits for each change: the     *)
(* members are those of the first indexes, they follow the size asked for  *)
(* one at a time, the last to come is the first to go, and the size asked  *)
(* for is reached.                                                         *)
(***************************************************************************)
EXTENDS Integers

CONSTANT MaxSize

VARIABLES
    want,       \* the size asked for
    members     \* indexes of the members of the etcd cluster

vars == <<want, members>>

Init == want \in 1 .. MaxSize /\ members = {}

Resize ==
    /\ members = 0 .. want - 1
    /\ want' \in 1 .. MaxSize
    /\ UNCHANGED members

Join ==
    \E n \in 0 .. want - 1 : members = 0 .. n - 1 /\ members' = 0 .. n /\ UNCHANGED want

Leave ==
    \E n \in want .. MaxSize - 1 :
        members = 0 .. n /\ members' = 0 .. n - 1 /\ UNCHANGED want

Next == Resize \/ Join \/ Leave

Steps == Init /\ [][Next]_vars
Progress == WF_vars(Join) /\ WF_vars(Leave)

Spec == Steps /\ Progress
=============================================================================
