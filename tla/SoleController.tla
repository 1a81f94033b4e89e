--------------------------- MODULE SoleController ---------------------------
(***************************************************************************)
(* What the election promises to the control loops: they run in one        *)
(* process at a time, and the next process begins after the last has       *)
(* ended.                                                                  *)
(***************************************************************************)
CONSTANT Proc

VARIABLE active     \* the processes whose loops and workers run

Init == active = {}

Begin(p) == active = {} /\ active' = {p}
End == active' = {}

Next == End \/ \E p \in Proc : Begin(p)

Spec == Init /\ [][Next]_active
=============================================================================
