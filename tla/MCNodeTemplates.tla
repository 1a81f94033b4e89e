-------------------------- MODULE MCNodeTemplates --------------------------
(***************************************************************************)
(* Instances of NodeTemplates for TLC.                                     *)
(***************************************************************************)
EXTENDS NodeTemplates

NoFlags == [f \in {} |-> "user"]
Plain == [size |-> 1, version |-> NoVersion, learners |-> << >>, pvc |-> FALSE,
          external |-> {}, auto |-> {}, extra |-> NoFlags]

Numeral(n) == [numeric |-> TRUE, value |-> n, canonical |-> TRUE]
Padded(n) == [numeric |-> TRUE, value |-> n, canonical |-> FALSE]
Word == [numeric |-> FALSE, value |-> 0, canonical |-> FALSE]

\* Sizes, volumes, data directories and versions, some of them refused.
Shapes ==
    {[Plain EXCEPT !.size = n, !.pvc = p, !.version = v, !.extra = x] :
        n \in {0, 1, 3, 8}, p \in BOOLEAN, v \in 0 .. 2,
        x \in {NoFlags, [f \in {"data-dir"} |-> "user"], [f \in {"quota"} |-> "user"]}}

\* Certificates supplied, generated, both or neither, with and without a volume.
Secured ==
    {[Plain EXCEPT !.size = n, !.external = x, !.auto = a, !.pvc = p] :
        n \in {1, 3}, p \in BOOLEAN, x \in SUBSET Kind, a \in SUBSET Kind}

\* A learner at every place, and strings that are none; 16 and 33 wrap around.
Learning ==
    {[Plain EXCEPT !.size = n, !.learners = l] :
        n \in 1 .. 3,
        l \in {<< >>, <<Word>>, <<Numeral(1), Numeral(2)>>}
              \cup {<<Numeral(i)>> : i \in -1 .. 3 \cup {15, 16, 33}}
              \cup {<<Padded(i)>> : i \in 0 .. 2}}
\* Those that do not name the seed node.
Joining == {s \in Learning : s.learners # <<Numeral(0)>>}

Everything == Shapes \cup Secured \cup Joining
=============================================================================
