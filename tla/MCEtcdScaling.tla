--------------------------- MODULE MCEtcdScaling ---------------------------
(***************************************************************************)
(* Instances of EtcdScaling for TLC.                                       *)
(***************************************************************************)
EXTENDS EtcdScaling

CONSTANTS l1, l2, t1, t2

OneLoop == {l1}
TwoLoops == {l1, l2}
OneTpl == {t1}
TwoTpl == {t1, t2}

Sized(sizes, tpls) == [size : sizes, learner : {NoIndex}, tpl : tpls]
WithLearner(sizes, learnerIndexes) ==
    {s \in [size : sizes, learner : learnerIndexes, tpl : {t1}] : s.learner < s.size}

\* Sizes 1 to 3, no learner; and with a learner at index 1 or 2.
Sizes3 == Sized(1 .. 3, {t1})
Learners3 == Sizes3 \cup WithLearner(1 .. 3, {1, 2})
One == Sized({1}, {t1})

\* What a patient user does: one learner at index 1, or a new template.
Orderly == Sizes3 \cup WithLearner(2 .. 3, {1}) \cup Sized({2}, {t2})
=============================================================================
