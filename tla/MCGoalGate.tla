----------------------------- MODULE MCGoalGate -----------------------------
(* The goal gate on a line of two, a timeout of one cycle and four goals.    *)
EXTENDS GoalGate

\* Stamps from before the run to past its end, so that goals arrive late, on
\* time, early and out of order.
MCInstants == {0, 2, 3}
=============================================================================
