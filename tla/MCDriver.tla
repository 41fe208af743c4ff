------------------------------ MODULE MCDriver ------------------------------
(* The driver on one servo or two, a dead-man of two cycles, a confirmation   *)
(* budget of three and an engagement window of two.                           *)
EXTENDS Driver

\* The session engages every row but the antennas it has flagged: all of them, or
\* the head alone.
MCEngageSets == {Rows, {0}}
=============================================================================
