------------------------------ MODULE MCMover ------------------------------
EXTENDS Mover
\* Two poses two points apart, and one the library does not hold.
MCLibrary == [p \in {"stow", "up"} |-> IF p = "stow" THEN 0 ELSE 2]
=============================================================================
