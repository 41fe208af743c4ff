----------------------------- MODULE MCCycleLoop -----------------------------
(* The loop on a period of two, cycles that overrun two periods and clock      *)
(* steps both shorter than a sleep and longer than several.                    *)
EXTENDS CycleLoop
=============================================================================
