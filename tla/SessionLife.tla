----------------------------- MODULE SessionLife -----------------------------
(***************************************************************************)
(* What a session promises of its life, whatever is said to it: the phases *)
(* in the order src/cogs/session.clk gives them, and the release owed.     *)
(* A session is engaged only from rest with nothing owed, is under command *)
(* only by way of an engagement, ends by letting go, and a parked one is   *)
(* left by nobody.                                                         *)
(***************************************************************************)
VARIABLES phase, owed
vars == <<phase, owed>>

Init == phase = "STARTING" /\ owed = FALSE

Go(from, to) == phase \in from /\ phase' \in to

\* A fault, or an engagement nobody could confirm: torque goes off by command,
\* and stays owed until the driver says it is.
LetGo == /\ Go({"STARTING", "RESTING", "ENGAGING", "ACTIVE", "WINDING_DOWN", "STOPPING"},
               {"PARKED"}) \/ Go({"ENGAGING", "WINDING_DOWN"}, {"RESTING"})
                           \/ Go({"PARKED"}, {"PARKED"})
         /\ owed' = TRUE

Confirmed == owed /\ owed' = FALSE /\ UNCHANGED phase

\* Nothing but a wind-down ends under a release it commands itself; every other
\* ending has let go already, or never took hold.
Move == /\ \/ Go({"STARTING"}, {"RESTING", "PARKED"})
           \/ Go({"RESTING"}, {"ENGAGING"})
           \/ Go({"ENGAGING"}, {"ACTIVE", "RESTING"})
           \/ Go({"ACTIVE"}, {"STOPPING", "WINDING_DOWN"})
           \/ Go({"STOPPING"}, {"RESTING"})
        /\ owed = FALSE /\ UNCHANGED owed

Next == LetGo \/ Confirmed \/ Move

Spec == Init /\ [][Next]_vars
=============================================================================
