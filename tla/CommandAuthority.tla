-------------------------- MODULE CommandAuthority --------------------------
(***************************************************************************)
(* What the goal gate of crates/reachy-driver promises, with none of its   *)
(* queue, clock or held setpoint: which goals still have the authority to  *)
(* move the machine.  A torque-off latch takes the authority of every goal *)
(* there is, nothing accepted while it stands ever gains any, and ending   *)
(* the latch is a fresh engagement that starts with none.                  *)
(***************************************************************************)

CONSTANTS Goal,     \* the setpoints a commander may send
          NoGoal    \* the absence of one

VARIABLES live,       \* the goals that may still move the machine
          releasing,  \* whether torque off is latched
          wrote       \* the goal the last cycle put on the bus, or NoGoal

absVars == <<live, releasing, wrote>>

AbsInit == live = {} /\ releasing = FALSE /\ wrote = NoGoal

\* A goal gains authority, but never under a latch.
Grant(g) == /\ ~releasing
            /\ live' = live \cup {g}
            /\ wrote' = NoGoal
            /\ UNCHANGED releasing

\* A goal with authority reaches the bus; goals it supersedes may lose theirs.
Write(g) == /\ ~releasing
            /\ g \in live
            /\ wrote' = g
            /\ live' \subseteq live
            /\ g \in live'
            /\ UNCHANGED releasing

\* Torque off: every goal loses its authority at once.
Revoke == /\ releasing' = TRUE
          /\ live' = {}
          /\ wrote' = NoGoal

\* A fresh engagement ends the latch, with nothing commanded.
Engage == /\ releasing
          /\ releasing' = FALSE
          /\ live' = {}
          /\ wrote' = NoGoal

\* A completed disarm forgets what was commanded without latching.
Forget == /\ live' = {}
          /\ wrote' = NoGoal
          /\ UNCHANGED releasing

\* A cycle, or a datagram, that writes nothing.
Idle == wrote' = NoGoal /\ UNCHANGED <<live, releasing>>

AbsNext == \/ \E g \in Goal : Grant(g) \/ Write(g)
           \/ Revoke \/ Engage \/ Forget \/ Idle

AbsSpec == AbsInit /\ [][AbsNext]_absVars
=============================================================================
