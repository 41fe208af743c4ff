------------------------------ MODULE MCSession ------------------------------
(***************************************************************************)
(* Two servos, the second of them an antenna; for liveness a machine of    *)
(* the antenna alone.  One provisioned cell, recorded and not checked, and *)
(* no profile register: Conversations is where those are gone through.     *)
(***************************************************************************)
EXTENDS Session

MCNone == {}
MCAntenna == {1}
MCAlone == {0}
=============================================================================
