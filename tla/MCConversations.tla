-------------------------- MODULE MCConversations --------------------------
(***************************************************************************)
(* Three servos, the last of them an antenna; two provisioned cells, one   *)
(* checked; one profile register.                                          *)
(***************************************************************************)
EXTENDS Conversations

MCAntennas == {2}
MCChecked == {0}
=============================================================================
