----------------------------- MODULE MCLoginSend -----------------------------
(* Three responses of two bytes each. *)
EXTENDS LoginSend, TLC

CONSTANTS main0, worker, conn

MCPusher == {main0}
MCWork == {conn}
=============================================================================
