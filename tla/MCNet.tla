------------------------------- MODULE MCNet -------------------------------
(* Two clients for a table of one connection. *)
EXTENDS Net
CONSTANTS p1, p2
MCPeer == {p1, p2}
=============================================================================
