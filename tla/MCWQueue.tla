------------------------------ MODULE MCWQueue ------------------------------
(* Two threads that push (the network thread, which also closes, and the
   timer thread of the game server), two connections, an array of three. *)
EXTENDS WQueue, TLC

CONSTANTS net, timer, worker, c1, c2

MCPusher == {net, timer}
MCWork == {c1, c2}
=============================================================================
