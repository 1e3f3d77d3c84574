--------------------------- MODULE MCGameSession ---------------------------
(* Two connections and three characters shared by three sockets: enough for a
   full connection table, a slot used by a second player, and a spawned orc. *)
EXTENDS GameSession, TLC

CONSTANTS f1, f2, f3, ann

MCSocket == {f1, f2, f3}
MCUser == {ann}
SocketSymmetry == Permutations(MCSocket)
=============================================================================
