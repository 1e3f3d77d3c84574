----------------------------- MODULE MCFraming -----------------------------
(* A client of either server.  Requests of the game: two short ones, and two whose low
   byte by itself is a size of at most one; of the login server: none reaches 256.   *)
EXTENDS Framing, TLC

MCServer == {"game", "login"}
MCSizeAt == "game" :> {3, 4, 256, 513} @@ "login" :> {34, 42, 178}
MCCut == {1, 2, 3}
=============================================================================
