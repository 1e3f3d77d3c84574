----------------------------- MODULE MCGameSend -----------------------------
(* Two connections and two clients: they play side by side, or one connection
   serves the second while it may still be in the queue for the first.  Packets
   of one byte or two, which a socket may take apart; two bytes to a client.   *)
EXTENDS Delivery

MCPacketSize == {0, 1, 2}
=============================================================================
