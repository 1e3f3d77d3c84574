-------------------------------- MODULE MCWorld --------------------------------
(* A player and the orc it spawns, on a line.  The places are out of range of each
   other and two ticks of walking apart; an orc that is hit twice before it dies
   fights back in between.                                                      *)
EXTENDS World

CONSTANTS ann, nobody

MCAlone == {ann}
MCFar == {0, 20}

=============================================================================
