------------------------------ MODULE Delivery ------------------------------
(***************************************************************************)
(* GameSend in time: who comes back to a response that the socket did not  *)
(* take at once.  send_responses of the game server does not push the      *)
(* connection again (the login server's does); on_tick does, every second, *)
(* for the players in the world.                                           *)
(***************************************************************************)
EXTENDS GameSend

\* The worker takes connection c.
TakeConn(c) == Take /\ worker' = c

\* The worker sends to connection c, whose socket takes something.
SendSome(c) == SendResponses /\ worker = c /\ received' # received

\* A tick while a player's rest is not in the queue.  (Its fairness says nothing of walks
\* that end, whose pushes are by chance.)
TickDue == ~(Unsent \subseteq queued) /\ OnTick

\* What is assumed of time, and no more.  The timer is a loop around a sleep.  The worker
\* returns from a send.  A connection that is pushed again and again gets its turn:
\* WQueue leaves behind no more items than signals were lost, and every further push
\* brings out one of them.  A client that stays reads what its socket holds some day.
Fairness ==
    /\ WF_vars(TickDue)
    /\ WF_vars(SendResponses)
    /\ \A c \in Conn : SF_vars(c \in Unsent /\ TakeConn(c)) /\ SF_vars(SendSome(c))

FairSpec == Spec /\ Fairness

-----------------------------------------------------------------------------
(* Properties *)

\* Something was made for client k that it has not got.
Due(k) == Len(received[k]) < produced[k]

\* A player in the world gets all that is made for it, whatever the socket takes at a time
\* and whoever else is served, as long as it stays in the world: on_tick brings its
\* connection back (game_server_lib.c:127-135).
PlayerServed ==
    \A c \in Conn, k \in Client :
        (client[c] = k /\ playing[c] /\ Due(k)) ~> (~Due(k) \/ client[c] # k \/ ~playing[c])
=============================================================================
