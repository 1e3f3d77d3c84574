------------------------------ MODULE Requests ------------------------------
(***************************************************************************)
(* What the handlers of either server expect of the requests of a client:  *)
(* each is handled once, when all of it has arrived, in the order they     *)
(* were sent, and read with the key it was written with.                   *)
(***************************************************************************)
EXTENDS Naturals, Sequences

CONSTANT Request    \* a size and a key

VARIABLES
    sent,       \* requests of the client
    arrived,    \* how many of them are there to the last byte
    handled     \* requests as they were handled

Init == sent = <<>> /\ arrived = 0 /\ handled = <<>>

Send ==
    /\ \E r \in Request : sent' = Append(sent, r)
    /\ UNCHANGED <<arrived, handled>>

Arrive ==
    /\ arrived' \in arrived .. Len(sent)
    /\ UNCHANGED <<sent, handled>>

Handle ==
    /\ Len(handled) < arrived
    /\ handled' = Append(handled, sent[Len(handled) + 1])
    /\ UNCHANGED <<sent, arrived>>

Next == Send \/ Arrive \/ Handle

Spec == Init /\ [][Next]_<<sent, arrived, handled>>
=============================================================================
