----------------------------- MODULE ByteStream -----------------------------
(***************************************************************************)
(* What the client of either server expects of its connection: the bytes   *)
(* of the responses made for it, each once, in the order they were made,   *)
(* and no others.  Bytes are named after the client and their place in the *)
(* sequence of its responses.                                              *)
(***************************************************************************)
EXTENDS Naturals, Sequences

CONSTANT Client

VARIABLES produced,   \* number of bytes of the responses made for a client
          received    \* bytes handed to the network for it

Stream(k, n) == [i \in 1 .. n |-> <<k, i>>]

Init ==
    /\ produced = [k \in Client |-> 0]
    /\ received = [k \in Client |-> <<>>]

\* A response to one client, or one that goes to many.
Produce ==
    /\ produced' \in [Client -> Nat]
    /\ \A k \in Client : produced'[k] >= produced[k]
    /\ UNCHANGED received

\* The next bytes of those due to k, any number of them.
Receive(k) ==
    /\ \E n \in Len(received[k]) .. produced[k] :
         received' = [received EXCEPT ![k] = Stream(k, n)]
    /\ UNCHANGED produced

Next == Produce \/ \E k \in Client : Receive(k)

Spec == Init /\ [][Next]_<<produced, received>>
=============================================================================
