------------------------------ MODULE GameSend ------------------------------
(***************************************************************************)
(* How the responses of the game server reach its clients                  *)
(* (src/game_server_lib.c): handlers and the timer append to the buffer of *)
(* a connection, or of every player's, and push the connection to the work *)
(* queue; the worker sends what the socket takes of it.  All three hold    *)
(* the state lock, so each is one step.                                    *)
(*                                                                         *)
(* The queue is the set of connections in it: WQueue shows what it does    *)
(* with their order, and a connection may be in it several times.  Which   *)
(* bytes are in a buffer is modelled, what they mean is not.               *)
(***************************************************************************)
EXTENDS Naturals, Sequences

CONSTANTS NConn,        \* length of connections[]: 1024
          NClient,      \* bound: clients accepted
          PacketSize,   \* lengths of a packet
          Buffer,       \* length of to_send: 8 kb
          MaxProduced   \* bound: bytes of the responses to one client

ASSUME SendAssumption ==
    /\ NConn \in Nat /\ NClient \in Nat /\ Buffer \in Nat /\ MaxProduced \in Nat
    /\ PacketSize \subseteq Nat

Conn == 1 .. NConn
Client == 1 .. NClient

VARIABLES
    client,    \* connections[c].socket: the client it was accepted for, 0 when free
    playing,   \* its character is active
    toSend,    \* the first to_send_count bytes of to_send
    sent,      \* the sent counter
    queued,    \* the connections in the work queue
    worker,    \* the connection whose turn it is, 0 when the worker has none
    accepted,  \* number of clients so far
    produced,  \* history: bytes of the responses to a client
    received   \* history: bytes handed to the client's socket

connVars == <<client, playing, toSend, sent>>
vars == <<connVars, queued, worker, accepted, produced, received>>

Init ==
    /\ client = [c \in Conn |-> 0]
    /\ playing = [c \in Conn |-> FALSE]
    /\ toSend = [c \in Conn |-> <<>>]
    /\ sent = [c \in Conn |-> 0]
    /\ queued = {}
    /\ worker = 0
    /\ accepted = 0
    /\ produced = [k \in Client |-> 0]
    /\ received = [k \in Client |-> <<>>]

-----------------------------------------------------------------------------

\* The n bytes of the next packet for the client of c; of no client when the
\* connection is free (an orc's slot may still point at it).
Packet(c, n) ==
    LET k == client[c] IN
    [i \in 1 .. n |-> <<k, IF k = 0 THEN 0 ELSE produced[k] + i>>]

\* (mutant) writes every packet at the start of the buffer
PushOverOld(D, n) ==
    /\ toSend' = [c \in Conn |-> IF c \in D
                     THEN Packet(c, n) \o toSend[c]
                     ELSE toSend[c]]
    /\ produced' = [k \in Client |-> IF \E c \in D : client[c] = k
                                     THEN produced[k] + n ELSE produced[k]]

\* push_response to one connection, broadcast to many: the packet goes to the
\* end of the buffer.
Push(D, n) ==
    /\ toSend' = [c \in Conn |-> IF c \in D THEN toSend[c] \o Packet(c, n) ELSE toSend[c]]
    /\ produced' = [k \in Client |-> IF \E c \in D : client[c] = k
                                     THEN produced[k] + n ELSE produced[k]]

\* The bounds of the model, and of the code: what it pushes fits the buffer.
Room(D, n) ==
    \A c \in D : /\ Len(toSend[c]) + n <= Buffer
                 /\ client[c] # 0 => produced[client[c]] + n <= MaxProduced

\* on_connection, on the free connection it found.
OnConnection(c) ==
    /\ client[c] = 0
    /\ accepted < NClient
    /\ accepted' = accepted + 1
    /\ client' = [client EXCEPT ![c] = accepted + 1]
    /\ playing' = [playing EXCEPT ![c] = FALSE]
    /\ toSend' = [toSend EXCEPT ![c] = <<>>]
    /\ sent' = [sent EXCEPT ![c] = 0]
    /\ UNCHANGED <<queued, worker, produced, received>>

\* on_request: the handlers answer c, broadcast or do neither, its player may
\* enter or leave the world, and the connection is pushed.
OnRequest(c) ==
    /\ client[c] # 0
    /\ \E D \in SUBSET Conn, n \in PacketSize : Room(D, n) /\ Push(D, n)
    /\ \E p \in BOOLEAN : playing' = [playing EXCEPT ![c] = p]
    /\ queued' = queued \cup {c}
    /\ UNCHANGED <<client, sent, worker, accepted, received>>

\* on_request when a handler drops the client: the connection is free, and is
\* pushed all the same.
OnRequestDropped(c) ==
    /\ client[c] # 0
    /\ client' = [client EXCEPT ![c] = 0]
    /\ queued' = queued \cup {c}
    /\ UNCHANGED <<playing, toSend, sent, worker, accepted, produced, received>>

\* on_disconnect frees the connection and leaves it in the queue.
OnDisconnect(c) ==
    /\ client[c] # 0
    /\ client' = [client EXCEPT ![c] = 0]
    /\ playing' = [playing EXCEPT ![c] = FALSE]
    /\ UNCHANGED <<toSend, sent, queued, worker, accepted, produced, received>>

\* The players with something to send, whom on_tick pushes.
Unsent == {c \in Conn : client[c] # 0 /\ playing[c] /\ toSend[c] # <<>>}

\* (mutant) pushes nobody
OnTickUnpushed ==
    /\ \E D \in SUBSET Conn, n \in PacketSize : Room(D, n) /\ Push(D, n)
    /\ UNCHANGED <<client, playing, sent, queued, worker, accepted, received>>

\* on_tick: characters act, which is broadcast or not; a player whose walk ended
\* is pushed, and then everybody in the world whose buffer holds something.
OnTick ==
    /\ \E D \in SUBSET Conn, n \in PacketSize : Room(D, n) /\ Push(D, n)
    /\ UNCHANGED <<client, playing, sent, worker, accepted, received>>
    /\ \E arrived \in SUBSET Conn : queued' = queued \cup arrived \cup Unsent'

\* The worker takes a connection off the queue, where it may be once more.
Take ==
    /\ worker = 0
    /\ \E c \in queued :
         /\ worker' = c
         /\ \/ queued' = queued \ {c}
            \/ UNCHANGED queued
    /\ UNCHANGED <<connVars, accepted, produced, received>>

-----------------------------------------------------------------------------
(* send_responses *)

\* What net_send may do with n bytes: send some or all of them; nothing at all
\* on the descriptor of a free connection.
Sendable(c, n) == IF client[c] = 0 THEN {0} ELSE 0 .. n

\* (mutant) counts bytes as sent that the socket did not take
CountAll(c, m) == sent[c] + (Len(toSend[c]) - sent[c])

\* conn->sent after net_send returned m.
SentAfter(c, m) == sent[c] + m

\* All data has been sent.
AllSent(c, m) == SentAfter(c, m) >= Len(toSend[c])

SendResponses ==
    /\ worker # 0
    /\ LET c == worker
           left == Len(toSend[c]) - sent[c]
       IN \E m \in Sendable(c, left) :
            /\ received' = [k \in Client |-> IF k = client[c]
                   THEN received[k] \o SubSeq(toSend[c], sent[c] + 1, sent[c] + m)
                   ELSE received[k]]
            /\ sent' = [sent EXCEPT ![c] = IF AllSent(c, m) THEN 0 ELSE SentAfter(c, m)]
            /\ toSend' = [toSend EXCEPT ![c] = IF AllSent(c, m) THEN <<>> ELSE @]
    /\ worker' = 0
    /\ UNCHANGED <<client, playing, queued, accepted, produced>>

-----------------------------------------------------------------------------

Next ==
    \/ \E c \in Conn : \/ OnConnection(c)
                       \/ OnRequest(c) \/ OnRequestDropped(c)
                       \/ OnDisconnect(c)
    \/ OnTick
    \/ Take
    \/ SendResponses

Spec == Init /\ [][Next]_vars

-----------------------------------------------------------------------------
(* Properties *)

TypeOK ==
    /\ client \in [Conn -> Client \cup {0}]
    /\ playing \in [Conn -> BOOLEAN]
    /\ toSend \in [Conn -> Seq((Client \cup {0}) \X Nat)]
    /\ sent \in [Conn -> Nat]
    /\ queued \subseteq Conn
    /\ worker \in Conn \cup {0}
    /\ accepted \in 0 .. NClient
    /\ produced \in [Client -> Nat]
    /\ received \in [Client -> Seq((Client \cup {0}) \X Nat)]

\* The counters of a connection always describe its buffer: "to_send_count -
\* sent" does not wrap around, and a buffer that is not empty has a byte left to
\* send, whoever wrote to it and however little the socket took.
CountersAgree ==
    \A c \in Conn : sent[c] < Len(toSend[c]) \/ (sent[c] = 0 /\ toSend[c] = <<>>)

\* What a client was sent, followed by what its buffer still holds, is all that
\* was ever made for it, in order: also when the connection served another
\* client before, and is in the queue, or with the worker, on its account.
NothingLost ==
    \A c \in Conn : client[c] # 0 =>
        LET k == client[c]
            left == Len(toSend[c]) - sent[c]
        IN /\ Len(received[k]) + left = produced[k]
           /\ \A i \in 1 .. left : toSend[c][sent[c] + i] = <<k, Len(received[k]) + i>>

\* The server gives every client its byte stream.
Wire == INSTANCE ByteStream
ImplementsByteStream == Wire!Spec
=============================================================================
