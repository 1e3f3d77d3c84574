------------------------------ MODULE Framing ------------------------------
(***************************************************************************)
(* How a server cuts the bytes it reads into requests: on_request,         *)
(* handle_request and decrypt of src/game_server_lib.c, and on_request of  *)
(* src/login_server.c.                                                     *)
(*                                                                         *)
(* A request starts with its size in two bytes, low byte first, and may    *)
(* arrive in any number of reads, or with others in one.  Both servers     *)
(* take the size from the buffer before they look how many bytes are in    *)
(* it: of a request of which one byte is there, the second byte of the     *)
(* size is what the last request left behind.  A request that is taken by  *)
(* such a size is misframed, and the model stops there.                    *)
(*                                                                         *)
(* A key of the game's cipher is the sum of the lengths it was used for;   *)
(* the rest of it does not change.                                         *)
(***************************************************************************)
EXTENDS Naturals, Sequences

CONSTANTS
    Server,     \* the servers to look at: "game", "login"
    SizeAt,     \* sizes of requests to a server, their own two bytes included
    KeyMod,     \* 2^32: the range of the part of a key that changes
    Cut,        \* bound: how much of a request a read may end with, besides all of it
    MaxSent     \* bound: requests of the client

Low(size) == size % 256
High(size) == size \div 256

ASSUME FramingAssumption ==
    /\ Server \subseteq {"game", "login"}
    /\ \A s \in Server : SizeAt[s] \subseteq {n \in Nat : n > 2 /\ High(n) < 256}
    /\ KeyMod \in Nat \ {0} /\ Cut \subseteq Nat \ {0} /\ MaxSent \in Nat

\* A request that is not encrypted, as the first one of a game client.
Plain == KeyMod
Key == 0 .. KeyMod

VARIABLES
    server,     \* the server that this is about
    sent,       \* requests of the client: size, and key it was encrypted with
    clientKey,  \* the client's key for its next request
    arriving,   \* the request of which bytes were read last
    got,        \* how many bytes of it were read
    at,         \* the handler: "idle", or "handling" what it has
    stale,      \* request[1] after the last memmove, if nothing was moved there
    key,        \* conn->decrypt_key
    encrypted,  \* conn->encrypted
    handled,    \* requests as they were handled
    misframed   \* a request was taken by a size that is not its own

clientVars == <<sent, clientKey>>
readVars == <<arriving, got>>
connVars == <<stale, key, encrypted>>
vars == <<server, clientVars, readVars, at, connVars, handled, misframed>>

Init ==
    /\ server \in Server
    /\ sent = <<>> /\ clientKey = 0
    /\ arriving = 0 /\ got = 0
    /\ at = "idle"
    /\ stale = 0 /\ key = 0 /\ encrypted = FALSE
    /\ handled = <<>>
    /\ misframed = FALSE

\* The place in sent of the request at the start of the buffer.
First == Len(handled) + 1

\* How the key moves on when it was used for a request: by its length without its size.
Advance(k, size) == (k + (size - 2)) % KeyMod

-----------------------------------------------------------------------------
\* The game's cipher starts with the second request; the login server's has no state,
\* and its client waits for each answer.
ClientSends(size) ==
    /\ Len(sent) < MaxSent
    /\ server = "login" => Len(handled) = Len(sent)
    /\ LET ciphered == server = "game" /\ sent # <<>>
       IN  /\ sent' = Append(sent, [size |-> size, key |-> IF ciphered THEN clientKey ELSE Plain])
           /\ clientKey' = IF ciphered THEN Advance(clientKey, size) ELSE clientKey
    /\ UNCHANGED <<server, readVars, at, connVars, handled, misframed>>

\* A read of what there is so far, up to some byte of the r-th request.
Read(r, n) ==
    /\ at = "idle"
    /\ r \in 1 .. Len(sent)
    /\ n \in Cut \union {sent[r].size} /\ n <= sent[r].size
    /\ r > arriving \/ (r = arriving /\ n > got)
    /\ arriving' = r /\ got' = n
    /\ at' = "handling"
    /\ UNCHANGED <<server, clientVars, connVars, handled, misframed>>

\* The size in the buffer is the one of its first request, all of which is there.
Whole == First < arriving \/ (First = arriving /\ got = sent[First].size)

\* (mutant) Early with the low byte alone.
EarlyByLow == First = arriving /\ got = 1 /\ Low(sent[First].size) <= 1

\* One byte is there, and with what was left behind it makes a size of at most one.
Early == First = arriving /\ got = 1 /\ Low(sent[First].size) + 256 * stale <= 1

\* (mutant) Handle with a decrypt that counts the two bytes of the size.
HandleCountingAll ==
    /\ at = "handling"
    /\ Whole
    /\ handled' = Append(handled, [size |-> sent[First].size,
                                   key |-> IF encrypted THEN key ELSE Plain])
    /\ key' = IF encrypted THEN (key + sent[First].size) % KeyMod ELSE key
    /\ encrypted' = (server = "game")
    /\ stale' = High(sent[First].size)
    /\ at' = IF server = "game" THEN "handling" ELSE "idle"
    /\ UNCHANGED <<server, clientVars, readVars, misframed>>

\* (mutant) Handle of one request per read, in either server.
HandleOne ==
    /\ at = "handling"
    /\ Whole
    /\ handled' = Append(handled, [size |-> sent[First].size,
                                   key |-> IF encrypted THEN key ELSE Plain])
    /\ key' = IF encrypted THEN Advance(key, sent[First].size) ELSE key
    /\ encrypted' = (server = "game")
    /\ stale' = High(sent[First].size)
    /\ at' = "idle"
    /\ UNCHANGED <<server, clientVars, readVars, misframed>>

\* decrypt, when the connection is encrypted; the handler of the request; the memmove.
\* The game goes on with what is left, the login server waits for the next read.
Handle ==
    /\ at = "handling"
    /\ Whole
    /\ handled' = Append(handled, [size |-> sent[First].size,
                                   key |-> IF encrypted THEN key ELSE Plain])
    /\ key' = IF encrypted THEN Advance(key, sent[First].size) ELSE key
    /\ encrypted' = (server = "game")
    /\ stale' = High(sent[First].size)
    /\ at' = IF server = "game" THEN "handling" ELSE "idle"
    /\ UNCHANGED <<server, clientVars, readVars, misframed>>

Misframe ==
    /\ at = "handling"
    /\ ~Whole /\ Early
    /\ misframed' = TRUE
    /\ UNCHANGED <<server, clientVars, readVars, at, connVars, handled>>

\* size > request_count: wait for more.
Incomplete ==
    /\ at = "handling"
    /\ ~Whole /\ ~Early
    /\ at' = "idle"
    /\ UNCHANGED <<server, clientVars, readVars, connVars, handled, misframed>>

Next ==
    /\ ~misframed
    /\ \/ \E size \in SizeAt[server] : ClientSends(size)
       \/ \E r \in 1 .. Len(sent) : \E n \in Cut \union {sent[r].size} : Read(r, n)
       \/ Handle
       \/ Misframe
       \/ Incomplete

Spec == Init /\ [][Next]_vars

-----------------------------------------------------------------------------
(* Properties *)

Request == [size : UNION {SizeAt[s] : s \in Server}, key : Key]

TypeOK ==
    /\ server \in Server
    /\ sent \in Seq(Request) /\ handled \in Seq(Request)
    /\ clientKey \in 0 .. KeyMod - 1 /\ key \in 0 .. KeyMod - 1
    /\ arriving \in 0 .. Len(sent)
    /\ got \in Nat
    /\ at \in {"idle", "handling"}
    /\ stale \in 0 .. 255
    /\ encrypted \in BOOLEAN /\ misframed \in BOOLEAN

\* Requests that arrived to the last byte.
Arrived ==
    IF arriving = 0 \/ got = sent[arriving].size THEN arriving ELSE arriving - 1

Reference == INSTANCE Requests WITH arrived <- Arrived

\* However the stream is cut into reads, requests are handled whole, once, in order, and
\* the game decrypts each with the key it was encrypted with: server and client count
\* the same lengths (handle_request, decrypt; on_request of the login server).
ImplementsRequests == Reference!Spec

\* The types of the variables; and when the handler is done, no whole request is left in
\* the buffer.  The game loops for that; the login server takes one request per read and
\* relies on a client that waits.
NothingLeft == TypeOK /\ (at = "idle" /\ ~misframed => ~Whole)

\* The only way to misframe a stream of proper requests: one byte of a request of
\* 256 n or 256 n + 1 bytes is read by itself after a request shorter than 256.
MisframedCause ==
    misframed =>
        /\ First = arriving /\ got = 1
        /\ Low(sent[First].size) <= 1 /\ High(sent[First].size) > 0
        /\ handled # <<>> => High(handled[Len(handled)].size) = 0
=============================================================================
