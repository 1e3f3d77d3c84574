----------------------------- MODULE GameSession -----------------------------
(***************************************************************************)
(* The tables that tie the sockets of the game server to players and their *)
(* characters (src/game_server_lib.c): connections[], one per socket, each *)
(* with a coroutine that expects the protocol and then the login packet    *)
(* before any other; and characters[], which connections allocate from and *)
(* point into, and in which orcs are spawned.                              *)
(*                                                                         *)
(* Every handler runs under the state lock on the network thread, so one   *)
(* packet handled is one step.  Clients are external: they follow the      *)
(* screens of the game (what they send next depends on what they last      *)
(* received), but may be of another version, close or lose the connection, *)
(* and may have sent any packets behind the one that gets them dropped:    *)
(* the loop of on_request handles those of the same read all the same, for *)
(* a connection whose socket is 0 by then.                                 *)
(***************************************************************************)
EXTENDS Naturals, FiniteSets

CONSTANTS NConn,      \* length of connections[]: 1024 in the code
          NSlot,      \* length of characters[] less its first element: 1023
          Socket,     \* file descriptors of accepted clients
          User,       \* account names
          MaxSaved,   \* bound: characters created per account
          MaxLate     \* bound: slots taken behind a drop

ASSUME SizeAssumption ==
    NConn \in Nat \ {0} /\ NSlot \in Nat \ {0} /\ MaxSaved \in Nat /\ MaxLate \in Nat
ASSUME SocketAssumption == 0 \notin Socket

Conn == 1 .. NConn
Slot == 1 .. NSlot     \* element 0 of characters[] is never allocated

VARIABLES
    \* connections[c]
    socket,     \* the file descriptor, 0 when the connection is free
    line,       \* where the coroutine of handle_request_by_type stands
    username,   \* the account
    character,  \* the slot its character pointer designates, 0 for none
    \* on_request
    rest,       \* the connection that was dropped while its packets are handled, or 0
    \* characters[s]
    active,     \* in the world
    owner,      \* the connection its conn pointer designates, 0 for an npc
    orc,        \* its template is the orc's
    \* the rest of the process and its surroundings
    open,       \* file descriptors the server has not closed
    crashed,    \* a null pointer was dereferenced
    saved,      \* number of characters in the directory of an account
    screen,     \* what the client of a socket is showing
    \* history
    granted,    \* c passed the check of its session key
    late,       \* slots that were last taken behind a drop
    known       \* the npcs the client of c was told about

connVars == <<socket, line, username, character, rest, granted>>
slotVars == <<active, owner, orc, late>>
vars == <<connVars, slotVars, open, crashed, saved, screen, known>>

Line == {"protocol", "auth", "game"}
Screen == {"none", "hello", "login", "lobby", "loading", "world", "leaving"}

NoUser == "nobody"

Init ==
    /\ socket = [c \in Conn |-> 0]
    /\ line = [c \in Conn |-> "protocol"]
    /\ username = [c \in Conn |-> NoUser]
    /\ character = [c \in Conn |-> 0]
    /\ rest = 0
    /\ active = [s \in Slot |-> FALSE]
    /\ owner = [s \in Slot |-> 0]
    /\ orc = [s \in Slot |-> FALSE]
    /\ open = {}
    /\ crashed = FALSE
    /\ saved = [u \in User |-> 0]
    /\ screen = [f \in Socket |-> "none"]
    /\ granted = [c \in Conn |-> FALSE]
    /\ late = {}
    /\ known = [c \in Conn |-> {}]

-----------------------------------------------------------------------------
(* Helpers *)

\* The first index of a loop that takes the first match; 0 when none does.
First(S) == IF S = {} THEN 0 ELSE CHOOSE i \in S : \A j \in S : i <= j

FreeConnection == First({c \in Conn : socket[c] = 0})

\* get_connection_from_socket: the connection with this socket or, failing
\* that, the first free one.
ConnectionOf(f) ==
    IF \E c \in Conn : socket[c] = f THEN First({c \in Conn : socket[c] = f})
                                     ELSE FreeConnection

\* (mutant) takes the first slot without looking at its active flag
FirstSlot == 1

FreeSlot == First({s \in Slot : ~active[s]})

\* No read is under way.
Ready == ~crashed /\ rest = 0

\* net_close(conn->socket); conn->socket = 0.  The read goes on.
Drop(c) ==
    /\ rest' = c
    /\ open' = open \ {socket[c]}
    /\ socket' = [socket EXCEPT ![c] = 0]
    /\ screen' = [screen EXCEPT ![socket[c]] = "none"]

\* The connections a broadcast writes to: those the active characters point at.
Audience == {owner[s] : s \in {t \in Slot : active[t] /\ owner[t] # 0}}

-----------------------------------------------------------------------------
(* Connections: net_listen accepts a client, on_connection *)

\* (mutant) the connection is not cleared before it is used again
OnConnectionUncleared(f) ==
    /\ Ready
    /\ f \notin open
    /\ LET c == ConnectionOf(f) IN
         /\ c # 0
         /\ socket' = [socket EXCEPT ![c] = f]
         /\ granted' = [granted EXCEPT ![c] = FALSE]
         /\ UNCHANGED <<line, username, character, rest, known>>
    /\ open' = open \cup {f}
    /\ screen' = [screen EXCEPT ![f] = "hello"]
    /\ UNCHANGED <<slotVars, crashed, saved>>

OnConnection(f) ==
    /\ Ready
    /\ f \notin open
    /\ LET c == ConnectionOf(f) IN
         /\ c # 0
         /\ socket' = [socket EXCEPT ![c] = f]
         /\ line' = [line EXCEPT ![c] = "protocol"]
         /\ username' = [username EXCEPT ![c] = NoUser]
         /\ character' = [character EXCEPT ![c] = 0]
         /\ granted' = [granted EXCEPT ![c] = FALSE]
         /\ known' = [known EXCEPT ![c] = {}]
    /\ open' = open \cup {f}
    /\ screen' = [screen EXCEPT ![f] = "hello"]
    /\ UNCHANGED <<rest, slotVars, crashed, saved>>

\* No room: the new descriptor is closed at once and may be handed out again.
RefuseConnection(f) ==
    /\ Ready
    /\ f \notin open
    /\ ConnectionOf(f) = 0
    /\ UNCHANGED vars

\* (mutant) the character outlives its connection
OnDisconnectKeepingCharacter(f) ==
    /\ Ready
    /\ screen[f] # "none"
    /\ screen' = [screen EXCEPT ![f] = "none"]
    /\ LET c == ConnectionOf(f) IN
         /\ c # 0
         /\ socket' = [socket EXCEPT ![c] = 0]
         /\ character' = [character EXCEPT ![c] = 0]
         /\ UNCHANGED active
    /\ UNCHANGED <<line, username, rest, granted, owner, orc, late, open, crashed,
                   saved, known>>

\* The client closes its end (recv returns 0).  The connection and the slot its
\* character points at are freed; the descriptor leaves the epoll set but is
\* never closed, so it stays in "open".
OnDisconnect(f) ==
    /\ Ready
    /\ screen[f] # "none"
    /\ screen' = [screen EXCEPT ![f] = "none"]
    /\ LET c == ConnectionOf(f)
           s == character[c]
       IN /\ c # 0
          /\ socket' = [socket EXCEPT ![c] = 0]
          /\ character' = [character EXCEPT ![c] = 0]
          /\ active' = [t \in Slot |-> active[t] /\ t # s]
    /\ UNCHANGED <<line, username, rest, granted, owner, orc, late, open, crashed,
                   saved, known>>

\* The connection is reset (recv fails): nothing is told to the game server.
PeerReset(f) ==
    /\ Ready
    /\ screen[f] # "none"
    /\ screen' = [screen EXCEPT ![f] = "none"]
    /\ UNCHANGED <<connVars, slotVars, open, crashed, saved, known>>

-----------------------------------------------------------------------------
(* Packets: handle_request_by_type *)

\* A packet from the client of f, sent from screen p, reaches connection c with
\* its coroutine at line l.
Packet(f, c, p, l) ==
    /\ Ready
    /\ screen[f] = p
    /\ c # 0
    /\ line[c] = l

\* (mutant) the first packet is not compared with the expected one
HandleSendProtocolAlways(f) ==
    /\ Packet(f, ConnectionOf(f), "hello", "protocol")
    /\ line' = [line EXCEPT ![ConnectionOf(f)] = "game"]
    /\ screen' = [screen EXCEPT ![f] = "login"]
    /\ UNCHANGED <<socket, username, character, rest, granted,
                   slotVars, open, crashed, saved, known>>

\* The protocol packet: replies with the cipher key.
HandleSendProtocol(f) ==
    /\ Packet(f, ConnectionOf(f), "hello", "protocol")
    /\ line' = [line EXCEPT ![ConnectionOf(f)] = "auth"]
    /\ screen' = [screen EXCEPT ![f] = "login"]
    /\ UNCHANGED <<socket, username, character, rest, granted,
                   slotVars, open, crashed, saved, known>>

\* expected_or_close: any other packet while one of the first two is due.
UnexpectedPacket(f) ==
    LET c == ConnectionOf(f) IN
    /\ Packet(f, c, "hello", "protocol") \/ Packet(f, c, "login", "auth")
    /\ Drop(c)
    /\ UNCHANGED <<line, username, character, granted,
                   slotVars, crashed, saved, known>>

\* The login packet of account u, with a session key that is still valid: the
\* reply is the list of characters.
HandleAuth(f, u) ==
    LET c == ConnectionOf(f) IN
    /\ Packet(f, c, "login", "auth")
    /\ username' = [username EXCEPT ![c] = u]
    /\ line' = [line EXCEPT ![c] = "game"]
    /\ granted' = [granted EXCEPT ![c] = TRUE]
    /\ screen' = [screen EXCEPT ![f] = "lobby"]
    /\ UNCHANGED <<socket, character, rest, slotVars, open, crashed, saved, known>>

\* No key on file, another key or an expired one.  The coroutine moves on all
\* the same: the handler returns to the statement before its "yield", and what
\* follows in the read is dispatched to the game.
HandleAuthRefused(f, u) ==
    LET c == ConnectionOf(f) IN
    /\ Packet(f, c, "login", "auth")
    /\ username' = [username EXCEPT ![c] = u]
    /\ line' = [line EXCEPT ![c] = "game"]
    /\ Drop(c)
    /\ UNCHANGED <<character, granted, slotVars, crashed, saved, known>>

\* A new character, or one that overwrites another of the same name; a file
\* that cannot be opened leaves things as they are.
HandleCharacterCreation(f) ==
    LET c == ConnectionOf(f)
        u == username[c]
    IN
    /\ Packet(f, c, "lobby", "game")
    /\ saved[u] < MaxSaved
    /\ saved' = [saved EXCEPT ![u] = @ + 1]
    /\ UNCHANGED <<connVars, slotVars, open, crashed, screen, known>>

\* The client shows the list of characters and picks one of them.
SelectPacket(f, c) == Packet(f, c, "lobby", "game") /\ saved[username[c]] > 0

\* The slot is cleared, put in the world and given to the connection.
TakeSlot(c, s) ==
    /\ character' = [character EXCEPT ![c] = s]
    /\ owner' = [owner EXCEPT ![s] = c]
    /\ orc' = [orc EXCEPT ![s] = FALSE]
    /\ late' = IF rest = 0 THEN late \ {s} ELSE late \cup {s}

\* The chosen character is on disk.
HandleSelectCharacter(f) ==
    LET c == ConnectionOf(f)
        s == FreeSlot
    IN
    /\ SelectPacket(f, c)
    /\ s # 0
    /\ TakeSlot(c, s)
    /\ active' = [active EXCEPT ![s] = TRUE]
    /\ screen' = [screen EXCEPT ![f] = "loading"]
    /\ known' = [known EXCEPT ![c] = {}]
    /\ UNCHANGED <<socket, line, username, rest, granted, open, crashed, saved>>

\* Its file cannot be read: the slot is given back, the connection dropped; the
\* two keep pointing at each other.
HandleSelectNotFound(f) ==
    LET c == ConnectionOf(f)
        s == FreeSlot
    IN
    /\ SelectPacket(f, c)
    /\ s # 0
    /\ TakeSlot(c, s)
    /\ active' = [active EXCEPT ![s] = FALSE]
    /\ Drop(c)
    /\ UNCHANGED <<line, username, granted, crashed, saved, known>>

\* No slot is free.
HandleSelectFull(f) ==
    LET c == ConnectionOf(f) IN
    /\ SelectPacket(f, c)
    /\ FreeSlot = 0
    /\ character' = [character EXCEPT ![c] = 0]
    /\ Drop(c)
    /\ UNCHANGED <<line, username, granted, slotVars, crashed, saved, known>>

\* (mutant) skips the npcs instead of the players
HandleEnterWorldPlayers(f) ==
    LET c == ConnectionOf(f) IN
    /\ Packet(f, c, "loading", "game")
    /\ known' = [known EXCEPT ![c] = @ \cup {s \in Slot : active[s] /\ owner[s] # 0}]
    /\ screen' = [screen EXCEPT ![f] = "world"]
    /\ UNCHANGED <<connVars, slotVars, open, crashed, saved>>

\* Tells the client about every active character that has no connection.
HandleEnterWorld(f) ==
    LET c == ConnectionOf(f) IN
    /\ Packet(f, c, "loading", "game")
    /\ known' = [known EXCEPT ![c] = @ \cup {s \in Slot : active[s] /\ owner[s] = 0}]
    /\ screen' = [screen EXCEPT ![f] = "world"]
    /\ UNCHANGED <<connVars, slotVars, open, crashed, saved>>

\* The orc's slot is not cleared: a connection that an earlier player left in it
\* stays, and makes the orc a player to broadcast_char_info.
Spawn(s) ==
    /\ active' = [active EXCEPT ![s] = TRUE]
    /\ orc' = [orc EXCEPT ![s] = TRUE]
    /\ known' = IF owner[s] = 0
                THEN [d \in Conn |-> IF d \in Audience THEN known[d] \cup {s} ELSE known[d]]
                ELSE known
    /\ UNCHANGED <<connVars, owner, late, open, crashed, saved, screen>>

\* Spawns an orc in the first slot that is not active.
HandleShowMap(f) ==
    /\ Packet(f, ConnectionOf(f), "world", "game")
    /\ FreeSlot # 0
    /\ Spawn(FreeSlot)

\* No slot is free: "orc" stays null and is written through.
HandleShowMapFull(f) ==
    /\ Packet(f, ConnectionOf(f), "world", "game")
    /\ FreeSlot = 0
    /\ crashed' = TRUE
    /\ UNCHANGED <<connVars, slotVars, open, saved, screen, known>>

\* Back to the list of characters: the slot is freed, the pointer to it stays.
HandleRestart(f) ==
    LET c == ConnectionOf(f) IN
    /\ Packet(f, c, "world", "game")
    /\ active' = [s \in Slot |-> active[s] /\ s # character[c]]
    /\ screen' = [screen EXCEPT ![f] = "lobby"]
    /\ UNCHANGED <<connVars, owner, orc, late, open, crashed, saved, known>>

\* Quits: as above, and the client closes the connection next.
HandleLeaveWorld(f) ==
    LET c == ConnectionOf(f) IN
    /\ Packet(f, c, "world", "game")
    /\ active' = [s \in Slot |-> active[s] /\ s # character[c]]
    /\ screen' = [screen EXCEPT ![f] = "leaving"]
    /\ UNCHANGED <<connVars, owner, orc, late, open, crashed, saved, known>>

-----------------------------------------------------------------------------
(* The packets behind the one that got their connection dropped.  Those that the
   coroutine does not expect meet expected_or_close again, which closes descriptor 0 (see
   Net); those that only answer write into a connection without a client. *)

Behind(l) == ~crashed /\ rest # 0 /\ line[rest] = l

LateProtocol ==
    /\ Behind("protocol")
    /\ line' = [line EXCEPT ![rest] = "auth"]
    /\ UNCHANGED <<socket, username, character, rest, granted,
                   slotVars, open, crashed, saved, screen, known>>

\* With a valid key, or refused once more.
LateAuth(u) ==
    /\ Behind("auth")
    /\ username' = [username EXCEPT ![rest] = u]
    /\ line' = [line EXCEPT ![rest] = "game"]
    /\ \E valid \in BOOLEAN : granted' = [granted EXCEPT ![rest] = @ \/ valid]
    /\ UNCHANGED <<socket, character, rest, slotVars, open, crashed, saved, screen, known>>

LateCreation ==
    /\ Behind("game")
    /\ saved[username[rest]] < MaxSaved
    /\ saved' = [saved EXCEPT ![username[rest]] = @ + 1]
    /\ UNCHANGED <<connVars, slotVars, open, crashed, screen, known>>

\* The slot stays taken, for a character without a client, or is given back when
\* the index is not that of a character.
LateSelect ==
    LET s == FreeSlot IN
    /\ Behind("game")
    /\ s # 0
    /\ Cardinality(late \cup {s}) <= MaxLate
    /\ TakeSlot(rest, s)
    /\ \/ saved[username[rest]] > 0 /\ active' = [active EXCEPT ![s] = TRUE]
       \/ active' = [active EXCEPT ![s] = FALSE]
    /\ UNCHANGED <<socket, line, username, rest, granted, open, crashed, saved, screen, known>>

LateSelectFull ==
    /\ Behind("game")
    /\ FreeSlot = 0
    /\ character' = [character EXCEPT ![rest] = 0]
    /\ UNCHANGED <<socket, line, username, rest, granted,
                   slotVars, open, crashed, saved, screen, known>>

LateShowMap ==
    /\ Behind("game")
    /\ character[rest] # 0
    /\ FreeSlot # 0
    /\ Spawn(FreeSlot)

\* Restarts or quits.
LateRestart ==
    /\ Behind("game")
    /\ character[rest] # 0
    /\ active' = [s \in Slot |-> active[s] /\ s # character[rest]]
    /\ UNCHANGED <<connVars, owner, orc, late, open, crashed, saved, screen, known>>

\* Most handlers do not ask whether there is a character, nor 0xcd for a slot.
LateNull ==
    /\ Behind("game")
    /\ character[rest] = 0 \/ FreeSlot = 0
    /\ crashed' = TRUE
    /\ UNCHANGED <<connVars, slotVars, open, saved, screen, known>>

\* The read is at its end.
LateEnd ==
    /\ ~crashed /\ rest # 0
    /\ rest' = 0
    /\ UNCHANGED <<socket, line, username, character, granted,
                   slotVars, open, crashed, saved, screen, known>>

-----------------------------------------------------------------------------

Request(f) ==
    \/ HandleSendProtocol(f)
    \/ UnexpectedPacket(f)
    \/ \E u \in User : HandleAuth(f, u) \/ HandleAuthRefused(f, u)
    \/ HandleCharacterCreation(f)
    \/ HandleSelectCharacter(f) \/ HandleSelectNotFound(f) \/ HandleSelectFull(f)
    \/ HandleEnterWorld(f)
    \/ HandleShowMap(f) \/ HandleShowMapFull(f)
    \/ HandleRestart(f) \/ HandleLeaveWorld(f)

\* handle_request, called again after a drop.
Late ==
    \/ LateProtocol \/ \E u \in User : LateAuth(u)
    \/ LateCreation \/ LateSelect \/ LateSelectFull
    \/ LateShowMap \/ LateRestart \/ LateNull
    \/ LateEnd

Next ==
    \/ \E f \in Socket :
          \/ OnConnection(f) \/ RefuseConnection(f)
          \/ OnDisconnect(f) \/ PeerReset(f)
          \/ Request(f)
    \/ Late

Spec == Init /\ [][Next]_vars

-----------------------------------------------------------------------------
(* Properties *)

TypeOK ==
    /\ socket \in [Conn -> Socket \cup {0}]
    /\ line \in [Conn -> Line]
    /\ username \in [Conn -> User \cup {NoUser}]
    /\ character \in [Conn -> Slot \cup {0}]
    /\ rest \in Conn \cup {0}
    /\ active \in [Slot -> BOOLEAN]
    /\ owner \in [Slot -> Conn \cup {0}]
    /\ orc \in [Slot -> BOOLEAN]
    /\ open \in SUBSET Socket
    /\ crashed \in BOOLEAN
    /\ saved \in [User -> 0 .. MaxSaved]
    /\ screen \in [Socket -> Screen]
    /\ granted \in [Conn -> BOOLEAN]
    /\ late \in SUBSET Slot
    /\ known \in [Conn -> SUBSET Slot]

\* No two connections are registered for one descriptor, and none for one that
\* the server has closed and the system may hand out again.
SocketsDistinct ==
    \A c \in Conn : socket[c] # 0 =>
        /\ socket[c] \in open
        /\ \A d \in Conn : socket[d] = socket[c] => d = c

\* The connection of a client with the game on this screen: where its coroutine
\* stands, and a character to dereference where the handlers do so unchecked.
InStep(c, p) ==
    /\ p = "hello" => line[c] = "protocol"
    /\ p = "login" => line[c] = "auth"
    /\ p \in {"lobby", "loading", "world", "leaving"} => line[c] = "game"
    /\ p \in {"loading", "world", "leaving"} => character[c] # 0

\* Every packet finds the connection of its own socket: the lookup never falls
\* through to a free connection, and server and client agree on the stage of
\* the session, whatever other clients connect, drop or leave in between.
ClientServerAgree ==
    \A f \in Socket : screen[f] # "none" =>
        \E c \in Conn : socket[c] = f /\ InStep(c, screen[f])

\* The packets of a connection in use are dispatched to the game only after its session key
\* was checked on this connection: nothing of its previous user is left in it, and whoever
\* is refused is heard no longer than to the end of the read.  So a character in the world
\* was chosen by a checked connection, or behind a drop.
AuthBeforeGame ==
    /\ \A c \in Conn : socket[c] # 0 /\ line[c] = "game" => granted[c]
    /\ \A s \in Slot \ late : active[s] /\ ~orc[s] => owner[s] \in {c \in Conn : granted[c]}

\* A player's character in the world is held by a connection in use, which points back at
\* it: a broadcast meant for a player never reaches a free connection.  Only those chosen
\* behind a drop are not: they stay, and whoever gets their connection next does not
\* get them.
PlayerHeld ==
    /\ \A s \in Slot \ late : active[s] /\ ~orc[s] =>
         /\ owner[s] # 0
         /\ socket[owner[s]] # 0
         /\ character[owner[s]] = s
    /\ \A c \in Conn : socket[c] # 0 /\ character[c] \in late => owner[character[c]] # c

\* c plays: its client is in the world, with a character of its own there.
Plays(c) ==
    /\ \E f \in Socket : socket[c] = f /\ screen[f] = "world"
    /\ active[character[c]]
    /\ owner[character[c]] = c
    /\ ~orc[character[c]]

\* A player is told of every npc (an active character without a connection)
\* that was there before it or came after it.
NpcsKnown ==
    \A c \in Conn : Plays(c) => \A s \in Slot : active[s] /\ owner[s] = 0 => s \in known[c]

\* A player in the world loses its character only by its own doing, or because
\* another connection still points at the slot: one that restarted or left and
\* kept its pointer (handle_restart, handle_leave_world, on_disconnect).
EvictedByStalePointer ==
    [][\A c \in Conn : Plays(c) /\ ~crashed' =>
            \/ Plays(c)'
            \/ \E f \in Socket : socket[c] = f /\ screen'[f] # "world"
            \/ \E d \in Conn \ {c} : character[d] = character[c]]_vars

\* What the comment at game_server_lib.c:1587, "go through all npcs", says of
\* entering the world: a player knows of every orc in it.
OrcsKnown ==
    \A c \in Conn : Plays(c) => \A s \in Slot : active[s] /\ orc[s] => s \in known[c]
=============================================================================
