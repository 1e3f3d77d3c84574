------------------------- MODULE GameSessionProofs -------------------------
(***************************************************************************)
(* Proofs about GameSession, for any number of connections, characters,    *)
(* sockets and accounts.                                                   *)
(***************************************************************************)
EXTENDS GameSession, WellFoundedInduction, TLAPS

(***************************************************************************)
(* The loops that look for the first match.                                *)
(***************************************************************************)

\* A non-empty set of naturals has a least element.
LEMMA LeastElement ==
    ASSUME NEW T, T \subseteq Nat, T # {}
    PROVE  \E m \in T : \A n \in T : m <= n
<1> DEFINE R == {ss \in Nat \X Nat : ss[1] < ss[2]}
<1>1. IsWellFoundedOn(R, Nat)
  BY NatLessThanWellFounded DEF OpToRel
<1>2. PICK x \in T : \A y \in T : ~(<<y, x>> \in R)
  <2> HIDE DEF R
  <2> QED BY <1>1, WFMin
<1>3. ASSUME NEW y \in T PROVE x <= y
  <2>1. x \in Nat /\ y \in Nat /\ <<y, x>> \in Nat \X Nat
    OBVIOUS
  <2>2. ~(y < x)
    BY <1>2, <2>1
  <2> QED BY <2>1, <2>2
<1> QED BY <1>3

\* First(S) is an element of S when there is one, and 0 otherwise.
LEMMA FirstFound ==
    ASSUME NEW S, S \subseteq Nat
    PROVE  /\ S = {} => First(S) = 0
           /\ S # {} => First(S) \in S
BY LeastElement DEF First

\* get_connection_from_socket returns the connection of the socket if it has
\* one, else a free connection, else null.
LEMMA ConnectionFound ==
    ASSUME TypeOK, NEW f \in Socket
    PROVE  /\ ConnectionOf(f) \in Conn \cup {0}
           /\ (\E c \in Conn : socket[c] = f) =>
                 ConnectionOf(f) \in Conn /\ socket[ConnectionOf(f)] = f
           /\ (~(\E c \in Conn : socket[c] = f) /\ ConnectionOf(f) # 0) =>
                 ConnectionOf(f) \in Conn /\ socket[ConnectionOf(f)] = 0
<1>1. Conn \subseteq Nat
  BY SizeAssumption DEF Conn
<1> DEFINE used == {c \in Conn : socket[c] = f}
           free == {c \in Conn : socket[c] = 0}
<1>2. /\ used = {} => First(used) = 0
      /\ used # {} => First(used) \in used
      /\ free = {} => First(free) = 0
      /\ free # {} => First(free) \in free
  BY <1>1, FirstFound
<1> QED BY <1>2 DEF ConnectionOf, FreeConnection

\* The loop over characters[] finds a slot that is not active, or none.
LEMMA SlotFound ==
    /\ FreeSlot \in Slot \cup {0}
    /\ FreeSlot # 0 => FreeSlot \in Slot /\ ~active[FreeSlot]
<1>1. Slot \subseteq Nat
  BY SizeAssumption DEF Slot
<1> DEFINE free == {s \in Slot : ~active[s]}
<1>2. /\ free = {} => First(free) = 0
      /\ free # {} => First(free) \in free
  BY <1>1, FirstFound
<1> QED BY <1>2 DEF FreeSlot

-----------------------------------------------------------------------------

LEMMA SessionTyping == TypeOK /\ [Next]_vars => TypeOK'
<1> USE SizeAssumption DEF TypeOK, Line, Screen
<1>1. TypeOK /\ [Next]_vars => TypeOK'
  <2> SUFFICES ASSUME TypeOK, [Next]_vars PROVE TypeOK'
    OBVIOUS
  <2>1. CASE UNCHANGED vars
    BY <2>1 DEF vars, connVars, slotVars
  <2>2. CASE Late
    <3>1. ASSUME LateProtocol PROVE TypeOK'
      BY <3>1 DEF LateProtocol, Behind, slotVars
    <3>2. ASSUME NEW u \in User, LateAuth(u) PROVE TypeOK'
      <4>1. PICK v \in BOOLEAN : granted' = [granted EXCEPT ![rest] = granted[rest] \/ v]
        BY <3>2 DEF LateAuth
      <4>2. granted' \in [Conn -> BOOLEAN]
        BY <4>1
      <4> QED BY <3>2, <4>2 DEF LateAuth, Behind, slotVars
    <3>3. ASSUME LateCreation PROVE TypeOK'
      <4> DEFINE u == username[rest]
      <4>1. saved' = [saved EXCEPT ![u] = @ + 1] /\ saved[u] < MaxSaved
        BY <3>3 DEF LateCreation
      <4> HIDE DEF u
      <4>2. saved' \in [User -> 0 .. MaxSaved]
        <5>1. ASSUME u \in User PROVE saved[u] + 1 \in 0 .. MaxSaved
          BY <4>1, <5>1
        <5> QED BY <4>1, <5>1
      <4>3. UNCHANGED <<connVars, slotVars, open, crashed, screen, known>>
        BY <3>3 DEF LateCreation
      <4> QED BY <4>2, <4>3 DEF connVars, slotVars
    <3>4. ASSUME LateSelect PROVE TypeOK'
      <4>1. /\ FreeSlot \in Slot
            /\ character' = [character EXCEPT ![rest] = FreeSlot]
            /\ owner' = [owner EXCEPT ![FreeSlot] = rest]
            /\ orc' = [orc EXCEPT ![FreeSlot] = FALSE]
            /\ late' = late \cup {FreeSlot}
            /\ \/ active' = [active EXCEPT ![FreeSlot] = TRUE]
               \/ active' = [active EXCEPT ![FreeSlot] = FALSE]
        BY <3>4, SlotFound DEF LateSelect, Behind, TakeSlot
      <4>2. UNCHANGED <<socket, line, username, rest, granted, open, crashed, saved,
                        screen, known>>
        BY <3>4 DEF LateSelect
      <4> QED BY <4>1, <4>2
    <3>5. ASSUME LateSelectFull PROVE TypeOK'
      BY <3>5 DEF LateSelectFull, Behind, slotVars
    <3>6. ASSUME LateShowMap PROVE TypeOK'
      BY <3>6, SlotFound DEF LateShowMap, Spawn, connVars
    <3>7. ASSUME LateRestart PROVE TypeOK'
      BY <3>7 DEF LateRestart, connVars
    <3>8. ASSUME LateNull PROVE TypeOK'
      BY <3>8 DEF LateNull, connVars, slotVars
    <3>9. ASSUME LateEnd PROVE TypeOK'
      BY <3>9 DEF LateEnd, slotVars
    <3> QED BY <2>2, <3>1, <3>2, <3>3, <3>4, <3>5, <3>6, <3>7, <3>8, <3>9 DEF Late
  <2>3. ASSUME NEW f \in Socket,
               \/ OnConnection(f) \/ RefuseConnection(f)
               \/ OnDisconnect(f) \/ PeerReset(f) \/ Request(f)
        PROVE  TypeOK'
    <3> DEFINE c == ConnectionOf(f)
    <3>0. c \in Conn \cup {0}
      BY ConnectionFound
    <3> HIDE DEF c
    <3>1. CASE OnConnection(f)
      BY <3>0, <3>1 DEF OnConnection, slotVars, c
    <3>2. CASE RefuseConnection(f)
      BY <3>2 DEF RefuseConnection, vars, connVars, slotVars
    <3>3. CASE OnDisconnect(f)
      BY <3>0, <3>3 DEF OnDisconnect, c
    <3>4. CASE PeerReset(f)
      BY <3>4 DEF PeerReset, connVars, slotVars
    <3>5. CASE HandleSendProtocol(f)
      BY <3>0, <3>5 DEF HandleSendProtocol, Packet, slotVars, c
    <3>6. CASE UnexpectedPacket(f)
      BY <3>0, <3>6 DEF UnexpectedPacket, Packet, Drop, slotVars, c
    <3>7. ASSUME NEW u \in User, HandleAuth(f, u) PROVE TypeOK'
      BY <3>0, <3>7 DEF HandleAuth, Packet, slotVars, c
    <3>8. ASSUME NEW u \in User, HandleAuthRefused(f, u) PROVE TypeOK'
      BY <3>0, <3>8 DEF HandleAuthRefused, Packet, Drop, slotVars, c
    <3>9. CASE HandleCharacterCreation(f)
      <4> DEFINE u == username[c]
      <4>1. saved' = [saved EXCEPT ![u] = @ + 1] /\ saved[u] < MaxSaved
        BY <3>9 DEF HandleCharacterCreation, c
      <4> HIDE DEF u
      <4>2. saved' \in [User -> 0 .. MaxSaved]
        <5>1. ASSUME u \in User PROVE saved[u] + 1 \in 0 .. MaxSaved
          BY <4>1, <5>1
        <5> QED BY <4>1, <5>1
      <4>3. UNCHANGED <<connVars, slotVars, open, crashed, screen, known>>
        BY <3>9 DEF HandleCharacterCreation
      <4> QED BY <4>2, <4>3 DEF connVars, slotVars
    <3>10. CASE HandleSelectCharacter(f)
      BY <3>0, <3>10, SlotFound
         DEF HandleSelectCharacter, SelectPacket, Packet, TakeSlot, c
    <3>11. CASE HandleSelectNotFound(f)
      BY <3>0, <3>11, SlotFound
         DEF HandleSelectNotFound, SelectPacket, Packet, TakeSlot, Drop, c
    <3>12. CASE HandleSelectFull(f)
      BY <3>0, <3>12 DEF HandleSelectFull, SelectPacket, Packet, Drop, slotVars, c
    <3>13. CASE HandleEnterWorld(f)
      BY <3>0, <3>13 DEF HandleEnterWorld, Packet, connVars, slotVars, c
    <3>14. CASE HandleShowMap(f)
      BY <3>0, <3>14, SlotFound DEF HandleShowMap, Spawn, Packet, connVars, c
    <3>15. CASE HandleShowMapFull(f)
      BY <3>15 DEF HandleShowMapFull, connVars, slotVars
    <3>16. CASE HandleRestart(f)
      BY <3>0, <3>16 DEF HandleRestart, Packet, connVars, c
    <3>17. CASE HandleLeaveWorld(f)
      BY <3>0, <3>17 DEF HandleLeaveWorld, Packet, connVars, c
    <3> QED BY <2>3, <3>1, <3>2, <3>3, <3>4, <3>5, <3>6, <3>7, <3>8, <3>9, <3>10,
                <3>11, <3>12, <3>13, <3>14, <3>15, <3>16, <3>17 DEF Request
  <2> QED BY <2>1, <2>2, <2>3 DEF Next
<1> QED BY <1>1

\* The type invariant: in particular the pointers between the two tables stay
\* within them.
THEOREM Typing == Spec => []TypeOK
<1>1. Init => TypeOK
  <2> SUFFICES ASSUME Init PROVE TypeOK
    OBVIOUS
  <2>1. saved \in [User -> 0 .. MaxSaved]
    BY SizeAssumption DEF Init
  <2>2. crashed \in BOOLEAN
    BY DEF Init
  <2> QED BY <2>1, <2>2 DEF Init, TypeOK, Line, Screen
<1> QED BY <1>1, SessionTyping, PTL DEF Spec

-----------------------------------------------------------------------------
(***************************************************************************)
(* Sockets, sessions and held characters.  The three invariants need one   *)
(* another: a packet reaches the connection of its socket because sockets  *)
(* are distinct and every client is registered, and the character of a     *)
(* connection that is dropped is not in the world because the handlers     *)
(* that drop run only before the client has entered it.                    *)
(***************************************************************************)

\* AuthBeforeGame, of the connections.
CheckedFirst == \A c \in Conn : socket[c] # 0 /\ line[c] = "game" => granted[c]

\* PlayerHeld, of the characters chosen in a session.
HeldBack ==
    \A s \in Slot \ late : active[s] /\ ~orc[s] =>
        owner[s] # 0 /\ socket[owner[s]] # 0 /\ character[owner[s]] = s

\* A client whose character is in the world is loading it, in it, or lost
\* without the server's knowledge.
HeldByPlayer ==
    \A s \in Slot \ late : active[s] /\ ~orc[s] =>
        \A f \in Socket : socket[owner[s]] = f => screen[f] \in {"loading", "world", "none"}

\* What follows a drop in its read is handled for a connection without a client.
RestDropped == rest # 0 => rest \in Conn /\ socket[rest] = 0

SessionInv ==
    /\ SocketsDistinct /\ ClientServerAgree
    /\ CheckedFirst /\ HeldBack /\ HeldByPlayer
    /\ RestDropped

\* The connection that handles a packet of a client is the client's own.
LEMMA OwnConnection ==
    ASSUME TypeOK, SessionInv, NEW f \in Socket, screen[f] # "none"
    PROVE  /\ ConnectionOf(f) \in Conn
           /\ socket[ConnectionOf(f)] = f
           /\ InStep(ConnectionOf(f), screen[f])
           /\ f \in open
           /\ \A d \in Conn : socket[d] = f => d = ConnectionOf(f)
<1>1. PICK c \in Conn : socket[c] = f /\ InStep(c, screen[f])
  BY DEF SessionInv, ClientServerAgree
<1>2. f # 0
  BY SocketAssumption
<1>3. ConnectionOf(f) \in Conn /\ socket[ConnectionOf(f)] = f
  BY <1>1, ConnectionFound
<1>4. c = ConnectionOf(f)
  BY <1>1, <1>2, <1>3 DEF SessionInv, SocketsDistinct
<1> QED BY <1>1, <1>2, <1>3, <1>4 DEF SessionInv, SocketsDistinct

\* A new descriptor is given a free connection.
LEMMA NewConnection ==
    ASSUME TypeOK, SessionInv, NEW f \in Socket, f \notin open, ConnectionOf(f) # 0
    PROVE  /\ ConnectionOf(f) \in Conn
           /\ socket[ConnectionOf(f)] = 0
           /\ \A d \in Conn : socket[d] # f
<1>1. \A d \in Conn : socket[d] # f
  BY SocketAssumption DEF SessionInv, SocketsDistinct
<1> QED BY <1>1, ConnectionFound

\* A step that handles nothing but a packet of f, leaves the sockets and slots
\* alone and takes the client from one screen to another keeps the invariant
\* when server and client still agree and no character is left behind.
LEMMA StepInSession ==
    ASSUME TypeOK, SessionInv, NEW f \in Socket, screen[f] # "none",
           NEW c, c = ConnectionOf(f),
           NEW p \in {"hello", "login", "lobby", "loading", "world", "leaving"},
           screen' = [screen EXCEPT ![f] = p],
           UNCHANGED <<socket, open, slotVars, rest>>,
           \A d \in Conn : d # c => UNCHANGED <<line[d], granted[d]>>,
           InStep(c, p)',
           line'[c] = "game" => granted'[c],
           character' = character,
           p \in {"loading", "world"} \/ screen[f] \notin {"loading", "world"}
    PROVE  SessionInv'
<1>0. /\ c \in Conn /\ socket[c] = f /\ f \in open
      /\ \A d \in Conn : socket[d] = f => d = c
  BY OwnConnection
<1>1. SocketsDistinct'
  BY DEF SessionInv, SocketsDistinct
<1>2. ClientServerAgree'
  <2> SUFFICES ASSUME NEW g \in Socket, screen'[g] # "none"
               PROVE  \E d \in Conn : socket'[d] = g /\ InStep(d, screen[g])'
    BY DEF ClientServerAgree
  <2>1. CASE g = f
    BY <1>0, <2>1 DEF TypeOK
  <2>2. CASE g # f
    <3>1. PICK d \in Conn : socket[d] = g /\ InStep(d, screen[g])
      BY <2>2 DEF SessionInv, ClientServerAgree, TypeOK
    <3>2. d # c
      BY <1>0, <2>2, <3>1
    <3> QED BY <2>2, <3>1, <3>2 DEF InStep, TypeOK
  <2> QED BY <2>1, <2>2
<1>3. CheckedFirst'
  BY <1>0 DEF SessionInv, CheckedFirst
<1>4. HeldBack'
  BY DEF SessionInv, HeldBack, slotVars
<1>5. HeldByPlayer'
  BY DEF SessionInv, HeldByPlayer, slotVars, TypeOK
<1>6. RestDropped'
  BY DEF SessionInv, RestDropped
<1> QED BY <1>1, <1>2, <1>3, <1>4, <1>5, <1>6 DEF SessionInv

\* A packet for which a connection without a character in the world is dropped
\* keeps the invariant, whatever it writes into that connection.
LEMMA StepDrops ==
    ASSUME TypeOK, SessionInv, NEW f \in Socket,
           screen[f] \in {"hello", "login", "lobby"},
           Drop(ConnectionOf(f)),
           \A d \in Conn : d # ConnectionOf(f) =>
               UNCHANGED <<line[d], character[d], granted[d]>>,
           \A s \in Slot \ late' : active'[s] /\ ~orc'[s] =>
               s \notin late /\ active[s] /\ ~orc[s] /\ owner'[s] = owner[s]
    PROVE  SessionInv'
<1> DEFINE c == ConnectionOf(f)
<1>0. /\ c \in Conn /\ socket[c] = f /\ f \in open /\ f # 0
      /\ \A d \in Conn : socket[d] = f => d = c
  BY OwnConnection, SocketAssumption
<1>1. /\ socket' = [socket EXCEPT ![c] = 0]
      /\ open' = open \ {f}
      /\ screen' = [screen EXCEPT ![f] = "none"]
      /\ rest' = c
  BY <1>0 DEF Drop
<1>2. SocketsDistinct'
  BY <1>0, <1>1 DEF SessionInv, SocketsDistinct, TypeOK
<1>3. ClientServerAgree'
  <2> SUFFICES ASSUME NEW g \in Socket, screen'[g] # "none"
               PROVE  \E d \in Conn : socket'[d] = g /\ InStep(d, screen[g])'
    BY DEF ClientServerAgree
  <2>1. g # f /\ screen'[g] = screen[g]
    BY <1>1 DEF TypeOK
  <2>2. PICK d \in Conn : socket[d] = g /\ InStep(d, screen[g])
    BY <2>1 DEF SessionInv, ClientServerAgree
  <2>3. d # c
    BY <1>0, <2>1, <2>2
  <2> QED BY <1>1, <2>1, <2>2, <2>3 DEF InStep, TypeOK
<1>4. CheckedFirst'
  BY <1>0, <1>1 DEF SessionInv, CheckedFirst, TypeOK
<1>5. ASSUME NEW s \in Slot \ late', active'[s], ~orc'[s]
      PROVE  /\ s \notin late /\ active[s] /\ ~orc[s] /\ owner'[s] = owner[s]
             /\ owner[s] \in Conn /\ owner[s] # c
  <2>1. s \notin late /\ active[s] /\ ~orc[s] /\ owner'[s] = owner[s]
    BY <1>5
  <2>2. owner[s] \in Conn
    BY <2>1 DEF SessionInv, HeldBack, TypeOK
  <2>3. owner[s] # c
    BY <1>0, <2>1 DEF SessionInv, HeldByPlayer
  <2> QED BY <2>1, <2>2, <2>3
<1>6. HeldBack'
  BY <1>1, <1>5 DEF SessionInv, HeldBack, TypeOK
<1>7. HeldByPlayer'
  BY <1>0, <1>1, <1>5 DEF SessionInv, HeldByPlayer, TypeOK
<1>8. RestDropped'
  BY <1>0, <1>1 DEF RestDropped, TypeOK
<1> QED BY <1>2, <1>3, <1>4, <1>6, <1>7, <1>8 DEF SessionInv

\* A player that goes back to the list of characters, or quits, takes its
\* character from the world.
LEMMA StepLeaves ==
    ASSUME TypeOK, SessionInv, NEW f \in Socket, screen[f] = "world",
           NEW p \in {"lobby", "leaving"},
           screen' = [screen EXCEPT ![f] = p],
           active' = [s \in Slot |-> active[s] /\ s # character[ConnectionOf(f)]],
           UNCHANGED <<connVars, owner, orc, late, open>>
    PROVE  SessionInv'
<1> DEFINE c == ConnectionOf(f)
<1>0. /\ c \in Conn /\ socket[c] = f /\ f \in open
      /\ \A d \in Conn : socket[d] = f => d = c
      /\ InStep(c, "world")
  BY OwnConnection
<1> USE DEF connVars
<1>1. SocketsDistinct'
  BY DEF SessionInv, SocketsDistinct
<1>2. ClientServerAgree'
  <2> SUFFICES ASSUME NEW g \in Socket, screen'[g] # "none"
               PROVE  \E d \in Conn : socket'[d] = g /\ InStep(d, screen[g])'
    BY DEF ClientServerAgree
  <2>1. CASE g = f
    <3>1. screen'[g] = p
      BY <2>1 DEF TypeOK
    <3> QED BY <1>0, <2>1, <3>1 DEF InStep
  <2>2. CASE g # f
    BY <2>2 DEF SessionInv, ClientServerAgree, InStep, TypeOK
  <2> QED BY <2>1, <2>2
<1>3. CheckedFirst'
  BY DEF SessionInv, CheckedFirst
<1>4. HeldBack'
  BY DEF SessionInv, HeldBack
<1>5. ASSUME NEW s \in Slot \ late, active'[s], ~orc'[s]
      PROVE  socket[owner[s]] # f
  <2>1. active[s] /\ ~orc[s] /\ s # character[c]
    BY <1>5
  <2>2. owner[s] \in Conn /\ character[owner[s]] = s
    BY <2>1 DEF SessionInv, HeldBack, TypeOK
  <2>3. owner[s] # c
    BY <2>1, <2>2
  <2> QED BY <1>0, <2>2, <2>3
<1>6. HeldByPlayer'
  BY <1>5 DEF SessionInv, HeldByPlayer, TypeOK
<1>7. RestDropped'
  BY DEF SessionInv, RestDropped
<1> QED BY <1>1, <1>2, <1>3, <1>4, <1>6, <1>7 DEF SessionInv

\* A client that goes away: it closes its end, and the server frees what it had.
LEMMA StepDisconnects ==
    ASSUME TypeOK, SessionInv, NEW f \in Socket, OnDisconnect(f)
    PROVE  SessionInv'
<1> DEFINE c == ConnectionOf(f)
<1>0. /\ c \in Conn /\ socket[c] = f /\ f # 0
      /\ \A d \in Conn : socket[d] = f => d = c
  BY OwnConnection, SocketAssumption DEF OnDisconnect
<1>1. /\ socket' = [socket EXCEPT ![c] = 0]
      /\ character' = [character EXCEPT ![c] = 0]
      /\ active' = [t \in Slot |-> active[t] /\ t # character[c]]
      /\ screen' = [screen EXCEPT ![f] = "none"]
      /\ UNCHANGED <<line, granted, owner, orc, late, open, rest>>
      /\ rest = 0
  BY DEF OnDisconnect, Ready
<1> HIDE DEF c
<1>2. SocketsDistinct'
  BY <1>0, <1>1 DEF SessionInv, SocketsDistinct, TypeOK
<1>3. ClientServerAgree'
  BY <1>0, <1>1 DEF SessionInv, ClientServerAgree, InStep, TypeOK
<1>4. CheckedFirst'
  BY <1>0, <1>1 DEF SessionInv, CheckedFirst, TypeOK
<1>5. ASSUME NEW s \in Slot \ late, active'[s], ~orc'[s]
      PROVE  /\ active[s] /\ ~orc[s]
             /\ owner[s] \in Conn /\ owner[s] # c
             /\ socket[owner[s]] # 0 /\ character[owner[s]] = s
  <2>1. active[s] /\ ~orc[s] /\ s # character[c]
    BY <1>1, <1>5
  <2>2. /\ owner[s] \in Conn /\ character[owner[s]] = s
        /\ socket[owner[s]] # 0
    BY <2>1 DEF SessionInv, HeldBack, TypeOK
  <2> QED BY <2>1, <2>2
<1>6. HeldBack'
  <2> SUFFICES ASSUME NEW s \in Slot \ late, active'[s], ~orc'[s]
               PROVE  /\ owner'[s] # 0 /\ socket'[owner'[s]] # 0
                      /\ character'[owner'[s]] = s
    BY <1>1 DEF HeldBack
  <2>1. owner'[s] = owner[s] /\ owner[s] \in Conn /\ owner[s] # c
    BY <1>1, <1>5
  <2>2. owner[s] # 0
    BY <2>1, SizeAssumption DEF Conn
  <2> QED BY <1>1, <1>5, <2>1, <2>2 DEF TypeOK
<1>7. HeldByPlayer'
  BY <1>0, <1>1, <1>5 DEF SessionInv, HeldByPlayer, TypeOK
<1>8. RestDropped'
  BY <1>1 DEF RestDropped
<1> QED BY <1>2, <1>3, <1>4, <1>6, <1>7, <1>8 DEF SessionInv

\* A client that is accepted: it takes a connection nobody uses.
LEMMA StepConnects ==
    ASSUME TypeOK, SessionInv, NEW f \in Socket, OnConnection(f)
    PROVE  SessionInv'
<1> DEFINE c == ConnectionOf(f)
<1>0. /\ c \in Conn /\ socket[c] = 0 /\ f # 0
      /\ \A d \in Conn : socket[d] # f
  BY NewConnection, SocketAssumption DEF OnConnection
<1>1. /\ socket' = [socket EXCEPT ![c] = f]
      /\ line' = [line EXCEPT ![c] = "protocol"]
      /\ character' = [character EXCEPT ![c] = 0]
      /\ granted' = [granted EXCEPT ![c] = FALSE]
      /\ open' = open \cup {f}
      /\ screen' = [screen EXCEPT ![f] = "hello"]
      /\ UNCHANGED <<slotVars, rest>>
      /\ rest = 0
  BY DEF OnConnection, Ready
<1> HIDE DEF c
<1>2. SocketsDistinct'
  BY <1>0, <1>1 DEF SessionInv, SocketsDistinct, TypeOK
<1>3. ClientServerAgree'
  <2> SUFFICES ASSUME NEW g \in Socket, screen'[g] # "none"
               PROVE  \E d \in Conn : socket'[d] = g /\ InStep(d, screen[g])'
    BY DEF ClientServerAgree
  <2>1. CASE g = f
    BY <1>0, <1>1, <2>1 DEF InStep, TypeOK
  <2>2. CASE g # f
    <3>1. PICK d \in Conn : socket[d] = g /\ InStep(d, screen[g])
      BY <1>1, <2>2 DEF SessionInv, ClientServerAgree, TypeOK
    <3>2. d # c
      BY <1>0, <3>1, SocketAssumption
    <3> QED BY <1>1, <2>2, <3>1, <3>2 DEF InStep, TypeOK
  <2> QED BY <2>1, <2>2
<1>4. CheckedFirst'
  BY <1>1 DEF SessionInv, CheckedFirst, TypeOK
<1>5. ASSUME NEW s \in Slot \ late, active[s], ~orc[s]
      PROVE  owner[s] \in Conn /\ owner[s] # c
  BY <1>0, <1>5 DEF SessionInv, HeldBack, TypeOK
<1>6. HeldBack'
  BY <1>1, <1>5 DEF SessionInv, HeldBack, slotVars, TypeOK
<1>7. HeldByPlayer'
  BY <1>0, <1>1, <1>5 DEF SessionInv, HeldByPlayer, slotVars, TypeOK
<1>8. RestDropped'
  BY <1>1 DEF RestDropped
<1> QED BY <1>2, <1>3, <1>4, <1>6, <1>7, <1>8 DEF SessionInv

\* What follows a drop: the slots of the characters whose clients are there stay as they
\* are.
LEMMA StepLate ==
    ASSUME TypeOK, SessionInv, rest \in Conn,
           UNCHANGED <<socket, open, screen>>,
           \A d \in Conn \ {rest} : UNCHANGED <<line[d], character[d], granted[d]>>,
           rest' \in {rest, 0},
           \A s \in Slot \ late' : active'[s] /\ ~orc'[s] =>
               s \notin late /\ active[s] /\ ~orc[s] /\ owner'[s] = owner[s]
    PROVE  SessionInv'
<1>0. socket[rest] = 0 /\ rest # 0
  BY SizeAssumption DEF SessionInv, RestDropped, Conn
<1>1. SocketsDistinct'
  BY DEF SessionInv, SocketsDistinct
<1>2. ClientServerAgree'
  <2> SUFFICES ASSUME NEW g \in Socket, screen[g] # "none"
               PROVE  \E d \in Conn : socket[d] = g /\ InStep(d, screen[g])'
    BY DEF ClientServerAgree
  <2>1. PICK d \in Conn : socket[d] = g /\ InStep(d, screen[g])
    BY DEF SessionInv, ClientServerAgree
  <2>2. d # rest
    BY <1>0, <2>1, SocketAssumption
  <2> QED BY <2>1, <2>2 DEF InStep
<1>3. CheckedFirst'
  BY <1>0 DEF SessionInv, CheckedFirst
<1>4. ASSUME NEW s \in Slot \ late', active'[s], ~orc'[s]
      PROVE  /\ s \notin late /\ active[s] /\ ~orc[s] /\ owner'[s] = owner[s]
             /\ owner[s] \in Conn /\ owner[s] # rest
  <2>1. s \notin late /\ active[s] /\ ~orc[s] /\ owner'[s] = owner[s]
    BY <1>4
  <2>2. owner[s] \in Conn /\ socket[owner[s]] # 0
    BY <2>1 DEF SessionInv, HeldBack, TypeOK
  <2> QED BY <1>0, <2>1, <2>2
<1>5. HeldBack'
  BY <1>4 DEF SessionInv, HeldBack
<1>6. HeldByPlayer'
  BY <1>4 DEF SessionInv, HeldByPlayer
<1>7. RestDropped'
  BY <1>0 DEF RestDropped
<1> QED BY <1>1, <1>2, <1>3, <1>5, <1>6, <1>7 DEF SessionInv

LEMMA LateStep == TypeOK /\ SessionInv /\ Late => SessionInv'
<1> SUFFICES ASSUME TypeOK, SessionInv, Late PROVE SessionInv'
  OBVIOUS
<1>0. rest \in Conn
  BY DEF Late, LateProtocol, LateAuth, LateCreation, LateSelect, LateSelectFull, LateShowMap,
         LateRestart, LateNull, LateEnd, Behind, TypeOK
<1>1. CASE LateProtocol
  BY <1>0, <1>1, StepLate DEF LateProtocol, slotVars, TypeOK
<1>2. ASSUME NEW u \in User, LateAuth(u) PROVE SessionInv'
  <2>1. /\ line' = [line EXCEPT ![rest] = "game"]
        /\ UNCHANGED <<socket, character, rest, slotVars, open, screen>>
    BY <1>2 DEF LateAuth
  <2>2. \A d \in Conn \ {rest} : granted'[d] = granted[d]
    BY <1>2 DEF LateAuth, TypeOK
  <2> QED BY <1>0, <2>1, <2>2, StepLate DEF slotVars, TypeOK
<1>3. CASE LateCreation
  BY <1>0, <1>3, StepLate DEF LateCreation, connVars, slotVars
<1>4. CASE LateSelect
  <2> DEFINE s == FreeSlot
  <2>1. /\ s \in Slot
        /\ character' = [character EXCEPT ![rest] = s]
        /\ owner' = [owner EXCEPT ![s] = rest]
        /\ orc' = [orc EXCEPT ![s] = FALSE]
        /\ late' = late \cup {s}
        /\ \/ active' = [active EXCEPT ![s] = TRUE]
           \/ active' = [active EXCEPT ![s] = FALSE]
        /\ UNCHANGED <<socket, line, rest, granted, open, screen>>
    BY <1>4, SlotFound DEF LateSelect, Behind, TakeSlot
  <2> HIDE DEF s
  <2>2. \A t \in Slot \ late' : active'[t] /\ ~orc'[t] =>
            t \notin late /\ active[t] /\ ~orc[t] /\ owner'[t] = owner[t]
    BY <2>1 DEF TypeOK
  <2>3. \A d \in Conn \ {rest} : UNCHANGED <<line[d], character[d], granted[d]>>
    BY <2>1 DEF TypeOK
  <2> QED BY <1>0, <2>1, <2>2, <2>3, StepLate
<1>5. CASE LateSelectFull
  BY <1>0, <1>5, StepLate DEF LateSelectFull, slotVars, TypeOK
<1>6. CASE LateShowMap
  <2>1. \A t \in Slot : active'[t] /\ ~orc'[t] => active[t] /\ ~orc[t]
    BY <1>6, SlotFound DEF LateShowMap, Spawn, TypeOK
  <2> QED BY <1>0, <1>6, <2>1, StepLate DEF LateShowMap, Spawn, connVars
<1>7. CASE LateRestart
  BY <1>0, <1>7, StepLate DEF LateRestart, connVars
<1>8. CASE LateNull
  BY <1>0, <1>8, StepLate DEF LateNull, connVars, slotVars
<1>9. CASE LateEnd
  BY <1>0, <1>9, StepLate DEF LateEnd, slotVars
<1> QED BY <1>1, <1>2, <1>3, <1>4, <1>5, <1>6, <1>7, <1>8, <1>9 DEF Late

\* The session invariant is kept by every step.
LEMMA SessionStep == TypeOK /\ SessionInv /\ [Next]_vars => SessionInv'
<1> SUFFICES ASSUME TypeOK, SessionInv, [Next]_vars PROVE SessionInv'
  OBVIOUS
<1>1. CASE UNCHANGED <<connVars, slotVars, open, screen>>
  BY <1>1 DEF SessionInv, SocketsDistinct, ClientServerAgree, InStep, CheckedFirst,
              HeldBack, HeldByPlayer, RestDropped, connVars, slotVars
<1>2. ASSUME NEW f \in Socket, PeerReset(f) PROVE SessionInv'
  BY <1>2 DEF PeerReset, SessionInv, SocketsDistinct, ClientServerAgree, InStep,
              CheckedFirst, HeldBack, HeldByPlayer, RestDropped, connVars, slotVars, TypeOK
<1>3. ASSUME NEW f \in Socket, HandleSendProtocol(f) PROVE SessionInv'
  <2>0. PICK c \in Conn : c = ConnectionOf(f)
    BY <1>3, OwnConnection DEF HandleSendProtocol, Packet
  <2>1. screen[f] = "hello" /\ c \in Conn
    BY <2>0, <1>3, OwnConnection DEF HandleSendProtocol, Packet
  <2>2. /\ line' = [line EXCEPT ![c] = "auth"]
        /\ screen' = [screen EXCEPT ![f] = "login"]
        /\ UNCHANGED <<socket, open, slotVars, character, granted, rest>>
    BY <2>0, <1>3 DEF HandleSendProtocol
  <2>3. /\ InStep(c, "login")'
        /\ line'[c] # "game"
        /\ \A d \in Conn : d # c => UNCHANGED <<line[d], granted[d]>>
    BY <2>1, <2>2 DEF InStep, TypeOK
  <2> QED BY <2>0, <2>1, <2>2, <2>3, StepInSession
<1>4. ASSUME NEW f \in Socket, UnexpectedPacket(f) PROVE SessionInv'
  <2>1. /\ screen[f] \in {"hello", "login", "lobby"}
        /\ Drop(ConnectionOf(f))
        /\ UNCHANGED <<line, character, granted, slotVars>>
    BY <1>4 DEF UnexpectedPacket, Packet
  <2> QED BY <2>1, StepDrops DEF slotVars
<1>5. ASSUME NEW f \in Socket, NEW u \in User, HandleAuth(f, u) PROVE SessionInv'
  <2>0. PICK c \in Conn : c = ConnectionOf(f)
    BY <1>5, OwnConnection DEF HandleAuth, Packet
  <2>1. screen[f] = "login" /\ c \in Conn
    BY <2>0, <1>5, OwnConnection DEF HandleAuth, Packet
  <2>2. /\ line' = [line EXCEPT ![c] = "game"]
        /\ granted' = [granted EXCEPT ![c] = TRUE]
        /\ screen' = [screen EXCEPT ![f] = "lobby"]
        /\ UNCHANGED <<socket, open, slotVars, character, rest>>
    BY <2>0, <1>5 DEF HandleAuth
  <2>3. /\ InStep(c, "lobby")'
        /\ granted'[c]
        /\ \A d \in Conn : d # c => UNCHANGED <<line[d], granted[d]>>
    BY <2>1, <2>2 DEF InStep, TypeOK
  <2> QED BY <2>0, <2>1, <2>2, <2>3, StepInSession
<1>6. ASSUME NEW f \in Socket, NEW u \in User, HandleAuthRefused(f, u) PROVE SessionInv'
  <2> DEFINE c == ConnectionOf(f)
  <2>1. /\ screen[f] \in {"hello", "login", "lobby"}
        /\ Drop(c)
        /\ line' = [line EXCEPT ![c] = "game"]
        /\ UNCHANGED <<character, granted, slotVars>>
    BY <1>6 DEF HandleAuthRefused, Packet
  <2>2. \A d \in Conn : d # c => UNCHANGED <<line[d], character[d], granted[d]>>
    BY <2>1 DEF TypeOK
  <2> QED BY <2>1, <2>2, StepDrops DEF slotVars
<1>7. ASSUME NEW f \in Socket, HandleSelectNotFound(f) PROVE SessionInv'
  <2> DEFINE c == ConnectionOf(f)
             s == FreeSlot
  <2>1. /\ screen[f] \in {"hello", "login", "lobby"}
        /\ Drop(c)
        /\ s \in Slot
        /\ character' = [character EXCEPT ![c] = s]
        /\ owner' = [owner EXCEPT ![s] = c]
        /\ orc' = [orc EXCEPT ![s] = FALSE]
        /\ late' = late \ {s}
        /\ active' = [active EXCEPT ![s] = FALSE]
        /\ UNCHANGED <<line, granted>>
    BY <1>7, SlotFound DEF HandleSelectNotFound, SelectPacket, Packet, TakeSlot, Ready
  <2> HIDE DEF c, s
  <2>2. \A d \in Conn : d # c => UNCHANGED <<line[d], character[d], granted[d]>>
    BY <2>1 DEF TypeOK
  <2>3. \A t \in Slot \ late' : active'[t] /\ ~orc'[t] =>
            t \notin late /\ active[t] /\ ~orc[t] /\ owner'[t] = owner[t]
    BY <2>1 DEF TypeOK
  <2> QED BY <2>1, <2>2, <2>3, StepDrops DEF c
<1>8. ASSUME NEW f \in Socket, HandleSelectFull(f) PROVE SessionInv'
  <2> DEFINE c == ConnectionOf(f)
  <2>1. /\ screen[f] \in {"hello", "login", "lobby"}
        /\ Drop(c)
        /\ character' = [character EXCEPT ![c] = 0]
        /\ UNCHANGED <<line, granted, slotVars>>
    BY <1>8 DEF HandleSelectFull, SelectPacket, Packet
  <2>2. \A d \in Conn : d # c => UNCHANGED <<line[d], character[d], granted[d]>>
    BY <2>1 DEF TypeOK
  <2> QED BY <2>1, <2>2, StepDrops DEF slotVars
<1>9. ASSUME NEW f \in Socket, HandleEnterWorld(f) PROVE SessionInv'
  <2>0. PICK c \in Conn : c = ConnectionOf(f)
    BY <1>9, OwnConnection DEF HandleEnterWorld, Packet
  <2>1. screen[f] = "loading" /\ c \in Conn /\ InStep(c, "loading") /\ socket[c] = f
    BY <2>0, <1>9, OwnConnection DEF HandleEnterWorld, Packet
  <2>2. /\ screen' = [screen EXCEPT ![f] = "world"]
        /\ UNCHANGED <<socket, open, slotVars, line, character, granted, rest>>
    BY <2>0, <1>9 DEF HandleEnterWorld, connVars
  <2>3. f # 0
    BY SocketAssumption
  <2>4. InStep(c, "world")' /\ granted'[c]
    BY <2>1, <2>2, <2>3 DEF InStep, SessionInv, CheckedFirst
  <2> QED BY <2>0, <2>1, <2>2, <2>4, StepInSession
<1>10. ASSUME NEW f \in Socket, HandleRestart(f) PROVE SessionInv'
  BY <1>10, StepLeaves DEF HandleRestart, Packet
<1>11. ASSUME NEW f \in Socket, HandleLeaveWorld(f) PROVE SessionInv'
  BY <1>11, StepLeaves DEF HandleLeaveWorld, Packet
<1>12. ASSUME NEW f \in Socket, HandleShowMap(f) PROVE SessionInv'
  <2> DEFINE s == FreeSlot
  <2>1. /\ s \in Slot
        /\ active' = [active EXCEPT ![s] = TRUE]
        /\ orc' = [orc EXCEPT ![s] = TRUE]
        /\ UNCHANGED <<connVars, owner, late, open, screen>>
    BY <1>12, SlotFound DEF HandleShowMap, Spawn
  <2> HIDE DEF s
  <2>2. \A t \in Slot : active'[t] /\ ~orc'[t] => active[t] /\ ~orc[t]
    BY <2>1 DEF TypeOK
  <2> QED BY <2>1, <2>2 DEF SessionInv, SocketsDistinct, ClientServerAgree, InStep,
              CheckedFirst, HeldBack, HeldByPlayer, RestDropped, connVars
<1>13. ASSUME NEW f \in Socket, HandleSelectCharacter(f) PROVE SessionInv'
  <2> DEFINE c == ConnectionOf(f)
             s == FreeSlot
  <2>0. /\ screen[f] = "lobby" /\ c \in Conn /\ socket[c] = f /\ f \in open /\ f # 0
        /\ \A d \in Conn : socket[d] = f => d = c
        /\ InStep(c, "lobby")
    BY <1>13, OwnConnection, SocketAssumption DEF HandleSelectCharacter, SelectPacket, Packet
  <2>1. /\ s \in Slot /\ ~active[s] /\ s # 0
        /\ character' = [character EXCEPT ![c] = s]
        /\ owner' = [owner EXCEPT ![s] = c]
        /\ orc' = [orc EXCEPT ![s] = FALSE]
        /\ late' = late \ {s}
        /\ active' = [active EXCEPT ![s] = TRUE]
        /\ screen' = [screen EXCEPT ![f] = "loading"]
        /\ UNCHANGED <<socket, line, granted, open, rest>>
    BY <1>13, SlotFound DEF HandleSelectCharacter, SelectPacket, Packet, TakeSlot, Ready
  <2> HIDE DEF c, s
  <2>2. SocketsDistinct'
    BY <2>1 DEF SessionInv, SocketsDistinct
  <2>3. ClientServerAgree'
    <3> SUFFICES ASSUME NEW g \in Socket, screen'[g] # "none"
                 PROVE  \E d \in Conn : socket'[d] = g /\ InStep(d, screen[g])'
      BY DEF ClientServerAgree
    <3>1. CASE g = f
      BY <2>0, <2>1, <3>1 DEF InStep, TypeOK
    <3>2. CASE g # f
      <4>1. PICK d \in Conn : socket[d] = g /\ InStep(d, screen[g])
        BY <2>1, <3>2 DEF SessionInv, ClientServerAgree, TypeOK
      <4>2. d # c
        BY <2>0, <3>2, <4>1
      <4> QED BY <2>1, <3>2, <4>1, <4>2 DEF InStep, TypeOK
    <3> QED BY <3>1, <3>2
  <2>4. CheckedFirst'
    BY <2>1 DEF SessionInv, CheckedFirst
  <2>5. ASSUME NEW t \in Slot \ late', t # s, active'[t], ~orc'[t]
        PROVE  /\ t \notin late /\ active[t] /\ ~orc[t] /\ owner'[t] = owner[t]
               /\ owner[t] \in Conn /\ owner[t] # c
               /\ socket[owner[t]] # 0 /\ character[owner[t]] = t
    <3>1. t \notin late /\ active[t] /\ ~orc[t] /\ owner'[t] = owner[t]
      BY <2>1, <2>5 DEF TypeOK
    <3>2. owner[t] \in Conn /\ socket[owner[t]] # 0 /\ character[owner[t]] = t
      BY <3>1 DEF SessionInv, HeldBack, TypeOK
    <3>3. owner[t] # c
      BY <2>0, <3>1 DEF SessionInv, HeldByPlayer
    <3> QED BY <3>1, <3>2, <3>3
  <2>6. owner'[s] = c /\ character'[c] = s /\ socket'[c] = f /\ c # 0
    BY <2>0, <2>1, SizeAssumption DEF TypeOK, Conn
  <2>7. HeldBack'
    <3> SUFFICES ASSUME NEW t \in Slot \ late', active'[t], ~orc'[t]
                 PROVE  /\ owner'[t] # 0 /\ socket'[owner'[t]] # 0
                        /\ character'[owner'[t]] = t
      BY DEF HeldBack
    <3>1. CASE t = s
      BY <2>0, <2>6, <3>1
    <3>2. CASE t # s
      <4>1. owner[t] # 0
        BY <2>5, <3>2, SizeAssumption DEF Conn
      <4> QED BY <2>1, <2>5, <3>2, <4>1 DEF TypeOK
    <3> QED BY <3>1, <3>2
  <2>8. HeldByPlayer'
    <3> SUFFICES ASSUME NEW t \in Slot \ late', active'[t], ~orc'[t],
                        NEW g \in Socket, socket'[owner'[t]] = g
                 PROVE  screen'[g] \in {"loading", "world", "none"}
      BY DEF HeldByPlayer
    <3>1. CASE t = s
      BY <2>0, <2>1, <2>6, <3>1 DEF TypeOK
    <3>2. CASE t # s
      BY <2>0, <2>1, <2>5, <3>2 DEF SessionInv, HeldByPlayer, TypeOK
    <3> QED BY <3>1, <3>2
  <2>9. RestDropped'
    BY <2>1 DEF SessionInv, RestDropped
  <2> QED BY <2>2, <2>3, <2>4, <2>7, <2>8, <2>9 DEF SessionInv
<1>14. ASSUME NEW f \in Socket,
              RefuseConnection(f) \/ HandleCharacterCreation(f) \/ HandleShowMapFull(f)
       PROVE  SessionInv'
  BY <1>1, <1>14 DEF RefuseConnection, HandleCharacterCreation, HandleShowMapFull, vars
<1>15. CASE UNCHANGED vars
  BY <1>1, <1>15 DEF vars
<1> QED
  BY <1>2, <1>3, <1>4, <1>5, <1>6, <1>7, <1>8, <1>9, <1>10, <1>11, <1>12, <1>13,
     <1>14, <1>15, StepConnects, StepDisconnects, LateStep DEF Next, Request

LEMMA SessionInvariant == Spec => []SessionInv
<1>1. Init => SessionInv
  BY DEF Init, SessionInv, SocketsDistinct, ClientServerAgree, CheckedFirst,
         HeldBack, HeldByPlayer, RestDropped
<1> QED BY <1>1, SessionStep, Typing, PTL DEF Spec

\* No descriptor has two connections, and no connection a closed descriptor.
THEOREM Sockets == Spec => []SocketsDistinct
<1>1. SessionInv => SocketsDistinct
  BY DEF SessionInv
<1> QED BY <1>1, SessionInvariant, PTL

\* Every packet finds its own connection, at the stage its client is at.
THEOREM Agreement == Spec => []ClientServerAgree
<1>1. SessionInv => ClientServerAgree
  BY DEF SessionInv
<1> QED BY <1>1, SessionInvariant, PTL

(***************************************************************************)
(* The characters chosen behind a drop.                                    *)
(***************************************************************************)

\* Whoever has chosen a character sent its login packet before.
ChosenInGame == \A c \in Conn : socket[c] # 0 /\ character[c] # 0 => line[c] = "game"

\* PlayerHeld, of the characters chosen behind a drop.
LateUnowned ==
    \A c \in Conn : socket[c] # 0 /\ character[c] \in late => owner[character[c]] # c

ChosenInv == ChosenInGame /\ LateUnowned

\* What a step does to a connection in use: nothing, or its client chooses a character.
Keeps(c) ==
    socket'[c] # 0 /\ character'[c] # 0 =>
        \/ /\ socket[c] # 0 /\ character'[c] = character[c]
           /\ line[c] = "game" => line'[c] = "game"
           /\ character[c] \in late' /\ owner'[character[c]] = c =>
                  character[c] \in late /\ owner[character[c]] = c
        \/ line'[c] = "game" /\ character'[c] \notin late'

LEMMA PacketKeeps ==
    ASSUME TypeOK, SessionInv, NEW c \in Conn, NEW f \in Socket,
           \/ OnConnection(f) \/ RefuseConnection(f)
           \/ OnDisconnect(f) \/ PeerReset(f) \/ Request(f)
    PROVE  Keeps(c)
<1>0. screen[f] # "none" => ConnectionOf(f) \in Conn
  BY OwnConnection
<1>1. ASSUME UNCHANGED <<character, owner, late>>,
             socket'[c] # 0 => socket[c] # 0,
             line[c] = "game" => line'[c] = "game"
      PROVE  Keeps(c)
  BY <1>1 DEF Keeps
<1>2. CASE OnConnection(f)
  BY <1>2, NewConnection DEF OnConnection, Keeps, slotVars, TypeOK
<1>3. CASE RefuseConnection(f) \/ PeerReset(f)
  BY <1>1, <1>3 DEF RefuseConnection, PeerReset, vars, connVars, slotVars
<1>4. CASE OnDisconnect(f)
  BY <1>0, <1>4 DEF OnDisconnect, Keeps, TypeOK
<1>5. CASE HandleSendProtocol(f)
  BY <1>0, <1>1, <1>5 DEF HandleSendProtocol, Packet, slotVars, TypeOK
<1>6. CASE UnexpectedPacket(f)
  BY <1>0, <1>1, <1>6 DEF UnexpectedPacket, Packet, Drop, slotVars, TypeOK
<1>7. ASSUME NEW u \in User, HandleAuth(f, u) \/ HandleAuthRefused(f, u) PROVE Keeps(c)
  BY <1>0, <1>1, <1>7 DEF HandleAuth, HandleAuthRefused, Packet, Drop, slotVars, TypeOK
<1>8. CASE HandleSelectCharacter(f) \/ HandleSelectNotFound(f)
  <2> DEFINE d == ConnectionOf(f)
             s == FreeSlot
  <2>1. /\ d \in Conn /\ s \in Slot /\ line[d] = "game"
        /\ character' = [character EXCEPT ![d] = s]
        /\ owner' = [owner EXCEPT ![s] = d]
        /\ late' = late \ {s}
        /\ UNCHANGED line
        /\ socket'[c] # 0 => socket[c] # 0
    BY <1>0, <1>8, SlotFound DEF HandleSelectCharacter, HandleSelectNotFound, SelectPacket,
         Packet, TakeSlot, Ready, Drop, TypeOK
  <2> HIDE DEF d, s
  <2>2. CASE c = d
    BY <2>1, <2>2 DEF Keeps, TypeOK
  <2>3. CASE c # d
    BY <2>1, <2>3 DEF Keeps, TypeOK
  <2> QED BY <2>2, <2>3
<1>9. CASE HandleSelectFull(f)
  BY <1>0, <1>9 DEF HandleSelectFull, SelectPacket, Packet, Drop, Keeps, slotVars, TypeOK
<1>10. CASE HandleShowMap(f)
  BY <1>1, <1>10 DEF HandleShowMap, Spawn, connVars
<1>11. CASE HandleCharacterCreation(f) \/ HandleEnterWorld(f) \/ HandleShowMapFull(f)
             \/ HandleRestart(f) \/ HandleLeaveWorld(f)
  BY <1>1, <1>11 DEF HandleCharacterCreation, HandleEnterWorld, HandleShowMapFull,
       HandleRestart, HandleLeaveWorld, connVars, slotVars
<1> QED BY <1>2, <1>3, <1>4, <1>5, <1>6, <1>7, <1>8, <1>9, <1>10, <1>11 DEF Request

LEMMA LateKeeps ==
    ASSUME TypeOK, SessionInv, NEW c \in Conn, Late
    PROVE  Keeps(c)
<1>1. ASSUME UNCHANGED <<socket, character, owner, late>>,
             line[c] = "game" => line'[c] = "game"
      PROVE  Keeps(c)
  BY <1>1 DEF Keeps
<1>2. CASE LateProtocol \/ \E u \in User : LateAuth(u)
  BY <1>1, <1>2 DEF LateProtocol, LateAuth, Behind, slotVars, TypeOK
<1>3. CASE LateCreation \/ LateRestart \/ LateNull \/ LateEnd
  BY <1>1, <1>3 DEF LateCreation, LateRestart, LateNull, LateEnd, connVars, slotVars
<1>4. CASE LateShowMap
  BY <1>1, <1>4 DEF LateShowMap, Spawn, connVars
<1>5. CASE LateSelectFull
  BY <1>5 DEF LateSelectFull, Behind, SessionInv, RestDropped, Keeps, slotVars, TypeOK
<1>6. CASE LateSelect
  <2> DEFINE s == FreeSlot
  <2>1. /\ rest \in Conn /\ socket[rest] = 0 /\ s \in Slot
        /\ character' = [character EXCEPT ![rest] = s]
        /\ owner' = [owner EXCEPT ![s] = rest]
        /\ late' = late \cup {s}
        /\ UNCHANGED <<line, socket>>
    BY <1>6, SlotFound DEF LateSelect, Behind, TakeSlot, SessionInv, RestDropped
  <2> HIDE DEF s
  <2> QED BY <2>1 DEF Keeps, TypeOK
<1> QED BY <1>2, <1>3, <1>4, <1>5, <1>6 DEF Late

LEMMA ChosenStep == TypeOK /\ SessionInv /\ ChosenInv /\ [Next]_vars => ChosenInv'
<1> SUFFICES ASSUME TypeOK, SessionInv, ChosenInv, [Next]_vars PROVE ChosenInv'
  OBVIOUS
<1>1. ASSUME NEW c \in Conn PROVE Keeps(c)
  <2>1. CASE UNCHANGED vars
    BY <2>1 DEF Keeps, vars, connVars, slotVars
  <2> QED BY <2>1, PacketKeeps, LateKeeps DEF Next
<1>2. ChosenInGame'
  BY <1>1 DEF Keeps, ChosenInv, ChosenInGame
<1>3. LateUnowned'
  <2> SUFFICES ASSUME NEW c \in Conn, socket'[c] # 0, character'[c] \in late'
               PROVE  owner'[character'[c]] # c
    BY DEF LateUnowned
  <2>1. late' \in SUBSET Slot
    BY SessionTyping DEF TypeOK
  <2>2. character'[c] # 0
    BY <2>1, SizeAssumption DEF Slot
  <2> QED BY <1>1, <2>2 DEF Keeps, ChosenInv, LateUnowned
<1> QED BY <1>2, <1>3 DEF ChosenInv

LEMMA ChosenInvariant == Spec => []ChosenInv
<1>1. Init => ChosenInv
  BY DEF Init, ChosenInv, ChosenInGame, LateUnowned
<1> QED BY <1>1, ChosenStep, SessionInvariant, Typing, PTL DEF Spec

\* Packets of a connection in use are dispatched to the game only after the session key was
\* checked, and a character in the world was chosen by a connection that passed the check,
\* or behind a drop.
THEOREM Authentication == Spec => []AuthBeforeGame
<1>1. TypeOK /\ SessionInv /\ ChosenInv => AuthBeforeGame
  <2> SUFFICES ASSUME TypeOK, SessionInv, ChosenInv,
                      NEW s \in Slot \ late, active[s], ~orc[s]
               PROVE  owner[s] \in {c \in Conn : granted[c]}
    BY DEF AuthBeforeGame, SessionInv, CheckedFirst
  <2>1. owner[s] \in Conn /\ socket[owner[s]] # 0 /\ character[owner[s]] = s
    BY DEF SessionInv, HeldBack, TypeOK
  <2>2. s # 0
    BY SizeAssumption DEF Slot
  <2>3. granted[owner[s]]
    BY <2>1, <2>2 DEF ChosenInv, ChosenInGame, SessionInv, CheckedFirst
  <2> QED BY <2>1, <2>3
<1> QED BY <1>1, SessionInvariant, ChosenInvariant, Typing, PTL

\* A player's character in the world and its connection point at each other, but for those
\* chosen behind a drop, which no connection in use has.
THEOREM Held == Spec => []PlayerHeld
<1>1. SessionInv /\ ChosenInv => PlayerHeld
  BY DEF SessionInv, ChosenInv, HeldBack, LateUnowned, PlayerHeld
<1> QED BY <1>1, SessionInvariant, ChosenInvariant, PTL

-----------------------------------------------------------------------------
(***************************************************************************)
(* What a player in the world sees of the others: the npcs it was told of, *)
(* and the character it keeps.                                             *)
(***************************************************************************)

\* The step writes to no connection but c, whose client, if it has one, is that of the
\* socket in F, and on a screen other than the world after it.  In the world it disturbs no
\* slot but the one c points at, and brings nobody there but for c.
Elsewhere(F, c) ==
    /\ \A g \in Socket \ F : screen'[g] = screen[g]
    /\ \A g \in F : screen'[g] # "world"
    /\ socket[c] \in F \cup {0} /\ socket'[c] \in F \cup {0}
    /\ \A d \in Conn \ {c} : UNCHANGED <<socket[d], character[d], known[d]>>
    /\ \A s \in Slot : active[s] /\ s # character[c] =>
            active'[s] /\ UNCHANGED <<owner[s], orc[s]>>
    /\ \A s \in Slot : active'[s] /\ owner'[s] # c =>
            active[s] /\ UNCHANGED <<owner[s], orc[s]>>

\* The handlers of a client that is not about to enter the world, or leaves it.
LEMMA PacketElsewhere ==
    ASSUME TypeOK, SessionInv, NEW f \in Socket,
           \/ OnConnection(f) \/ OnDisconnect(f) \/ PeerReset(f)
           \/ HandleSendProtocol(f) \/ UnexpectedPacket(f)
           \/ \E u \in User : HandleAuth(f, u) \/ HandleAuthRefused(f, u)
           \/ HandleSelectCharacter(f) \/ HandleSelectNotFound(f) \/ HandleSelectFull(f)
           \/ HandleRestart(f) \/ HandleLeaveWorld(f)
    PROVE  \E c \in Conn : Elsewhere({f}, c)
<1>1. CASE OnConnection(f)
  <2> DEFINE c == ConnectionOf(f)
  <2>1. c \in Conn /\ socket[c] = 0
    BY <1>1, NewConnection DEF OnConnection
  <2>2. /\ socket' = [socket EXCEPT ![c] = f]
        /\ character' = [character EXCEPT ![c] = 0]
        /\ known' = [known EXCEPT ![c] = {}]
        /\ screen' = [screen EXCEPT ![f] = "hello"]
        /\ UNCHANGED slotVars
    BY <1>1 DEF OnConnection
  <2> HIDE DEF c
  <2>3. Elsewhere({f}, c)
    BY <2>1, <2>2 DEF Elsewhere, Screen, slotVars, TypeOK
  <2> QED BY <2>1, <2>3
<1>2. ASSUME screen[f] # "none" PROVE \E c \in Conn : c = ConnectionOf(f) /\ socket[c] = f
  BY <1>2, OwnConnection
<1>3. CASE OnDisconnect(f)
  <2>1. PICK c \in Conn : c = ConnectionOf(f) /\ socket[c] = f
    BY <1>2, <1>3 DEF OnDisconnect
  <2>2. /\ socket' = [socket EXCEPT ![c] = 0]
        /\ character' = [character EXCEPT ![c] = 0]
        /\ active' = [t \in Slot |-> active[t] /\ t # character[c]]
        /\ screen' = [screen EXCEPT ![f] = "none"]
        /\ UNCHANGED <<owner, orc, known>>
    BY <1>3, <2>1 DEF OnDisconnect
  <2> QED BY <2>1, <2>2 DEF Elsewhere, Screen, TypeOK
<1>4. CASE PeerReset(f)
  <2>1. PICK c \in Conn : c = ConnectionOf(f) /\ socket[c] = f
    BY <1>2, <1>4 DEF PeerReset
  <2> QED BY <1>4, <2>1 DEF PeerReset, Elsewhere, Screen, connVars, slotVars, TypeOK
<1>5. CASE HandleSendProtocol(f) \/ \E u \in User : HandleAuth(f, u)
  <2>1. PICK c \in Conn : c = ConnectionOf(f) /\ socket[c] = f
    BY <1>2, <1>5 DEF HandleSendProtocol, HandleAuth, Packet
  <2> QED BY <1>5, <2>1
          DEF HandleSendProtocol, HandleAuth, Elsewhere, Screen, connVars, slotVars, TypeOK
<1>6. ASSUME Drop(ConnectionOf(f)), screen[f] # "none", known' = known,
             \A d \in Conn \ {ConnectionOf(f)} : character'[d] = character[d],
             \A s \in Slot : active[s] => active'[s] /\ UNCHANGED <<owner[s], orc[s]>>,
             \A s \in Slot : active'[s] => active[s]
      PROVE  \E c \in Conn : Elsewhere({f}, c)
  <2>1. PICK c \in Conn : c = ConnectionOf(f) /\ socket[c] = f
    BY <1>2, <1>6
  <2>2. socket' = [socket EXCEPT ![c] = 0] /\ screen' = [screen EXCEPT ![f] = "none"]
    BY <1>6, <2>1 DEF Drop
  <2> QED BY <1>6, <2>1, <2>2 DEF Elsewhere, Screen, TypeOK
<1>7. CASE UnexpectedPacket(f) \/ \E u \in User : HandleAuthRefused(f, u)
  BY <1>6, <1>7 DEF UnexpectedPacket, HandleAuthRefused, Packet, slotVars
<1>8. CASE HandleSelectFull(f)
  <2>1. PICK c \in Conn : c = ConnectionOf(f) /\ socket[c] = f
    BY <1>2, <1>8 DEF HandleSelectFull, SelectPacket, Packet
  <2>2. \A d \in Conn \ {c} : character'[d] = character[d]
    BY <1>8, <2>1 DEF HandleSelectFull, TypeOK
  <2> QED BY <1>6, <1>8, <2>1, <2>2 DEF HandleSelectFull, SelectPacket, Packet, slotVars
<1>9. CASE HandleSelectNotFound(f)
  <2> DEFINE s == FreeSlot
  <2>1. PICK c \in Conn : c = ConnectionOf(f) /\ socket[c] = f
    BY <1>2, <1>9 DEF HandleSelectNotFound, SelectPacket, Packet
  <2>2. /\ s \in Slot /\ ~active[s]
        /\ character' = [character EXCEPT ![c] = s]
        /\ owner' = [owner EXCEPT ![s] = c]
        /\ orc' = [orc EXCEPT ![s] = FALSE]
        /\ active' = [active EXCEPT ![s] = FALSE]
    BY <1>9, <2>1, SlotFound DEF HandleSelectNotFound, TakeSlot
  <2> HIDE DEF s
  <2>3. /\ \A d \in Conn \ {c} : character'[d] = character[d]
        /\ \A t \in Slot : active[t] => active'[t] /\ UNCHANGED <<owner[t], orc[t]>>
        /\ \A t \in Slot : active'[t] => active[t]
    BY <2>1, <2>2 DEF TypeOK
  <2> QED BY <1>6, <1>9, <2>1, <2>3 DEF HandleSelectNotFound, SelectPacket, Packet
<1>10. CASE HandleSelectCharacter(f)
  <2> DEFINE s == FreeSlot
  <2>1. PICK c \in Conn : c = ConnectionOf(f) /\ socket[c] = f
    BY <1>2, <1>10 DEF HandleSelectCharacter, SelectPacket, Packet
  <2>2. /\ s \in Slot /\ ~active[s]
        /\ character' = [character EXCEPT ![c] = s]
        /\ owner' = [owner EXCEPT ![s] = c]
        /\ orc' = [orc EXCEPT ![s] = FALSE]
        /\ active' = [active EXCEPT ![s] = TRUE]
        /\ screen' = [screen EXCEPT ![f] = "loading"]
        /\ known' = [known EXCEPT ![c] = {}]
        /\ UNCHANGED socket
    BY <1>10, <2>1, SlotFound DEF HandleSelectCharacter, TakeSlot
  <2> HIDE DEF s
  <2>3. /\ \A d \in Conn \ {c} : UNCHANGED <<socket[d], character[d], known[d]>>
        /\ \A t \in Slot : active[t] => active'[t] /\ UNCHANGED <<owner[t], orc[t]>>
        /\ \A t \in Slot : active'[t] /\ owner'[t] # c =>
                active[t] /\ UNCHANGED <<owner[t], orc[t]>>
    BY <2>1, <2>2 DEF TypeOK
  <2>4. /\ \A g \in Socket \ {f} : screen'[g] = screen[g]
        /\ screen'[f] # "world"
    BY <2>2 DEF TypeOK
  <2>5. socket[c] \in {f, 0} /\ socket'[c] \in {f, 0}
    BY <2>1, <2>2
  <2> QED BY <2>3, <2>4, <2>5 DEF Elsewhere
<1>11. CASE HandleRestart(f) \/ HandleLeaveWorld(f)
  <2>1. PICK c \in Conn : c = ConnectionOf(f) /\ socket[c] = f
    BY <1>2, <1>11 DEF HandleRestart, HandleLeaveWorld, Packet
  <2> QED BY <1>11, <2>1
          DEF HandleRestart, HandleLeaveWorld, Elsewhere, Screen, connVars, TypeOK
<1> QED BY <1>1, <1>3, <1>4, <1>5, <1>7, <1>8, <1>9, <1>10, <1>11

\* What follows a drop, short of an orc.
LEMMA LateElsewhere ==
    ASSUME TypeOK, SessionInv,
           \/ LateProtocol \/ \E u \in User : LateAuth(u)
           \/ LateCreation \/ LateSelect \/ LateSelectFull
           \/ LateRestart \/ LateNull \/ LateEnd
    PROVE  \E c \in Conn : Elsewhere({}, c)
<1>0. rest \in Conn /\ socket[rest] = 0
  BY DEF LateProtocol, LateAuth, LateCreation, LateSelect, LateSelectFull, LateRestart,
         LateNull, LateEnd, Behind, SessionInv, RestDropped
<1>1. CASE LateProtocol \/ (\E u \in User : LateAuth(u)) \/ LateCreation \/ LateNull \/ LateEnd
  <2>1. UNCHANGED <<socket, character, active, owner, orc, screen, known>>
    BY <1>1 DEF LateProtocol, LateAuth, LateCreation, LateNull, LateEnd, connVars, slotVars
  <2>2. Elsewhere({}, rest)
    BY <1>0, <2>1 DEF Elsewhere
  <2> QED BY <1>0, <2>2
<1>2. CASE LateSelect
  <2> DEFINE s == FreeSlot
  <2>1. /\ s \in Slot /\ ~active[s]
        /\ character' = [character EXCEPT ![rest] = s]
        /\ owner' = [owner EXCEPT ![s] = rest]
        /\ orc' = [orc EXCEPT ![s] = FALSE]
        /\ \/ active' = [active EXCEPT ![s] = TRUE]
           \/ active' = [active EXCEPT ![s] = FALSE]
        /\ UNCHANGED <<socket, screen, known>>
    BY <1>2, SlotFound DEF LateSelect, TakeSlot
  <2> HIDE DEF s
  <2>2. /\ \A d \in Conn \ {rest} : UNCHANGED <<socket[d], character[d], known[d]>>
        /\ \A t \in Slot : active[t] => active'[t] /\ UNCHANGED <<owner[t], orc[t]>>
        /\ \A t \in Slot : active'[t] /\ owner'[t] # rest =>
                active[t] /\ UNCHANGED <<owner[t], orc[t]>>
    BY <1>0, <2>1 DEF TypeOK
  <2>3. Elsewhere({}, rest)
    BY <1>0, <2>1, <2>2 DEF Elsewhere
  <2> QED BY <1>0, <2>3
<1>3. CASE LateSelectFull
  <2>1. /\ character' = [character EXCEPT ![rest] = 0]
        /\ UNCHANGED <<socket, active, owner, orc, screen, known>>
    BY <1>3 DEF LateSelectFull, slotVars
  <2>2. Elsewhere({}, rest)
    BY <1>0, <2>1 DEF Elsewhere, TypeOK
  <2> QED BY <1>0, <2>2
<1>4. CASE LateRestart
  <2>1. /\ active' = [s \in Slot |-> active[s] /\ s # character[rest]]
        /\ UNCHANGED <<socket, character, owner, orc, screen, known>>
    BY <1>4 DEF LateRestart, connVars
  <2>2. Elsewhere({}, rest)
    BY <1>0, <2>1 DEF Elsewhere
  <2> QED BY <1>0, <2>2
<1> QED BY <1>1, <1>2, <1>3, <1>4

\* Who is in the world has a character to point at.
LEMMA InWorld ==
    ASSUME TypeOK, SessionInv, NEW c \in Conn, NEW f \in Socket,
           socket[c] = f, screen[f] = "world"
    PROVE  character[c] \in Slot
<1>1. PICK d \in Conn : socket[d] = f /\ InStep(d, "world")
  BY DEF SessionInv, ClientServerAgree
<1>2. d = c
  BY <1>1, SocketAssumption DEF SessionInv, SocketsDistinct
<1> QED BY <1>1, <1>2 DEF InStep, TypeOK

\* Nobody comes to play by such a step, or learns less.
LEMMA KnownElsewhere ==
    ASSUME TypeOK, SessionInv, NpcsKnown, NEW F \in SUBSET Socket, NEW c \in Conn,
           Elsewhere(F, c)
    PROVE  NpcsKnown'
<1> SUFFICES ASSUME NEW d \in Conn, Plays(d)', NEW s \in Slot, active'[s], owner'[s] = 0
             PROVE  s \in known'[d]
  BY DEF NpcsKnown
<1>1. PICK g \in Socket : socket'[d] = g /\ screen'[g] = "world"
  BY DEF Plays
<1>3. g \notin F /\ screen[g] = "world"
  BY <1>1 DEF Elsewhere
<1>4. d # c
  BY <1>1, <1>3, SocketAssumption DEF Elsewhere
<1>5. socket[d] = g /\ character'[d] = character[d] /\ known'[d] = known[d]
  BY <1>1, <1>4 DEF Elsewhere
<1>6. character[d] \in Slot
  BY <1>3, <1>5, InWorld
<1>7. Plays(d)
  BY <1>3, <1>4, <1>5, <1>6 DEF Plays, Elsewhere
<1>8. active[s] /\ owner[s] = 0
  BY SizeAssumption DEF Elsewhere, Conn
<1> QED BY <1>5, <1>7, <1>8 DEF NpcsKnown

\* Steps that change nothing of the tables.
LEMMA QuietSession ==
    ASSUME NEW f \in Socket,
           RefuseConnection(f) \/ HandleCharacterCreation(f) \/ HandleShowMapFull(f)
    PROVE  UNCHANGED <<connVars, slotVars, screen, known>>
BY DEF RefuseConnection, HandleCharacterCreation, HandleShowMapFull, vars

LEMMA KnownStep == TypeOK /\ SessionInv /\ NpcsKnown /\ [Next]_vars => NpcsKnown'
<1> SUFFICES ASSUME TypeOK, SessionInv, NpcsKnown, [Next]_vars PROVE NpcsKnown'
  OBVIOUS
<1>1. CASE UNCHANGED <<connVars, slotVars, screen, known>>
  BY <1>1 DEF NpcsKnown, Plays, connVars, slotVars
<1>2. ASSUME NEW f \in Socket, HandleEnterWorld(f) PROVE NpcsKnown'
  <2>1. PICK c \in Conn : /\ c = ConnectionOf(f) /\ socket[c] = f
                          /\ \A d \in Conn : socket[d] = f => d = c
    BY <1>2, OwnConnection DEF HandleEnterWorld, Packet
  <2>2. /\ known' = [known EXCEPT ![c] = @ \cup {s \in Slot : active[s] /\ owner[s] = 0}]
        /\ screen' = [screen EXCEPT ![f] = "world"]
        /\ UNCHANGED <<connVars, slotVars>>
    BY <1>2, <2>1 DEF HandleEnterWorld
  <2> SUFFICES ASSUME NEW d \in Conn, Plays(d)', NEW s \in Slot, active'[s], owner'[s] = 0
               PROVE  s \in known'[d]
    BY DEF NpcsKnown
  <2>3. CASE d = c
    BY <2>2, <2>3 DEF slotVars, TypeOK
  <2>4. CASE d # c
    <3>1. Plays(d)
      BY <2>1, <2>2, <2>4 DEF Plays, connVars, slotVars, TypeOK
    <3> QED BY <2>2, <2>4, <3>1 DEF NpcsKnown, slotVars, TypeOK
  <2> QED BY <2>3, <2>4
<1>3. ASSUME FreeSlot # 0, Spawn(FreeSlot) PROVE NpcsKnown'
  <2> DEFINE s == FreeSlot
  <2>1. /\ s \in Slot /\ ~active[s]
        /\ active' = [active EXCEPT ![s] = TRUE]
        /\ orc' = [orc EXCEPT ![s] = TRUE]
        /\ known' = IF owner[s] = 0
                    THEN [d \in Conn |-> IF d \in Audience THEN known[d] \cup {s} ELSE known[d]]
                    ELSE known
        /\ UNCHANGED <<connVars, owner, screen>>
    BY <1>3, SlotFound DEF Spawn
  <2> HIDE DEF s
  <2> SUFFICES ASSUME NEW d \in Conn, Plays(d)', NEW t \in Slot, active'[t], owner'[t] = 0
               PROVE  t \in known'[d]
    BY DEF NpcsKnown
  <2>2. character[d] \in Slot
    BY <2>1, InWorld DEF Plays, connVars
  <2>3. character[d] # s
    BY <2>1, <2>2 DEF Plays, connVars, TypeOK
  <2>4. Plays(d)
    BY <2>1, <2>2, <2>3 DEF Plays, connVars, TypeOK
  <2>5. d \in Audience
    BY <2>2, <2>4, SizeAssumption DEF Audience, Plays, Conn
  <2>6. known[d] \subseteq known'[d] /\ (owner[s] = 0 => s \in known'[d])
    BY <2>1, <2>5
  <2>7. t # s => t \in known[d]
    BY <2>1, <2>4 DEF NpcsKnown, TypeOK
  <2> QED BY <2>1, <2>6, <2>7
<1>4. ASSUME NEW F \in SUBSET Socket, \E c \in Conn : Elsewhere(F, c) PROVE NpcsKnown'
  BY <1>4, KnownElsewhere
<1>5. CASE UNCHANGED vars
  BY <1>1, <1>5 DEF vars
<1>6. ASSUME NEW f \in Socket,
             RefuseConnection(f) \/ HandleCharacterCreation(f) \/ HandleShowMapFull(f)
      PROVE  NpcsKnown'
  BY <1>1, <1>6, QuietSession
<1>7. ASSUME NEW f \in Socket, \E c \in Conn : Elsewhere({f}, c) PROVE NpcsKnown'
  BY <1>4, <1>7
<1>8. CASE Late
  <2>1. CASE LateShowMap
    BY <1>3, <2>1 DEF LateShowMap
  <2> QED BY <1>4, <1>8, <2>1, LateElsewhere DEF Late
<1>9. ASSUME NEW f \in Socket, HandleShowMap(f) PROVE NpcsKnown'
  BY <1>3, <1>9 DEF HandleShowMap
<1> QED BY <1>2, <1>5, <1>6, <1>7, <1>8, <1>9, PacketElsewhere DEF Next, Request

\* A player is told of every npc, those that were there before it and those that
\* came after it, however often the slots change hands.
THEOREM NpcsTold == Spec => []NpcsKnown
<1>1. Init => NpcsKnown
  BY DEF Init, NpcsKnown, Plays
<1> QED BY <1>1, KnownStep, SessionInvariant, Typing, PTL DEF Spec

\* A player's character survives what the handlers of others do.
LEMMA KeepsPlaying ==
    ASSUME TypeOK, SessionInv, [Next]_vars, NEW c \in Conn, Plays(c), ~crashed',
           \A f \in Socket : socket[c] = f => screen'[f] = "world",
           \A d \in Conn \ {c} : character[d] # character[c]
    PROVE  Plays(c)'
<1>1. PICK g \in Socket : socket[c] = g /\ screen[g] = "world" /\ screen'[g] = "world"
  BY DEF Plays
<1>2. character[c] \in Slot /\ active[character[c]] /\ owner[character[c]] = c
      /\ ~orc[character[c]]
  BY <1>1, InWorld DEF Plays
<1>3. CASE UNCHANGED <<connVars, slotVars, screen, known>>
  BY <1>3 DEF Plays, connVars, slotVars
<1>4. ASSUME NEW f \in Socket, HandleEnterWorld(f) PROVE Plays(c)'
  BY <1>1, <1>2, <1>4 DEF HandleEnterWorld, Plays, connVars, slotVars
<1>5. ASSUME FreeSlot # 0, Spawn(FreeSlot) PROVE Plays(c)'
  <2> DEFINE s == FreeSlot
  <2>1. /\ s \in Slot /\ ~active[s]
        /\ active' = [active EXCEPT ![s] = TRUE]
        /\ orc' = [orc EXCEPT ![s] = TRUE]
        /\ UNCHANGED <<connVars, owner, screen>>
    BY <1>5, SlotFound DEF Spawn
  <2> HIDE DEF s
  <2> QED BY <1>1, <1>2, <2>1 DEF Plays, connVars, TypeOK
<1>6. ASSUME NEW F \in SUBSET Socket, NEW d \in Conn, Elsewhere(F, d) PROVE Plays(c)'
  <2>1. g \notin F
    BY <1>1, <1>6 DEF Elsewhere
  <2>2. d # c
    BY <1>1, <1>6, <2>1, SocketAssumption DEF Elsewhere
  <2>3. character[c] # character[d]
    BY <2>2
  <2>4. socket'[c] = g /\ character'[c] = character[c]
    BY <1>1, <1>6, <2>2 DEF Elsewhere
  <2>5. active'[character[c]] /\ UNCHANGED <<owner[character[c]], orc[character[c]]>>
    BY <1>2, <1>6, <2>3 DEF Elsewhere
  <2> QED BY <1>1, <1>2, <2>4, <2>5 DEF Plays
<1>7. CASE UNCHANGED vars
  BY <1>3, <1>7 DEF vars
<1>8. ASSUME NEW f \in Socket,
             RefuseConnection(f) \/ HandleCharacterCreation(f) \/ HandleShowMapFull(f)
      PROVE  Plays(c)'
  BY <1>3, <1>8, QuietSession
<1>9. ASSUME NEW f \in Socket, NEW d \in Conn, Elsewhere({f}, d) PROVE Plays(c)'
  BY <1>6, <1>9
<1>10. CASE Late
  <2>1. CASE LateShowMap
    BY <1>5, <2>1 DEF LateShowMap
  <2> QED BY <1>6, <1>10, <2>1, LateElsewhere DEF Late
<1>11. ASSUME NEW f \in Socket, HandleShowMap(f) PROVE Plays(c)'
  BY <1>5, <1>11 DEF HandleShowMap
<1> QED BY <1>4, <1>7, <1>8, <1>9, <1>10, <1>11, PacketElsewhere DEF Next, Request

\* A player loses its character only by its own doing, or through a pointer that
\* another connection kept.
THEOREM Eviction == Spec => EvictedByStalePointer
<1>1. TypeOK /\ SessionInv /\ [Next]_vars =>
        [\A c \in Conn : Plays(c) /\ ~crashed' =>
            \/ Plays(c)'
            \/ \E f \in Socket : socket[c] = f /\ screen'[f] # "world"
            \/ \E d \in Conn \ {c} : character[d] = character[c]]_vars
  BY KeepsPlaying
<1> QED BY <1>1, SessionInvariant, Typing, PTL DEF Spec, EvictedByStalePointer
=============================================================================
