-------------------------------- MODULE Net --------------------------------
(***************************************************************************)
(* The event loop of both servers, net_listen in src/net_linux.c: epoll    *)
(* with edges, an accept loop, a recv loop per event, and the handler's    *)
(* table of connections, which goes by descriptor numbers.  An event says  *)
(* only that something came since the last one was fetched, and may be     *)
(* old when it is handled: what it is about can have been read already, or *)
(* be gone by a reset; and descriptor 0 can have been closed by a drop in  *)
(* an earlier event of the batch, and given to somebody else.              *)
(*                                                                         *)
(* Of the handler only what it does with descriptors is here.  It enters a *)
(* new connection, or closes it when the table is full, and forgets one    *)
(* that ended without a close.  Over the packets of one read it may leave  *)
(* files and directories open, in both servers, and drop the client; the   *)
(* game server goes on with the packets behind a drop, with 0 for the      *)
(* socket, so that the next drop closes standard input.  From then on      *)
(* descriptor 0 is given out, to files and to clients, and the table takes *)
(* an entry with socket 0 for a free one.                                  *)
(***************************************************************************)
EXTENDS Naturals, FiniteSets, FiniteSetsExt

CONSTANTS Peer,         \* clients, each of which connects once
          NFd,          \* descriptors the process may have open
          NConn,        \* connections of the handler's table: 32 or 1024
          MaxEvents,    \* events that epoll_wait returns at most: 32
          MaxUnread,    \* bound: bytes that wait to be read from a client
          Nobody        \* no client

ASSUME NetAssumption ==
    /\ NFd \in Nat \ {0} /\ NConn \in Nat \ {0}
    /\ MaxEvents \in Nat \ {0} /\ MaxUnread \in Nat
    /\ Nobody \notin Peer

Fd == 0 .. NFd - 1
Server == NFd   \* the listening socket, among the events

VARIABLES
    ended,      \* what a client did last: "new", "no" (it is there), "fin" or "rst"
    unread,     \* bytes of a client that wait in the kernel
    backlog,    \* clients that wait to be accepted
    conn,       \* the client of an open descriptor, or Nobody
    watched,    \* descriptors in the epoll set
    ready,      \* events that the next epoll_wait may return
    batch,      \* events of the last epoll_wait not handled yet
    at,         \* where the loop is: "wait", "next", "accept", "recv" or "handle"
    fd,         \* the descriptor of the recv loop
    table,      \* the handler's connections: the client of a socket, or Nobody
    socket,     \* in "handle": the socket of the connection, 0 once it was dropped
    files,      \* descriptors of files and directories left open; first, standard input
    zero,       \* history: a drop closed descriptor 0
    noFd        \* history: an accept failed because every descriptor is in use

peerVars == <<ended, unread>>
kernelVars == <<backlog, conn, watched, ready>>
loopVars == <<batch, at, fd, socket>>
openVars == <<files, zero>>
vars == <<peerVars, kernelVars, loopVars, table, openVars, noFd>>

Init ==
    /\ ended = [p \in Peer |-> "new"]
    /\ unread = [p \in Peer |-> 0]
    /\ backlog = {} /\ watched = {} /\ ready = {}
    /\ conn = [f \in Fd |-> Nobody]
    /\ batch = {} /\ at = "wait" /\ fd = 0 /\ socket = 0
    /\ table = [f \in Fd |-> Nobody]
    /\ files = {0} /\ zero = FALSE
    /\ noFd = FALSE

\* Something came for p: an edge, if its descriptor is watched.
Edges(p) == {f \in watched : conn[f] = p}

Free == {f \in Fd \ files : conn[f] = Nobody}

-----------------------------------------------------------------------------
(* Clients *)

Connect(p) ==
    /\ ended[p] = "new"
    /\ ended' = [ended EXCEPT ![p] = "no"]
    /\ backlog' = backlog \union {p}
    /\ ready' = ready \union {Server}
    /\ UNCHANGED <<unread, conn, watched, loopVars, table, openVars, noFd>>

Send(p) ==
    /\ ended[p] = "no"
    /\ unread[p] < MaxUnread
    /\ unread' = [unread EXCEPT ![p] = @ + 1]
    /\ ready' = ready \union Edges(p)
    /\ UNCHANGED <<ended, backlog, conn, watched, loopVars, table, openVars, noFd>>

Finish(p) ==
    /\ ended[p] = "no"
    /\ ended' = [ended EXCEPT ![p] = "fin"]
    /\ ready' = ready \union Edges(p)
    /\ UNCHANGED <<unread, backlog, conn, watched, loopVars, table, openVars, noFd>>

\* A reset takes with it what was not read.
Reset(p) ==
    /\ ended[p] \in {"no", "fin"}
    /\ ended' = [ended EXCEPT ![p] = "rst"]
    /\ unread' = [unread EXCEPT ![p] = 0]
    /\ ready' = ready \union Edges(p)
    /\ UNCHANGED <<backlog, conn, watched, loopVars, table, openVars, noFd>>

-----------------------------------------------------------------------------
(* The loop *)

Wait ==
    /\ at = "wait"
    /\ \E events \in SUBSET ready :
        /\ events # {} /\ Cardinality(events) <= MaxEvents
        /\ batch' = events
        /\ ready' = ready \ events
    /\ at' = "next"
    /\ UNCHANGED <<peerVars, backlog, conn, watched, fd, socket, table, openVars, noFd>>

\* The next event, or back to epoll_wait.
Fetch ==
    /\ at = "next"
    /\ \/ /\ batch = {}
          /\ at' = "wait"
          /\ UNCHANGED <<batch, fd>>
       \/ /\ Server \in batch
          /\ at' = "accept"
          /\ batch' = batch \ {Server}
          /\ UNCHANGED fd
       \/ \E f \in batch \ {Server} :
            /\ at' = "recv"
            /\ fd' = f
            /\ batch' = batch \ {f}
    /\ UNCHANGED <<peerVars, kernelVars, socket, table, openVars, noFd>>

\* Every connection of the handler's table has a socket.
Full == Cardinality({f \in Fd : table[f] # Nobody}) >= NConn

\* accept4 of the lowest free number and EPOLL_CTL_ADD, which reports at once what
\* came before; net_conn, which enters the client if the table has room.  An entry
\* with socket 0 stays a free one.
Accept(p) ==
    /\ at = "accept"
    /\ p \in backlog /\ Free # {}
    /\ backlog' = backlog \ {p}
    /\ LET f == Min(Free)
       IN  IF Full
           THEN UNCHANGED <<conn, watched, ready, table>>
           ELSE /\ conn' = [conn EXCEPT ![f] = p]
                /\ watched' = watched \union {f}
                /\ ready' = IF unread[p] > 0 \/ ended[p] # "no" THEN ready \union {f} ELSE ready
                /\ table' = IF f = 0 THEN table ELSE [table EXCEPT ![f] = p]
    /\ UNCHANGED <<peerVars, loopVars, openVars, noFd>>

\* (mutant) AcceptEnds after one client.
AcceptEndsEarly ==
    /\ at = "accept"
    /\ at' = "next"
    /\ noFd' = (noFd \/ Free = {})
    /\ UNCHANGED <<peerVars, kernelVars, batch, fd, socket, table, openVars>>

\* EAGAIN, or no descriptor is left.
AcceptEnds ==
    /\ at = "accept"
    /\ backlog = {} \/ Free = {}
    /\ at' = "next"
    /\ noFd' = (noFd \/ backlog # {})
    /\ UNCHANGED <<peerVars, kernelVars, batch, fd, socket, table, openVars>>

\* What recv finds on the descriptor of the event.
Found ==
    IF conn[fd] = Nobody \/ ended[conn[fd]] = "rst" THEN "error"
    ELSE IF unread[conn[fd]] > 0 THEN "data"
    ELSE IF ended[conn[fd]] = "fin" THEN "end" ELSE "nothing"

\* recv of some of what waits, and net_read.  For a client without an entry the handler
\* takes an entry with socket 0, if one is left.
RecvData ==
    /\ at = "recv" /\ Found = "data"
    /\ \E n \in 1 .. unread[conn[fd]] : unread' = [unread EXCEPT ![conn[fd]] = @ - n]
    /\ IF table[fd] = Nobody /\ Full
       THEN UNCHANGED <<at, socket>>
       ELSE at' = "handle" /\ socket' = IF table[fd] = Nobody THEN 0 ELSE fd
    /\ UNCHANGED <<ended, kernelVars, batch, fd, table, openVars, noFd>>

\* A packet whose handler leaves a descriptor open: handle_auth of the game its
\* access.txt, a selection and a login the directory they leave by a break.
LeaveOpen ==
    /\ at = "handle" /\ Free # {}
    /\ files' = files \union {Min(Free)}
    /\ UNCHANGED <<peerVars, kernelVars, loopVars, table, zero, noFd>>

\* A packet whose handler drops the client: net_close(conn->socket), conn->socket = 0.
DropClient ==
    /\ at = "handle"
    /\ conn' = [conn EXCEPT ![socket] = Nobody]
    /\ watched' = watched \ {socket}
    /\ ready' = ready \ {socket}
    /\ table' = [table EXCEPT ![socket] = Nobody]
    /\ files' = files \ {socket}
    /\ zero' = (zero \/ socket = 0)
    /\ socket' = 0
    /\ UNCHANGED <<peerVars, backlog, batch, at, fd, noFd>>

\* No whole packet is left of the read.
HandleEnds ==
    /\ at = "handle"
    /\ at' = "recv" /\ socket' = 0
    /\ UNCHANGED <<peerVars, kernelVars, batch, fd, table, openVars, noFd>>

\* (mutant) RecvClosed, when the handler does not forget the connection.
RecvClosedLater ==
    /\ at = "recv" /\ Found = "end"
    /\ watched' = watched \ {fd}
    /\ ready' = ready \ {fd}
    /\ at' = "next"
    /\ UNCHANGED <<peerVars, backlog, conn, batch, fd, socket, table, openVars, noFd>>

\* recv returned 0: net_closed, and EPOLL_CTL_DEL of a descriptor that nobody closes.
RecvClosed ==
    /\ at = "recv" /\ Found = "end"
    /\ table' = [table EXCEPT ![fd] = Nobody]
    /\ watched' = watched \ {fd}
    /\ ready' = ready \ {fd}
    /\ at' = "next"
    /\ UNCHANGED <<peerVars, backlog, conn, batch, fd, socket, openVars, noFd>>

\* (mutant) RecvEnds after the first buffer.
RecvEndsEarly ==
    /\ at = "recv" /\ Found # "end"
    /\ at' = "next"
    /\ UNCHANGED <<peerVars, kernelVars, batch, fd, socket, table, openVars, noFd>>

\* recv returned -1: nothing is left, the client reset the connection, or the descriptor
\* is not open any more.  Whatever it was, nobody is told.
RecvEnds ==
    /\ at = "recv" /\ Found \in {"nothing", "error"}
    /\ at' = "next"
    /\ UNCHANGED <<peerVars, kernelVars, batch, fd, socket, table, openVars, noFd>>

-----------------------------------------------------------------------------
Loop ==
    \/ Wait \/ Fetch
    \/ \E p \in Peer : Accept(p)
    \/ AcceptEnds
    \/ RecvData \/ LeaveOpen \/ DropClient \/ HandleEnds
    \/ RecvClosed \/ RecvEnds

Next ==
    \/ \E p \in Peer : Connect(p) \/ Send(p) \/ Finish(p) \/ Reset(p)
    \/ Loop

Spec == Init /\ [][Next]_vars

\* The thread of the loop is scheduled, and a read has finitely many packets; clients
\* do as they like.
FairSpec == Spec /\ WF_vars(Loop) /\ WF_vars(HandleEnds)

-----------------------------------------------------------------------------
(* Properties *)

\* The types of the variables.
TypeOK ==
    /\ ended \in [Peer -> {"new", "no", "fin", "rst"}]
    /\ unread \in [Peer -> 0 .. MaxUnread]
    /\ backlog \subseteq Peer
    /\ conn \in [Fd -> Peer \union {Nobody}]
    /\ watched \subseteq Fd
    /\ ready \subseteq Fd \union {Server}
    /\ batch \subseteq Fd \union {Server}
    /\ at \in {"wait", "next", "accept", "recv", "handle"}
    /\ fd \in Fd /\ socket \in Fd
    /\ table \in [Fd -> Peer \union {Nobody}]
    /\ files \subseteq Fd /\ zero \in BOOLEAN
    /\ noFd \in BOOLEAN

\* However descriptors are closed and given out again within a batch, an entry of the
\* handler's table is about the client that has the descriptor, and every descriptor
\* that can still cause an event has its entry: net_read and net_closed are never about
\* a stranger (a lookup would give them a fresh connection).  The one exception is
\* descriptor 0, which has no entry and gets a client only after a drop closed it.
DescriptorsAgree ==
    /\ \A f \in Fd :
        /\ table[f] # Nobody => conn[f] = table[f]
        /\ f \in watched => table[f] # Nobody \/ (f = 0 /\ zero /\ conn[f] # Nobody)
        /\ table[f] # Nobody => f \in watched /\ f # 0
        /\ f \in files => conn[f] = Nobody
    /\ ~zero => 0 \in files

\* Edges are reported once.  When the loop waits and no event is due, nothing was missed:
\* no byte, no close, and nobody who waits to be accepted, unless descriptors ran out.
NothingMissed ==
    at = "wait" /\ ready = {} =>
        /\ \A f \in watched : unread[conn[f]] = 0 /\ ended[conn[f]] # "fin"
        /\ backlog # {} => noFd

\* Who holds what for nothing.  A descriptor without an entry is one whose client
\* closed, which is never closed in turn, or descriptor 0; an entry whose client left,
\* when no event is due, is one that was reset, which is never told.
LeftBehind ==
    \A f \in Fd :
        /\ conn[f] # Nobody /\ table[f] = Nobody => f = 0 \/ ended[conn[f]] \in {"fin", "rst"}
        /\ at = "wait" /\ ready = {} /\ table[f] # Nobody => ended[table[f]] \in {"no", "rst"}

\* The descriptors that are open and in no entry of the table: files, directories, and
\* the descriptors that LeftBehind speaks of.
LeftOpen == files \union {f \in Fd : conn[f] # Nobody /\ table[f] = Nobody}

\* When no descriptor is left for a client, all but as many as the table has entries
\* were left open.
RunsOutByLeak == Free = {} => Cardinality(LeftOpen) + NConn >= NFd

\* The descriptors of the clients are kept as the three say, and nothing else: whatever
\* order connects, bytes, packets, drops, closes and resets come in, and whichever batch
\* they share.
DescriptorsKept == TypeOK /\ DescriptorsAgree /\ LeftBehind /\ RunsOutByLeak

\* What a client in the table sends is read, or its connection comes to an end.
BytesRead ==
    \A f \in Fd : (table[f] # Nobody /\ unread[conn[f]] > 0)
                    ~> (conn[f] = Nobody \/ unread[conn[f]] = 0)

\* The clients stop sending some day.  One that sends faster than the loop reads keeps it
\* in its recv loop, and everybody else out.
ClientsRest == <>[][\A p \in Peer : unread'[p] <= unread[p]]_vars

\* A client that connects is accepted, unless descriptors ran out.
AcceptedAtLast == \A p \in Peer : p \in backlog ~> (p \notin backlog \/ noFd)

\* Everybody who connects is served in the end: both of the above, although an edge that
\* is reported once, and to a batch of MaxEvents, is all that the loop goes by.
Served == ClientsRest => BytesRead /\ AcceptedAtLast
=============================================================================
