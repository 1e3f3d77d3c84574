------------------------------ MODULE Handover ------------------------------
(***************************************************************************)
(* The way from the login server to the game server: LoginSession, and the *)
(* game server's handle_auth (src/game_server_lib.c), which reads the      *)
(* account's access.txt while the other process may be writing it, and     *)
(* looks at the clock afterwards.                                          *)
(*                                                                         *)
(* Any client connects to the game server as often as it likes, one        *)
(* connection at a time, with a name and with keys that the login server   *)
(* sent it, or 0 and 0; the tables behind these connections are in         *)
(* GameSession.                                                            *)
(***************************************************************************)
EXTENDS LoginSession

VARIABLES
    door,      \* a client is "out", in handle_auth ("shown"), "in" or "refused"
    card,      \* the name and the keys it has shown there
    seen       \* stored_valid_until, as handle_auth read it

doorVars == <<door, card, seen>>
hvars == <<vars, doorVars>>

Blank == [name |-> None, key |-> Zero]

HInit ==
    /\ Init
    /\ door = [k \in Client |-> "out"]
    /\ card = [k \in Client |-> Blank]
    /\ seen = [k \in Client |-> 0]

\* A step of the login server, of a client of it or of the clock.
Login == Next /\ UNCHANGED doorVars

\* The keys a client may show.
Has(k, x) == x = Zero \/ (x \in Key /\ told[x] = k)

\* (mutant) the keys are not compared
ReadAnyAccess(k, n, x) ==
    /\ door[k] = "out" /\ Has(k, x)
    /\ card' = [card EXCEPT ![k] = [name |-> n, key |-> x]]
    /\ IF access[n].key # None
       THEN /\ door' = [door EXCEPT ![k] = "shown"]
            /\ seen' = [seen EXCEPT ![k] = access[n].until]
       ELSE door' = [door EXCEPT ![k] = "refused"] /\ UNCHANGED seen
    /\ UNCHANGED vars

\* handle_auth reads the file, if there is one, and compares the keys.
ReadAccess(k, n, x) ==
    /\ door[k] = "out" /\ Has(k, x)
    /\ card' = [card EXCEPT ![k] = [name |-> n, key |-> x]]
    /\ IF access[n].key = x
       THEN /\ door' = [door EXCEPT ![k] = "shown"]
            /\ seen' = [seen EXCEPT ![k] = access[n].until]
       ELSE door' = [door EXCEPT ![k] = "refused"] /\ UNCHANGED seen
    /\ UNCHANGED vars

\* fopen of a file that is there fails, and the client is dropped.
AccessUnopened(k, n, x) ==
    /\ door[k] = "out" /\ Has(k, x)
    /\ access[n].key # None
    /\ Fails
    /\ card' = [card EXCEPT ![k] = [name |-> n, key |-> x]]
    /\ door' = [door EXCEPT ![k] = "refused"]
    /\ UNCHANGED <<disk, process, busy, clients, now, seen,
                   owner, cut, listCut, fault, kills>>

\* stored_valid_until < time(0) drops the client.
CheckExpiry(k) ==
    /\ door[k] = "shown"
    /\ door' = [door EXCEPT ![k] = IF seen[k] < now THEN "refused" ELSE "in"]
    /\ seen' = [seen EXCEPT ![k] = 0]
    /\ UNCHANGED <<vars, card>>

\* The client's connection to the game server ends.
LeaveGame(k) ==
    /\ door[k] \in {"in", "refused"}
    /\ door' = [door EXCEPT ![k] = "out"]
    /\ card' = [card EXCEPT ![k] = Blank]
    /\ UNCHANGED <<vars, seen>>

HandleAuth(k) ==
    \/ \E n \in Name, x \in Key \cup {Zero} : ReadAccess(k, n, x) \/ AccessUnopened(k, n, x)
    \/ CheckExpiry(k)

HNext == Login \/ \E k \in Client : HandleAuth(k) \/ LeaveGame(k)

HSpec == HInit /\ [][HNext]_hvars

-----------------------------------------------------------------------------
(* Properties *)

DoorTypeOK ==
    /\ door \in [Client -> {"out", "shown", "in", "refused"}]
    /\ card \in [Client -> [name : Name, key : Key \cup {Zero}]]
    /\ seen \in [Client -> Nat]

\* Whoever reaches the game under the name of an account was sent keys for the password
\* the account was created with: the password is checked by one process and the keys by
\* another, from a file that every login of the account writes again, and requests come
\* in any order.  Only the empty name is let in without: it is that of a connection which
\* asks for the game server and never logged in.
AdmittedByPassword ==
    \A k \in Client : door[k] = "in" =>
        IF card[k].name = None THEN card[k].key = Zero
        ELSE /\ card[k].key \in Key
             /\ told[card[k].key] = k
             /\ given[card[k].key] = [user |-> card[k].name, pass |-> owner[card[k].name]]

\* A request for the game server that is being handled.
Ordering(n) == busy.at \in {"truncated", "stamped"} /\ user[busy.conn] = n

\* What Tickets sees of the files and of the handler under way.
orderedBar == [n \in Name |-> IF Ordering(n) THEN ok[busy.conn] ELSE None]
validBar == [n \in Name |-> IF access[n].until > 0 THEN access[n].key ELSE None]
untilBar == [n \in Name |-> access[n].until]
doorBar ==
    [k \in Client |-> IF door[k] = "shown" /\ seen[k] = 0 THEN "refused" ELSE door[k]]

T == INSTANCE Tickets
       WITH Ticket <- Key \cup {Zero}, ordered <- orderedBar, valid <- validBar,
            until <- untilBar, door <- doorBar, limit <- seen, failed <- fails

\* The two servers and the file between them keep the promise of Tickets: keys admit for a
\* minute, and a client is refused only when those it shows are not the name's, are late,
\* lost or overtaken by another order for the name, or when the file could not be opened.
ImplementsTickets == T!Spec

=============================================================================
