---------------------------- MODULE LoginSession ----------------------------
(***************************************************************************)
(* The sessions of the login server (src/login_server.c): the connections, *)
(* the requests of clients, and the files they read and write: the hash of *)
(* an account's password, the list of game servers and the file that hands *)
(* the session keys over to the game server.                               *)
(*                                                                         *)
(* One thread handles everything, a packet at a time.  A handler that      *)
(* writes a file does it in several steps (create, fill, close), between   *)
(* which the process may be killed; what it wrote stays, what it knew is   *)
(* gone.  Files may fail to be opened or written, for lack of descriptors, *)
(* of rights or of room.  A read or a write through the null FILE is the   *)
(* end of the process.                                                     *)
(*                                                                         *)
(* on_request does not look at what came before: clients send any request  *)
(* at any time, with any name and password, and may vanish.  A connection  *)
(* that has not logged in has the empty name, None, and the keys 0 and 0,  *)
(* Zero.  Requests that change nothing but what waits to be sent, 0x07 and *)
(* 0x05 with a list in place, are in LoginSend.                            *)
(***************************************************************************)
EXTENDS Naturals

CONSTANTS NConn,      \* length of connections[]: 32
          Client,     \* bound: connections that clients open
          Account,    \* names that a login form sends
          Password,   \* passwords
          Key,        \* bound: pairs login_ok1, login_ok2 that RAND_bytes comes up with
          Zero,       \* the pair 0, 0
          Lists,      \* what servers.txt may be at first: "absent" or "filled"
          None,       \* no client, password or file; the empty name
          Minute,     \* seconds that the keys are valid: 60
          MaxTime,    \* bound: the time at which the clock stops
          MaxKill,    \* bound: times the process is killed
          MaxFail     \* bound: operations on files that fail

ASSUME LoginAssumption ==
    /\ NConn \in Nat /\ Minute \in Nat
    /\ MaxTime \in Nat /\ MaxKill \in Nat /\ MaxFail \in Nat
    /\ None \notin Client \cup Account \cup Password \cup Key \cup {Zero}
    /\ Zero \notin Key /\ Lists \subseteq {"absent", "filled"}
    /\ Password \cap {"absent", "folder", "empty"} = {}

Conn == 1 .. NConn
Name == Account \cup {None}

VARIABLES
    \* the disk, on which data/accounts is there
    account,   \* data/accounts/<name>: absent, a folder without a file, a file
               \* without (all of) its bytes, or the hash of a password
    access,    \* access.txt in it: its keys and expiry; Zero and 0 while it is
               \* empty, as it is then read, None when there is no file
    servers,   \* data/servers.txt: "absent", "empty" or "filled"
    \* the process
    up,        \* it is running
    socket,    \* connections[c].socket: a client, or None
    user,      \* connections[c].username
    ok,        \* connections[c].login_ok1 and login_ok2
    busy,      \* the handler under way: where it is, its connection, its time,
               \* and the password it was given
    \* the clients
    client,    \* "off", "on" or "gone"
    told,      \* whom a pair of keys was sent to, or None
    now,       \* the clock
    \* history
    given,     \* the name and the password that a pair of keys was issued for
    owner,     \* the password an account was created with
    cut,       \* accounts whose creation was cut short or failed to be written
    listCut,   \* so was the list of servers
    fault,     \* the null FILE that ended the last process: "none", "absent", when the
               \* file was not there, or "open", when it could not be opened
    kills, fails

disk == <<account, access, servers>>
process == <<up, socket, user, ok>>
clients == <<client, told, given>>
history == <<owner, cut, listCut, fault, kills, fails>>
vars == <<disk, process, busy, clients, now, history>>

\* "made", "opened": creating an account; "listing": creating servers.txt;
\* "truncated", "stamped": writing access.txt.
Place == {"idle", "made", "opened", "listing", "truncated", "stamped"}
Idle == [at |-> "idle", conn |-> 0, time |-> 0, pass |-> None]

Init ==
    /\ account = [a \in Account |-> "absent"]
    /\ access = [n \in Name |-> [key |-> None, until |-> 0]]
    /\ servers \in Lists
    /\ up = TRUE
    /\ socket = [c \in Conn |-> None]
    /\ user = [c \in Conn |-> None]
    /\ ok = [c \in Conn |-> Zero]
    /\ busy = Idle
    /\ client = [k \in Client |-> "off"]
    /\ told = [x \in Key |-> None]
    /\ now = 1
    /\ given = [x \in Key |-> [user |-> None, pass |-> None]]
    /\ owner = [a \in Account |-> None]
    /\ cut = {}
    /\ listCut = FALSE
    /\ fault = "none"
    /\ kills = 0
    /\ fails = 0

-----------------------------------------------------------------------------
(* Helpers *)

\* A packet of the client of c starts a handler.
Request(c) == up /\ busy = Idle /\ socket[c] # None /\ client[socket[c]] = "on"

\* The handler of c goes on from place p.
At(c, p) == up /\ busy.at = p /\ busy.conn = c

Start(c, p, pass) == busy' = [at |-> p, conn |-> c, time |-> 0, pass |-> pass]

Fails == fails < MaxFail /\ fails' = fails + 1

\* A handler drops the client: net_close, socket = 0.
Drop(c) ==
    /\ socket' = [socket EXCEPT ![c] = None]
    /\ client' = [client EXCEPT ![socket[c]] = "gone"]

\* The account that is being created and already has its folder.
Underway == {a \in Account : /\ busy.at \in {"made", "opened"}
                             /\ user[busy.conn] = a
                             /\ account[a] # "absent"}

\* The process ends: its memory is gone and its clients are cut off.
Stop ==
    /\ up' = FALSE
    /\ socket' = [c \in Conn |-> None]
    /\ user' = [c \in Conn |-> None]
    /\ ok' = [c \in Conn |-> Zero]
    /\ busy' = Idle
    /\ client' = [k \in Client |-> IF client[k] = "off" THEN "off" ELSE "gone"]
    /\ cut' = cut \cup Underway
    /\ listCut' = (listCut \/ busy.at = "listing")

-----------------------------------------------------------------------------
(* Connections *)

\* net_conn, in an unused connection, which find_connection clears (it takes
\* the first one, and they are all alike).
OnConn(k, c) ==
    /\ up /\ busy = Idle /\ client[k] = "off"
    /\ socket[c] = None
    /\ socket' = [socket EXCEPT ![c] = k]
    /\ user' = [user EXCEPT ![c] = None]
    /\ ok' = [ok EXCEPT ![c] = Zero]
    /\ client' = [client EXCEPT ![k] = "on"]
    /\ UNCHANGED <<disk, up, busy, told, given, now, history>>

\* net_conn with no connection to spare.
OnConnFull(k) ==
    /\ up /\ busy = Idle /\ client[k] = "off"
    /\ \A c \in Conn : socket[c] # None
    /\ client' = [client EXCEPT ![k] = "gone"]
    /\ UNCHANGED <<disk, process, busy, told, given, now, history>>

\* A client leaves, by closing its connection or by a reset.
Leave(k) ==
    /\ client[k] = "on"
    /\ client' = [client EXCEPT ![k] = "gone"]
    /\ UNCHANGED <<disk, process, busy, told, given, now, history>>

\* net_closed: the server is told of a close, and of a reset it never is.
OnClosed(c) ==
    /\ up /\ busy = Idle /\ socket[c] # None /\ client[socket[c]] = "gone"
    /\ socket' = [socket EXCEPT ![c] = None]
    /\ UNCHANGED <<disk, up, user, ok, busy, clients, now, history>>

-----------------------------------------------------------------------------
(* handle_auth_request *)

\* The end of the handler for a client that is let in: new keys.
Grant(c, a, p) ==
    \E x \in Key :
        /\ given[x].user = None
        /\ given' = [given EXCEPT ![x] = [user |-> a, pass |-> p]]
        /\ told' = [told EXCEPT ![x] = IF client[socket[c]] = "on" THEN socket[c] ELSE None]
        /\ ok' = [ok EXCEPT ![c] = x]

\* (mutant) the loop over the accounts does not compare the hash
AuthAnyPassword(c, a, p) ==
    /\ Request(c)
    /\ account[a] \notin {"absent", "folder"}
    /\ user' = [user EXCEPT ![c] = a]
    /\ Grant(c, a, p)
    /\ UNCHANGED <<disk, up, socket, busy, client, now, history>>

\* The account exists and its hash is that of the password.
AuthGranted(c, a, p) ==
    /\ Request(c)
    /\ account[a] = p
    /\ user' = [user EXCEPT ![c] = a]
    /\ Grant(c, a, p)
    /\ UNCHANGED <<disk, up, socket, busy, client, now, history>>

\* The account exists and its file holds another hash, or not enough bytes.
AuthRefused(c, a, p) ==
    /\ Request(c)
    /\ account[a] \notin {"absent", "folder", p}
    /\ user' = [user EXCEPT ![c] = a]
    /\ Drop(c)
    /\ UNCHANGED <<disk, up, ok, busy, told, given, now, history>>

\* The account's folder has no file: fread of the null FILE.
AuthNoFile(c, a) ==
    /\ Request(c)
    /\ account[a] = "folder"
    /\ fault' = "absent"
    /\ Stop
    /\ UNCHANGED <<disk, told, given, now, owner, kills, fails>>

\* The account exists, and its directory cannot be listed or its file not be opened:
\* fread, or when it was not listed fwrite, of the null FILE.
AuthUnopened(c, a) ==
    /\ Request(c)
    /\ account[a] # "absent"
    /\ Fails
    /\ fault' = "open"
    /\ Stop
    /\ UNCHANGED <<disk, told, given, now, owner, kills>>

\* (mutant) takes an account without a hash for one that does not exist
MakeFolderAgain(c, a, p) ==
    /\ Request(c)
    /\ account[a] \in {"absent", "empty"}
    /\ \E x \in Key : given[x].user = None
    /\ user' = [user EXCEPT ![c] = a]
    /\ Start(c, "made", p)
    /\ account' = [account EXCEPT ![a] = "folder"]
    /\ UNCHANGED <<access, servers, up, socket, ok, clients, now, history>>

\* (mutant) takes an account whose hash differs for one that does not exist
MakeFolderUnlessGranted(c, a, p) ==
    /\ Request(c)
    /\ account[a] \notin {"folder", "empty", p}
    /\ \E x \in Key : given[x].user = None
    /\ user' = [user EXCEPT ![c] = a]
    /\ Start(c, "made", p)
    /\ account' = [account EXCEPT ![a] = "folder"]
    /\ UNCHANGED <<access, servers, up, socket, ok, clients, now, history>>

\* (mutant) the folder is not created
MakeNoFolder(c, a, p) ==
    /\ Request(c)
    /\ account[a] = "absent"
    /\ \E x \in Key : given[x].user = None
    /\ user' = [user EXCEPT ![c] = a]
    /\ Start(c, "made", p)
    /\ UNCHANGED <<disk, up, socket, ok, clients, now, history>>

\* There is no such account: directory_create, which may fail.
MakeFolder(c, a, p) ==
    /\ Request(c)
    /\ account[a] = "absent"
    /\ \E x \in Key : given[x].user = None
    /\ user' = [user EXCEPT ![c] = a]
    /\ Start(c, "made", p)
    /\ \/ account' = [account EXCEPT ![a] = "folder"] /\ UNCHANGED fails
       \/ Fails /\ UNCHANGED account
    /\ UNCHANGED <<access, servers, up, socket, ok, clients, now,
                   owner, cut, listCut, fault, kills>>

\* fopen(hash_password_path, "w")
CreateHashFile(c) ==
    /\ At(c, "made")
    /\ account[user[c]] = "folder"
    /\ account' = [account EXCEPT ![user[c]] = "empty"]
    /\ busy' = [busy EXCEPT !.at = "opened"]
    /\ UNCHANGED <<access, servers, process, clients, now, history>>

\* fopen fails, as it must without the folder: fwrite to the null FILE.
CreateHashFileFails(c) ==
    /\ At(c, "made")
    /\ IF account[user[c]] = "folder" THEN Fails ELSE UNCHANGED fails
    /\ fault' = "open"
    /\ Stop
    /\ UNCHANGED <<disk, told, given, now, owner, kills>>

\* fwrite of salt and hash, which fclose brings to the file.
StoreHash(c) ==
    /\ At(c, "opened")
    /\ account' = [account EXCEPT ![user[c]] = busy.pass]
    /\ owner' = [owner EXCEPT ![user[c]] = busy.pass]
    /\ busy' = Idle
    /\ Grant(c, user[c], busy.pass)
    /\ UNCHANGED <<access, servers, up, socket, user, client, now,
                   cut, listCut, fault, kills, fails>>

\* The write fails and nobody looks: the client is let in all the same.
StoreHashFails(c) ==
    /\ At(c, "opened")
    /\ Fails
    /\ owner' = [owner EXCEPT ![user[c]] = busy.pass]
    /\ cut' = cut \cup {user[c]}
    /\ busy' = Idle
    /\ Grant(c, user[c], busy.pass)
    /\ UNCHANGED <<disk, up, socket, user, client, now, listCut, fault, kills>>

-----------------------------------------------------------------------------
(* handle_server_list_request, when there is no file: one with the default server is
   created, or the default server is sent without it. *)

CreateList(c) ==
    /\ Request(c)
    /\ servers = "absent"
    /\ servers' = "empty"
    /\ Start(c, "listing", None)
    /\ UNCHANGED <<account, access, process, clients, now, history>>

\* fprintf and fclose; the default server is sent even when they fail.
WriteList(c) ==
    /\ At(c, "listing")
    /\ \/ servers' = "filled" /\ UNCHANGED <<fails, listCut>>
       \/ Fails /\ listCut' = TRUE /\ UNCHANGED servers
    /\ busy' = Idle
    /\ UNCHANGED <<account, access, process, clients, now,
                   owner, cut, fault, kills>>

-----------------------------------------------------------------------------
(* handle_enter_game_server, logged in or not *)

\* fopen(access_path, "w") empties the file
OpenAccess(c) ==
    /\ Request(c)
    /\ access' = [access EXCEPT ![user[c]] = [key |-> Zero, until |-> 0]]
    /\ Start(c, "truncated", None)
    /\ UNCHANGED <<account, servers, process, clients, now, history>>

\* or fails, and the client is dropped.
OpenAccessFails(c) ==
    /\ Request(c)
    /\ Fails
    /\ Drop(c)
    /\ UNCHANGED <<disk, up, user, ok, busy, told, given, now,
                   owner, cut, listCut, fault, kills>>

\* valid_until = time(0) + a minute
StampAccess(c) ==
    /\ At(c, "truncated")
    /\ busy' = [busy EXCEPT !.at = "stamped", !.time = now + Minute]
    /\ UNCHANGED <<disk, process, clients, now, history>>

\* fprintf and fclose; the client is sent its keys even when they fail.
WriteAccess(c) ==
    /\ At(c, "stamped")
    /\ \/ /\ access' = [access EXCEPT ![user[c]] = [key |-> ok[c], until |-> busy.time]]
          /\ UNCHANGED fails
       \/ Fails /\ UNCHANGED access
    /\ busy' = Idle
    /\ UNCHANGED <<account, servers, process, clients, now,
                   owner, cut, listCut, fault, kills>>

-----------------------------------------------------------------------------
(* The process and the clock *)

Kill ==
    /\ up
    /\ kills < MaxKill
    /\ kills' = kills + 1
    /\ Stop
    /\ UNCHANGED <<disk, told, given, now, owner, fault, fails>>

\* main: connections[] is all zeros.
Restart ==
    /\ ~up
    /\ up' = TRUE
    /\ fault' = "none"
    /\ UNCHANGED <<disk, socket, user, ok, busy, clients, now,
                   owner, cut, listCut, kills, fails>>

Tick ==
    /\ now < MaxTime
    /\ now' = now + 1
    /\ UNCHANGED <<disk, process, busy, clients, history>>

\* A request 0x00.
Auth(c, a, p) ==
    \/ AuthGranted(c, a, p) \/ AuthRefused(c, a, p) \/ MakeFolder(c, a, p)
    \/ AuthNoFile(c, a) \/ AuthUnopened(c, a)

\* What the main thread does of an event of connection c.
Handler(c) ==
    \/ OnClosed(c)
    \/ \E a \in Account, p \in Password : Auth(c, a, p)
    \/ CreateHashFile(c) \/ CreateHashFileFails(c)
    \/ StoreHash(c) \/ StoreHashFails(c)
    \/ CreateList(c) \/ WriteList(c)
    \/ OpenAccess(c) \/ OpenAccessFails(c) \/ StampAccess(c) \/ WriteAccess(c)

Next ==
    \/ \E k \in Client : Leave(k) \/ OnConnFull(k) \/ \E c \in Conn : OnConn(k, c)
    \/ \E c \in Conn : Handler(c)
    \/ Kill \/ Restart \/ Tick

Spec == Init /\ [][Next]_vars

-----------------------------------------------------------------------------
(* Properties *)

\* The types of the variables, and the handler of an event has its connection.
TypeOK ==
    /\ account \in [Account -> {"absent", "folder", "empty"} \cup Password]
    /\ access \in [Name -> [key : Key \cup {Zero, None}, until : Nat]]
    /\ servers \in {"absent", "empty", "filled"}
    /\ up \in BOOLEAN
    /\ socket \in [Conn -> Client \cup {None}]
    /\ user \in [Conn -> Name]
    /\ ok \in [Conn -> Key \cup {Zero}]
    /\ busy \in [at : Place, conn : Nat, time : Nat, pass : Password \cup {None}]
    /\ busy # Idle => /\ busy.at # "idle" /\ busy.conn \in Conn
                      /\ socket[busy.conn] # None
    /\ client \in [Client -> {"off", "on", "gone"}]
    /\ told \in [Key -> Client \cup {None}]
    /\ now \in Nat /\ now > 0
    /\ given \in [Key -> [user : Name, pass : Password \cup {None}]]
    /\ owner \in [Account -> Password \cup {None}]
    /\ cut \subseteq Account
    /\ listCut \in BOOLEAN
    /\ fault \in {"none", "absent", "open"}
    /\ kills \in Nat /\ fails \in Nat

\* A client has one connection.  Whoever used the connection before, and in whatever order
\* its client logs in, again or under another name, it holds nothing, or the keys that were
\* issued for its name and the password of the account.
SessionAgrees ==
    /\ \A c, d \in Conn : socket[c] = socket[d] /\ socket[c] # None => c = d
    /\ \A c \in Conn : socket[c] # None => client[socket[c]] # "off"
    /\ \A c \in Conn : socket[c] # None /\ ~(busy.at \in {"made", "opened"} /\ busy.conn = c) =>
         \/ user[c] = None /\ ok[c] = Zero
         \/ /\ user[c] \in Account /\ ok[c] \in Key
            /\ given[ok[c]].user = user[c]

\* Keys are issued only for the password the account was created with, over restarts,
\* half-made accounts and hashes that were never written.
GrantedByPassword ==
    \A x \in Key : given[x].user \in Account => given[x].pass = owner[given[x].user]

\* The keys in the file of an account, which open the game server, were issued for that
\* account; without any, only the empty name gets a file.
KeysOfAccount ==
    /\ \A a \in Account : access[a].key \in Key => given[access[a].key].user = a
    /\ \A a \in Account : access[a].key = Zero => access[a].until = 0
    /\ access[None].key \in {None, Zero}

\* An account has no hash only while it is created, or because that was cut short:
\* by the end of the process or a failed write.  Then it stays so.
HalfMadeIsCut ==
    {a \in Account : account[a] \in {"folder", "empty"}} = cut \cup Underway

\* handle_auth_request drops a client only for a wrong password or an account that
\* was left half-made: never one that knows the password of a sound account.
RefusedForCause ==
    [][\A c \in Conn, a \in Account, p \in Password :
         AuthRefused(c, a, p) => p # owner[a] \/ a \in cut]_vars

\* The process ends by itself only over an account left half-made by an earlier
\* end of the process, or over a file it could not open or create.
FaultCause ==
    /\ fault = "absent" => \E a \in cut : account[a] = "folder"
    /\ fault = "open" => fails > 0

\* The list of servers is empty only while it is written, or when that was cut short.
EmptyListCause == servers = "empty" => listCut \/ busy.at = "listing"

\* The hash of a password, once stored, is never replaced.
PasswordKept ==
    [][\A a \in Account : account[a] \in Password => account'[a] = account[a]]_vars
=============================================================================
