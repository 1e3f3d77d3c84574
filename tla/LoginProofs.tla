---------------------------- MODULE LoginProofs ----------------------------
(***************************************************************************)
(* Proofs about the sessions of the login server and about the handover to *)
(* the game server, for any number of connections, clients, accounts,      *)
(* passwords and keys.  The theorems of the first part are about           *)
(* LoginSession and use nothing of Handover; those of the second show that *)
(* the two servers and the files between them implement Tickets.           *)
(***************************************************************************)
EXTENDS Handover, TLAPS

-----------------------------------------------------------------------------
(* Part 1: the sessions of the login server *)

\* Every account with a hash has that of the password it was created with; one
\* without has no owner until its creation is cut short.
HashIsOwners ==
    \A a \in Account :
        /\ account[a] \in Password => account[a] = owner[a]
        /\ owner[a] # None => account[a] \in Password \/ a \in cut

\* Keys are issued for a name and a password, never for a name alone.
GivenWhole == \A x \in Key : given[x].user \in Account => given[x].pass \in Password

Creating == busy.at \in {"made", "opened"}

\* What the handler under way knows and has done.
CreatingAgrees ==
    Creating =>
        /\ user[busy.conn] \in Account \ cut
        /\ owner[user[busy.conn]] = None
        /\ busy.pass \in Password
        /\ busy.at = "made" => account[user[busy.conn]] \in {"absent", "folder"}
        /\ busy.at = "opened" => account[user[busy.conn]] = "empty"
        /\ account[user[busy.conn]] = "absent" => fails > 0

\* The null FILE that ended a process is that of the last one.
Running == up => fault = "none"

StampAgrees == busy.at = "stamped" => busy.time \in 1 .. now + Minute

Files == HalfMadeIsCut /\ HashIsOwners /\ EmptyListCause /\ FaultCause
Rights == GrantedByPassword /\ GivenWhole /\ KeysOfAccount
Handling == CreatingAgrees /\ StampAgrees /\ Running

\* The inductive invariant.
Inv == TypeOK /\ SessionAgrees /\ Files /\ Rights /\ Handling

\* The handler under way serves a client.
LEMMA AtClient ==
    ASSUME Inv, NEW c \in Conn, NEW p \in Place \ {"idle"}, At(c, p)
    PROVE  busy # Idle /\ busy.conn = c /\ busy.at = p /\ socket[c] \in Client /\ up
BY DEF Inv, TypeOK, At, Idle, Place

LEMMA RequestClient ==
    ASSUME Inv, NEW c \in Conn, Request(c)
    PROVE  /\ busy = Idle /\ busy.at = "idle" /\ socket[c] \in Client
           /\ client[socket[c]] = "on" /\ Underway = {}
BY DEF Inv, TypeOK, Request, Idle, Underway

-----------------------------------------------------------------------------
(* Steps that touch no file and start no handler *)

\* What is on the disk and what is known of it stays as it is.
LEMMA QuietKeeps ==
    ASSUME Inv, UNCHANGED <<disk, up, given, busy, owner, cut, listCut, fault>>,
           fails' \in Nat, fails' >= fails, now' \in Nat, now' >= now,
           busy # Idle => user' = user
    PROVE  Files' /\ Rights' /\ Handling'
<1>1. fails > 0 => fails' > 0
  BY DEF Inv, TypeOK
<1>2. Underway' = Underway
  <2>1. CASE busy = Idle
    BY <2>1 DEF Underway, Idle
  <2>2. CASE busy # Idle
    BY <2>2 DEF Underway, disk
  <2> QED BY <2>1, <2>2
<1>3. Files'
  BY <1>1, <1>2 DEF Inv, Files, HalfMadeIsCut, HashIsOwners, EmptyListCause, FaultCause, disk
<1>4. Rights'
  BY DEF Inv, Rights, GrantedByPassword, GivenWhole, KeysOfAccount, disk
<1>5. Creating => user' = user
  BY DEF Creating, Idle
<1>6. CreatingAgrees'
  BY <1>1, <1>5 DEF Inv, Handling, CreatingAgrees, Creating, disk
<1>7. StampAgrees'
  BY LoginAssumption DEF Inv, TypeOK, Handling, StampAgrees
<1>8. Running'
  BY DEF Inv, Handling, Running
<1> QED BY <1>3, <1>4, <1>6, <1>7, <1>8 DEF Handling

LEMMA ConnKeeps ==
    ASSUME Inv, NEW k \in Client,
           Leave(k) \/ OnConnFull(k) \/ \E c \in Conn : OnConn(k, c)
    PROVE  Inv'
<1>1. /\ UNCHANGED <<disk, up, given, busy, owner, cut, listCut, fault, fails, now>>
      /\ busy # Idle => user' = user
  BY DEF Leave, OnConnFull, OnConn, history, process
<1>2. Files' /\ Rights' /\ Handling'
  <2>1. fails' \in Nat /\ fails' >= fails /\ now' \in Nat /\ now' >= now
    BY <1>1 DEF Inv, TypeOK
  <2> QED BY <1>1, <2>1, QuietKeeps
<1>3. TypeOK'
  <2>1. CASE Leave(k) \/ OnConnFull(k)
    BY <2>1 DEF Inv, TypeOK, Leave, OnConnFull, disk, process, history
  <2>2. ASSUME NEW c \in Conn, OnConn(k, c) PROVE TypeOK'
    BY <2>2 DEF Inv, TypeOK, OnConn, disk, history, Name
  <2> QED BY <2>1, <2>2
<1>4. SessionAgrees'
  <2>1. CASE Leave(k) \/ OnConnFull(k)
    BY <2>1 DEF Inv, TypeOK, SessionAgrees, Leave, OnConnFull, disk, process, history
  <2>2. ASSUME NEW c \in Conn, OnConn(k, c) PROVE SessionAgrees'
    <3>1. /\ socket' = [socket EXCEPT ![c] = k] /\ user' = [user EXCEPT ![c] = None]
          /\ ok' = [ok EXCEPT ![c] = Zero] /\ client' = [client EXCEPT ![k] = "on"]
          /\ client[k] = "off" /\ busy' = busy /\ given' = given
      BY <2>2 DEF OnConn
    <3>2. \A d \in Conn : socket[d] # k
      BY <3>1, LoginAssumption DEF Inv, SessionAgrees
    <3> QED BY <3>1, <3>2, LoginAssumption DEF Inv, TypeOK, SessionAgrees
  <2> QED BY <2>1, <2>2
<1> QED BY <1>2, <1>3, <1>4 DEF Inv

LEMMA DropKeepsSession ==
    ASSUME Inv, NEW c \in Conn, socket' = [socket EXCEPT ![c] = None],
           client' \in [Client -> {"off", "on", "gone"}],
           \A k \in Client : client'[k] = "off" => client[k] = "off",
           \A d \in Conn \ {c} : user'[d] = user[d],
           UNCHANGED <<ok, busy, given>>
    PROVE  SessionAgrees'
BY DEF Inv, TypeOK, SessionAgrees

LEMMA DropKeeps ==
    ASSUME Inv, NEW c \in Conn,
           OnClosed(c) \/ OpenAccessFails(c)
             \/ \E a \in Account, p \in Password : AuthRefused(c, a, p)
    PROVE  Inv'
<1>1. /\ UNCHANGED <<disk, up, ok, told, given, busy, owner, cut, listCut, fault, kills, now>>
      /\ busy = Idle /\ socket[c] # None
      /\ fails' \in {fails, fails + 1}
      /\ socket' = [socket EXCEPT ![c] = None]
  BY DEF OnClosed, OpenAccessFails, AuthRefused, Request, Drop, Fails, history, clients
<1>2. fails' \in Nat /\ fails' >= fails /\ now' \in Nat /\ now' >= now
  BY <1>1 DEF Inv, TypeOK
<1>3. Files' /\ Rights' /\ Handling'
  BY <1>1, <1>2, QuietKeeps
<1>4. socket[c] \in Client
  BY <1>1 DEF Inv, TypeOK
<1>5. client' = client \/ client' = [client EXCEPT ![socket[c]] = "gone"]
  BY DEF OnClosed, OpenAccessFails, AuthRefused, Drop, clients
<1>6. /\ client' \in [Client -> {"off", "on", "gone"}]
      /\ \A k \in Client : client'[k] = "off" => client[k] = "off"
  BY <1>4, <1>5 DEF Inv, TypeOK
<1>7. /\ user' \in [Conn -> Name]
      /\ \A d \in Conn \ {c} : user'[d] = user[d]
  <2>1. CASE user' = user
    BY <2>1 DEF Inv, TypeOK
  <2>2. ASSUME NEW a \in Account, user' = [user EXCEPT ![c] = a]
        PROVE  /\ user' \in [Conn -> Name]
               /\ \A d \in Conn \ {c} : user'[d] = user[d]
    BY <2>2 DEF Inv, TypeOK, Name
  <2> QED BY <2>1, <2>2 DEF OnClosed, OpenAccessFails, AuthRefused
<1>8. SessionAgrees'
  BY <1>1, <1>6, <1>7, DropKeepsSession
<1>9. TypeOK'
  BY <1>1, <1>2, <1>6, <1>7 DEF Inv, TypeOK, disk
<1> QED BY <1>3, <1>8, <1>9 DEF Inv

LEMMA TickKeeps == ASSUME Inv, Tick \/ Restart PROVE Inv'
<1>1. CASE Tick
  <2>1. /\ UNCHANGED <<disk, process, busy, clients, history>> /\ now' = now + 1
    BY <1>1 DEF Tick
  <2>2. fails' \in Nat /\ fails' >= fails /\ now' \in Nat /\ now' >= now /\ now' > 0
    BY <2>1 DEF Inv, TypeOK, history
  <2>3. Files' /\ Rights' /\ Handling'
    BY <2>1, <2>2, QuietKeeps DEF process, clients, history
  <2>4. TypeOK' /\ SessionAgrees'
    BY <2>1, <2>2 DEF Inv, TypeOK, SessionAgrees, disk, process, clients, history
  <2> QED BY <2>3, <2>4 DEF Inv
<1>2. CASE Restart
  <2>1. /\ UNCHANGED <<disk, socket, user, ok, busy, clients, now,
                       owner, cut, listCut, kills, fails>>
        /\ up' = TRUE /\ fault' = "none"
    BY <1>2 DEF Restart
  <2>2. TypeOK' /\ SessionAgrees'
    BY <2>1 DEF Inv, TypeOK, SessionAgrees, disk, clients
  <2>3. Files'
    BY <2>1 DEF Inv, Files, HalfMadeIsCut, HashIsOwners, EmptyListCause, FaultCause, Underway,
                disk
  <2>4. Rights' /\ Handling'
    BY <2>1 DEF Inv, Rights, GrantedByPassword, GivenWhole, KeysOfAccount, Handling,
                CreatingAgrees, Creating, StampAgrees, Running, disk, clients
  <2> QED BY <2>2, <2>3, <2>4 DEF Inv
<1> QED BY <1>1, <1>2

-----------------------------------------------------------------------------
(* The end of the process *)

LEMMA StopKeeps ==
    ASSUME Inv, Stop, UNCHANGED <<disk, told, given, now, owner>>,
           kills' \in Nat, fails' \in Nat, fails' >= fails,
           fault' \in {"none", "absent", "open"},
           fault' = "absent" => \E a \in Account : account[a] = "folder" /\ busy = Idle,
           fault' = "open" => fails' > 0
    PROVE  Inv'
<1>1. busy' = Idle /\ busy'.at = "idle" /\ cut' = cut \cup Underway /\ up' = FALSE
  BY DEF Stop, Idle
<1>2. Underway' = {}
  BY <1>1 DEF Underway
<1>3. Underway \subseteq Account
  BY DEF Underway
<1>4. TypeOK'
  <2>1. client' \in [Client -> {"off", "on", "gone"}]
    BY DEF Stop, Inv, TypeOK
  <2>2. socket' \in [Conn -> Client \cup {None}] /\ user' \in [Conn -> Name]
        /\ ok' \in [Conn -> Key \cup {Zero}]
    BY DEF Stop, Name
  <2>3. busy' \in [at : Place, conn : Nat, time : Nat, pass : Password \cup {None}]
    BY <1>1 DEF Idle, Place
  <2>4. listCut' \in BOOLEAN /\ cut' \subseteq Account
    BY <1>1, <1>3 DEF Stop, Inv, TypeOK
  <2> QED BY <1>1, <2>1, <2>2, <2>3, <2>4 DEF Inv, TypeOK, disk
<1>5. SessionAgrees'
  BY DEF Stop, SessionAgrees
<1>6. HalfMadeIsCut'
  BY <1>1, <1>2 DEF Inv, Files, HalfMadeIsCut, disk
<1>7. HashIsOwners' /\ EmptyListCause'
  BY <1>1 DEF Inv, Files, HashIsOwners, EmptyListCause, Stop, disk
<1>8. FaultCause'
  <2>1. ASSUME NEW a \in Account, account[a] = "folder" PROVE a \in cut'
    BY <2>1, <1>1 DEF Inv, Files, HalfMadeIsCut
  <2>2. account' = account
    BY DEF disk
  <2>3. fault' = "absent" => \E a \in Account : account[a] = "folder"
    OBVIOUS
  <2> QED BY <2>1, <2>2, <2>3 DEF FaultCause
<1>9. Rights' /\ Handling'
  BY <1>1 DEF Inv, Rights, GrantedByPassword, GivenWhole, KeysOfAccount, Handling,
              CreatingAgrees, Creating, StampAgrees, Running, disk
<1> QED BY <1>4, <1>5, <1>6, <1>7, <1>8, <1>9 DEF Inv, Files

LEMMA EndKeeps ==
    ASSUME Inv, NEW c \in Conn,
           CreateHashFileFails(c)
             \/ \E a \in Account : AuthNoFile(c, a) \/ AuthUnopened(c, a)
    PROVE  Inv'
<1>1. fails \in Nat /\ kills \in Nat /\ (up => fault = "none")
  BY DEF Inv, TypeOK, Handling, Running
<1>3. CASE CreateHashFileFails(c)
  <2>1. /\ Stop /\ UNCHANGED <<disk, told, given, now, owner, kills>> /\ fault' = "open"
        /\ IF account[user[c]] = "folder" THEN Fails ELSE UNCHANGED fails
        /\ At(c, "made")
    BY <1>3 DEF CreateHashFileFails
  <2>2. busy.conn = c /\ busy.at = "made"
    BY <2>1 DEF At
  <2>3. account[user[c]] # "folder" => fails > 0
    BY <2>2 DEF Inv, Handling, CreatingAgrees, Creating
  <2>4. fails' \in Nat /\ fails' >= fails /\ fails' > 0
    BY <1>1, <2>1, <2>3 DEF Fails
  <2> QED BY <1>1, <2>1, <2>4, StopKeeps
<1>4. ASSUME NEW a \in Account, AuthNoFile(c, a) PROVE Inv'
  <2>1. /\ Stop /\ UNCHANGED <<disk, told, given, now, owner, kills, fails>>
        /\ fault' = "absent" /\ account[a] = "folder" /\ busy = Idle
    BY <1>4 DEF AuthNoFile, Request
  <2> QED BY <1>1, <2>1, StopKeeps
<1>5. ASSUME NEW a \in Account, AuthUnopened(c, a) PROVE Inv'
  <2>1. /\ Stop /\ UNCHANGED <<disk, told, given, now, owner, kills>>
        /\ fault' = "open" /\ fails' = fails + 1
    BY <1>5 DEF AuthUnopened, Fails
  <2>2. fails' \in Nat /\ fails' >= fails /\ fails' > 0
    BY <1>1, <2>1
  <2> QED BY <1>1, <2>1, <2>2, StopKeeps
<1> QED BY <1>3, <1>4, <1>5

-----------------------------------------------------------------------------
(* Accounts *)

\* What Grant does, for a connection whose name is that of the account.
LEMMA GrantFacts ==
    ASSUME Inv, NEW c \in Conn, NEW a \in Account, NEW p \in Password, Grant(c, a, p),
           socket[c] \in Client, user' = [user EXCEPT ![c] = a], socket' = socket,
           client' = client, owner'[a] = p,
           \A b \in Account \ {a} : owner'[b] = owner[b],
           owner[a] \in {None, p},
           access' = access, busy' = Idle, busy = Idle \/ busy.conn = c
    PROVE  /\ told' \in [Key -> Client \cup {None}]
           /\ given' \in [Key -> [user : Name, pass : Password \cup {None}]]
           /\ user' \in [Conn -> Name] /\ ok' \in [Conn -> Key \cup {Zero}]
           /\ SessionAgrees' /\ Rights'
<1>1. PICK x \in Key :
        /\ given[x].user = None
        /\ given' = [given EXCEPT ![x] = [user |-> a, pass |-> p]]
        /\ told' = [told EXCEPT ![x] = IF client[socket[c]] = "on" THEN socket[c] ELSE None]
        /\ ok' = [ok EXCEPT ![c] = x]
  BY DEF Grant
<1>2. /\ a \in Name /\ None \notin Account /\ p # None /\ Zero \notin Key /\ None \notin Key
      /\ None # Zero
  BY LoginAssumption DEF Name
<1>3. told' \in [Key -> Client \cup {None}]
  BY <1>1 DEF Inv, TypeOK
<1>4. given' \in [Key -> [user : Name, pass : Password \cup {None}]]
  BY <1>1, <1>2 DEF Inv, TypeOK
<1>5. user' \in [Conn -> Name] /\ ok' \in [Conn -> Key \cup {Zero}]
  BY <1>1, <1>2 DEF Inv, TypeOK
<1>6. /\ given'[x].user = a /\ given'[x].pass = p
      /\ \A y \in Key \ {x} : given'[y] = given[y]
  BY <1>1 DEF Inv, TypeOK
<1>7. SessionAgrees'
  <2>1. \A d \in Conn : socket[d] # None => client[socket[d]] # "off"
    BY DEF Inv, SessionAgrees
  <2>2. ASSUME NEW d \in Conn, socket[d] # None
        PROVE  \/ user'[d] = None /\ ok'[d] = Zero
               \/ /\ user'[d] \in Account /\ ok'[d] \in Key
                  /\ given'[ok'[d]].user = user'[d]
    <3>1. CASE d = c
      <4>1. user'[d] = a /\ ok'[d] = x
        BY <1>1, <3>1 DEF Inv, TypeOK
      <4> QED BY <1>6, <4>1
    <3>2. CASE d # c
      <4>1. user'[d] = user[d] /\ ok'[d] = ok[d]
        BY <1>1, <3>2 DEF Inv, TypeOK
      <4>2. \/ user[d] = None /\ ok[d] = Zero
            \/ user[d] \in Account /\ ok[d] \in Key /\ given[ok[d]].user = user[d]
        BY <2>2, <3>2 DEF Inv, SessionAgrees, Idle
      <4>3. ok[d] \in Key /\ user[d] \in Account /\ given[ok[d]].user = user[d]
              => given'[ok[d]].user = user[d]
        BY <1>1, <1>2, <1>6
      <4> QED BY <4>1, <4>2, <4>3
    <3> QED BY <3>1, <3>2
  <2> QED BY <2>1, <2>2 DEF Inv, SessionAgrees
<1>8. \A y \in Key \ {x} : given[y].user \in Account =>
        given[y].pass = owner'[given[y].user] /\ given[y].pass \in Password
  <2> SUFFICES ASSUME NEW y \in Key \ {x}, given[y].user \in Account
               PROVE  given[y].pass = owner'[given[y].user] /\ given[y].pass \in Password
    OBVIOUS
  <2>1. given[y].pass = owner[given[y].user] /\ given[y].pass \in Password
    BY DEF Inv, Rights, GrantedByPassword, GivenWhole
  <2>2. given[y].pass # None
    BY <2>1, LoginAssumption
  <2> QED BY <2>1, <2>2
<1>9. GrantedByPassword' /\ GivenWhole'
  BY <1>6, <1>8 DEF GrantedByPassword, GivenWhole
<1>10. KeysOfAccount'
  BY <1>1, <1>2, <1>6 DEF Inv, Rights, KeysOfAccount
<1> QED BY <1>3, <1>4, <1>5, <1>7, <1>9, <1>10 DEF Rights

LEMMA GrantedKeeps ==
    ASSUME Inv, NEW c \in Conn, NEW a \in Account, NEW p \in Password, AuthGranted(c, a, p)
    PROVE  Inv'
<1>1. /\ Request(c) /\ account[a] = p /\ user' = [user EXCEPT ![c] = a] /\ Grant(c, a, p)
      /\ UNCHANGED <<disk, up, socket, busy, client, now, history>>
  BY DEF AuthGranted
<1>2. busy = Idle /\ socket[c] \in Client /\ Underway = {}
  BY <1>1, RequestClient
<1>3. owner[a] = p
  BY <1>1 DEF Inv, Files, HashIsOwners
<1>4. owner' = owner /\ access' = access
  BY <1>1 DEF history, disk
<1>5. /\ told' \in [Key -> Client \cup {None}]
      /\ given' \in [Key -> [user : Name, pass : Password \cup {None}]]
      /\ user' \in [Conn -> Name] /\ ok' \in [Conn -> Key \cup {Zero}]
      /\ SessionAgrees' /\ Rights'
  BY <1>1, <1>2, <1>3, <1>4, GrantFacts
<1>6. TypeOK'
  BY <1>1, <1>5 DEF Inv, TypeOK, disk, history
<1>7. Underway' = {}
  BY <1>1, <1>2 DEF Underway, Idle
<1>8. Files' /\ Handling'
  BY <1>1, <1>2, <1>7 DEF Inv, Files, HalfMadeIsCut, HashIsOwners, EmptyListCause, FaultCause,
     Handling, CreatingAgrees, Creating, StampAgrees, Running, Idle, disk, history
<1> QED BY <1>5, <1>6, <1>8 DEF Inv

\* The steps of a creation leave the other accounts, the connections and the keys alone.
LEMMA MakeFolderKeeps ==
    ASSUME Inv, NEW c \in Conn, NEW a \in Account, NEW p \in Password, MakeFolder(c, a, p)
    PROVE  Inv'
<1>1. /\ Request(c) /\ account[a] = "absent" /\ user' = [user EXCEPT ![c] = a]
      /\ busy' = [at |-> "made", conn |-> c, time |-> 0, pass |-> p]
      /\ \/ account' = [account EXCEPT ![a] = "folder"] /\ fails' = fails
         \/ fails' = fails + 1 /\ account' = account
      /\ UNCHANGED <<access, servers, up, socket, ok, clients, now,
                     owner, cut, listCut, fault, kills>>
  BY DEF MakeFolder, Start, Fails
<1>2. /\ busy = Idle /\ busy.at = "idle" /\ socket[c] \in Client /\ Underway = {}
      /\ a \in Name
  BY <1>1, RequestClient DEF Name
<1>3. /\ account' \in [Account -> {"absent", "folder", "empty"} \cup Password]
      /\ \A b \in Account \ {a} : account'[b] = account[b]
  BY <1>1 DEF Inv, TypeOK
<1>4. account'[a] = "absent" \/ account'[a] = "folder"
  <2>1. CASE account' = [account EXCEPT ![a] = "folder"]
    BY <2>1 DEF Inv, TypeOK
  <2>2. CASE account' = account
    BY <2>2, <1>1
  <2> QED BY <1>1, <2>1, <2>2
<1>5. fails \in Nat /\ fails' \in Nat /\ fails' >= fails
      /\ (account'[a] = "absent" => fails' > 0)
  BY <1>1 DEF Inv, TypeOK
<1>6. a \notin cut
  BY <1>1, <1>2 DEF Inv, Files, HalfMadeIsCut
<1>7. owner[a] = None
  BY <1>1, <1>6, LoginAssumption DEF Inv, Files, HashIsOwners
<1>8. TypeOK'
  <2>1. busy' \in [at : Place, conn : Nat, time : Nat, pass : Password \cup {None}]
    BY <1>1 DEF Place, Conn
  <2>2. user' \in [Conn -> Name]
    BY <1>1, <1>2 DEF Inv, TypeOK
  <2>3. busy'.at # "idle" /\ busy'.conn = c /\ socket'[c] # None
    BY <1>1, <1>2, LoginAssumption
  <2> QED BY <1>1, <1>3, <1>5, <2>1, <2>2, <2>3 DEF Inv, TypeOK, clients
<1>9. SessionAgrees'
  <2>1. busy'.at \in {"made", "opened"} /\ busy'.conn = c
    BY <1>1
  <2>2. \A d \in Conn \ {c} : user'[d] = user[d]
    BY <1>1 DEF Inv, TypeOK
  <2> QED BY <1>1, <1>2, <2>1, <2>2 DEF Inv, SessionAgrees, clients
<1>10. user'[c] = a /\ busy'.at = "made" /\ busy'.conn = c /\ busy'.pass = p
  BY <1>1 DEF Inv, TypeOK
<1>11. Underway' = IF account'[a] = "absent" THEN {} ELSE {a}
  BY <1>10 DEF Underway
<1>12. HalfMadeIsCut'
  <2>1. {b \in Account : account[b] \in {"folder", "empty"}} = cut
    BY <1>2 DEF Inv, Files, HalfMadeIsCut
  <2>2. cut' = cut
    BY <1>1
  <2>3. \A b \in Account \ {a} : account'[b] \in {"folder", "empty"} <=> b \in cut
    BY <2>1, <1>3
  <2>4. cut \subseteq Account
    BY DEF Inv, TypeOK
  <2>5. CASE account'[a] = "absent"
    <3>1. Underway' = {} /\ account'[a] \notin {"folder", "empty"}
      BY <1>11, <2>5
    <3> QED BY <2>2, <2>3, <2>4, <1>6, <3>1 DEF HalfMadeIsCut
  <2>6. CASE account'[a] = "folder"
    <3>1. Underway' = {a} /\ account'[a] \in {"folder", "empty"}
      BY <1>11, <2>6
    <3> QED BY <2>2, <2>3, <2>4, <1>6, <3>1 DEF HalfMadeIsCut
  <2> QED BY <1>4, <2>5, <2>6
<1>13. HashIsOwners'
  <2>1. "absent" \notin Password /\ "folder" \notin Password
    BY LoginAssumption
  <2>2. account'[a] \notin Password
    BY <1>4, <2>1
  <2> QED BY <1>1, <1>3, <1>7, <2>2 DEF Inv, Files, HashIsOwners
<1>14. EmptyListCause'
  BY <1>1, <1>2 DEF Inv, Files, EmptyListCause
<1>15. FaultCause'
  <2>1. \A b \in cut : account'[b] = account[b]
    BY <1>3, <1>6 DEF Inv, TypeOK
  <2>2. fails > 0 => fails' > 0
    BY <1>5
  <2> QED BY <1>1, <2>1, <2>2 DEF Inv, Files, FaultCause
<1>16. Rights'
  BY <1>1 DEF Inv, Rights, GrantedByPassword, GivenWhole, KeysOfAccount, clients
<1>17. Handling'
  <2>1. CreatingAgrees'
    BY <1>1, <1>3, <1>4, <1>5, <1>6, <1>7, <1>10 DEF CreatingAgrees
  <2> QED BY <1>1, <1>10, <2>1 DEF Inv, Handling, StampAgrees, Running
<1> QED BY <1>8, <1>9, <1>12, <1>13, <1>14, <1>15, <1>16, <1>17 DEF Inv, Files

LEMMA CreateKeeps == ASSUME Inv, NEW c \in Conn, CreateHashFile(c) PROVE Inv'
<1> DEFINE a == user[c]
<1>1. /\ At(c, "made") /\ account[a] = "folder"
      /\ account' = [account EXCEPT ![a] = "empty"]
      /\ busy' = [busy EXCEPT !.at = "opened"]
      /\ UNCHANGED <<access, servers, process, clients, now, history>>
  BY DEF CreateHashFile
<1>2. busy # Idle /\ busy.conn = c /\ busy.at = "made" /\ socket[c] \in Client
  BY <1>1, AtClient DEF Place
<1>3. a \in Account \ cut /\ owner[a] = None /\ busy.pass \in Password
  BY <1>2 DEF Inv, Handling, CreatingAgrees, Creating
<1>4. /\ busy' \in [at : Place, conn : Nat, time : Nat, pass : Password \cup {None}]
      /\ busy'.at = "opened" /\ busy'.conn = c /\ busy'.pass = busy.pass
      /\ busy' # Idle
  BY <1>1, <1>2 DEF Inv, TypeOK, Place, Idle
<1>5. user'[c] = a /\ socket' = socket /\ user' = user
  BY <1>1 DEF process
<1> HIDE DEF a
<1>6. /\ account' \in [Account -> {"absent", "folder", "empty"} \cup Password]
      /\ account'[a] = "empty" /\ \A b \in Account \ {a} : account'[b] = account[b]
  BY <1>1, <1>3 DEF Inv, TypeOK
<1>7. TypeOK'
  BY <1>1, <1>2, <1>4, <1>6 DEF Inv, TypeOK, process, clients, history
<1>8. SessionAgrees'
  BY <1>1, <1>2, <1>4 DEF Inv, SessionAgrees, process, clients
<1>9. Underway = {a} /\ Underway' = {a}
  <2>1. Underway = {a}
    BY <1>1, <1>2, <1>3 DEF Underway, a
  <2>2. Underway' = {a}
    BY <1>3, <1>4, <1>5, <1>6 DEF Underway
  <2> QED BY <2>1, <2>2
<1>10. HalfMadeIsCut'
  <2>1. {b \in Account : account[b] \in {"folder", "empty"}} = cut \cup {a} /\ cut' = cut
    BY <1>1, <1>9 DEF Inv, Files, HalfMadeIsCut, history
  <2>2. \A b \in Account : account'[b] \in {"folder", "empty"}
                             <=> account[b] \in {"folder", "empty"}
    BY <1>1, <1>3, <1>6
  <2> QED BY <2>1, <2>2, <1>9 DEF HalfMadeIsCut
<1>11. HashIsOwners' /\ EmptyListCause'
  BY <1>1, <1>2, <1>3, <1>4, <1>6, LoginAssumption
     DEF Inv, Files, HashIsOwners, EmptyListCause, history
<1>12. FaultCause'
  <2>1. \A b \in cut : account'[b] = account[b]
    BY <1>3, <1>6 DEF Inv, TypeOK
  <2> QED BY <1>1, <2>1 DEF Inv, Files, FaultCause, history
<1>13. Rights'
  BY <1>1 DEF Inv, Rights, GrantedByPassword, GivenWhole, KeysOfAccount, clients, history
<1>14. Handling'
  BY <1>1, <1>3, <1>4, <1>5, <1>6 DEF Inv, Handling, CreatingAgrees, StampAgrees, Running,
     process, history
<1> QED BY <1>7, <1>8, <1>10, <1>11, <1>12, <1>13, <1>14 DEF Inv, Files

LEMMA StoreKeeps ==
    ASSUME Inv, NEW c \in Conn, StoreHash(c) \/ StoreHashFails(c)
    PROVE  Inv'
<1> DEFINE a == user[c]
           p == busy.pass
<1>1. /\ At(c, "opened") /\ Grant(c, a, p) /\ busy' = Idle
      /\ owner' = [owner EXCEPT ![a] = p]
      /\ \/ /\ account' = [account EXCEPT ![a] = p] /\ cut' = cut /\ fails' = fails
         \/ /\ account' = account /\ cut' = cut \cup {a} /\ fails' = fails + 1
      /\ UNCHANGED <<access, servers, up, socket, user, client, now, listCut, fault, kills>>
  BY DEF StoreHash, StoreHashFails, Fails, disk
<1>2. busy # Idle /\ busy.conn = c /\ busy.at = "opened" /\ socket[c] \in Client
  BY <1>1, AtClient DEF Place
<1>3. /\ a \in Account \ cut /\ owner[a] = None /\ p \in Password /\ account[a] = "empty"
      /\ p \notin {"absent", "folder", "empty"}
  BY <1>2, LoginAssumption DEF Inv, Handling, CreatingAgrees, Creating
<1>4. user' = [user EXCEPT ![c] = a]
  BY <1>1 DEF Inv, TypeOK
<1>5. Underway = {a}
  BY <1>2, <1>3 DEF Underway
<1> HIDE DEF a, p
<1>6. /\ owner' \in [Account -> Password \cup {None}]
      /\ owner'[a] = p /\ \A b \in Account \ {a} : owner'[b] = owner[b]
  BY <1>1, <1>3 DEF Inv, TypeOK
<1>7. /\ told' \in [Key -> Client \cup {None}]
      /\ given' \in [Key -> [user : Name, pass : Password \cup {None}]]
      /\ user' \in [Conn -> Name] /\ ok' \in [Conn -> Key \cup {Zero}]
      /\ SessionAgrees' /\ Rights'
  BY <1>1, <1>2, <1>3, <1>4, <1>6, GrantFacts
<1>8. /\ account' \in [Account -> {"absent", "folder", "empty"} \cup Password]
      /\ \A b \in Account \ {a} : account'[b] = account[b]
      /\ \/ account'[a] = p /\ cut' = cut
         \/ account'[a] = "empty" /\ cut' = cut \cup {a}
  BY <1>1, <1>3 DEF Inv, TypeOK
<1>9. fails \in Nat /\ fails' \in Nat /\ (fails > 0 => fails' > 0)
  BY <1>1 DEF Inv, TypeOK
<1>10. busy'.at = "idle" /\ Underway' = {}
  BY <1>1 DEF Idle, Underway
<1>11. TypeOK'
  <2>1. busy' \in [at : Place, conn : Nat, time : Nat, pass : Password \cup {None}]
    BY <1>1 DEF Idle, Place
  <2>2. cut' \subseteq Account
    BY <1>3, <1>8 DEF Inv, TypeOK
  <2> QED BY <1>1, <1>6, <1>7, <1>8, <1>9, <2>1, <2>2 DEF Inv, TypeOK
<1>12. HalfMadeIsCut'
  <2>1. {b \in Account : account[b] \in {"folder", "empty"}} = cut \cup {a}
    BY <1>5 DEF Inv, Files, HalfMadeIsCut
  <2>2. \A b \in Account \ {a} : account'[b] \in {"folder", "empty"} <=> b \in cut'
    BY <1>8, <2>1
  <2>3. account'[a] \in {"folder", "empty"} <=> a \in cut'
    BY <1>3, <1>8
  <2>4. cut' \subseteq Account
    BY <1>11 DEF TypeOK
  <2> QED BY <1>10, <2>2, <2>3, <2>4 DEF HalfMadeIsCut
<1>13. HashIsOwners'
  <2>1. \A b \in Account \ {a} : /\ account'[b] \in Password => account'[b] = owner'[b]
                                 /\ owner'[b] # None => account'[b] \in Password \/ b \in cut'
    BY <1>6, <1>8 DEF Inv, Files, HashIsOwners
  <2>2. /\ account'[a] \in Password => account'[a] = owner'[a]
        /\ account'[a] \in Password \/ a \in cut'
    BY <1>3, <1>6, <1>8, LoginAssumption
  <2> QED BY <2>1, <2>2 DEF HashIsOwners
<1>14. EmptyListCause'
  BY <1>1, <1>2 DEF Inv, Files, EmptyListCause
<1>15. FaultCause'
  <2>1. \A b \in cut : account'[b] = account[b] /\ b \in cut'
    BY <1>3, <1>8 DEF Inv, TypeOK
  <2> QED BY <1>1, <1>9, <2>1 DEF Inv, Files, FaultCause
<1>16. Handling'
  BY <1>1, <1>10 DEF Inv, Handling, CreatingAgrees, Creating, StampAgrees, Running
<1> QED BY <1>7, <1>11, <1>12, <1>13, <1>14, <1>15, <1>16 DEF Inv, Files

-----------------------------------------------------------------------------
(* The list of servers and the file for the game server *)

LEMMA ListKeeps ==
    ASSUME Inv, NEW c \in Conn, CreateList(c) \/ WriteList(c)
    PROVE  Inv'
<1>1. /\ UNCHANGED <<account, access, process, clients, now, owner, cut, fault, kills>>
      /\ fails' \in {fails, fails + 1}
      /\ socket[c] \in Client
      /\ \/ /\ busy = Idle /\ servers' = "empty" /\ listCut' = listCut
            /\ busy' = [at |-> "listing", conn |-> c, time |-> 0, pass |-> None]
         \/ /\ busy.at = "listing" /\ busy' = Idle
            /\ \/ servers' = "filled" /\ listCut' = listCut
               \/ servers' = servers /\ listCut' = TRUE
  <2>1. CASE CreateList(c)
    BY <2>1, RequestClient DEF CreateList, Start, history
  <2>2. CASE WriteList(c)
    BY <2>2, AtClient DEF WriteList, At, Fails, Place
  <2> QED BY <2>1, <2>2
<1>2. fails \in Nat /\ fails' \in Nat /\ (fails > 0 => fails' > 0)
  BY <1>1 DEF Inv, TypeOK
<1>3. busy.at \in {"idle", "listing"} /\ busy'.at \in {"idle", "listing"}
  BY <1>1 DEF Idle
<1>4. Underway = {} /\ Underway' = {}
  BY <1>3 DEF Underway
<1>5. TypeOK'
  <2>1. busy' \in [at : Place, conn : Nat, time : Nat, pass : Password \cup {None}]
    BY <1>1 DEF Idle, Place, Conn
  <2>2. busy' # Idle => busy'.at # "idle" /\ busy'.conn \in Conn /\ socket[busy'.conn] # None
    BY <1>1, LoginAssumption
  <2>3. listCut' \in BOOLEAN
    BY <1>1 DEF Inv, TypeOK
  <2>4. servers' \in {"absent", "empty", "filled"}
    BY <1>1 DEF Inv, TypeOK
  <2> QED BY <1>1, <1>2, <2>1, <2>2, <2>3, <2>4 DEF Inv, TypeOK, process, clients
<1>6. SessionAgrees'
  BY <1>1, <1>3 DEF Inv, SessionAgrees, process, clients
<1>7. Files'
  <2>1. HalfMadeIsCut' /\ HashIsOwners'
    BY <1>1, <1>4 DEF Inv, Files, HalfMadeIsCut, HashIsOwners
  <2>2. EmptyListCause'
    BY <1>1 DEF Inv, Files, EmptyListCause
  <2>3. FaultCause'
    BY <1>1, <1>2 DEF Inv, Files, FaultCause
  <2> QED BY <2>1, <2>2, <2>3 DEF Files
<1>8. Rights' /\ Handling'
  BY <1>1, <1>3 DEF Inv, Rights, GrantedByPassword, GivenWhole, KeysOfAccount, Handling,
     CreatingAgrees, Creating, StampAgrees, Running, process, clients
<1> QED BY <1>5, <1>6, <1>7, <1>8 DEF Inv

\* Whoever asks for the game server holds nothing, or the keys of its name.
LEMMA HeldKeys ==
    ASSUME Inv, NEW c \in Conn, socket[c] # None, ~Creating
    PROVE  \/ user[c] = None /\ ok[c] = Zero
           \/ user[c] \in Account /\ ok[c] \in Key /\ given[ok[c]].user = user[c]
BY DEF Inv, SessionAgrees, Creating

LEMMA AccessKeeps ==
    ASSUME Inv, NEW c \in Conn, OpenAccess(c) \/ StampAccess(c) \/ WriteAccess(c)
    PROVE  Inv'
<1>1. /\ UNCHANGED <<account, servers, process, clients, now, owner, cut, listCut, fault, kills>>
      /\ fails' \in {fails, fails + 1}
      /\ socket[c] \in Client
      /\ \/ /\ busy = Idle /\ busy' = [at |-> "truncated", conn |-> c, time |-> 0, pass |-> None]
            /\ access' = [access EXCEPT ![user[c]] = [key |-> Zero, until |-> 0]]
         \/ /\ busy.at = "truncated" /\ busy.conn = c /\ access' = access
            /\ busy' = [busy EXCEPT !.at = "stamped", !.time = now + Minute]
         \/ /\ busy.at = "stamped" /\ busy.conn = c /\ busy' = Idle
            /\ access' \in {access, [access EXCEPT ![user[c]] =
                                       [key |-> ok[c], until |-> busy.time]]}
  <2>1. CASE OpenAccess(c)
    BY <2>1, RequestClient DEF OpenAccess, Start, history
  <2>2. CASE StampAccess(c)
    BY <2>2, AtClient DEF StampAccess, At, disk, history, Place
  <2>3. CASE WriteAccess(c)
    BY <2>3, AtClient DEF WriteAccess, At, Fails, Place
  <2> QED BY <2>1, <2>2, <2>3
<1>2. fails \in Nat /\ fails' \in Nat /\ (fails > 0 => fails' > 0)
  BY <1>1 DEF Inv, TypeOK
<1>3. /\ busy.at \in {"idle", "truncated", "stamped"}
      /\ busy' \in [at : Place, conn : Nat, time : Nat, pass : Password \cup {None}]
      /\ \/ busy' = Idle /\ busy'.at = "idle"
         \/ busy'.at = "truncated" /\ busy'.conn = c
         \/ busy'.at = "stamped" /\ busy'.conn = c /\ busy'.time = now + Minute
  <2>1. now + Minute \in Nat
    BY LoginAssumption DEF Inv, TypeOK
  <2>2. busy \in [at : Place, conn : Nat, time : Nat, pass : Password \cup {None}]
    BY DEF Inv, TypeOK
  <2>3. CASE busy = Idle /\ busy' = [at |-> "truncated", conn |-> c, time |-> 0, pass |-> None]
    BY <2>3 DEF Idle, Place, Conn
  <2>4. CASE /\ busy.at = "truncated" /\ busy.conn = c
             /\ busy' = [busy EXCEPT !.at = "stamped", !.time = now + Minute]
    BY <2>1, <2>2, <2>4 DEF Place
  <2>5. CASE busy.at = "stamped" /\ busy' = Idle
    BY <2>5 DEF Idle, Place
  <2> QED BY <1>1, <2>3, <2>4, <2>5
<1>4. Underway = {} /\ Underway' = {}
  BY <1>3 DEF Underway
<1>5. user[c] \in Name /\ ok[c] \in Key \cup {Zero} /\ busy.time \in Nat
  BY DEF Inv, TypeOK
<1>6. access' \in [Name -> [key : Key \cup {Zero, None}, until : Nat]]
  BY <1>1, <1>5 DEF Inv, TypeOK
<1>7. busy' # Idle => busy'.at # "idle" /\ busy'.conn = c
  BY <1>3
<1>8. TypeOK'
  BY <1>1, <1>2, <1>3, <1>6, <1>7, LoginAssumption DEF Inv, TypeOK, process, clients
<1>9. SessionAgrees'
  BY <1>1, <1>3 DEF Inv, SessionAgrees, process, clients
<1>10. Files'
  <2>1. HalfMadeIsCut' /\ HashIsOwners'
    BY <1>1, <1>4 DEF Inv, Files, HalfMadeIsCut, HashIsOwners
  <2>2. EmptyListCause'
    BY <1>1, <1>3 DEF Inv, Files, EmptyListCause
  <2>3. FaultCause'
    BY <1>1, <1>2 DEF Inv, Files, FaultCause
  <2> QED BY <2>1, <2>2, <2>3 DEF Files
<1>11. KeysOfAccount'
  <2>1. \/ user[c] = None /\ ok[c] = Zero
        \/ user[c] \in Account /\ ok[c] \in Key /\ given[ok[c]].user = user[c]
    BY <1>1, <1>3, HeldKeys, LoginAssumption DEF Creating
  <2>2. \/ access' = access
        \/ /\ access'[user[c]].key = Zero /\ access'[user[c]].until = 0
           /\ \A n \in Name \ {user[c]} : access'[n] = access[n]
        \/ /\ access'[user[c]].key = ok[c]
           /\ \A n \in Name \ {user[c]} : access'[n] = access[n]
    BY <1>1, <1>5 DEF Inv, TypeOK
  <2>3. None \in Name /\ Zero \notin Key /\ None \notin Account
    BY LoginAssumption DEF Name
  <2>4. given' = given
    BY <1>1 DEF clients
  <2>5. \A n \in Account : n \in Name
    BY DEF Name
  <2> QED BY <2>1, <2>2, <2>3, <2>4, <2>5 DEF Inv, Rights, KeysOfAccount
<1>12. Rights'
  BY <1>1, <1>11 DEF Inv, Rights, GrantedByPassword, GivenWhole, clients
<1>13. StampAgrees'
  <2>1. now \in Nat /\ now > 0 /\ now' = now
    BY <1>1 DEF Inv, TypeOK
  <2>2. busy'.at = "stamped" => busy'.time = now + Minute
    BY <1>3
  <2> QED BY <2>1, <2>2, LoginAssumption DEF StampAgrees
<1>14. Handling'
  BY <1>1, <1>3, <1>13 DEF Inv, Handling, CreatingAgrees, Creating, Running, process
<1> QED BY <1>8, <1>9, <1>10, <1>12, <1>14 DEF Inv

-----------------------------------------------------------------------------

LEMMA InitInv == Init => Inv
<1> SUFFICES ASSUME Init PROVE Inv
  OBVIOUS
<1>1. TypeOK
  <2>1. busy \in [at : Place, conn : Nat, time : Nat, pass : Password \cup {None}]
    BY DEF Init, Idle, Place
  <2>2. given \in [Key -> [user : Name, pass : Password \cup {None}]]
    BY DEF Init, Name
  <2>3. servers \in {"absent", "empty", "filled"}
    BY LoginAssumption DEF Init
  <2>4. access \in [Name -> [key : Key \cup {Zero, None}, until : Nat]]
    BY DEF Init
  <2>5. /\ user \in [Conn -> Name] /\ ok \in [Conn -> Key \cup {Zero}]
        /\ socket \in [Conn -> Client \cup {None}] /\ told \in [Key -> Client \cup {None}]
        /\ client \in [Client -> {"off", "on", "gone"}]
    BY DEF Init, Name
  <2>6. /\ account \in [Account -> {"absent", "folder", "empty"} \cup Password]
        /\ owner \in [Account -> Password \cup {None}]
    BY DEF Init
  <2>7. /\ busy = Idle /\ now \in Nat /\ now > 0 /\ cut \subseteq Account
        /\ kills \in Nat /\ fails \in Nat
    BY DEF Init
  <2>8. fault \in {"none", "absent", "open"}
    BY DEF Init
  <2>9. up \in BOOLEAN /\ listCut \in BOOLEAN
    BY Zenon DEF Init
  <2> QED BY <2>1, <2>2, <2>3, <2>4, <2>5, <2>6, <2>7, <2>8, <2>9 DEF TypeOK
<1>2. SessionAgrees /\ Rights
  BY LoginAssumption DEF Init, SessionAgrees, Rights, GrantedByPassword, GivenWhole,
     KeysOfAccount, Name
<1>3. Underway = {}
  BY DEF Init, Underway, Idle
<1>4. Files /\ Handling
  BY <1>3, LoginAssumption DEF Init, Files, HalfMadeIsCut, HashIsOwners, EmptyListCause,
     FaultCause, Handling, CreatingAgrees, Creating, StampAgrees, Running, Idle
<1> QED BY <1>1, <1>2, <1>4 DEF Inv

LEMMA HandlerInv == ASSUME Inv, NEW c \in Conn, Handler(c) PROVE Inv'
<1>1. ASSUME NEW a \in Account, NEW p \in Password, Auth(c, a, p) PROVE Inv'
  BY <1>1, GrantedKeeps, DropKeeps, MakeFolderKeeps, EndKeeps DEF Auth
<1>2. CASE OnClosed(c) \/ OpenAccessFails(c)
  BY <1>2, DropKeeps
<1>3. CASE CreateHashFile(c) \/ CreateHashFileFails(c) \/ StoreHash(c) \/ StoreHashFails(c)
  BY <1>3, CreateKeeps, EndKeeps, StoreKeeps
<1>4. CASE CreateList(c) \/ WriteList(c) \/ OpenAccess(c) \/ StampAccess(c) \/ WriteAccess(c)
  BY <1>4, ListKeeps, AccessKeeps
<1> QED BY <1>1, <1>2, <1>3, <1>4 DEF Handler

LEMMA StutterInv == Inv /\ UNCHANGED vars => Inv'
<1> SUFFICES ASSUME Inv, UNCHANGED vars PROVE Inv'
  OBVIOUS
<1>1. /\ UNCHANGED <<disk, process, busy, clients, now, history>>
      /\ UNCHANGED <<up, socket, user, ok, client, told, given, owner, cut, listCut, fault,
                     kills, fails>>
  BY DEF vars, process, clients, history
<1>2. fails' \in Nat /\ fails' >= fails /\ now' \in Nat /\ now' >= now
  BY <1>1 DEF Inv, TypeOK
<1>3. Files' /\ Rights' /\ Handling'
  BY <1>1, <1>2, QuietKeeps
<1>4. TypeOK' /\ SessionAgrees'
  BY <1>1 DEF Inv, TypeOK, SessionAgrees, disk
<1> QED BY <1>3, <1>4 DEF Inv

LEMMA NextInv == Inv /\ [Next]_vars => Inv'
<1> SUFFICES ASSUME Inv, [Next]_vars PROVE Inv'
  OBVIOUS
<1>1. CASE Kill
  <2>1. Stop /\ UNCHANGED <<disk, told, given, now, owner, fault, fails>>
        /\ kills' = kills + 1 /\ up
    BY <1>1 DEF Kill
  <2>2. kills' \in Nat /\ fails' \in Nat /\ fails' >= fails /\ fault' = "none"
    BY <2>1 DEF Inv, TypeOK, Handling, Running
  <2> QED BY <2>1, <2>2, StopKeeps
<1> QED BY <1>1, ConnKeeps, HandlerInv, TickKeeps, StutterInv DEF Next

\* The invariant holds in every state.
THEOREM Invariance == Spec => []Inv
BY InitInv, NextInv, PTL DEF Spec

\* The variables keep their types, whichever requests come in whichever order.
THEOREM Typing == Spec => []TypeOK
<1>1. Inv => TypeOK
  BY DEF Inv
<1> QED BY <1>1, Invariance, PTL

\* A connection holds nothing, or its own name and the keys issued for it, whoever had the
\* connection before (find_connection).
THEOREM Sessions == Spec => []SessionAgrees
<1>1. Inv => SessionAgrees
  BY DEF Inv
<1> QED BY <1>1, Invariance, PTL

\* Keys are issued only for the password the account was created with.
THEOREM Granted == Spec => []GrantedByPassword
<1>1. Inv => GrantedByPassword
  BY DEF Inv, Rights
<1> QED BY <1>1, Invariance, PTL

\* The keys in the file of an account were issued for the account.
THEOREM Keys == Spec => []KeysOfAccount
<1>1. Inv => KeysOfAccount
  BY DEF Inv, Rights
<1> QED BY <1>1, Invariance, PTL

\* Accounts without a hash are those whose creation was cut short, or is under way.
THEOREM HalfMade == Spec => []HalfMadeIsCut
<1>1. Inv => HalfMadeIsCut
  BY DEF Inv, Files
<1> QED BY <1>1, Invariance, PTL

\* The process ends by itself only over an account left half-made, or over a file that
\* could not be opened or created.
THEOREM Faults == Spec => []FaultCause
<1>1. Inv => FaultCause
  BY DEF Inv, Files
<1> QED BY <1>1, Invariance, PTL

\* An empty list of servers is being written, or its writing was cut short.
THEOREM EmptyList == Spec => []EmptyListCause
<1>1. Inv => EmptyListCause
  BY DEF Inv, Files
<1> QED BY <1>1, Invariance, PTL

\* handle_auth_request drops nobody that knows the password of a sound account.
THEOREM Refused == Spec => RefusedForCause
<1>1. Inv /\ [Next]_vars =>
        [\A c \in Conn, a \in Account, p \in Password :
           AuthRefused(c, a, p) => p # owner[a] \/ a \in cut]_vars
  <2> SUFFICES ASSUME Inv, NEW c \in Conn, NEW a \in Account, NEW p \in Password,
                      AuthRefused(c, a, p), p = owner[a], a \notin cut
               PROVE  FALSE
    OBVIOUS
  <2>1. account[a] \in Password
    BY LoginAssumption DEF Inv, Files, HashIsOwners
  <2>2. account[a] = p
    BY <2>1 DEF Inv, Files, HashIsOwners
  <2> QED BY <2>2 DEF AuthRefused
<1> QED BY <1>1, Invariance, PTL DEF Spec, RefusedForCause

\* No step replaces a stored hash.
THEOREM Kept == Spec => PasswordKept
<1>1. Inv /\ [Next]_vars =>
        [\A a \in Account : account[a] \in Password => account'[a] = account[a]]_vars
  <2> SUFFICES ASSUME Inv, Next, NEW a \in Account, account[a] \in Password
               PROVE  account'[a] = account[a]
    BY DEF vars
  <2> USE LoginAssumption
  <2>1. ASSUME NEW c \in Conn, NEW b \in Account, NEW p \in Password, Auth(c, b, p)
        PROVE  account'[a] = account[a]
    <3>1. MakeFolder(c, b, p) => a # b /\ account'[a] = account[a]
      BY DEF MakeFolder, Inv, TypeOK
    <3>2. ~MakeFolder(c, b, p) => account' = account
      BY <2>1 DEF Auth, AuthGranted, AuthRefused, AuthNoFile, AuthUnopened, disk
    <3> QED BY <3>1, <3>2
  <2>2. ASSUME NEW c \in Conn, CreateHashFile(c) PROVE account'[a] = account[a]
    <3>1. account[user[c]] = "folder" /\ account' = [account EXCEPT ![user[c]] = "empty"]
      BY <2>2 DEF CreateHashFile
    <3> QED BY <3>1 DEF Inv, TypeOK
  <2>3. ASSUME NEW c \in Conn, StoreHash(c) PROVE account'[a] = account[a]
    <3>1. busy.at = "opened" /\ busy.conn = c
          /\ account' = [account EXCEPT ![user[c]] = busy.pass]
      BY <2>3 DEF StoreHash, At
    <3>2. account[user[c]] = "empty"
      BY <3>1 DEF Inv, Handling, CreatingAgrees, Creating
    <3> QED BY <3>1, <3>2 DEF Inv, TypeOK
  <2>4. ASSUME NEW c \in Conn,
               OnClosed(c) \/ CreateHashFileFails(c) \/ StoreHashFails(c) \/ CreateList(c)
                 \/ WriteList(c) \/ OpenAccess(c) \/ OpenAccessFails(c) \/ StampAccess(c)
                 \/ WriteAccess(c)
        PROVE  account' = account
    BY <2>4 DEF OnClosed, CreateHashFileFails, StoreHashFails, CreateList, WriteList,
       OpenAccess, OpenAccessFails, StampAccess, WriteAccess, disk
  <2>5. ASSUME NEW k \in Client, Leave(k) \/ OnConnFull(k) \/ \E c \in Conn : OnConn(k, c)
        PROVE  account' = account
    BY <2>5 DEF Leave, OnConnFull, OnConn, disk
  <2>6. Kill \/ Restart \/ Tick => account' = account
    BY DEF Kill, Restart, Tick, disk
  <2> QED BY <2>1, <2>2, <2>3, <2>4, <2>5, <2>6 DEF Next, Handler
<1> QED BY <1>1, Invariance, PTL DEF Spec, PasswordKept

-----------------------------------------------------------------------------
(* Part 2: the handover to the game server *)

\* The keys that k shows were issued for the name it shows and the password of the account.
CardGood(k) ==
    IF card[k].name = None THEN card[k].key = Zero
    ELSE /\ card[k].key \in Key
         /\ told[card[k].key] = k
         /\ given[card[k].key] = [user |-> card[k].name, pass |-> owner[card[k].name]]

\* A card that was read in full stays good; an expiry is known only in handle_auth.
CardAgrees ==
    \A k \in Client : /\ door[k] # "shown" => seen[k] = 0
                      /\ door[k] = "in" \/ seen[k] > 0 => CardGood(k)

\* The inductive invariant of the two servers.
HInv == Inv /\ DoorTypeOK /\ CardAgrees

-----------------------------------------------------------------------------
(* What a step of the login server does to keys that were issued *)

LEMMA GrantKeepsGiven ==
    ASSUME Inv, NEW c \in Conn, NEW a, NEW p, Grant(c, a, p),
           NEW x \in Key, given[x].user \in Account
    PROVE  given'[x] = given[x] /\ told'[x] = told[x]
<1>1. PICK y \in Key :
        /\ given[y].user = None
        /\ given' = [given EXCEPT ![y] = [user |-> a, pass |-> p]]
        /\ told' = [told EXCEPT ![y] = IF client[socket[c]] = "on" THEN socket[c] ELSE None]
  BY DEF Grant
<1>2. x # y
  BY <1>1, LoginAssumption
<1> QED BY <1>1, <1>2 DEF Inv, TypeOK

\* Keys, once issued, stay with their client, their name and their password.
LEMMA IssuedStays ==
    ASSUME Inv, [Next]_vars, NEW x \in Key, given[x].user \in Account
    PROVE  /\ given'[x] = given[x] /\ told'[x] = told[x]
           /\ owner'[given[x].user] = owner[given[x].user]
<1> DEFINE Stays == /\ given'[x] = given[x] /\ told'[x] = told[x]
                    /\ owner'[given[x].user] = owner[given[x].user]
<1>1. ASSUME NEW c \in Conn, NEW a \in Account, NEW p \in Password, AuthGranted(c, a, p)
      PROVE  Stays
  BY <1>1, GrantKeepsGiven DEF AuthGranted, history
<1>2. ASSUME NEW c \in Conn, StoreHash(c) \/ StoreHashFails(c) PROVE Stays
  <2>1. /\ Grant(c, user[c], busy.pass) /\ At(c, "opened")
        /\ owner' = [owner EXCEPT ![user[c]] = busy.pass]
    BY <1>2 DEF StoreHash, StoreHashFails
  <2>2. owner[user[c]] = None
    BY <2>1 DEF At, Inv, Handling, CreatingAgrees, Creating
  <2>3. owner[given[x].user] \in Password
    BY DEF Inv, Rights, GrantedByPassword, GivenWhole
  <2>4. owner'[given[x].user] = owner[given[x].user]
    BY <2>1, <2>2, <2>3, LoginAssumption DEF Inv, TypeOK
  <2> QED BY <2>1, <2>4, GrantKeepsGiven
<1>3. ASSUME NEW c \in Conn, NEW a \in Account, NEW p \in Password,
             \/ AuthRefused(c, a, p) \/ MakeFolder(c, a, p) \/ AuthNoFile(c, a)
             \/ AuthUnopened(c, a)
      PROVE  Stays
  BY <1>3 DEF AuthRefused, MakeFolder, AuthNoFile, AuthUnopened, history, clients
<1>4. ASSUME NEW c \in Conn,
             \/ OnClosed(c) \/ CreateHashFile(c) \/ CreateHashFileFails(c)
             \/ CreateList(c) \/ WriteList(c) \/ OpenAccess(c) \/ OpenAccessFails(c)
             \/ StampAccess(c) \/ WriteAccess(c)
      PROVE  Stays
  BY <1>4 DEF OnClosed, CreateHashFile, CreateHashFileFails, CreateList, WriteList,
     OpenAccess, OpenAccessFails, StampAccess, WriteAccess, history, clients
<1>5. ASSUME NEW k \in Client, Leave(k) \/ OnConnFull(k) \/ \E c \in Conn : OnConn(k, c)
      PROVE  Stays
  BY <1>5 DEF Leave, OnConnFull, OnConn, history
<1>6. CASE Kill \/ Restart \/ Tick
  BY <1>6 DEF Kill, Restart, Tick, history, clients
<1>7. CASE UNCHANGED vars
  BY <1>7 DEF vars, history, clients
<1> QED BY <1>1, <1>2, <1>3, <1>4, <1>5, <1>6, <1>7 DEF Next, Handler, Auth

LEMMA GoodStays ==
    ASSUME Inv, DoorTypeOK, [Next]_vars, NEW k \in Client, CardGood(k), card'[k] = card[k]
    PROVE  CardGood(k)'
<1>1. CASE card[k].name = None
  BY <1>1 DEF CardGood
<1>2. CASE card[k].name # None
  <2>1. /\ card[k].key \in Key /\ told[card[k].key] = k
        /\ given[card[k].key] = [user |-> card[k].name, pass |-> owner[card[k].name]]
    BY <1>2 DEF CardGood
  <2>2. given[card[k].key].user = card[k].name /\ card[k].name \in Account
    BY <1>2, <2>1 DEF DoorTypeOK, Name
  <2>3. /\ given'[card[k].key] = given[card[k].key] /\ told'[card[k].key] = told[card[k].key]
        /\ owner'[card[k].name] = owner[card[k].name]
    BY <2>1, <2>2, IssuedStays
  <2> QED BY <1>2, <2>1, <2>3 DEF CardGood
<1> QED BY <1>1, <1>2

-----------------------------------------------------------------------------
(* The steps of the login server, as Tickets sees them *)

\* Tickets sees a step, or sees nothing.
TicketsStep == T!Next \/ UNCHANGED T!vars

Entering == busy.at \in {"truncated", "stamped"}

\* The file and the order stay as they are.
LEMMA SameTicket ==
    ASSUME HInv, UNCHANGED doorVars, access' = access, orderedBar' = orderedBar,
           \/ fails' \in {fails, fails + 1} /\ now' = now
           \/ fails' = fails /\ now' = now + 1
    PROVE  TicketsStep
<1>1. validBar' = validBar /\ untilBar' = untilBar
  BY DEF validBar, untilBar
<1>2. doorBar' = doorBar /\ card' = card /\ seen' = seen
  BY DEF doorBar, doorVars
<1>3. CASE fails' = fails /\ now' = now
  BY <1>1, <1>2, <1>3 DEF TicketsStep, T!vars, T!tickets
<1>4. CASE fails' = fails + 1 /\ now' = now
  BY <1>1, <1>2, <1>4 DEF TicketsStep, T!Next, T!Fail, T!tickets
<1>5. CASE fails' = fails /\ now' = now + 1
  BY <1>1, <1>2, <1>5 DEF TicketsStep, T!Next, T!Wait, T!tickets
<1> QED BY <1>3, <1>4, <1>5

LEMMA NoOrder == ~Entering => orderedBar = [n \in Name |-> None]
BY DEF orderedBar, Ordering, Entering

LEMMA OneOrder ==
    ASSUME HInv, Entering
    PROVE  /\ busy # Idle /\ busy.conn \in Conn /\ user[busy.conn] \in Name
           /\ orderedBar[user[busy.conn]] = ok[busy.conn] /\ ok[busy.conn] # None
           /\ \A n \in Name \ {user[busy.conn]} : orderedBar[n] = None
<1>1. busy # Idle
  BY DEF Entering, Idle
<1>2. busy.conn \in Conn /\ user[busy.conn] \in Name /\ ok[busy.conn] \in Key \cup {Zero}
  BY <1>1 DEF HInv, Inv, TypeOK
<1> QED BY <1>1, <1>2, LoginAssumption DEF orderedBar, Ordering, Entering

\* No order is under way, before and after.
LEMMA PlainStep ==
    ASSUME HInv, UNCHANGED doorVars, access' = access, ~Entering, ~Entering',
           fails' \in {fails, fails + 1}, now' = now
    PROVE  TicketsStep
<1>1. orderedBar = [n \in Name |-> None]
  BY NoOrder
<1>2. orderedBar' = [n \in Name |-> None]
  BY DEF orderedBar, Ordering, Entering
<1> QED BY <1>1, <1>2, SameTicket

\* An order that is under way comes to nothing.
LEMMA LoseStep ==
    ASSUME HInv, UNCHANGED doorVars, access' = access, Entering, ~Entering',
           fails' \in {fails, fails + 1}, now' = now
    PROVE  TicketsStep
<1> DEFINE n == user[busy.conn]
<1>1. /\ n \in Name /\ orderedBar[n] # None
      /\ \A m \in Name \ {n} : orderedBar[m] = None
  BY OneOrder
<1>2. orderedBar' = [m \in Name |-> None]
  BY DEF orderedBar, Ordering, Entering
<1>3. orderedBar = [m \in Name |-> orderedBar[m]]
  BY DEF orderedBar
<1> HIDE DEF n
<1>4. orderedBar' = [orderedBar EXCEPT ![n] = None]
  BY <1>1, <1>2, <1>3
<1>5. validBar' = validBar /\ untilBar' = untilBar
  BY DEF validBar, untilBar
<1>6. doorBar' = doorBar /\ card' = card /\ seen' = seen
  BY DEF doorBar, doorVars
<1>7. T!Lose(n)
  BY <1>1, <1>4, <1>5, <1>6 DEF T!Lose
<1> QED BY <1>1, <1>7 DEF TicketsStep, T!Next

LEMMA StopStep ==
    ASSUME HInv, UNCHANGED doorVars, Stop, access' = access,
           fails' \in {fails, fails + 1}, now' = now
    PROVE  TicketsStep
<1>1. ~Entering'
  BY DEF Stop, Entering, Idle
<1> QED BY <1>1, PlainStep, LoseStep

\* fopen(access_path, "w") is the order of a ticket, which voids the one that is there.
LEMMA OpenAccessStep ==
    ASSUME HInv, UNCHANGED doorVars, NEW c \in Conn, OpenAccess(c)
    PROVE  TicketsStep
<1> DEFINE n == user[c]
<1>1. /\ busy = Idle /\ busy' = [at |-> "truncated", conn |-> c, time |-> 0, pass |-> None]
      /\ access' = [access EXCEPT ![n] = [key |-> Zero, until |-> 0]]
      /\ user' = user /\ ok' = ok /\ now' = now /\ fails' = fails
  BY DEF OpenAccess, Request, Start, process, history
<1>2. n \in Name /\ ok[c] \in Key \cup {Zero}
  BY DEF HInv, Inv, TypeOK
<1>3. busy'.at = "truncated" /\ busy'.conn = c /\ user'[c] = n
  BY <1>1
<1>4. ~Entering
  BY <1>1 DEF Entering, Idle
<1>5. orderedBar = [m \in Name |-> None]
  BY <1>4, NoOrder
<1>6. orderedBar' = [m \in Name |-> IF m = n THEN ok[c] ELSE None]
  <2>1. \A m : Ordering(m)' <=> m = n
    BY <1>3 DEF Ordering
  <2>2. ok'[busy'.conn] = ok[c]
    BY <1>1, <1>3
  <2> QED BY <2>1, <2>2 DEF orderedBar
<1>7. access'[n].until = 0 /\ \A m \in Name \ {n} : access'[m] = access[m]
  BY <1>1, <1>2 DEF HInv, Inv, TypeOK
<1> HIDE DEF n
<1>8. orderedBar' = [orderedBar EXCEPT ![n] = ok[c]]
  BY <1>5, <1>6
<1>9. validBar' = [validBar EXCEPT ![n] = None]
  <2>1. ~(access'[n].until > 0)
    BY <1>7
  <2>2. validBar'[n] = None /\ \A m \in Name \ {n} : validBar'[m] = validBar[m]
    BY <1>2, <1>7, <2>1 DEF validBar
  <2>3. validBar = [m \in Name |-> validBar[m]] /\ validBar' = [m \in Name |-> validBar'[m]]
    BY DEF validBar
  <2> QED BY <2>2, <2>3
<1>10. untilBar' = [untilBar EXCEPT ![n] = 0]
  BY <1>7 DEF untilBar
<1>11. doorBar' = doorBar /\ card' = card /\ seen' = seen
  BY DEF doorBar, doorVars
<1>12. T!Order(n, ok[c])
  BY <1>1, <1>8, <1>9, <1>10, <1>11 DEF T!Order
<1> QED BY <1>2, <1>12 DEF TicketsStep, T!Next

\* fclose(access_file) issues it, or loses it when the write failed.
LEMMA WriteAccessStep ==
    ASSUME HInv, UNCHANGED doorVars, NEW c \in Conn, WriteAccess(c)
    PROVE  TicketsStep
<1>1. /\ busy.at = "stamped" /\ busy.conn = c /\ busy' = Idle /\ now' = now
      /\ user' = user /\ ok' = ok
  BY DEF WriteAccess, At, process
<1>2. Entering /\ ~Entering'
  BY <1>1 DEF Entering, Idle
<1>3. CASE access' = access /\ fails' = fails + 1
  BY <1>1, <1>2, <1>3, LoseStep
<1>4. CASE /\ access' = [access EXCEPT ![user[c]] = [key |-> ok[c], until |-> busy.time]]
           /\ fails' = fails
  <2> DEFINE n == user[c]
  <2>1. /\ n \in Name /\ orderedBar[n] = ok[c] /\ ok[c] # None
        /\ \A m \in Name \ {n} : orderedBar[m] = None
    BY <1>1, <1>2, OneOrder
  <2>2. orderedBar' = [m \in Name |-> None]
    BY <1>2 DEF orderedBar, Ordering, Entering
  <2>3. busy.time \in 1 .. now + Minute
    BY <1>1 DEF HInv, Inv, Handling, StampAgrees
  <2>4. /\ access'[n].key = ok[c] /\ access'[n].until = busy.time
        /\ \A m \in Name \ {n} : access'[m] = access[m]
    BY <1>4, <2>1 DEF HInv, Inv, TypeOK
  <2>5. orderedBar = [m \in Name |-> orderedBar[m]]
    BY DEF orderedBar
  <2> HIDE DEF n
  <2>6. orderedBar' = [orderedBar EXCEPT ![n] = None]
    BY <2>1, <2>2, <2>5
  <2>7. access'[n].until > 0
    BY <2>3, <2>4 DEF HInv, Inv, TypeOK
  <2>8. validBar' = [validBar EXCEPT ![n] = orderedBar[n]]
    BY <2>1, <2>4, <2>7 DEF validBar
  <2>9. untilBar' = [untilBar EXCEPT ![n] = busy.time]
    BY <2>4 DEF untilBar
  <2>10. doorBar' = doorBar /\ card' = card /\ seen' = seen
    BY DEF doorBar, doorVars
  <2>11. T!Issue(n)
    BY <1>1, <1>4, <2>1, <2>3, <2>6, <2>8, <2>9, <2>10 DEF T!Issue
  <2> QED BY <2>1, <2>11 DEF TicketsStep, T!Next
<1> QED BY <1>3, <1>4 DEF WriteAccess, Fails

LEMMA LoginStep == ASSUME HInv, Login PROVE TicketsStep
<1>1. ASSUME NEW k \in Client, Leave(k) \/ OnConnFull(k) \/ \E c \in Conn : OnConn(k, c)
      PROVE  TicketsStep
  <2>1. access' = access /\ fails' = fails /\ now' = now /\ busy' = busy
    BY <1>1 DEF Leave, OnConnFull, OnConn, disk, history
  <2>2. orderedBar' = orderedBar
    <3>1. CASE Leave(k) \/ OnConnFull(k)
      BY <2>1, <3>1 DEF Leave, OnConnFull, process, orderedBar, Ordering
    <3>2. CASE \E c \in Conn : OnConn(k, c)
      <4>1. ~Entering /\ ~Entering'
        BY <2>1, <3>2 DEF OnConn, Entering, Idle
      <4> QED BY <4>1 DEF orderedBar, Ordering, Entering
    <3> QED BY <1>1, <3>1, <3>2
  <2> QED BY <2>1, <2>2, SameTicket DEF Login
<1>2. ASSUME NEW c \in Conn, NEW a \in Account, NEW p \in Password,
             AuthGranted(c, a, p) \/ AuthRefused(c, a, p) \/ MakeFolder(c, a, p)
      PROVE  TicketsStep
  <2>1. access' = access /\ fails' \in {fails, fails + 1} /\ now' = now /\ ~Entering /\ ~Entering'
    BY <1>2 DEF AuthGranted, AuthRefused, MakeFolder, Request, Start, Fails, Entering, Idle,
       disk, history
  <2> QED BY <2>1, PlainStep DEF Login
<1>3. ASSUME NEW c \in Conn, NEW a \in Account, AuthNoFile(c, a) \/ AuthUnopened(c, a)
      PROVE  TicketsStep
  <2>1. Stop /\ access' = access /\ fails' \in {fails, fails + 1} /\ now' = now
    BY <1>3 DEF AuthNoFile, AuthUnopened, Fails, disk
  <2> QED BY <2>1, StopStep DEF Login
<1>4. ASSUME NEW c \in Conn, OnClosed(c) \/ OpenAccessFails(c) \/ CreateList(c)
      PROVE  TicketsStep
  <2>1. access' = access /\ fails' \in {fails, fails + 1} /\ now' = now /\ ~Entering /\ ~Entering'
    BY <1>4 DEF OnClosed, OpenAccessFails, CreateList, Request, Start, Fails, Entering, Idle,
       disk, history
  <2> QED BY <2>1, PlainStep DEF Login
<1>5. ASSUME NEW c \in Conn, \/ CreateHashFile(c) \/ StoreHash(c) \/ StoreHashFails(c)
                             \/ WriteList(c)
      PROVE  TicketsStep
  <2>1. access' = access /\ fails' \in {fails, fails + 1} /\ now' = now
    BY <1>5 DEF CreateHashFile, StoreHash, StoreHashFails, WriteList, Fails, disk, history
  <2>2. /\ busy.at \in {"made", "opened", "listing"}
        /\ busy'.at = "opened" \/ busy'.at = "idle"
    BY <1>5 DEF CreateHashFile, StoreHash, StoreHashFails, WriteList, At, Idle, HInv, Inv, TypeOK
  <2>3. ~Entering /\ ~Entering'
    BY <2>2 DEF Entering
  <2> QED BY <2>1, <2>3, PlainStep DEF Login
<1>6. ASSUME NEW c \in Conn, CreateHashFileFails(c) PROVE TicketsStep
  <2>1. Stop /\ access' = access /\ fails' \in {fails, fails + 1} /\ now' = now
    BY <1>6 DEF CreateHashFileFails, Fails, disk
  <2> QED BY <2>1, StopStep DEF Login
<1>7. ASSUME NEW c \in Conn, OpenAccess(c) \/ WriteAccess(c) PROVE TicketsStep
  BY <1>7, OpenAccessStep, WriteAccessStep DEF Login
<1>8. ASSUME NEW c \in Conn, StampAccess(c) PROVE TicketsStep
  <2>1. /\ busy.at = "truncated" /\ busy' = [busy EXCEPT !.at = "stamped", !.time = now + Minute]
        /\ user' = user /\ ok' = ok /\ access' = access /\ now' = now /\ fails' = fails
    BY <1>8 DEF StampAccess, At, disk, process, history
  <2>2. busy'.at = "stamped" /\ busy'.conn = busy.conn
    BY <2>1 DEF HInv, Inv, TypeOK
  <2>3. orderedBar' = orderedBar
    BY <2>1, <2>2 DEF orderedBar, Ordering
  <2> QED BY <2>1, <2>3, SameTicket DEF Login
<1>9. CASE Kill
  <2>1. Stop /\ access' = access /\ fails' = fails /\ now' = now
    BY <1>9 DEF Kill, disk
  <2> QED BY <2>1, StopStep DEF Login
<1>10. CASE Restart \/ Tick
  <2>1. /\ access' = access /\ fails' = fails /\ orderedBar' = orderedBar
        /\ now' = now \/ now' = now + 1
    BY <1>10 DEF Restart, Tick, disk, process, history, orderedBar, Ordering
  <2> QED BY <2>1, SameTicket DEF Login
<1> QED BY <1>1, <1>2, <1>3, <1>4, <1>5, <1>6, <1>7, <1>8, <1>9, <1>10
        DEF Login, Next, Handler, Auth

-----------------------------------------------------------------------------
(* The steps of the game server *)

\* It writes nothing that the login server reads.
LEMMA DoorKeepsInv ==
    ASSUME HInv, NEW k \in Client, HandleAuth(k) \/ LeaveGame(k)
    PROVE  Inv'
<1>1. CASE UNCHANGED vars
  BY <1>1, StutterInv DEF HInv
<1>2. CASE \E n \in Name, x \in Key \cup {Zero} : AccessUnopened(k, n, x)
  <2>1. /\ UNCHANGED <<disk, up, socket, user, ok, busy, client, told, given, now,
                       owner, cut, listCut, fault, kills>>
        /\ fails' = fails + 1
    BY <1>2 DEF AccessUnopened, Fails, process, clients
  <2>2. fails' \in Nat /\ fails' >= fails /\ now' \in Nat /\ now' >= now
    BY <2>1 DEF HInv, Inv, TypeOK
  <2>3. Files' /\ Rights' /\ Handling'
    BY <2>1, <2>2, QuietKeeps DEF HInv
  <2>4. TypeOK' /\ SessionAgrees'
    BY <2>1, <2>2 DEF HInv, Inv, TypeOK, SessionAgrees, disk
  <2> QED BY <2>3, <2>4 DEF Inv
<1> QED BY <1>1, <1>2 DEF HandleAuth, ReadAccess, CheckExpiry, LeaveGame

\* Keys that are found in the file of the name they are shown under are good.
LEMMA ReadKeys ==
    ASSUME HInv, NEW k \in Client, NEW n \in Name, NEW x \in Key \cup {Zero},
           Has(k, x), access[n].key = x, access[n].until > 0
    PROVE  /\ n = None => x = Zero
           /\ n # None => /\ x \in Key /\ told[x] = k
                          /\ given[x] = [user |-> n, pass |-> owner[n]]
<1>1. CASE n = None
  BY <1>1, LoginAssumption DEF HInv, Inv, Rights, KeysOfAccount
<1>2. CASE n # None
  <2>1. n \in Account
    BY <1>2 DEF Name
  <2>2. x \in Key
    BY <2>1 DEF HInv, Inv, Rights, KeysOfAccount
  <2>3. told[x] = k
    BY <2>2, LoginAssumption DEF Has
  <2>4. given[x].user = n /\ given[x].pass = owner[n]
    BY <2>1, <2>2 DEF HInv, Inv, Rights, KeysOfAccount, GrantedByPassword
  <2>5. given[x] \in [user : Name, pass : Password \cup {None}]
    BY <2>2 DEF HInv, Inv, TypeOK
  <2> QED BY <1>2, <2>2, <2>3, <2>4, <2>5
<1> QED BY <1>1, <1>2

\* The files and the orders stay as they are.
LEMMA DoorKeepsFiles ==
    ASSUME UNCHANGED <<access, busy, user, ok, now>>
    PROVE  UNCHANGED <<orderedBar, validBar, untilBar, now>>
BY DEF orderedBar, validBar, untilBar, Ordering

LEMMA ReadAccessStep ==
    ASSUME HInv, NEW k \in Client, NEW n \in Name, NEW x \in Key \cup {Zero}, ReadAccess(k, n, x)
    PROVE  DoorTypeOK' /\ CardAgrees' /\ TicketsStep
<1>1. /\ door[k] = "out" /\ Has(k, x) /\ UNCHANGED vars /\ seen[k] = 0
      /\ door \in [Client -> {"out", "shown", "in", "refused"}] /\ seen \in [Client -> Nat]
      /\ card \in [Client -> [name : Name, key : Key \cup {Zero}]]
      /\ card' = [card EXCEPT ![k] = [name |-> n, key |-> x]]
  BY DEF ReadAccess, HInv, DoorTypeOK, CardAgrees
<1>2. /\ UNCHANGED <<orderedBar, validBar, untilBar, now>>
      /\ UNCHANGED <<told, given, owner, fails>>
  BY <1>1, DoorKeepsFiles DEF vars, disk, process, clients, history
<1>3. access[n].until \in Nat /\ x # None
  BY LoginAssumption DEF HInv, Inv, TypeOK
<1>4. \A j \in Client \ {k} : CardGood(j) /\ card'[j] = card[j] => CardGood(j)'
  BY <1>2 DEF CardGood
<1>5. CASE access[n].key = x
  <2>1. /\ door' = [door EXCEPT ![k] = "shown"]
        /\ seen' = [seen EXCEPT ![k] = access[n].until]
    BY <1>5 DEF ReadAccess
  <2>2. DoorTypeOK'
    BY <1>1, <1>3, <2>1 DEF DoorTypeOK
  <2>3. /\ door'[k] = "shown" /\ seen'[k] = access[n].until
        /\ card'[k].name = n /\ card'[k].key = x
        /\ \A j \in Client \ {k} : /\ door'[j] = door[j] /\ seen'[j] = seen[j]
                                   /\ card'[j] = card[j]
    BY <1>1, <2>1
  <2>4. seen'[k] > 0 => CardGood(k)'
    BY <1>1, <1>2, <1>5, <2>3, ReadKeys DEF CardGood
  <2>5. CardAgrees'
    BY <1>4, <2>3, <2>4 DEF HInv, CardAgrees
  <2>6. ASSUME access[n].until > 0 PROVE TicketsStep
    <3>1. validBar[n] = x /\ untilBar[n] = access[n].until
      BY <1>5, <2>6 DEF validBar, untilBar
    <3>2. doorBar[k] = "out" /\ doorBar' = [doorBar EXCEPT ![k] = "shown"]
      <4>1. doorBar'[k] = "shown"
        BY <2>3, <2>6 DEF doorBar
      <4>2. \A j \in Client \ {k} : doorBar'[j] = doorBar[j]
        BY <2>3 DEF doorBar
      <4>3. doorBar = [j \in Client |-> doorBar[j]] /\ doorBar' = [j \in Client |-> doorBar'[j]]
        BY DEF doorBar
      <4>4. doorBar[k] = "out"
        BY <1>1 DEF doorBar
      <4> QED BY <4>1, <4>2, <4>3, <4>4
    <3>3. T!Present(k, n, x)
      BY <1>1, <1>2, <2>1, <3>1, <3>2 DEF T!Present, T!Pass, T!tickets
    <3> QED BY <3>2, <3>3 DEF TicketsStep, T!Next, T!Visit
  <2>7. ASSUME access[n].until = 0 PROVE TicketsStep
    <3>1. validBar[n] # x
      BY <1>3, <2>7 DEF validBar
    <3>2. doorBar[k] = "out" /\ doorBar' = [doorBar EXCEPT ![k] = "refused"]
      <4>1. doorBar'[k] = "refused"
        BY <2>3, <2>7 DEF doorBar
      <4>2. \A j \in Client \ {k} : doorBar'[j] = doorBar[j]
        BY <2>3 DEF doorBar
      <4>3. doorBar = [j \in Client |-> doorBar[j]] /\ doorBar' = [j \in Client |-> doorBar'[j]]
        BY DEF doorBar
      <4>4. doorBar[k] = "out"
        BY <1>1 DEF doorBar
      <4> QED BY <4>1, <4>2, <4>3, <4>4
    <3>3. seen' = seen
      BY <1>1, <2>1, <2>7
    <3>4. T!Present(k, n, x)
      BY <1>1, <1>2, <3>1, <3>2, <3>3 DEF T!Present, T!Pass, T!tickets
    <3> QED BY <3>2, <3>4 DEF TicketsStep, T!Next, T!Visit
  <2>8. TicketsStep
    BY <1>3, <2>6, <2>7
  <2> QED BY <2>2, <2>5, <2>8
<1>6. CASE access[n].key # x
  <2>1. door' = [door EXCEPT ![k] = "refused"] /\ seen' = seen
    BY <1>6 DEF ReadAccess
  <2>2. DoorTypeOK'
    BY <1>1, <2>1 DEF DoorTypeOK
  <2>3. /\ door'[k] = "refused"
        /\ \A j \in Client \ {k} : door'[j] = door[j] /\ card'[j] = card[j]
    BY <1>1, <2>1
  <2>4. CardAgrees'
    BY <1>1, <1>4, <2>1, <2>3 DEF HInv, CardAgrees
  <2>5. validBar[n] # x
    BY <1>3, <1>6 DEF validBar
  <2>6. doorBar[k] = "out" /\ doorBar' = [doorBar EXCEPT ![k] = "refused"]
    <3>1. doorBar'[k] = "refused" /\ \A j \in Client \ {k} : doorBar'[j] = doorBar[j]
      BY <2>1, <2>3 DEF doorBar
    <3>2. doorBar = [j \in Client |-> doorBar[j]] /\ doorBar' = [j \in Client |-> doorBar'[j]]
      BY DEF doorBar
    <3>3. doorBar[k] = "out"
      BY <1>1 DEF doorBar
    <3> QED BY <3>1, <3>2, <3>3
  <2>7. T!Present(k, n, x)
    BY <1>1, <1>2, <2>1, <2>5, <2>6 DEF T!Present, T!Pass, T!tickets
  <2> QED BY <2>2, <2>4, <2>6, <2>7 DEF TicketsStep, T!Next, T!Visit
<1> QED BY <1>5, <1>6

LEMMA AccessUnopenedStep ==
    ASSUME HInv, NEW k \in Client, NEW n \in Name, NEW x \in Key \cup {Zero},
           AccessUnopened(k, n, x)
    PROVE  DoorTypeOK' /\ CardAgrees' /\ TicketsStep
<1>1. /\ door[k] = "out" /\ seen[k] = 0 /\ fails' = fails + 1
      /\ door' = [door EXCEPT ![k] = "refused"]
      /\ card' = [card EXCEPT ![k] = [name |-> n, key |-> x]]
      /\ UNCHANGED <<disk, process, busy, clients, now, seen, owner>>
      /\ door \in [Client -> {"out", "shown", "in", "refused"}]
      /\ card \in [Client -> [name : Name, key : Key \cup {Zero}]]
  BY DEF AccessUnopened, Fails, HInv, DoorTypeOK, CardAgrees
<1>2. UNCHANGED <<orderedBar, validBar, untilBar, now>> /\ UNCHANGED <<told, given, owner>>
  BY <1>1, DoorKeepsFiles DEF disk, process, clients
<1>3. /\ door'[k] = "refused"
      /\ \A j \in Client \ {k} : door'[j] = door[j] /\ card'[j] = card[j]
  BY <1>1
<1>4. DoorTypeOK'
  BY <1>1 DEF HInv, DoorTypeOK
<1>5. \A j \in Client \ {k} : CardGood(j) => CardGood(j)'
  BY <1>2, <1>3 DEF CardGood
<1>6. CardAgrees'
  BY <1>1, <1>3, <1>5 DEF HInv, CardAgrees
<1>7. doorBar[k] = "out" /\ doorBar' = [doorBar EXCEPT ![k] = "refused"]
  <2>1. doorBar'[k] = "refused" /\ \A j \in Client \ {k} : doorBar'[j] = doorBar[j]
    BY <1>1, <1>3 DEF doorBar
  <2>2. doorBar = [j \in Client |-> doorBar[j]] /\ doorBar' = [j \in Client |-> doorBar'[j]]
    BY DEF doorBar
  <2>3. doorBar[k] = "out"
    BY <1>1 DEF doorBar
  <2> QED BY <2>1, <2>2, <2>3
<1>8. T!Present(k, n, x)
  BY <1>1, <1>2, <1>7 DEF T!Present, T!Pass, T!tickets
<1> QED BY <1>4, <1>6, <1>7, <1>8 DEF TicketsStep, T!Next, T!Visit

LEMMA CheckExpiryStep ==
    ASSUME HInv, NEW k \in Client, CheckExpiry(k)
    PROVE  DoorTypeOK' /\ CardAgrees' /\ TicketsStep
<1>1. /\ door[k] = "shown" /\ UNCHANGED vars /\ card' = card
      /\ seen' = [seen EXCEPT ![k] = 0]
      /\ door' = [door EXCEPT ![k] = IF seen[k] < now THEN "refused" ELSE "in"]
      /\ door \in [Client -> {"out", "shown", "in", "refused"}] /\ seen \in [Client -> Nat]
  BY DEF CheckExpiry, HInv, DoorTypeOK
<1>2. UNCHANGED <<orderedBar, validBar, untilBar, now>>
      /\ UNCHANGED <<told, given, owner, fails>>
  BY <1>1, DoorKeepsFiles DEF vars, disk, process, clients, history
<1>3. now \in Nat /\ now > 0 /\ seen[k] \in Nat
  BY <1>1 DEF HInv, Inv, TypeOK
<1>4. \A j \in Client : CardGood(j) => CardGood(j)'
  BY <1>1, <1>2 DEF CardGood
<1>5. /\ seen'[k] = 0 /\ door'[k] \in {"refused", "in"}
      /\ \A j \in Client \ {k} : door'[j] = door[j] /\ seen'[j] = seen[j]
  BY <1>1
<1>6. DoorTypeOK'
  BY <1>1 DEF HInv, DoorTypeOK
<1>7. doorBar = [j \in Client |-> doorBar[j]] /\ doorBar' = [j \in Client |-> doorBar'[j]]
  BY DEF doorBar
<1>8. \A j \in Client \ {k} : doorBar'[j] = doorBar[j]
  BY <1>5 DEF doorBar
<1>9. CASE seen[k] < now
  <2>1. door'[k] = "refused"
    BY <1>1, <1>9
  <2>2. CardAgrees'
    BY <1>4, <1>5, <2>1 DEF HInv, CardAgrees
  <2>3. doorBar'[k] = "refused"
    BY <2>1 DEF doorBar
  <2>4. CASE seen[k] = 0
    <3>1. doorBar[k] = "refused"
      BY <1>1, <2>4 DEF doorBar
    <3>2. doorBar' = doorBar
      BY <1>7, <1>8, <2>3, <3>1
    <3>3. seen' = seen
      BY <1>1, <2>4
    <3>4. UNCHANGED T!vars
      BY <1>1, <1>2, <3>2, <3>3 DEF T!vars, T!tickets
    <3> QED BY <1>6, <2>2, <3>4 DEF TicketsStep
  <2>5. CASE seen[k] > 0
    <3>1. doorBar[k] = "shown"
      BY <1>1, <2>5 DEF doorBar
    <3>2. doorBar' = [doorBar EXCEPT ![k] = "refused"]
      BY <1>7, <1>8, <2>3
    <3>3. now > seen[k]
      BY <1>3, <1>9
    <3>4. T!Judge(k)
      BY <1>1, <1>2, <3>1, <3>2, <3>3 DEF T!Judge, T!Pass, T!tickets
    <3> QED BY <1>6, <2>2, <3>4 DEF TicketsStep, T!Next, T!Visit
  <2> QED BY <1>3, <2>4, <2>5
<1>10. CASE ~(seen[k] < now)
  <2>1. door'[k] = "in"
    BY <1>1, <1>10
  <2>2. seen[k] > 0 /\ now <= seen[k]
    BY <1>3, <1>10
  <2>3. CardGood(k)'
    BY <1>4, <2>2 DEF HInv, CardAgrees
  <2>4. CardAgrees'
    BY <1>4, <1>5, <2>1, <2>3 DEF HInv, CardAgrees
  <2>5. doorBar[k] = "shown" /\ doorBar'[k] = "in"
    BY <1>1, <2>1, <2>2 DEF doorBar
  <2>6. doorBar' = [doorBar EXCEPT ![k] = "in"]
    BY <1>7, <1>8, <2>5
  <2>7. T!Judge(k)
    BY <1>1, <1>2, <2>2, <2>5, <2>6 DEF T!Judge, T!Pass, T!tickets
  <2> QED BY <1>6, <2>4, <2>7 DEF TicketsStep, T!Next, T!Visit
<1> QED BY <1>9, <1>10

LEMMA LeaveGameStep ==
    ASSUME HInv, NEW k \in Client, LeaveGame(k)
    PROVE  DoorTypeOK' /\ CardAgrees' /\ TicketsStep
<1>1. /\ door[k] = "in" \/ door[k] = "refused"
      /\ UNCHANGED vars /\ seen' = seen
      /\ door' = [door EXCEPT ![k] = "out"] /\ card' = [card EXCEPT ![k] = Blank]
      /\ door \in [Client -> {"out", "shown", "in", "refused"}]
      /\ card \in [Client -> [name : Name, key : Key \cup {Zero}]]
  BY DEF LeaveGame, HInv, DoorTypeOK
<1>2. UNCHANGED <<orderedBar, validBar, untilBar, now>>
      /\ UNCHANGED <<told, given, owner, fails>>
  BY <1>1, DoorKeepsFiles DEF vars, disk, process, clients, history
<1>3. /\ door'[k] = "out" /\ seen[k] = 0
      /\ \A j \in Client \ {k} : door'[j] = door[j] /\ card'[j] = card[j]
  BY <1>1 DEF HInv, CardAgrees
<1>4. DoorTypeOK'
  BY <1>1 DEF HInv, DoorTypeOK, Blank, Name
<1>5. \A j \in Client \ {k} : CardGood(j) => CardGood(j)'
  BY <1>2, <1>3 DEF CardGood
<1>6. CardAgrees'
  BY <1>1, <1>3, <1>5 DEF HInv, CardAgrees
<1>7. doorBar' = [doorBar EXCEPT ![k] = "out"] /\ doorBar[k] = door[k]
  <2>1. doorBar'[k] = "out" /\ \A j \in Client \ {k} : doorBar'[j] = doorBar[j]
    BY <1>1, <1>3 DEF doorBar
  <2>2. doorBar = [j \in Client |-> doorBar[j]] /\ doorBar' = [j \in Client |-> doorBar'[j]]
    BY DEF doorBar
  <2>3. doorBar[k] = door[k]
    BY <1>1 DEF doorBar
  <2> QED BY <2>1, <2>2, <2>3
<1>8. T!Return(k)
  BY <1>1, <1>2, <1>7 DEF T!Return, T!Pass, T!tickets
<1> QED BY <1>4, <1>6, <1>8 DEF TicketsStep, T!Next, T!Visit

\* A step of the game server.
LEMMA DoorStep ==
    ASSUME HInv, NEW k \in Client, HandleAuth(k) \/ LeaveGame(k)
    PROVE  HInv' /\ TicketsStep
BY DoorKeepsInv, ReadAccessStep, AccessUnopenedStep, CheckExpiryStep, LeaveGameStep
   DEF HandleAuth, HInv

-----------------------------------------------------------------------------
(* The theorems *)

LEMMA InitHInv == HInit => HInv
<1> SUFFICES ASSUME HInit PROVE HInv
  OBVIOUS
<1>1. Inv
  BY InitInv DEF HInit
<1>2. DoorTypeOK
  BY DEF HInit, DoorTypeOK, Blank, Name
<1>3. CardAgrees
  BY DEF HInit, CardAgrees
<1> QED BY <1>1, <1>2, <1>3 DEF HInv

LEMMA LoginKeepsDoor ==
    ASSUME HInv, [Next]_vars, UNCHANGED doorVars
    PROVE  HInv'
<1>1. Inv'
  BY NextInv DEF HInv
<1>2. DoorTypeOK'
  BY DEF HInv, DoorTypeOK, doorVars
<1>3. \A k \in Client : CardGood(k) => CardGood(k)'
  BY GoodStays DEF HInv, doorVars
<1>4. CardAgrees'
  BY <1>3 DEF HInv, CardAgrees, doorVars
<1> QED BY <1>1, <1>2, <1>4 DEF HInv

LEMMA HNextInv == HInv /\ [HNext]_hvars => HInv'
<1>1. HInv /\ Login => HInv'
  BY LoginKeepsDoor DEF Login
<1>2. HInv /\ UNCHANGED hvars => HInv'
  BY LoginKeepsDoor DEF hvars
<1> QED BY <1>1, <1>2, DoorStep DEF HNext

\* The invariant of the two servers holds in every state.
THEOREM HandoverInvariance == HSpec => []HInv
BY InitHInv, HNextInv, PTL DEF HSpec

\* The variables of the door keep their types.
THEOREM DoorTyping == HSpec => []DoorTypeOK
<1>1. HInv => DoorTypeOK
  BY DEF HInv
<1> QED BY <1>1, HandoverInvariance, PTL

\* Whoever is in the game under the name of an account was sent keys for its password:
\* what one process checked (handle_auth_request) holds behind the door of the other
\* (handle_auth), in whatever order requests come; only the empty name needs none.
THEOREM Admitted == HSpec => []AdmittedByPassword
<1>1. HInv => AdmittedByPassword
  BY DEF HInv, CardAgrees, CardGood, AdmittedByPassword
<1> QED BY <1>1, HandoverInvariance, PTL

\* access.txt, written in three steps by one process and read by another, is a ticket that
\* admits for a minute; it is voided only by another order, and neither lost nor refused
\* but by a failure that is counted or the end of the login server.
THEOREM HandoverRefinement == HSpec => ImplementsTickets
<1>1. HInit => T!Init
  <2> SUFFICES ASSUME HInit PROVE T!Init
    OBVIOUS
  <2>1. orderedBar = [n \in Name |-> None]
    <3>1. ~Entering
      BY DEF HInit, Init, Entering, Idle
    <3> QED BY <3>1, NoOrder
  <2>2. validBar = [n \in Name |-> None] /\ untilBar = [n \in Name |-> 0]
    BY DEF HInit, Init, validBar, untilBar
  <2>3. doorBar = [k \in Client |-> "out"]
    BY DEF HInit, doorBar
  <2> QED BY <2>1, <2>2, <2>3 DEF HInit, Init, T!Init
<1>2. HInv /\ [HNext]_hvars => [T!Next]_(T!vars)
  <2> SUFFICES ASSUME HInv, [HNext]_hvars PROVE TicketsStep
    BY DEF TicketsStep
  <2>1. CASE UNCHANGED hvars
    <3>1. UNCHANGED <<access, busy, user, ok, now, fails, door, card, seen>>
      BY <2>1 DEF hvars, vars, disk, process, history, doorVars
    <3>2. UNCHANGED <<orderedBar, validBar, untilBar, now>>
      BY <3>1, DoorKeepsFiles
    <3>3. doorBar' = doorBar
      BY <3>1 DEF doorBar
    <3> QED BY <3>1, <3>2, <3>3 DEF TicketsStep, T!vars, T!tickets
  <2> QED BY <2>1, LoginStep, DoorStep DEF HNext
<1> QED BY <1>1, <1>2, HandoverInvariance, PTL DEF HSpec, ImplementsTickets, T!Spec
=============================================================================
