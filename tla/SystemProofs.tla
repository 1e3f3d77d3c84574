---------------------------- MODULE SystemProofs ----------------------------
(***************************************************************************)
(* Proofs about the two components that stand on the operating system: the *)
(* event loop, for any number of clients, descriptors and places in the    *)
(* handler's table, and the character files of an account, for any number  *)
(* of logins and names.  They share nothing but the facts about sets and   *)
(* sequences.                                                              *)
(***************************************************************************)
EXTENDS Net, Characters, FiniteSetTheorems, SequenceTheorems, WellFoundedInduction, TLAPS

-----------------------------------------------------------------------------
(* The event loop: the inductive invariant *)

\* A descriptor without an entry in the table is descriptor 0, or one whose client closed,
\* or reset, and had nothing left to read.
Strays ==
    \A f \in Fd : conn[f] # Nobody /\ table[f] = Nobody =>
        f = 0 \/ (ended[conn[f]] \in {"fin", "rst"} /\ unread[conn[f]] = 0)

\* Whoever is accepted, or waits to be, has connected.
Met ==
    /\ \A f \in Fd : conn[f] # Nobody => ended[conn[f]] # "new"
    /\ \A p \in backlog : ended[p] # "new"

ResetTakesAll == \A p \in Peer : ended[p] = "rst" => unread[p] = 0

\* An event of f is on its way, or the loop is at it.
Due(f) == f \in ready \union batch \/ (at \in {"recv", "handle"} /\ fd = f)

\* Whatever there is to see in a watched descriptor, or in the backlog, is due.
Noticed ==
    /\ \A f \in watched : unread[conn[f]] > 0 \/ ended[conn[f]] = "fin" => Due(f)
    /\ backlog # {} => Server \in ready \union batch \/ at = "accept" \/ noFd
    /\ at = "wait" => batch = {}

Held == {f \in Fd : table[f] # Nobody}

\* The handler's table is never fuller than it is long.
TableFits == Cardinality(Held) <= NConn

\* The inductive invariant.
NetInv == TypeOK /\ DescriptorsAgree /\ Strays /\ Met /\ ResetTakesAll /\ Noticed /\ TableFits

-----------------------------------------------------------------------------

\* A non-empty set of numbers has a least element.
LEMMA LeastElement ==
    ASSUME NEW T, T \subseteq Nat, T # {}
    PROVE  Min(T) \in T /\ \A n \in T : Min(T) <= n
<1> DEFINE R == {ss \in Nat \X Nat : ss[1] < ss[2]}
<1>1. IsWellFoundedOn(R, Nat)
  BY NatLessThanWellFounded DEF OpToRel
<1>2. PICK x \in T : \A y \in T : ~(<<y, x>> \in R)
  <2> HIDE DEF R
  <2> QED BY <1>1, WFMin
<1>3. ASSUME NEW y \in T PROVE x <= y
  <2>1. x \in Nat /\ y \in Nat /\ <<y, x>> \in Nat \X Nat
    OBVIOUS
  <2>2. ~(y < x)
    BY <1>2, <2>1
  <2> QED BY <2>1, <2>2
<1> QED BY <1>3 DEF Min

\* accept gives out a free descriptor.
LEMMA LowestIsFree ==
    ASSUME Free # {}
    PROVE  Min(Free) \in Fd \ files /\ conn[Min(Free)] = Nobody
<1>1. Free \subseteq Nat
  BY NetAssumption DEF Free, Fd
<1> QED BY <1>1, LeastElement DEF Free

\* The table has finitely many places, whose number goes down by one with a client that
\* is forgotten, and up by one at most with one that is entered.
LEMMA HeldFinite == IsFiniteSet(Held) /\ Cardinality(Held) \in Nat
<1>1. IsFiniteSet(Fd)
  BY NetAssumption, FS_Interval DEF Fd
<1>2. Held \in SUBSET Fd
  BY DEF Held
<1> QED BY <1>1, <1>2, FS_Subset, FS_CardinalityType

LEMMA RoomForgotten ==
    ASSUME TypeOK, TableFits, NEW g \in Fd, table' = [table EXCEPT ![g] = Nobody]
    PROVE  TableFits'
<1>1. Held' = Held \ {g}
  BY DEF Held, TypeOK
<1>2. Cardinality(Held \ {g}) = IF g \in Held THEN Cardinality(Held) - 1 ELSE Cardinality(Held)
  BY HeldFinite, FS_RemoveElement
<1>3. Cardinality(Held \ {g}) \in Nat
  BY HeldFinite, FS_RemoveElement, FS_CardinalityType
<1> QED BY <1>1, <1>2, <1>3, HeldFinite, NetAssumption DEF TableFits

LEMMA RoomEntered ==
    ASSUME TypeOK, NEW f \in Fd, NEW p \in Peer, ~Full,
           table' = [table EXCEPT ![f] = p]
    PROVE  TableFits'
<1>1. Held' = Held \union {f}
  BY NetAssumption DEF Held, TypeOK
<1>2. Cardinality(Held \union {f}) =
        IF f \in Held THEN Cardinality(Held) ELSE Cardinality(Held) + 1
  BY HeldFinite, FS_AddElement
<1>3. Cardinality(Held \union {f}) \in Nat
  BY HeldFinite, FS_AddElement, FS_CardinalityType
<1>4. ~(Cardinality(Held) >= NConn)
  BY DEF Full, Held
<1> QED BY <1>1, <1>2, <1>3, <1>4, HeldFinite, NetAssumption DEF TableFits

-----------------------------------------------------------------------------

(* The event loop: the invariant, action by action *)

LEMMA NetInitInv == Init => NetInv
<1> SUFFICES ASSUME Init PROVE NetInv
  OBVIOUS
<1>1. Held = {}
  BY DEF Init, Held
<1>2. TableFits
  BY <1>1, FS_EmptySet, NetAssumption DEF TableFits
<1>3. TypeOK
  <2>1. 0 \in Fd /\ 0 \in 0 .. MaxUnread
    BY NetAssumption DEF Fd
  <2>2. noFd \in BOOLEAN /\ zero \in BOOLEAN
    BY DEF Init
  <2> QED BY <2>1, <2>2 DEF Init, TypeOK
<1>4. DescriptorsAgree /\ Strays /\ Met
  BY DEF Init, DescriptorsAgree, Strays, Met
<1>5. ResetTakesAll /\ Noticed
  BY DEF Init, ResetTakesAll, Noticed
<1> QED BY <1>2, <1>3, <1>4, <1>5 DEF NetInv

LEMMA ClientKeeps ==
    ASSUME NetInv, NEW p \in Peer, Connect(p) \/ Send(p) \/ Finish(p) \/ Reset(p)
    PROVE  NetInv'
<1> USE NetAssumption
<1>0. UNCHANGED <<conn, watched, loopVars, table, openVars, noFd>>
  BY DEF Connect, Send, Finish, Reset
<1>1. TypeOK'
  <2>1. CASE Connect(p)
    BY <2>1 DEF NetInv, TypeOK, Connect, loopVars, openVars
  <2>2. CASE Send(p)
    BY <2>2 DEF NetInv, TypeOK, Send, loopVars, openVars, Edges
  <2>3. CASE Finish(p)
    BY <2>3 DEF NetInv, TypeOK, Finish, loopVars, openVars, Edges
  <2>4. CASE Reset(p)
    BY <2>4 DEF NetInv, TypeOK, Reset, loopVars, openVars, Edges
  <2> QED BY <2>1, <2>2, <2>3, <2>4
<1>2. DescriptorsAgree' /\ TableFits'
  BY <1>0 DEF NetInv, DescriptorsAgree, TableFits, Held, openVars
<1>3. Strays' /\ Met' /\ ResetTakesAll'
  <2>1. CASE Connect(p)
    BY <2>1 DEF NetInv, TypeOK, Strays, Met, ResetTakesAll, Connect
  <2>2. CASE Send(p)
    BY <2>2 DEF NetInv, TypeOK, Strays, Met, ResetTakesAll, Send
  <2>3. CASE Finish(p)
    BY <2>3 DEF NetInv, TypeOK, Strays, Met, ResetTakesAll, Finish
  <2>4. CASE Reset(p)
    BY <2>4 DEF NetInv, TypeOK, Strays, Met, ResetTakesAll, Reset
  <2> QED BY <2>1, <2>2, <2>3, <2>4
<1>4. Noticed'
  <2>1. CASE Connect(p)
    BY <2>1 DEF NetInv, TypeOK, Met, DescriptorsAgree, Noticed, Due, Connect, loopVars
  <2>2. CASE Send(p)
    BY <2>2 DEF NetInv, TypeOK, DescriptorsAgree, Noticed, Due, Send, Edges, loopVars
  <2>3. CASE Finish(p)
    BY <2>3 DEF NetInv, TypeOK, DescriptorsAgree, Noticed, Due, Finish, Edges, loopVars
  <2>4. CASE Reset(p)
    BY <2>4 DEF NetInv, TypeOK, DescriptorsAgree, Noticed, Due, Reset, Edges, loopVars
  <2> QED BY <2>1, <2>2, <2>3, <2>4
<1> QED BY <1>1, <1>2, <1>3, <1>4 DEF NetInv

LEMMA EventKeeps ==
    ASSUME NetInv, Wait \/ Fetch \/ AcceptEnds \/ HandleEnds \/ RecvEnds
    PROVE  NetInv'
<1> USE NetAssumption
<1>0. UNCHANGED <<peerVars, backlog, conn, watched, table, openVars>>
  BY DEF Wait, Fetch, AcceptEnds, HandleEnds, RecvEnds, kernelVars
<1>1. TypeOK'
  <2>1. CASE Wait
    BY <2>1 DEF NetInv, TypeOK, Wait, peerVars, openVars
  <2>2. CASE Fetch
    BY <2>2 DEF NetInv, TypeOK, Fetch, peerVars, kernelVars, openVars
  <2>3. CASE AcceptEnds
    BY <2>3 DEF NetInv, TypeOK, AcceptEnds, peerVars, kernelVars, openVars
  <2>4. CASE RecvEnds
    BY <2>4 DEF NetInv, TypeOK, RecvEnds, peerVars, kernelVars, openVars
  <2>5. CASE HandleEnds
    BY <2>5 DEF NetInv, TypeOK, HandleEnds, Fd, peerVars, kernelVars, openVars
  <2> QED BY <2>1, <2>2, <2>3, <2>4, <2>5
<1>2. DescriptorsAgree' /\ TableFits' /\ Strays' /\ Met' /\ ResetTakesAll'
  BY <1>0 DEF NetInv, DescriptorsAgree, TableFits, Held, Strays, Met, ResetTakesAll, peerVars,
              openVars
<1>3. Noticed'
  <2>1. CASE Wait
    BY <2>1 DEF NetInv, Noticed, Due, Wait, peerVars
  <2>2. CASE Fetch
    <3>1. at = "next" /\ UNCHANGED <<peerVars, kernelVars, noFd>>
      BY <2>2 DEF Fetch
    <3>2. \A f \in Fd : f \in batch => f \in batch' \/ (at' \in {"recv", "handle"} /\ fd' = f)
      BY <2>2 DEF Fetch, Fd, Server
    <3>3. Server \in batch => Server \in batch' \/ at' = "accept"
      BY <2>2 DEF Fetch
    <3>4. at' = "wait" => batch' = {}
      BY <2>2 DEF Fetch
    <3>5. \A f \in watched : unread[conn[f]] > 0 \/ ended[conn[f]] = "fin" => Due(f)'
      BY <3>1, <3>2 DEF NetInv, TypeOK, Noticed, Due, peerVars, kernelVars
    <3> QED BY <3>1, <3>3, <3>4, <3>5 DEF NetInv, Noticed, peerVars, kernelVars
  <2>3. CASE AcceptEnds
    BY <2>3 DEF NetInv, Noticed, Due, AcceptEnds, peerVars, kernelVars
  <2>4. CASE RecvEnds
    <3>1. fd \in watched => unread[conn[fd]] = 0 /\ ended[conn[fd]] # "fin"
      BY <2>4 DEF NetInv, TypeOK, DescriptorsAgree, ResetTakesAll, RecvEnds, Found
    <3> QED BY <2>4, <3>1 DEF NetInv, TypeOK, Noticed, Due, RecvEnds, peerVars, kernelVars
  <2>5. CASE HandleEnds
    BY <2>5 DEF NetInv, Noticed, Due, HandleEnds, peerVars, kernelVars
  <2> QED BY <2>1, <2>2, <2>3, <2>4, <2>5
<1> QED BY <1>1, <1>2, <1>3 DEF NetInv

LEMMA AcceptKeeps ==
    ASSUME NetInv, NEW p \in Peer, Accept(p)
    PROVE  NetInv'
<1> USE NetAssumption
<1> DEFINE f == Min(Free)
<1>1. f \in Fd \ files /\ conn[f] = Nobody
  BY LowestIsFree DEF Accept
<1>2. table[f] = Nobody /\ f \notin watched /\ ended[p] # "new" /\ (f = 0 => zero)
  BY <1>1 DEF NetInv, TypeOK, DescriptorsAgree, Met, Accept
<1>3. /\ at = "accept" /\ backlog' = backlog \ {p}
      /\ UNCHANGED <<peerVars, loopVars, openVars, noFd>>
  BY DEF Accept
<1>4. CASE ~Full
  <2>1. /\ conn' = [conn EXCEPT ![f] = p]
        /\ watched' = watched \union {f}
        /\ ready' = IF unread[p] > 0 \/ ended[p] # "no" THEN ready \union {f} ELSE ready
        /\ table' = IF f = 0 THEN table ELSE [table EXCEPT ![f] = p]
    BY <1>4, Zenon DEF Accept
  <2> HIDE DEF f
  <2>2. TypeOK'
    BY <1>1, <1>3, <2>1 DEF NetInv, TypeOK, peerVars, loopVars, openVars
  <2>3. DescriptorsAgree'
    <3>1. ASSUME NEW g \in Fd, g # f
          PROVE  /\ conn'[g] = conn[g] /\ table'[g] = table[g]
                 /\ g \in watched' <=> g \in watched
      BY <1>1, <2>1, <3>1 DEF NetInv, TypeOK
    <3>2. conn'[f] = p /\ p # Nobody /\ f \in watched' /\ table'[f] = IF f = 0 THEN Nobody ELSE p
      BY <1>1, <1>2, <2>1 DEF NetInv, TypeOK
    <3>3. files' = files /\ zero' = zero
      BY <1>3 DEF openVars
    <3> QED BY <1>1, <1>2, <3>1, <3>2, <3>3 DEF NetInv, DescriptorsAgree
  <2>4. Strays' /\ Met' /\ ResetTakesAll'
    BY <1>1, <1>2, <1>3, <2>1
       DEF NetInv, TypeOK, DescriptorsAgree, Strays, Met, ResetTakesAll, peerVars
  <2>5. Noticed'
    BY <1>1, <1>2, <1>3, <2>1 DEF NetInv, TypeOK, Noticed, Due, peerVars, loopVars
  <2>6. TableFits'
    <3>1. CASE f = 0
      BY <2>1, <3>1 DEF NetInv, TableFits, Held
    <3>2. CASE f # 0
      BY <1>1, <1>4, <2>1, <3>2, RoomEntered DEF NetInv
    <3> QED BY <3>1, <3>2
  <2> QED BY <2>2, <2>3, <2>4, <2>5, <2>6 DEF NetInv
<1>5. CASE Full
  <2>1. UNCHANGED <<conn, watched, ready, table>>
    BY <1>5, Zenon DEF Accept
  <2> QED BY <1>3, <2>1 DEF NetInv, TypeOK, DescriptorsAgree, Strays, Met, ResetTakesAll,
                            Noticed, Due, TableFits, Held, peerVars, loopVars, openVars
<1> QED BY <1>4, <1>5

LEMMA ReadKeeps == ASSUME NetInv, RecvData PROVE NetInv'
<1> USE NetAssumption
<1>1. fd \in Fd /\ conn[fd] # Nobody /\ conn[fd] \in Peer
  BY DEF NetInv, TypeOK, RecvData, Found
<1>2. PICK n \in 1 .. unread[conn[fd]] : unread' = [unread EXCEPT ![conn[fd]] = @ - n]
  BY DEF RecvData
<1>3. unread[conn[fd]] \in 0 .. MaxUnread /\ unread[conn[fd]] - n \in 0 .. MaxUnread
  BY <1>1, <1>2 DEF NetInv, TypeOK
<1>4. UNCHANGED <<ended, kernelVars, batch, fd, table, openVars, noFd>> /\ at = "recv"
  BY DEF RecvData
<1>5. at' \in {"recv", "handle"} /\ socket' \in Fd
  BY <1>1 DEF NetInv, TypeOK, RecvData, Fd
<1>6. TypeOK'
  BY <1>2, <1>3, <1>4, <1>5 DEF NetInv, TypeOK, kernelVars, openVars
<1>7. \A p \in Peer : unread[p] = 0 => unread'[p] = 0
  BY <1>1, <1>2, <1>3 DEF NetInv, TypeOK
<1>8. \A p \in Peer : unread'[p] > 0 => unread[p] > 0
  BY <1>6, <1>7 DEF NetInv, TypeOK
<1>9. DescriptorsAgree' /\ Strays' /\ Met' /\ ResetTakesAll' /\ TableFits'
  BY <1>4, <1>7 DEF NetInv, TypeOK, DescriptorsAgree, Strays, Met, ResetTakesAll, TableFits,
                    Held, kernelVars, openVars
<1>10. \A f \in watched : conn[f] \in Peer
  BY DEF NetInv, TypeOK, DescriptorsAgree
<1>11. Noticed'
  BY <1>4, <1>5, <1>8, <1>10 DEF NetInv, Noticed, Due, kernelVars
<1> QED BY <1>6, <1>9, <1>11 DEF NetInv

LEMMA LeaveOpenKeeps == ASSUME NetInv, LeaveOpen PROVE NetInv'
<1> DEFINE low == Min(Free)
<1>1. low \in Fd \ files /\ conn[low] = Nobody
  BY LowestIsFree DEF LeaveOpen
<1>2. /\ files' = files \union {low}
      /\ UNCHANGED <<peerVars, kernelVars, loopVars, table, zero, noFd>>
  BY DEF LeaveOpen
<1> HIDE DEF low
<1>3. TypeOK' /\ DescriptorsAgree'
  BY <1>1, <1>2 DEF NetInv, TypeOK, DescriptorsAgree, peerVars, kernelVars, loopVars
<1>4. Strays' /\ Met' /\ ResetTakesAll' /\ Noticed' /\ TableFits'
  BY <1>2 DEF NetInv, Strays, Met, ResetTakesAll, Noticed, Due, TableFits, Held, peerVars,
              kernelVars, loopVars
<1> QED BY <1>3, <1>4 DEF NetInv

\* Whichever descriptor a drop closes, its entry goes with it.
LEMMA DropKeeps == ASSUME NetInv, DropClient PROVE NetInv'
<1> USE NetAssumption
<1>1. socket \in Fd /\ 0 \in Fd
  BY DEF NetInv, TypeOK, Fd
<1>2. /\ at = "handle" /\ at' = at /\ fd' = fd /\ batch' = batch /\ socket' = 0
      /\ conn' = [conn EXCEPT ![socket] = Nobody]
      /\ watched' = watched \ {socket} /\ ready' = ready \ {socket}
      /\ table' = [table EXCEPT ![socket] = Nobody]
      /\ files' = files \ {socket} /\ zero' = (zero \/ socket = 0)
      /\ UNCHANGED <<peerVars, backlog, noFd>>
  BY DEF DropClient
<1>3. TypeOK'
  <2>1. zero' \in BOOLEAN
    BY <1>2
  <2> QED BY <1>1, <1>2, <2>1 DEF NetInv, TypeOK, peerVars
<1>4. DescriptorsAgree'
  <2>1. ASSUME NEW f \in Fd, f # socket
        PROVE  /\ conn'[f] = conn[f] /\ table'[f] = table[f]
               /\ f \in watched' <=> f \in watched
               /\ f \in files' <=> f \in files
    BY <1>1, <1>2, <2>1 DEF NetInv, TypeOK
  <2>2. conn'[socket] = Nobody /\ table'[socket] = Nobody /\ socket \notin watched'
    BY <1>1, <1>2 DEF NetInv, TypeOK
  <2>3. ~zero' => ~zero /\ socket # 0
    BY <1>2
  <2>4. zero => zero'
    BY <1>2
  <2>5. ~zero' => 0 \in files'
    BY <1>1, <2>1, <2>3 DEF NetInv, DescriptorsAgree
  <2> QED BY <2>1, <2>2, <2>4, <2>5 DEF NetInv, DescriptorsAgree
<1>5. Strays' /\ Met' /\ ResetTakesAll'
  BY <1>1, <1>2 DEF NetInv, TypeOK, Strays, Met, ResetTakesAll, peerVars
<1>6. Noticed'
  <2>1. ASSUME NEW f \in watched', unread'[conn'[f]] > 0 \/ ended'[conn'[f]] = "fin"
        PROVE  Due(f)'
    <3>1. f \in watched /\ f # socket /\ conn'[f] = conn[f]
      BY <1>1, <1>2, <2>1 DEF NetInv, TypeOK
    <3>2. unread' = unread /\ ended' = ended
      BY <1>2 DEF peerVars
    <3>3. Due(f)
      BY <2>1, <3>1, <3>2 DEF NetInv, Noticed
    <3> QED BY <1>2, <3>1, <3>3 DEF Due
  <2>2. Server \in ready => Server \in ready'
    BY <1>1, <1>2 DEF Server, Fd
  <2> QED BY <1>2, <2>1, <2>2 DEF NetInv, Noticed
<1>7. TableFits'
  BY <1>1, <1>2, RoomForgotten DEF NetInv
<1> QED BY <1>3, <1>4, <1>5, <1>6, <1>7 DEF NetInv

LEMMA ClosedKeeps == ASSUME NetInv, RecvClosed PROVE NetInv'
<1> USE NetAssumption
<1>1. fd \in Fd /\ conn[fd] # Nobody /\ conn[fd] \in Peer
  BY DEF NetInv, TypeOK, RecvClosed, Found
<1>2. /\ ended[conn[fd]] = "fin" /\ unread[conn[fd]] = 0
      /\ at' = "next" /\ batch' = batch /\ fd' = fd
  BY <1>1 DEF RecvClosed, Found, NetInv, TypeOK
<1>3. TypeOK'
  BY <1>1 DEF NetInv, TypeOK, RecvClosed, peerVars, openVars
<1>4. DescriptorsAgree'
  BY <1>1 DEF NetInv, TypeOK, DescriptorsAgree, RecvClosed, openVars
<1>5. Strays' /\ Met' /\ ResetTakesAll'
  BY <1>1, <1>2 DEF NetInv, TypeOK, Strays, Met, ResetTakesAll, RecvClosed, peerVars
<1>6. Noticed'
  <2>1. ASSUME NEW f \in watched', unread[conn[f]] > 0 \/ ended[conn[f]] = "fin"
        PROVE  Due(f)'
    BY <1>2, <2>1 DEF NetInv, Noticed, Due, RecvClosed
  <2>2. Server \in ready \union batch => Server \in ready' \union batch'
    BY <1>1 DEF RecvClosed, Server, Fd
  <2> QED BY <1>2, <2>1, <2>2 DEF NetInv, Noticed, RecvClosed, peerVars
<1>7. TableFits'
  BY <1>1, RoomForgotten DEF NetInv, RecvClosed
<1> QED BY <1>3, <1>4, <1>5, <1>6, <1>7 DEF NetInv

LEMMA NetStep == NetInv /\ [Next]_vars => NetInv'
<1> SUFFICES ASSUME NetInv, [Next]_vars PROVE NetInv'
  OBVIOUS
<1>1. CASE UNCHANGED vars
  BY <1>1 DEF NetInv, TypeOK, DescriptorsAgree, Strays, Met, ResetTakesAll, Noticed, Due,
              TableFits, Held, vars, peerVars, kernelVars, loopVars, openVars
<1> QED BY <1>1, ClientKeeps, EventKeeps, AcceptKeeps, ReadKeeps, LeaveOpenKeeps, DropKeeps,
           ClosedKeeps DEF Next, Loop

\* The invariant holds in every state.
LEMMA NetInvariance == Spec => []NetInv
BY NetInitInv, NetStep, PTL DEF Spec

\* A descriptor that is not free is in an entry of the table or was left open.
LEMMA LeakCount ==
    ASSUME NetInv, Free = {}
    PROVE  Cardinality(LeftOpen) + NConn >= NFd
<1>1. Fd = LeftOpen \union Held
  BY DEF NetInv, TypeOK, Free, LeftOpen, Held
<1>2. IsFiniteSet(Fd) /\ Cardinality(Fd) = NFd
  <2>1. IsFiniteSet(0 .. NFd - 1)
        /\ Cardinality(0 .. NFd - 1) = IF 0 > NFd - 1 THEN 0 ELSE (NFd - 1) - 0 + 1
    BY NetAssumption, FS_Interval
  <2> QED BY <2>1, NetAssumption DEF Fd
<1>3. IsFiniteSet(LeftOpen)
  <2>1. LeftOpen \in SUBSET Fd
    BY <1>1
  <2> QED BY <1>2, <2>1, FS_Subset
<1>4. Cardinality(LeftOpen) \in Nat
  BY <1>3, FS_CardinalityType
<1>5. Cardinality(LeftOpen \union Held)
        = Cardinality(LeftOpen) + Cardinality(Held) - Cardinality(LeftOpen \intersect Held)
  BY <1>3, HeldFinite, FS_Union
<1>6. Cardinality(LeftOpen \intersect Held) \in Nat
  BY <1>3, FS_Intersection, FS_CardinalityType
<1>7. Cardinality(Held) <= NConn /\ Cardinality(Held) \in Nat
  BY HeldFinite DEF NetInv, TableFits
<1> DEFINE a == Cardinality(LeftOpen)
           b == Cardinality(Held)
           c == Cardinality(LeftOpen \intersect Held)
<1>8. a \in Nat /\ b \in Nat /\ c \in Nat /\ b <= NConn /\ NFd = a + b - c
  BY <1>1, <1>2, <1>4, <1>5, <1>6, <1>7
<1> HIDE DEF a, b, c
<1>9. a + NConn >= NFd
  BY <1>8, NetAssumption
<1> QED BY <1>9 DEF a

\* Every descriptor that is watched is about the client the table has it for, descriptor
\* 0 apart once a drop closed it, none of a client that is there is left behind, and the
\* process runs out of them only by what was left open, whatever the sizes of the tables.
THEOREM Descriptors == Spec => []DescriptorsKept
<1>1. NetInv => LeftBehind
  <2> SUFFICES ASSUME NetInv, NEW f \in Fd
               PROVE  /\ conn[f] # Nobody /\ table[f] = Nobody
                            => f = 0 \/ ended[conn[f]] \in {"fin", "rst"}
                      /\ at = "wait" /\ ready = {} /\ table[f] # Nobody
                            => ended[table[f]] \in {"no", "rst"}
    BY DEF LeftBehind
  <2>1. ASSUME at = "wait", ready = {}, table[f] # Nobody
        PROVE  ended[table[f]] \in {"no", "rst"}
    <3>1. f \in watched /\ conn[f] = table[f] /\ conn[f] \in Peer /\ ~Due(f)
      BY <2>1 DEF NetInv, TypeOK, DescriptorsAgree, Noticed, Due
    <3> QED BY <3>1, <2>1 DEF NetInv, TypeOK, Noticed, Met
  <2> QED BY <2>1 DEF NetInv, Strays
<1>2. NetInv => RunsOutByLeak
  BY LeakCount DEF RunsOutByLeak
<1>3. NetInv => DescriptorsKept
  BY <1>1, <1>2 DEF NetInv, DescriptorsKept
<1> QED BY <1>3, NetInvariance, PTL

\* A loop that waits with no event to come has missed nothing: no byte, no end of a
\* client, and nobody to accept unless descriptors ran out.
THEOREM Missed == Spec => []NothingMissed
<1>1. NetInv => NothingMissed
  <2> SUFFICES ASSUME NetInv, at = "wait", ready = {}
               PROVE  /\ \A f \in watched : unread[conn[f]] = 0 /\ ended[conn[f]] # "fin"
                      /\ backlog # {} => noFd
    BY DEF NothingMissed
  <2>1. ready \union batch = {}
    BY DEF NetInv, Noticed
  <2>2. \A f \in watched : conn[f] \in Peer /\ ~Due(f)
    BY <2>1, NetAssumption DEF NetInv, TypeOK, DescriptorsAgree, Due
  <2>3. \A p \in Peer : unread[p] = 0 \/ unread[p] > 0
    BY NetAssumption DEF NetInv, TypeOK
  <2> QED BY <2>1, <2>2, <2>3 DEF NetInv, Noticed
<1> QED BY <1>1, NetInvariance, PTL

-----------------------------------------------------------------------------
(* The character files: sequences and sets *)

\* InsertAt moves what stands from place i on up by one.
LEMMA InsertAtFacts ==
    ASSUME NEW S, NEW s \in Seq(S), NEW e \in S, NEW i \in 1 .. Len(s) + 1,
           NEW t, t = InsertAt(s, i, e)
    PROVE  /\ t \in Seq(S) /\ Len(t) = Len(s) + 1
           /\ \A j \in 1 .. i - 1 : t[j] = s[j]
           /\ t[i] = e
           /\ \A j \in i + 1 .. Len(s) + 1 : t[j] = s[j - 1]
<1>1. Len(s) \in Nat /\ \A j \in 1 .. Len(s) : s[j] \in S
  BY LenProperties, ElementOfSeq
<1> DEFINE a == SubSeq(s, 1, i - 1)
           b == SubSeq(s, i, Len(s))
           u == a \o <<e>>
<1>2. /\ a \in Seq(S) /\ Len(a) = i - 1
      /\ \A j \in 1 .. i - 1 : a[j] = s[j]
  BY <1>1, SubSeqProperties
<1>3. /\ b \in Seq(S) /\ Len(b) = Len(s) - i + 1
      /\ \A j \in 1 .. Len(s) - i + 1 : b[j] = s[i + j - 1]
  BY <1>1, SubSeqProperties
<1>4. t = u \o b
  BY DEF InsertAt
<1> HIDE DEF a, b
<1>5. <<e>> \in Seq(S) /\ Len(<<e>>) = 1 /\ <<e>>[1] = e
  OBVIOUS
<1>6. /\ u \in Seq(S) /\ Len(u) = i
      /\ \A j \in 1 .. i : u[j] = IF j <= i - 1 THEN a[j] ELSE <<e>>[j - (i - 1)]
  BY <1>1, <1>2, <1>5, ConcatProperties
<1> HIDE DEF u
<1>7. /\ t \in Seq(S) /\ Len(t) = Len(u) + Len(b)
      /\ \A j \in 1 .. Len(u) + Len(b) : t[j] = IF j <= Len(u) THEN u[j] ELSE b[j - Len(u)]
  BY <1>3, <1>4, <1>6, ConcatProperties
<1>8. Len(u) + Len(b) = Len(s) + 1
  BY <1>1, <1>3, <1>6
<1>9. ASSUME NEW j \in 1 .. i - 1 PROVE t[j] = s[j]
  <2>1. j \in 1 .. i /\ j \in 1 .. Len(u) + Len(b) /\ j <= Len(u)
    BY <1>1, <1>6, <1>8
  <2> QED BY <1>2, <1>6, <1>7, <2>1
<1>10. t[i] = e
  <2>1. i \in 1 .. i /\ i \in 1 .. Len(u) + Len(b) /\ i <= Len(u) /\ i - (i - 1) = 1
        /\ ~(i <= i - 1)
    BY <1>1, <1>6, <1>8
  <2>2. t[i] = u[i] /\ u[i] = <<e>>[i - (i - 1)]
    BY <1>6, <1>7, <2>1
  <2> QED BY <1>5, <2>1, <2>2
<1>11. ASSUME NEW j \in i + 1 .. Len(s) + 1 PROVE t[j] = s[j - 1]
  <2>1. /\ j \in 1 .. Len(u) + Len(b) /\ ~(j <= Len(u))
        /\ j - Len(u) \in 1 .. Len(s) - i + 1 /\ i + (j - Len(u)) - 1 = j - 1
    BY <1>1, <1>6, <1>8
  <2>2. t[j] = b[j - Len(u)] /\ b[j - Len(u)] = s[i + (j - Len(u)) - 1]
    BY <1>3, <1>7, <2>1
  <2> QED BY <2>1, <2>2
<1> QED BY <1>7, <1>8, <1>9, <1>10, <1>11

\* RemoveAt leaves one element out; whatever is left was there.
LEMMA RemoveAtFacts ==
    ASSUME NEW S, NEW s \in Seq(S), NEW i \in 1 .. Len(s)
    PROVE  RemoveAt(s, i) \in Seq(S) /\ Len(RemoveAt(s, i)) = Len(s) - 1
<1>1. Len(s) \in Nat /\ \A j \in 1 .. Len(s) : s[j] \in S
  BY LenProperties, ElementOfSeq
<1> DEFINE a == SubSeq(s, 1, i - 1)
           b == SubSeq(s, i + 1, Len(s))
<1>2. a \in Seq(S) /\ Len(a) = i - 1
  BY <1>1, SubSeqProperties
<1>3. b \in Seq(S) /\ Len(b) = Len(s) - i
  BY <1>1, SubSeqProperties
<1>4. RemoveAt(s, i) = a \o b
  BY DEF RemoveAt
<1> HIDE DEF a, b
<1>5. a \o b \in Seq(S) /\ Len(a \o b) = Len(a) + Len(b)
  BY <1>2, <1>3, ConcatProperties
<1> QED BY <1>1, <1>2, <1>3, <1>4, <1>5

\* What a sequence holds is at one of its places.
LEMMA RangeFacts ==
    ASSUME NEW S, NEW s \in Seq(S)
    PROVE  /\ Range(s) \subseteq S
           /\ \A x : x \in Range(s) <=> \E j \in 1 .. Len(s) : s[j] = x
<1>1. DOMAIN s = 1 .. Len(s) /\ \A j \in 1 .. Len(s) : s[j] \in S
  BY LenProperties, ElementOfSeq
<1>2. Range(s) = {s[j] : j \in 1 .. Len(s)}
  BY <1>1 DEF Range
<1>3. Range(s) \subseteq S
  BY <1>1, <1>2
<1>4. \A x : x \in Range(s) <=> \E j \in 1 .. Len(s) : s[j] = x
  BY <1>2
<1> QED BY <1>3, <1>4

\* The lower of two numbers.
LEMMA Lower ==
    ASSUME NEW m \in Nat, NEW n \in Nat
    PROVE  Min({m, n}) \in Nat /\ Min({m, n}) <= m /\ Min({m, n}) <= n
<1>1. Min({m, n}) \in {m, n} /\ \A k \in {m, n} : Min({m, n}) <= k
  <2>1. \E x \in {m, n} : \A y \in {m, n} : x <= y
    <3>1. CASE m <= n
      BY <3>1
    <3>2. CASE n <= m
      BY <3>2
    <3> QED BY <3>1, <3>2
  <2> QED BY <2>1, Zenon DEF Min
<1> QED BY <1>1

-----------------------------------------------------------------------------

\* The directory has a name once.
Distinct == \A i, j \in DOMAIN dir : dir[i] = dir[j] => i = j

\* The file being made is in the directory, and empty.
Made == making # <<>> => server = "up" /\ making[2] \in Range(dir) \ whole

\* Files are never removed: no list is longer than the directory.
Short == \A c \in Conn : Len(shown[c]) <= Len(dir)

\* The list of c was sent after the last file was added, and nothing was left out.
Fresh(c) == screen[c] = "list" /\ c \notin shifted /\ (making = <<>> \/ making[1] # c)

\* An entry of such a list is what stands at its place in the directory, or was empty.
ListsAgree ==
    \A c \in Conn : Fresh(c) => \A i \in DOMAIN shown[c] : shown[c][i] \in {dir[i], Unnamed}

\* The inductive invariant.
FileInv == Distinct /\ Made /\ Short /\ EmptyCause /\ ListsAgree /\ ListOverrunCause

CharInv == CharTypeOK /\ FileInv

-----------------------------------------------------------------------------

\* InsertAtFacts, about the directory.
LEMMA InsertedInDir ==
    ASSUME dir \in Seq(Name), NEW n \in Name, NEW i \in 1 .. Len(dir) + 1,
           dir' = InsertAt(dir, i, n)
    PROVE  /\ dir' \in Seq(Name) /\ Len(dir') = Len(dir) + 1
           /\ \A j \in 1 .. i - 1 : dir'[j] = dir[j]
           /\ dir'[i] = n
           /\ \A j \in i + 1 .. Len(dir) + 1 : dir'[j] = dir[j - 1]
<1>1. dir' \in Seq(Name) /\ Len(dir') = Len(dir) + 1
  BY InsertAtFacts
<1>2. \A j \in 1 .. i - 1 : dir'[j] = dir[j]
  BY InsertAtFacts
<1>3. dir'[i] = n
  BY InsertAtFacts
<1>4. ASSUME NEW j \in i + 1 .. Len(dir) + 1 PROVE dir'[j] = dir[j - 1]
  BY InsertAtFacts, SMTT(60)
<1> QED BY <1>1, <1>2, <1>3, <1>4

\* A new file takes one place more, and one only.
LEMMA AddedFacts ==
    ASSUME CharTypeOK, Distinct, NEW n \in Name, Added(n)
    PROVE  /\ dir' \in Seq(Name)
           /\ Distinct'
           /\ Range(dir') = Range(dir) \union {n}
           /\ Len(dir) <= Len(dir')
           /\ n \in Range(dir) => dir' = dir
<1>0. dir \in Seq(Name) /\ Len(dir) \in Nat /\ DOMAIN dir = 1 .. Len(dir)
  BY LenProperties DEF CharTypeOK
<1>1. CASE n \in Range(dir)
  BY <1>0, <1>1 DEF Added, Distinct
<1>2. CASE n \notin Range(dir)
  <2>1. PICK i \in 1 .. Len(dir) + 1 : dir' = InsertAt(dir, i, n)
    BY <1>2 DEF Added
  <2>2. /\ dir' \in Seq(Name) /\ Len(dir') = Len(dir) + 1
        /\ \A j \in 1 .. i - 1 : dir'[j] = dir[j]
        /\ dir'[i] = n
        /\ \A j \in i + 1 .. Len(dir) + 1 : dir'[j] = dir[j - 1]
    BY <1>0, <2>1, InsertedInDir
  <2>3. DOMAIN dir' = 1 .. Len(dir) + 1
    BY <2>2, LenProperties
  <2>4. \A j \in 1 .. Len(dir) : dir[j] # n
    BY <1>0, <1>2, RangeFacts
  <2>5. Distinct'
    <3> SUFFICES ASSUME NEW j \in 1 .. Len(dir) + 1, NEW k \in 1 .. Len(dir) + 1,
                        dir'[j] = dir'[k], j < k
                 PROVE  FALSE
      BY <1>0, <2>3 DEF Distinct
    <3>1. CASE k < i
      <4>1. dir[j] = dir[k] /\ j \in 1 .. Len(dir) /\ k \in 1 .. Len(dir)
        BY <1>0, <2>2, <3>1
      <4> QED BY <1>0, <4>1 DEF Distinct
    <3>2. CASE k = i
      <4>1. dir[j] = n /\ j \in 1 .. Len(dir)
        BY <1>0, <2>2, <3>2
      <4> QED BY <2>4, <4>1
    <3>3. CASE k > i /\ j = i
      <4>1. k \in i + 1 .. Len(dir) + 1 /\ k - 1 \in 1 .. Len(dir)
        BY <1>0, <3>3
      <4>2. dir'[k] = dir[k - 1] /\ dir'[j] = n
        BY <2>2, <3>3, <4>1
      <4> QED BY <2>4, <4>1, <4>2
    <3>4. CASE k > i /\ j < i
      <4>1. dir[j] = dir[k - 1] /\ j \in 1 .. Len(dir) /\ k - 1 \in 1 .. Len(dir) /\ j < k - 1
        BY <1>0, <2>2, <3>4
      <4> QED BY <1>0, <4>1 DEF Distinct
    <3>5. CASE k > i /\ j > i
      <4>1. /\ dir[j - 1] = dir[k - 1] /\ j - 1 < k - 1
            /\ j - 1 \in 1 .. Len(dir) /\ k - 1 \in 1 .. Len(dir)
        BY <1>0, <2>2, <3>5
      <4> QED BY <1>0, <4>1 DEF Distinct
    <3> QED BY <1>0, <3>1, <3>2, <3>3, <3>4, <3>5
  <2>6. ASSUME NEW x \in Range(dir') PROVE x \in Range(dir) \union {n}
    <3>1. PICK j \in 1 .. Len(dir) + 1 : dir'[j] = x
      BY <2>2, <2>6, RangeFacts
    <3>2. CASE j < i
      <4>1. j \in 1 .. Len(dir) /\ dir[j] = x
        BY <1>0, <2>2, <3>1, <3>2
      <4> QED BY <1>0, <4>1, RangeFacts
    <3>3. CASE j > i
      <4>1. j - 1 \in 1 .. Len(dir) /\ dir[j - 1] = x
        BY <1>0, <2>2, <3>1, <3>3
      <4> QED BY <1>0, <4>1, RangeFacts
    <3> QED BY <1>0, <2>2, <3>1, <3>2, <3>3
  <2>7. ASSUME NEW x \in Range(dir) PROVE x \in Range(dir')
    <3>1. PICK j \in 1 .. Len(dir) : dir[j] = x
      BY <1>0, <2>7, RangeFacts
    <3>2. CASE j < i
      <4>1. j \in 1 .. Len(dir') /\ dir'[j] = x
        BY <1>0, <2>2, <3>1, <3>2
      <4> QED BY <2>2, <4>1, RangeFacts
    <3>3. CASE j >= i
      <4>1. j + 1 \in i + 1 .. Len(dir) + 1 /\ j + 1 - 1 = j
        BY <1>0, <3>3
      <4>2. j + 1 \in 1 .. Len(dir') /\ dir'[j + 1] = x
        BY <1>0, <2>2, <3>1, <4>1
      <4> QED BY <2>2, <4>2, RangeFacts
    <3> QED BY <1>0, <3>2, <3>3
  <2>8. n \in Range(dir')
    BY <1>0, <2>2, RangeFacts
  <2> QED BY <1>0, <1>2, <2>2, <2>5, <2>6, <2>7, <2>8
<1> QED BY <1>1, <1>2

\* There are n numbers from one to n.
LEMMA UpToCount ==
    ASSUME NEW n \in Nat
    PROVE  IsFiniteSet(1 .. n) /\ Cardinality(1 .. n) = n
<1>1. n \in Int /\ 1 \in Int
  OBVIOUS
<1>2. IsFiniteSet(1 .. n) /\ Cardinality(1 .. n) = IF 1 > n THEN 0 ELSE n - 1 + 1
  BY <1>1, FS_Interval
<1> QED BY <1>2

\* A directory of distinct names has as many as it is long.
LEMMA NamesCount ==
    ASSUME CharTypeOK, Distinct
    PROVE  Cardinality(Range(dir)) = Len(dir)
<1>1. dir \in [1 .. Len(dir) -> Range(dir)] /\ Len(dir) \in Nat
  <2>1. dir \in Seq(Name)
    BY DEF CharTypeOK
  <2>2. dir \in [1 .. Len(dir) -> Name] /\ Len(dir) \in Nat
    BY <2>1, LenProperties
  <2> QED BY <2>2 DEF Range
<1>2. dir \in Surjection(1 .. Len(dir), Range(dir))
  BY <1>1 DEF Surjection, Range
<1>3. dir \in Injection(1 .. Len(dir), Range(dir))
  <2>1. IsInjective(dir)
    BY DEF IsInjective, Distinct
  <2> QED BY <1>1, <2>1 DEF Injection
<1>4. IsFiniteSet(1 .. Len(dir)) /\ Cardinality(1 .. Len(dir)) = Len(dir)
  BY <1>1, UpToCount, Zenon
<1> DEFINE T == Range(dir)
           D == 1 .. Len(dir)
<1> HIDE DEF T, D
<1>5. dir \in Surjection(D, T) /\ dir \in Injection(D, T) /\ IsFiniteSet(D)
  BY <1>2, <1>3, <1>4 DEF T, D
<1>6. Cardinality(T) = Cardinality(D)
  BY <1>5, FS_Surjection
<1> QED BY <1>4, <1>6 DEF T, D

\* The list that c is sent says of each place what is in it, or nothing.
LEMMA SentList ==
    ASSUME CharTypeOK, NEW c \in Conn, NEW f \in Seq(Name), NEW w, SendList(c, f, w)
    PROVE  /\ shown' \in [Conn -> Seq(Name \union {Unnamed})]
           /\ screen' = [screen EXCEPT ![c] = "list"]
           /\ Len(shown'[c]) <= Len(f)
           /\ \A i \in DOMAIN shown'[c] : i \in DOMAIN f /\ shown'[c][i] \in {f[i], Unnamed}
           /\ \A d \in Conn \ {c} : shown'[d] = shown[d]
           /\ server' = server \/ (server' = "broken" /\ Len(f) > Room)
<1> DEFINE most == Min({Len(f), Room})
           list == [i \in 1 .. most |-> ReadFile(f[i], w)]
<1>1. most \in Nat /\ most <= Len(f) /\ Len(f) \in Nat /\ DOMAIN f = 1 .. Len(f)
  BY Lower, LenProperties, CharacterAssumption
<1>2. \A i \in 1 .. most : i \in DOMAIN f /\ f[i] \in Name
  BY <1>1, ElementOfSeq
<1>3. shown' = [shown EXCEPT ![c] = list]
  BY DEF SendList
<1> HIDE DEF most
<1>4. \A i \in 1 .. most : ReadFile(f[i], w) \in {f[i], Unnamed}
  BY DEF ReadFile
<1>5. list \in Seq(Name \union {Unnamed}) /\ Len(list) = most /\ DOMAIN list = 1 .. most
  <2>1. list \in [1 .. most -> Name \union {Unnamed}]
    BY <1>2, <1>4
  <2> QED BY <1>1, <2>1
<1>6. \A i \in DOMAIN list : list[i] \in {f[i], Unnamed}
  BY <1>4, <1>5
<1> HIDE DEF list
<1>7. shown'[c] = list /\ shown' \in [Conn -> Seq(Name \union {Unnamed})]
      /\ \A d \in Conn \ {c} : shown'[d] = shown[d]
  BY <1>3, <1>5 DEF CharTypeOK
<1>8. /\ screen' = [screen EXCEPT ![c] = "list"]
      /\ server' = server \/ (server' = "broken" /\ Len(f) > Room)
  BY DEF SendList
<1> QED BY <1>1, <1>2, <1>5, <1>6, <1>7, <1>8

-----------------------------------------------------------------------------
(* The invariant, action by action *)

LEMMA CharInitInv == CharInit => CharInv
<1> SUFFICES ASSUME CharInit PROVE CharInv
  OBVIOUS
<1> USE CharacterAssumption DEF CharInit
<1>1. Range(dir) = {} /\ DOMAIN dir = {}
  BY DEF Range
<1>2. CharTypeOK
  BY <1>1 DEF CharTypeOK
<1>3. Distinct /\ Made /\ EmptyCause /\ ListsAgree /\ ListOverrunCause
  BY <1>1, <1>2 DEF Distinct, Made, EmptyCause, ListsAgree, Fresh, ListOverrunCause
<1>4. Short
  BY DEF Short
<1> QED BY <1>2, <1>3, <1>4 DEF CharInv, FileInv

\* Whoever is sent a list has one that agrees with the directory, or is known to miss
\* a file; the lists of the others stay as they were.
LEMMA SendKeeps ==
    ASSUME CharInv, NEW c \in Conn, NEW f \in Seq(Name), NEW w, SendList(c, f, w),
           server = "up", making = <<>> \/ making[1] = c, making' = <<>>,
           dir' = dir, Len(f) <= Len(dir),
           \/ shifted' = shifted \ {c} /\ f = dir
           \/ shifted' = shifted \union {c}
    PROVE  /\ screen' \in [Conn -> {"away", "list", "waiting", "world"}]
           /\ shown' \in [Conn -> Seq(Name \union {Unnamed})]
           /\ server' \in {"up", "down", "broken"} /\ shifted' \subseteq Conn
           /\ Distinct' /\ Made' /\ Short' /\ ListsAgree' /\ ListOverrunCause'
<1>1. CharTypeOK /\ Distinct /\ Short /\ ListsAgree
  BY DEF CharInv, FileInv
<1>2. /\ shown' \in [Conn -> Seq(Name \union {Unnamed})]
      /\ screen' = [screen EXCEPT ![c] = "list"]
      /\ Len(shown'[c]) <= Len(f)
      /\ \A i \in DOMAIN shown'[c] : i \in DOMAIN f /\ shown'[c][i] \in {f[i], Unnamed}
      /\ \A d \in Conn \ {c} : shown'[d] = shown[d]
      /\ server' = server \/ (server' = "broken" /\ Len(f) > Room)
  BY <1>1, SentList
<1>3. /\ screen' \in [Conn -> {"away", "list", "waiting", "world"}]
      /\ server' \in {"up", "down", "broken"} /\ shifted' \subseteq Conn
  BY <1>1, <1>2 DEF CharTypeOK
<1>4. Distinct' /\ Made'
  BY <1>1 DEF Distinct, Made
<1>5. Len(dir) \in Nat /\ Len(f) \in Nat /\ Room \in Nat
      /\ Len(shown'[c]) \in Nat
  BY <1>1, <1>2, LenProperties, CharacterAssumption DEF CharTypeOK
<1>6. ASSUME NEW d \in Conn PROVE Len(shown'[d]) <= Len(dir')
  <2>1. CASE d = c
    <3> DEFINE k == Len(shown'[c])
               l == Len(f)
               m == Len(dir)
    <3>1. k \in Nat /\ l \in Nat /\ m \in Nat /\ k <= l /\ l <= m
      BY <1>2, <1>5
    <3> HIDE DEF k, l, m
    <3>2. k <= m
      BY <3>1
    <3> QED BY <2>1, <3>2 DEF k, m
  <2>2. CASE d # c
    BY <1>1, <1>2, <2>2 DEF Short
  <2> QED BY <2>1, <2>2
<1>7. ASSUME NEW d \in Conn, Fresh(d)', NEW i \in DOMAIN shown'[d]
      PROVE  shown'[d][i] \in {dir'[i], Unnamed}
  <2>1. CASE d = c
    <3>1. f = dir
      BY <1>7, <2>1 DEF Fresh
    <3> QED BY <1>2, <1>7, <2>1, <3>1
  <2>2. CASE d # c
    <3>1. screen'[d] = screen[d] /\ (d \in shifted' <=> d \in shifted)
      BY <1>1, <1>2, <2>2 DEF CharTypeOK
    <3>2. Fresh(d)
      BY <1>7, <2>2, <3>1 DEF Fresh
    <3>3. i \in DOMAIN shown[d] /\ shown'[d] = shown[d]
      BY <1>2, <1>7, <2>2
    <3> QED BY <1>1, <3>2, <3>3 DEF ListsAgree
  <2> QED BY <2>1, <2>2
<1>8. ASSUME server' = "broken" PROVE Cardinality(Range(dir')) > Room
  <2>1. Len(f) > Room
    BY <1>2, <1>8
  <2>2. Cardinality(Range(dir)) = Len(dir)
    BY <1>1, NamesCount
  <2> DEFINE l == Len(f)
             m == Len(dir)
  <2>3. l \in Nat /\ m \in Nat /\ l > Room /\ l <= m
    BY <1>5, <2>1
  <2> HIDE DEF l, m
  <2>4. m > Room
    BY <1>5, <2>3
  <2> QED BY <2>2, <2>4 DEF m
<1> QED BY <1>2, <1>3, <1>4, <1>6, <1>7, <1>8 DEF Short, ListsAgree, ListOverrunCause

LEMMA OpenListKeeps == ASSUME CharInv, NEW c \in Conn, OpenList(c) PROVE CharInv'
<1>1. CharTypeOK /\ EmptyCause
  BY DEF CharInv, FileInv
<1>2. dir \in Seq(Name) /\ Len(dir) <= Len(dir)
  BY <1>1, LenProperties DEF CharTypeOK
<1>3. /\ SendList(c, dir, whole) /\ server = "up" /\ making = <<>> /\ making' = <<>>
      /\ dir' = dir /\ whole' = whole /\ broken' = broken
      /\ chosen' = chosen /\ entered' = entered /\ shifted' = shifted \ {c}
  BY DEF OpenList, Idle, fileVars, faultVars
<1>4. /\ screen' \in [Conn -> {"away", "list", "waiting", "world"}]
      /\ shown' \in [Conn -> Seq(Name \union {Unnamed})]
      /\ server' \in {"up", "down", "broken"} /\ shifted' \subseteq Conn
      /\ Distinct' /\ Made' /\ Short' /\ ListsAgree' /\ ListOverrunCause'
  BY <1>2, <1>3, SendKeeps
<1>5. CharTypeOK'
  BY <1>1, <1>3, <1>4 DEF CharTypeOK
<1>6. EmptyCause'
  BY <1>1, <1>3, <1>5 DEF EmptyCause
<1> QED BY <1>4, <1>5, <1>6 DEF CharInv, FileInv

LEMMA OpenListSkipsKeeps == ASSUME CharInv, NEW c \in Conn, OpenListSkips(c) PROVE CharInv'
<1>1. CharTypeOK /\ EmptyCause
  BY DEF CharInv, FileInv
<1>2. dir \in Seq(Name) /\ Len(dir) \in Nat /\ DOMAIN dir = 1 .. Len(dir)
  BY <1>1, LenProperties DEF CharTypeOK
<1>3. PICK i \in DOMAIN dir : SendList(c, RemoveAt(dir, i), whole)
  BY DEF OpenListSkips
<1>4. /\ server = "up" /\ making = <<>> /\ making' = <<>>
      /\ dir' = dir /\ whole' = whole /\ broken' = broken
      /\ chosen' = chosen /\ entered' = entered /\ shifted' = shifted \union {c}
  BY DEF OpenListSkips, Idle, fileVars
<1> DEFINE f == RemoveAt(dir, i)
<1>5. f \in Seq(Name) /\ Len(f) = Len(dir) - 1
  BY <1>2, RemoveAtFacts
<1>6. SendList(c, f, whole)
  BY <1>3
<1> HIDE DEF f
<1>7. Len(f) <= Len(dir)
  BY <1>2, <1>5
<1>8. /\ screen' \in [Conn -> {"away", "list", "waiting", "world"}]
      /\ shown' \in [Conn -> Seq(Name \union {Unnamed})]
      /\ server' \in {"up", "down", "broken"} /\ shifted' \subseteq Conn
      /\ Distinct' /\ Made' /\ Short' /\ ListsAgree' /\ ListOverrunCause'
  BY <1>4, <1>5, <1>6, <1>7, SendKeeps
<1>9. CharTypeOK'
  BY <1>1, <1>4, <1>8 DEF CharTypeOK
<1>10. EmptyCause'
  BY <1>1, <1>4, <1>9 DEF EmptyCause
<1> QED BY <1>8, <1>9, <1>10 DEF CharInv, FileInv

\* Steps of the clients that touch no file and send no list.
LEMMA ScreenKeeps ==
    ASSUME CharInv, UNCHANGED <<dir, whole, shown, making, server, broken, shifted>>,
           screen' \in [Conn -> {"away", "list", "waiting", "world"}],
           {chosen', entered'} \subseteq [Conn -> Name \union {Unnamed}],
           \A d \in Conn : screen'[d] = "list" => screen[d] = "list"
    PROVE  CharInv'
<1>1. CharTypeOK /\ FileInv
  BY DEF CharInv
<1>2. CharTypeOK'
  BY <1>1 DEF CharTypeOK
<1>3. Distinct' /\ Made' /\ Short' /\ ListOverrunCause'
  BY <1>1 DEF FileInv, Distinct, Made, Short, ListOverrunCause
<1>4. EmptyCause'
  BY <1>1, <1>2 DEF FileInv, EmptyCause
<1>5. ListsAgree'
  BY <1>1 DEF FileInv, ListsAgree, Fresh
<1> QED BY <1>2, <1>3, <1>4, <1>5 DEF CharInv, FileInv

\* Who chooses finds a file at the place.
LEMMA ChoiceFacts ==
    ASSUME CharInv, NEW c \in Conn, NEW i \in DOMAIN shown[c]
    PROVE  /\ i \in DOMAIN dir /\ dir[i] \in Name /\ dir[i] \in Range(dir)
           /\ shown[c][i] \in Name \union {Unnamed}
<1>1. dir \in Seq(Name) /\ shown[c] \in Seq(Name \union {Unnamed}) /\ Len(shown[c]) <= Len(dir)
  BY DEF CharInv, FileInv, CharTypeOK, Short
<1> DEFINE k == Len(shown[c])
           l == Len(dir)
<1>2. k \in Nat /\ l \in Nat /\ k <= l /\ i \in 1 .. k /\ DOMAIN dir = 1 .. l
  BY <1>1, LenProperties
<1>3. shown[c][i] \in Name \union {Unnamed}
  BY <1>1, <1>2, ElementOfSeq
<1> HIDE DEF k, l
<1>4. i \in 1 .. l
  BY <1>2
<1>5. dir[i] \in Name
  BY <1>1, <1>4, ElementOfSeq DEF l
<1>6. dir[i] \in Range(dir)
  BY <1>1, <1>4, RangeFacts DEF l
<1> QED BY <1>2, <1>3, <1>4, <1>5, <1>6

LEMMA LeaveKeeps == ASSUME CharInv, NEW c \in Conn, Leave(c) PROVE CharInv'
<1>1. CharTypeOK
  BY DEF CharInv
<1> QED BY <1>1, ScreenKeeps DEF Leave, CharTypeOK, fileVars, faultVars

LEMMA SelectKeeps ==
    ASSUME CharInv, NEW c \in Conn, NEW i \in DOMAIN shown[c], Select(c, i) \/ SelectFails(c, i)
    PROVE  CharInv'
<1>1. CharTypeOK
  BY DEF CharInv
<1>2. shown[c][i] \in Name \union {Unnamed} /\ ReadFile(dir[i], whole) \in Name \union {Unnamed}
  BY ChoiceFacts DEF ReadFile
<1>3. {chosen', entered'} \subseteq [Conn -> Name \union {Unnamed}]
  <2>1. /\ chosen \in [Conn -> Name \union {Unnamed}]
        /\ entered \in [Conn -> Name \union {Unnamed}]
    BY <1>1 DEF CharTypeOK
  <2>2. chosen' \in [Conn -> Name \union {Unnamed}]
    BY <1>2, <2>1 DEF Select, SelectFails
  <2>3. entered' \in [Conn -> Name \union {Unnamed}]
    BY <1>2, <2>1 DEF Select, SelectFails
  <2> QED BY <2>2, <2>3
<1>4. /\ screen' \in [Conn -> {"away", "list", "waiting", "world"}]
      /\ \A d \in Conn : screen'[d] = "list" => screen[d] = "list"
  BY <1>1 DEF Select, SelectFails, CharTypeOK
<1>5. UNCHANGED <<dir, whole, shown, making, server, broken, shifted>>
  BY DEF Select, SelectFails, fileVars, faultVars
<1> QED BY <1>3, <1>4, <1>5, ScreenKeeps

LEMMA OpenFileKeeps ==
    ASSUME CharInv, NEW c \in Conn, NEW n \in Name, OpenFile(c, n)
    PROVE  CharInv'
<1>1. CharTypeOK /\ FileInv
  BY DEF CharInv
<1>2. /\ dir' \in Seq(Name)
      /\ Distinct'
      /\ Range(dir') = Range(dir) \union {n}
      /\ Len(dir) <= Len(dir')
      /\ n \in Range(dir) => dir' = dir
  BY <1>1, AddedFacts DEF FileInv, OpenFile
<1>3. /\ server = "up" /\ server' = "up" /\ making = <<>> /\ making' = <<c, n>>
      /\ whole' = whole \ {n} /\ broken' = broken
      /\ screen' = screen /\ shown' = shown /\ chosen' = chosen /\ entered' = entered
      /\ shifted' = IF n \in Range(dir) THEN shifted ELSE shifted \union (Conn \ {c})
  BY DEF OpenFile, Idle, clientVars, faultVars
<1>4. making' # <<>> /\ making'[1] = c /\ making'[2] = n
  BY <1>3
<1>5. CharTypeOK'
  BY <1>1, <1>2, <1>3 DEF CharTypeOK
<1>6. Made' /\ ListOverrunCause'
  BY <1>2, <1>3, <1>4 DEF Made, ListOverrunCause
<1>7. EmptyCause'
  BY <1>1, <1>2, <1>3, <1>4, <1>5 DEF EmptyCause, FileInv
<1>8. ASSUME NEW d \in Conn PROVE Len(shown'[d]) <= Len(dir')
  <2> DEFINE k == Len(shown[d])
             l == Len(dir)
             m == Len(dir')
  <2>1. k \in Nat /\ l \in Nat /\ m \in Nat /\ k <= l /\ l <= m
    BY <1>1, <1>2, LenProperties DEF FileInv, Short, CharTypeOK
  <2>2. Len(shown'[d]) = k
    BY <1>3
  <2> HIDE DEF k, l, m
  <2>3. k <= m
    BY <2>1
  <2> QED BY <2>2, <2>3 DEF m
<1>9. ASSUME NEW d \in Conn, Fresh(d)', NEW i \in DOMAIN shown'[d]
      PROVE  shown'[d][i] \in {dir'[i], Unnamed}
  <2>1. d # c
    BY <1>4, <1>9 DEF Fresh
  <2>2. n \in Range(dir)
    BY <1>3, <1>9, <2>1 DEF Fresh
  <2>3. Fresh(d)
    BY <1>3, <1>9, <2>2 DEF Fresh
  <2> QED BY <1>1, <1>2, <1>3, <1>9, <2>2, <2>3 DEF FileInv, ListsAgree
<1> QED BY <1>2, <1>5, <1>6, <1>7, <1>8, <1>9 DEF CharInv, FileInv, Short, ListsAgree

LEMMA OpenFailsKeeps ==
    ASSUME CharInv, NEW c \in Conn, NEW n \in Name, OpenFails(c, n)
    PROVE  CharInv'
<1>1. CharTypeOK
  BY DEF CharInv
<1> QED BY <1>1, ScreenKeeps DEF OpenFails, CharTypeOK, fileVars

LEMMA WriteKeeps == ASSUME CharInv, WriteFile \/ WriteFails PROVE CharInv'
<1>1. CharTypeOK /\ FileInv
  BY DEF CharInv
<1>2. making # <<>> /\ server = "up" /\ making' = <<>> /\ dir' = dir
      /\ chosen' = chosen /\ entered' = entered
  BY DEF WriteFile, WriteFails, fileVars
<1>3. PICK c \in Conn, n \in Name : making = <<c, n>>
  BY <1>1, <1>2 DEF CharTypeOK
<1>4. making[1] = c /\ making[2] = n /\ n \in Range(dir)
  BY <1>1, <1>2, <1>3 DEF FileInv, Made
<1>5. dir \in Seq(Name) /\ Len(dir) <= Len(dir)
  BY <1>1, LenProperties DEF CharTypeOK
<1>6. \E w : SendList(c, dir, w)
  BY <1>4 DEF WriteFile, WriteFails
<1>7. shifted' = shifted \ {c}
  BY <1>4 DEF WriteFile, WriteFails
<1>8. /\ screen' \in [Conn -> {"away", "list", "waiting", "world"}]
      /\ shown' \in [Conn -> Seq(Name \union {Unnamed})]
      /\ server' \in {"up", "down", "broken"} /\ shifted' \subseteq Conn
      /\ Distinct' /\ Made' /\ Short' /\ ListsAgree' /\ ListOverrunCause'
  BY <1>2, <1>4, <1>5, <1>6, <1>7, SendKeeps
<1>9. \/ whole' = whole \union {n} /\ broken' = broken \ {n}
      \/ whole' = whole /\ broken' = broken \union {n}
  BY <1>4 DEF WriteFile, WriteFails, fileVars
<1>10. CharTypeOK'
  BY <1>1, <1>2, <1>4, <1>8, <1>9 DEF CharTypeOK
<1>11. EmptyCause'
  BY <1>1, <1>2, <1>4, <1>9, <1>10 DEF FileInv, EmptyCause
<1> QED BY <1>8, <1>10, <1>11 DEF CharInv, FileInv

LEMMA EndKeeps == ASSUME CharInv, Kill \/ Boot PROVE CharInv'
<1>1. CharTypeOK /\ FileInv
  BY DEF CharInv
<1>2. CASE Boot
  <2>1. /\ server = "down" /\ server' = "up"
        /\ UNCHANGED <<fileVars, clientVars, making, faultVars, shifted>>
    BY <1>2 DEF Boot
  <2>2. CharTypeOK'
    BY <1>1, <2>1 DEF CharTypeOK, fileVars, clientVars, faultVars
  <2>3. Distinct' /\ Made' /\ Short' /\ ListOverrunCause' /\ ListsAgree'
    BY <1>1, <2>1 DEF FileInv, Distinct, Made, Short, ListOverrunCause, ListsAgree, Fresh,
                      fileVars, clientVars, faultVars
  <2>4. EmptyCause'
    BY <1>1, <2>1, <2>2 DEF FileInv, EmptyCause, fileVars, clientVars, faultVars
  <2> QED BY <2>2, <2>3, <2>4 DEF CharInv, FileInv
<1>3. CASE Kill
  <2>1. /\ server' = "down" /\ making' = <<>> /\ screen' = [c \in Conn |-> "away"]
        /\ broken' = IF making = <<>> THEN broken ELSE broken \union {making[2]}
        /\ UNCHANGED <<dir, whole, shown, chosen, entered, shifted>>
    BY <1>3 DEF Kill, fileVars
  <2>2. making # <<>> => making[2] \in Name
    BY <1>1 DEF CharTypeOK
  <2>3. CharTypeOK'
    BY <1>1, <2>1, <2>2 DEF CharTypeOK
  <2>4. Distinct' /\ Made' /\ Short' /\ ListOverrunCause' /\ ListsAgree'
    BY <1>1, <2>1 DEF FileInv, Distinct, Made, Short, ListOverrunCause, ListsAgree, Fresh
  <2>5. EmptyCause'
    BY <1>1, <2>1, <2>3 DEF FileInv, EmptyCause
  <2> QED BY <2>3, <2>4, <2>5 DEF CharInv, FileInv
<1> QED BY <1>2, <1>3

LEMMA CharStep == CharInv /\ [CharNext]_charVars => CharInv'
<1> SUFFICES ASSUME CharInv, [CharNext]_charVars PROVE CharInv'
  OBVIOUS
<1>1. CASE CharNext
  <2>1. ASSUME NEW c \in Conn, OpenList(c) \/ OpenListSkips(c) \/ Leave(c) PROVE CharInv'
    BY <2>1, OpenListKeeps, OpenListSkipsKeeps, LeaveKeeps
  <2>2. ASSUME NEW c \in Conn, NEW n \in Name, OpenFile(c, n) \/ OpenFails(c, n) PROVE CharInv'
    BY <2>2, OpenFileKeeps, OpenFailsKeeps
  <2>3. ASSUME NEW c \in Conn, NEW i \in DOMAIN shown[c], Select(c, i) \/ SelectFails(c, i)
        PROVE  CharInv'
    BY <2>3, SelectKeeps
  <2>4. ASSUME WriteFile \/ WriteFails \/ Kill \/ Boot PROVE CharInv'
    BY <2>4, WriteKeeps, EndKeeps
  <2> QED BY <1>1, <2>1, <2>2, <2>3, <2>4 DEF CharNext
<1>2. CASE UNCHANGED charVars
  <2>1. CharTypeOK /\ FileInv
    BY DEF CharInv
  <2>2. UNCHANGED <<dir, whole, shown, making, server, broken, shifted, screen, chosen, entered>>
    BY <1>2 DEF charVars, fileVars, clientVars, faultVars
  <2> QED BY <2>1, <2>2, ScreenKeeps DEF CharTypeOK
<1> QED BY <1>1, <1>2

\* The invariant holds in every state.
LEMMA CharInvariance == CharSpec => []CharInv
BY CharInitInv, CharStep, PTL DEF CharSpec

-----------------------------------------------------------------------------

\* A character without contents is one whose last creation was cut short, or is being
\* made.
THEOREM EmptyFiles == CharSpec => []EmptyCause
<1>1. CharInv => EmptyCause
  BY DEF CharInv, FileInv
<1> QED BY <1>1, CharInvariance, PTL

\* The list outgrows its buffer only for an account with more characters than it has
\* room for.
THEOREM ListOverrun == CharSpec => []ListOverrunCause
<1>1. CharInv => ListOverrunCause
  BY DEF CharInv, FileInv
<1> QED BY <1>1, CharInvariance, PTL

\* What is chosen is entered: the step of handle_select_character finds at the index
\* what the list said, unless the list was known to miss a file.
LEMMA ChoiceStep ==
    ASSUME CharInv, [CharNext]_charVars, NEW c \in Conn, screen[c] = "list", screen'[c] = "world",
           c \notin shifted, chosen'[c] \in Name \ broken
    PROVE  entered'[c] = chosen'[c]
<1>1. CharTypeOK /\ EmptyCause /\ ListsAgree
  BY DEF CharInv, FileInv
<1>2. PICK i \in DOMAIN shown[c] : Select(c, i)
  <2>1. CharNext
    BY DEF charVars, clientVars
  <2>2. ASSUME NEW d \in Conn, OpenList(d) \/ OpenListSkips(d) \/ Leave(d) PROVE FALSE
    BY <1>1, <2>2 DEF OpenList, OpenListSkips, Leave, SendList, CharTypeOK
  <2>3. ASSUME NEW d \in Conn, NEW n \in Name, OpenFile(d, n) \/ OpenFails(d, n) PROVE FALSE
    BY <1>1, <2>3 DEF OpenFile, OpenFails, clientVars, CharTypeOK
  <2>4. ASSUME WriteFile \/ WriteFails \/ Kill \/ Boot PROVE FALSE
    BY <1>1, <2>4 DEF WriteFile, WriteFails, SendList, Kill, Boot, clientVars, CharTypeOK
  <2>5. ASSUME NEW d \in Conn, NEW i \in DOMAIN shown[d], SelectFails(d, i) PROVE FALSE
    BY <1>1, <2>5 DEF SelectFails, CharTypeOK
  <2>6. ASSUME NEW d \in Conn, NEW i \in DOMAIN shown[d], Select(d, i) PROVE d = c
    BY <1>1, <2>6 DEF Select, CharTypeOK
  <2> QED BY <2>1, <2>2, <2>3, <2>4, <2>5, <2>6 DEF CharNext
<1>3. /\ making = <<>>
      /\ chosen'[c] = shown[c][i] /\ entered'[c] = ReadFile(dir[i], whole)
  BY <1>1, <1>2 DEF Select, Idle, CharTypeOK
<1>4. shown[c][i] \in {dir[i], Unnamed}
  BY <1>1, <1>3 DEF ListsAgree, Fresh
<1>5. chosen'[c] = dir[i]
  BY <1>3, <1>4, CharacterAssumption
<1>6. dir[i] \in Range(dir)
  BY ChoiceFacts
<1>7. dir[i] \in whole
  BY <1>1, <1>3, <1>5, <1>6 DEF EmptyCause
<1> QED BY <1>3, <1>5, <1>7 DEF ReadFile

\* A client enters the world with the character it chose, for any number of logins of
\* the account: the one index means the same file in the list and in the walk of
\* handle_select_character.
THEOREM ChoiceEntered == CharSpec => ChoiceIsEntered
<1>1. CharInv /\ [CharNext]_charVars =>
        [\A c \in Conn :
          (screen[c] = "list" /\ screen'[c] = "world" /\ c \notin shifted
             /\ chosen'[c] \in Name \ broken)
          => entered'[c] = chosen'[c]]_charVars
  BY ChoiceStep
<1> QED BY <1>1, CharInvariance, PTL DEF CharSpec, ChoiceIsEntered
=============================================================================
