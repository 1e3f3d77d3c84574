---------------------------- MODULE FramingProofs ----------------------------
(***************************************************************************)
(* Proofs about Framing, for requests of any sizes that two bytes can      *)
(* hold, any cut of the stream into reads and any range of the keys.       *)
(***************************************************************************)
EXTENDS Framing, TLAPS

\* What was handled is the start of what was sent.
Prefix ==
    /\ Len(handled) <= Len(sent)
    /\ \A i \in 1 .. Len(handled) : handled[i] = sent[i]

\* Whatever was handled had arrived.
Ahead ==
    /\ Len(handled) <= arriving
    /\ arriving > 0 => got \in 1 .. sent[arriving].size
    /\ arriving > 0 /\ Len(handled) = arriving => got = sent[arriving].size

\* The key that comes after the i-th request of q: the first request has none, the second
\* the one that the count starts with.
After(q, i) == IF i <= 1 THEN 0 ELSE Advance(q[i].key, q[i].size)

\* The count of either side is that of the requests it has written, or read, so far.
Keys ==
    /\ \A i \in 1 .. Len(sent) :
         sent[i].key = IF server = "game" /\ i > 1 THEN After(sent, i - 1) ELSE Plain
    /\ clientKey = IF server = "game" THEN After(sent, Len(sent)) ELSE 0
    /\ key = IF server = "game" THEN After(handled, Len(handled)) ELSE 0
    /\ encrypted = (server = "game" /\ handled # <<>>)

\* What the buffer's second byte holds when no byte of a request is there.
Remainder == stale = IF handled = <<>> THEN 0 ELSE High(handled[Len(handled)].size)

\* A client of the login server waits for its answers.
Patience == server = "login" => Len(sent) <= Len(handled) + 1

Inv ==
    /\ TypeOK
    /\ Prefix /\ Ahead /\ Keys /\ Remainder /\ Patience
    /\ NothingLeft /\ MisframedCause

Size == UNION {SizeAt[s] : s \in Server}

-----------------------------------------------------------------------------
(* Sizes and keys *)

\* A request has at least a byte besides its size, and its size fits two bytes.
LEMMA SizeRange ==
    ASSUME NEW z \in Size
    PROVE  z \in Nat /\ z > 2 /\ High(z) < 256
<1>1. PICK s \in Server : z \in SizeAt[s]
  BY DEF Size
<1>. QED
  BY <1>1, FramingAssumption

\* The two bytes of a size; when the low one is at most one the high one is not zero.
LEMMA Halves ==
    ASSUME NEW z \in Size
    PROVE  /\ Low(z) \in 0 .. 255 /\ High(z) \in 0 .. 255
           /\ Low(z) <= 1 => High(z) > 0
<1>0. z \in Nat /\ z > 2 /\ z \div 256 < 256
  BY SizeRange DEF High
<1>1. z % 256 \in 0 .. 255
  BY <1>0, SMT
<1>2. z \div 256 \in Nat
  BY <1>0, SMT
<1>3. z = 256 * (z \div 256) + (z % 256)
  BY <1>0, SMT
<1>. QED
  BY <1>0, <1>1, <1>2, <1>3, SMT DEF Low, High

\* A key that counted one more request is a key.
LEMMA KeyRange ==
    ASSUME NEW k \in Nat, NEW z \in Size
    PROVE  Advance(k, z) \in 0 .. KeyMod - 1
<1>1. k + (z - 2) \in Nat
  BY SizeRange, SMT
<1>. QED
  BY <1>1, FramingAssumption, SMT DEF Advance

LEMMA RequestIs == Request = [size : Size, key : Key]
BY DEF Request, Size

-----------------------------------------------------------------------------
(* The invariant *)

LEMMA InitInv == Init => Inv
<1> SUFFICES ASSUME Init PROVE Inv
  OBVIOUS
<1>1. KeyMod \in Nat \ {0}
  BY FramingAssumption
<1>2. TypeOK
  <2>1. <<>> \in Seq(Request) /\ Len(<<>>) = 0
    OBVIOUS
  <2>2. 0 \in 0 .. KeyMod - 1 /\ 0 \in 0 .. 0 /\ 0 \in Nat /\ 0 \in 0 .. 255
    BY <1>1, SMT
  <2>. QED
    BY <2>1, <2>2, Zenon DEF Init, TypeOK
<1>3. Prefix /\ Ahead /\ Remainder /\ Patience
  BY SMT DEF Init, Prefix, Ahead, Remainder, Patience
<1>4. Keys
  <2>1. \A i \in 1 .. Len(sent) : FALSE
    BY SMT DEF Init
  <2>2. After(sent, Len(sent)) = 0 /\ After(handled, Len(handled)) = 0
    BY SMT DEF Init, After
  <2>3. encrypted = (server = "game" /\ handled # <<>>)
    BY Zenon DEF Init
  <2>4. clientKey = 0 /\ key = 0
    BY DEF Init
  <2>. QED
    BY <2>1, <2>2, <2>3, <2>4, Zenon DEF Keys
<1>5. NothingLeft /\ MisframedCause
  BY <1>2, SMT DEF Init, NothingLeft, MisframedCause, Whole, First
<1>. QED
  BY <1>2, <1>3, <1>4, <1>5 DEF Inv

\* What a request is made of, and that a key that counted it is a key.
LEMMA RequestFields ==
    ASSUME NEW r \in Request
    PROVE  /\ r.size \in Nat /\ r.size > 2 /\ r.size \in Size
           /\ r.key \in Nat
           /\ r = [size |-> r.size, key |-> r.key]
           /\ Advance(r.key, r.size) \in 0 .. KeyMod - 1
<1>1. r.size \in Size /\ r.key \in Key /\ r = [size |-> r.size, key |-> r.key]
  BY RequestIs
<1>2. r.key \in Nat
  BY <1>1, FramingAssumption, SMT DEF Key
<1>. QED
  BY <1>1, <1>2, SizeRange, KeyRange

LEMMA SendsInv ==
    ASSUME Inv, ~misframed, NEW size \in SizeAt[server], ClientSends(size)
    PROVE  Inv'
<1>a. TypeOK /\ Prefix /\ Ahead /\ Keys /\ Remainder /\ Patience /\ NothingLeft
  BY DEF Inv
<1> DEFINE ciphered == server = "game" /\ sent # <<>>
           new == [size |-> size, key |-> IF ciphered THEN clientKey ELSE Plain]
<1>b. /\ sent' = Append(sent, new)
      /\ clientKey' = IF ciphered THEN Advance(clientKey, size) ELSE clientKey
      /\ UNCHANGED <<server, arriving, got, at, stale, key, encrypted, handled, misframed>>
      /\ server = "login" => Len(handled) = Len(sent)
  BY DEF ClientSends, readVars, connVars
<1>c. KeyMod \in Nat \ {0}
  BY FramingAssumption
<1>d. size \in Size /\ size \in Nat
  <2>1. size \in Size
    BY <1>a DEF Size, TypeOK
  <2>. QED
    BY <2>1, SizeRange
<1>e. new \in Request
  <2>1. (IF ciphered THEN clientKey ELSE Plain) \in Key
    BY <1>a, <1>c, SMT DEF TypeOK, Plain, Key
  <2>. QED
    BY <2>1, <1>d, RequestIs
<1> HIDE DEF new
<1>f. /\ sent \in Seq(Request) /\ Len(sent) \in Nat
      /\ handled \in Seq(Request) /\ Len(handled) \in Nat
  BY <1>a DEF TypeOK
<1>g. /\ sent' \in Seq(Request) /\ Len(sent') = Len(sent) + 1
      /\ \A i \in 1 .. Len(sent) : sent'[i] = sent[i]
      /\ sent'[Len(sent) + 1] = new
  BY <1>b, <1>e, <1>f
<1>1. TypeOK'
  <2>1. clientKey' \in 0 .. KeyMod - 1
    <3>1. clientKey \in 0 .. KeyMod - 1
      BY <1>a DEF TypeOK
    <3>2. clientKey \in Nat
      BY <3>1, <1>c, SMT
    <3>3. Advance(clientKey, size) \in 0 .. KeyMod - 1
      BY <3>2, <1>d, KeyRange
    <3>. QED
      BY <3>1, <3>3, <1>b, Zenon
  <2>. QED
    BY <2>1, <1>a, <1>b, <1>g, SMT DEF TypeOK
<1>2. (Prefix /\ Ahead /\ Remainder /\ Patience)'
  <2>1. Prefix'
    BY <1>a, <1>b, <1>f, <1>g, SMT DEF Prefix
  <2>2. Ahead'
    BY <1>a, <1>b, <1>f, <1>g, SMT DEF Ahead, TypeOK
  <2>3. Remainder' /\ Patience'
    BY <1>a, <1>b, <1>f, <1>g, SMT DEF Remainder, Patience
  <2>. QED
    BY <2>1, <2>2, <2>3
<1>3. Keys'
  <2>1. \A i \in 0 .. Len(sent) : After(sent', i) = After(sent, i)
    BY <1>f, <1>g, SMT DEF After
  <2>2. sent # <<>> <=> Len(sent) > 0
    BY <1>f, SMT
  <2>3. new.size = size /\ new.key = IF ciphered THEN clientKey ELSE Plain
    BY DEF new
  <2>4. ASSUME NEW i \in 1 .. Len(sent')
        PROVE  sent'[i].key = IF server = "game" /\ i > 1 THEN After(sent', i - 1) ELSE Plain
    <3>1. CASE i <= Len(sent)
      BY <3>1, <1>a, <1>f, <1>g, <2>1, SMT DEF Keys
    <3>2. CASE i = Len(sent) + 1
      BY <3>2, <1>a, <1>f, <1>g, <2>1, <2>2, <2>3, SMT DEF Keys
    <3>. QED
      BY <3>1, <3>2, <1>f, <1>g, SMT
  <2>5. clientKey' = IF server = "game" THEN After(sent', Len(sent')) ELSE 0
    BY <1>a, <1>b, <1>f, <1>g, <2>2, <2>3, SMT DEF Keys, After
  <2>. QED
    BY <2>4, <2>5, <1>a, <1>b DEF Keys
<1>4. NothingLeft' /\ MisframedCause'
  <2>1. Whole' => Whole
    BY <1>a, <1>b, <1>f, <1>g, SMT DEF Whole, First, TypeOK
  <2>. QED
    BY <2>1, <1>1, <1>a, <1>b DEF NothingLeft, MisframedCause
<1>. QED
  BY <1>1, <1>2, <1>3, <1>4 DEF Inv

LEMMA ReadInv ==
    ASSUME Inv, ~misframed, NEW r, NEW n, Read(r, n)
    PROVE  Inv'
<1>a. TypeOK /\ Prefix /\ Ahead /\ Keys /\ Remainder /\ Patience
  BY DEF Inv
<1>b. /\ r \in 1 .. Len(sent) /\ n \in Cut \union {sent[r].size} /\ n <= sent[r].size
      /\ r > arriving \/ (r = arriving /\ n > got)
      /\ arriving' = r /\ got' = n /\ at' = "handling"
      /\ UNCHANGED <<server, sent, clientKey, stale, key, encrypted, handled, misframed>>
  BY DEF Read, clientVars, connVars
<1>c. n \in Nat \ {0}
  <2>1. sent[r] \in Request
    BY <1>a, <1>b DEF TypeOK
  <2>. QED
    BY <2>1, <1>b, RequestFields, FramingAssumption
<1>d. Len(handled) \in Nat /\ Len(sent) \in Nat
  BY <1>a DEF TypeOK
<1>1. TypeOK'
  BY <1>a, <1>b, <1>c, SMT DEF TypeOK
<1>2. Ahead'
  BY <1>a, <1>b, <1>c, <1>d, SMT DEF Ahead, TypeOK
<1>3. (Prefix /\ Keys /\ Remainder /\ Patience)'
  BY <1>a, <1>b DEF Prefix, Keys, Remainder, Patience, After
<1>4. NothingLeft' /\ MisframedCause'
  BY <1>1, <1>b DEF NothingLeft, MisframedCause
<1>. QED
  BY <1>1, <1>2, <1>3, <1>4 DEF Inv

\* A whole request is one that was sent, and the next one.
LEMMA WholeIsSent ==
    ASSUME Inv, Whole
    PROVE  /\ First \in 1 .. Len(sent) /\ First <= arriving
           /\ sent[First] \in Request
BY SMT DEF Inv, TypeOK, Whole, First

\* What the handler reads is what the client wrote: the key of either side counted the
\* requests before this one.
LEMMA HandlesWhatWasSent ==
    ASSUME Inv, Handle
    PROVE  /\ handled' = Append(handled, sent[First])
           /\ (IF encrypted THEN key ELSE Plain) = sent[First].key
<1>a. TypeOK /\ Prefix /\ Keys
  BY DEF Inv
<1>b. First \in 1 .. Len(sent) /\ sent[First] \in Request
  BY WholeIsSent DEF Handle
<1>c. Len(handled) \in Nat /\ (handled # <<>> <=> Len(handled) > 0)
  BY <1>a, SMT DEF TypeOK
<1>1. After(handled, Len(handled)) = After(sent, Len(handled))
  BY <1>a, <1>c, SMT DEF Prefix, After
<1>2. sent[First].key = IF server = "game" /\ First > 1 THEN After(sent, Len(handled)) ELSE Plain
  BY <1>a, <1>b, <1>c, SMT DEF Keys, First
<1>3. (IF encrypted THEN key ELSE Plain) = sent[First].key
  <2>1. First > 1 <=> handled # <<>>
    BY <1>c, SMT DEF First
  <2>2. encrypted <=> server = "game" /\ handled # <<>>
    BY <1>a, Zenon DEF Keys
  <2>3. encrypted => key = After(handled, Len(handled))
    BY <2>2, <1>a, Zenon DEF Keys
  <2>. QED
    BY <2>1, <2>2, <2>3, <1>1, <1>2, Zenon
<1>4. sent[First] = [size |-> sent[First].size, key |-> sent[First].key]
  BY <1>b, RequestFields
<1>. QED
  BY <1>3, <1>4 DEF Handle

LEMMA HandleInv ==
    ASSUME Inv, ~misframed, Handle
    PROVE  Inv'
<1>a. TypeOK /\ Prefix /\ Ahead /\ Keys /\ Remainder /\ Patience
  BY DEF Inv
<1> DEFINE req == sent[First]
<1>b. /\ at = "handling" /\ Whole
      /\ key' = IF encrypted THEN Advance(key, req.size) ELSE key
      /\ encrypted' = (server = "game")
      /\ stale' = High(req.size)
      /\ at' = IF server = "game" THEN "handling" ELSE "idle"
      /\ UNCHANGED <<server, sent, clientKey, arriving, got, misframed>>
  BY DEF Handle, clientVars, readVars
<1>c. handled' = Append(handled, req)
  BY HandlesWhatWasSent
<1>d. First \in 1 .. Len(sent) /\ First <= arriving /\ req \in Request
  BY <1>b, WholeIsSent
<1> HIDE DEF req
<1>e. req.size \in Size /\ req.size \in Nat
  BY <1>d, RequestFields
<1>f. handled \in Seq(Request) /\ Len(handled) \in Nat /\ Len(sent) \in Nat
  BY <1>a DEF TypeOK
<1>g. /\ handled' \in Seq(Request) /\ Len(handled') = Len(handled) + 1
      /\ \A i \in 1 .. Len(handled) : handled'[i] = handled[i]
      /\ handled'[Len(handled) + 1] = req
      /\ handled' # <<>>
  BY <1>c, <1>d, <1>f, SMT
<1>h. First = Len(handled) + 1
  BY DEF First
<1>1. TypeOK'
  <2>1. key' \in 0 .. KeyMod - 1
    <3>1. key \in 0 .. KeyMod - 1
      BY <1>a DEF TypeOK
    <3>2. key \in Nat
      BY <3>1, FramingAssumption, SMT
    <3>3. Advance(key, req.size) \in 0 .. KeyMod - 1
      BY <3>2, <1>e, KeyRange
    <3>. QED
      BY <3>1, <3>3, <1>b, Zenon
  <2>2. stale' \in 0 .. 255
    BY <1>b, <1>e, Halves
  <2>. QED
    BY <2>1, <2>2, <1>a, <1>b, <1>g DEF TypeOK
<1>2. Prefix'
  BY <1>a, <1>b, <1>d, <1>f, <1>g, <1>h, SMT DEF Prefix, req
<1>3. Ahead'
  <2>1. First = arriving => got = sent[arriving].size
    BY <1>b, <1>d, <1>h, <1>f, <1>a, SMT DEF Whole, TypeOK
  <2>. QED
    BY <2>1, <1>a, <1>b, <1>d, <1>f, <1>g, <1>h, SMT DEF Ahead, TypeOK
<1>4. Keys'
  <2>1. key' = IF server = "game" THEN After(handled', Len(handled')) ELSE 0
    <3>1. handled # <<>> <=> Len(handled) > 0
      BY <1>f, SMT
    <3>2. CASE encrypted
      <4>1. server = "game" /\ Len(handled) > 0
        BY <3>1, <3>2, <1>a DEF Keys
      <4>2. req.key = key
        BY <3>2, HandlesWhatWasSent, Zenon DEF req
      <4>. QED
        BY <4>1, <4>2, <3>2, <1>b, <1>g, <1>f, SMT DEF After
    <3>3. CASE ~encrypted
      <4>1. key' = key
        BY <3>3, <1>b, Zenon
      <4>2. ~(server = "game" /\ handled # <<>>)
        BY <3>3, <1>a, Zenon DEF Keys
      <4>3. key = 0
        <5>1. server = "game" => Len(handled) <= 1
          BY <4>2, <3>1, <1>f, SMT
        <5>. QED
          BY <5>1, <1>a, Zenon DEF Keys, After
      <4>4. server = "game" => Len(handled') <= 1
        BY <4>2, <3>1, <1>f, <1>g, SMT
      <4>. QED
        BY <4>1, <4>3, <4>4, Zenon DEF After
    <3>. QED
      BY <3>2, <3>3
  <2>. QED
    BY <2>1, <1>a, <1>b, <1>g DEF Keys, After
<1>5. Remainder' /\ Patience'
  BY <1>a, <1>b, <1>f, <1>g, SMT DEF Remainder, Patience
<1>6. NothingLeft' /\ MisframedCause'
  <2>1. ~(server = "login" /\ Whole')
    BY <1>a, <1>b, <1>f, <1>g, <1>h, SMT DEF Whole, First, Patience, TypeOK
  <2>2. server \in {"game", "login"}
    BY <1>a, FramingAssumption DEF TypeOK
  <2>. QED
    BY <2>1, <2>2, <1>1, <1>b DEF NothingLeft, MisframedCause
<1>. QED
  BY <1>1, <1>2, <1>3, <1>4, <1>5, <1>6 DEF Inv

LEMMA MisframeInv ==
    ASSUME Inv, ~misframed, Misframe
    PROVE  Inv'
<1>a. TypeOK /\ Prefix /\ Ahead /\ Keys /\ Remainder /\ Patience /\ NothingLeft
  BY DEF Inv
<1>b. /\ at = "handling" /\ Early /\ misframed' = TRUE
      /\ UNCHANGED <<server, sent, clientKey, arriving, got, at, stale, key, encrypted, handled>>
  BY DEF Misframe, clientVars, readVars, connVars
<1>1. TypeOK'
  BY <1>a, <1>b DEF TypeOK
<1>2. (Prefix /\ Ahead /\ Keys /\ Remainder /\ Patience)'
  BY <1>a, <1>b DEF Prefix, Ahead, Keys, Remainder, Patience, After
<1>3. NothingLeft'
  BY <1>1, <1>b DEF NothingLeft
<1>4. MisframedCause'
  <2>1. First = arriving /\ got = 1 /\ Low(sent[First].size) + 256 * stale <= 1
    BY <1>b DEF Early
  <2>2. sent[First] \in Request
    BY <2>1, <1>a, SMT DEF TypeOK, First
  <2>3. sent[First].size \in Size
    BY <2>2, RequestFields
  <2>4. stale = 0 /\ Low(sent[First].size) <= 1 /\ High(sent[First].size) > 0
    <3>1. /\ Low(sent[First].size) \in Nat
          /\ Low(sent[First].size) <= 1 => High(sent[First].size) > 0
      BY <2>3, Halves
    <3>2. stale \in Nat
      BY <1>a DEF TypeOK
    <3>3. \A x \in Nat, y \in Nat : x + 256 * y <= 1 => x <= 1 /\ y = 0
      BY SMT
    <3>. QED
      BY <2>1, <3>1, <3>2, <3>3
  <2>5. handled # <<>> => High(handled[Len(handled)].size) = 0
    BY <2>4, <1>a DEF Remainder
  <2>. QED
    BY <2>1, <2>4, <2>5, <1>b DEF MisframedCause, First
<1>. QED
  BY <1>1, <1>2, <1>3, <1>4 DEF Inv

LEMMA IncompleteInv ==
    ASSUME Inv, ~misframed, Incomplete
    PROVE  Inv'
<1>a. TypeOK /\ Prefix /\ Ahead /\ Keys /\ Remainder /\ Patience
  BY DEF Inv
<1>b. /\ ~Whole /\ at' = "idle"
      /\ UNCHANGED <<server, sent, clientKey, arriving, got, stale, key, encrypted,
                     handled, misframed>>
  BY DEF Incomplete, clientVars, readVars, connVars
<1>1. TypeOK'
  BY <1>a, <1>b DEF TypeOK
<1>2. (Prefix /\ Ahead /\ Keys /\ Remainder /\ Patience)'
  BY <1>a, <1>b DEF Prefix, Ahead, Keys, Remainder, Patience, After
<1>3. NothingLeft' /\ MisframedCause'
  BY <1>1, <1>b DEF NothingLeft, MisframedCause, Whole, First
<1>. QED
  BY <1>1, <1>2, <1>3 DEF Inv

LEMMA NextInv == Inv /\ [Next]_vars => Inv'
<1> SUFFICES ASSUME Inv, [Next]_vars PROVE Inv'
  OBVIOUS
<1>1. CASE Next
  <2>1. ~misframed
    BY <1>1 DEF Next
  <2>2. CASE \E size \in SizeAt[server] : ClientSends(size)
    BY <2>1, <2>2, SendsInv
  <2>3. CASE \E r \in 1 .. Len(sent) : \E n \in Cut \union {sent[r].size} : Read(r, n)
    BY <2>1, <2>3, ReadInv
  <2>4. CASE Handle
    BY <2>1, <2>4, HandleInv
  <2>5. CASE Misframe
    BY <2>1, <2>5, MisframeInv
  <2>6. CASE Incomplete
    BY <2>1, <2>6, IncompleteInv
  <2>. QED
    BY <1>1, <2>2, <2>3, <2>4, <2>5, <2>6 DEF Next
<1>2. CASE UNCHANGED vars
  BY <1>2 DEF vars, clientVars, readVars, connVars, Inv, TypeOK, Prefix, Ahead, Keys, After,
              Remainder, Patience, NothingLeft, Whole, First, MisframedCause
<1>. QED
  BY <1>1, <1>2

THEOREM InvHolds == Spec => []Inv
BY InitInv, NextInv, PTL DEF Spec

\* When a handler is done no whole request is left in the buffer: the game's by its loop,
\* the login server's because its client waits (handle_request, on_request).
THEOREM NothingLeftHolds == Spec => []NothingLeft
<1>1. Inv => NothingLeft
  BY DEF Inv
<1>. QED
  BY <1>1, InvHolds, PTL

\* A stream of proper requests is misframed in one way only (handle_request): one byte of
\* a request of 256 n or 256 n + 1 bytes comes by itself after a request below 256.
THEOREM MisframedCauseHolds == Spec => []MisframedCause
<1>1. Inv => MisframedCause
  BY DEF Inv
<1>. QED
  BY <1>1, InvHolds, PTL

-----------------------------------------------------------------------------
(* The refinement *)

LEMMA InitMaps == Init => Reference!Init
BY DEF Init, Reference!Init, Arrived

\* Of the request read last either all is there, or some is.
LEMMA ArrivedRange ==
    ASSUME Inv
    PROVE  /\ Arrived \in 0 .. Len(sent)
           /\ Arrived = arriving \/ (Arrived = arriving - 1 /\ arriving > 0)
BY SMT DEF Inv, TypeOK, Arrived

LEMMA SendsMaps ==
    ASSUME Inv, NEW size \in SizeAt[server], ClientSends(size)
    PROVE  Reference!Send
<1>a. TypeOK
  BY DEF Inv
<1> DEFINE ciphered == server = "game" /\ sent # <<>>
           new == [size |-> size, key |-> IF ciphered THEN clientKey ELSE Plain]
<1>b. sent' = Append(sent, new) /\ UNCHANGED <<arriving, got, handled>>
  BY DEF ClientSends, readVars
<1>1. new \in Request
  <2>1. size \in Size
    BY <1>a DEF Size, TypeOK
  <2>2. (IF ciphered THEN clientKey ELSE Plain) \in Key
    BY <1>a, FramingAssumption, SMT DEF TypeOK, Plain, Key
  <2>. QED
    BY <2>1, <2>2, RequestIs
<1> HIDE DEF new
<1>2. \A i \in 1 .. Len(sent) : sent'[i] = sent[i]
  BY <1>a, <1>b, <1>1 DEF TypeOK
<1>3. Arrived' = Arrived
  BY <1>2, <1>a, <1>b, SMT DEF Arrived, TypeOK
<1>. QED
  BY <1>1, <1>3, <1>b DEF Reference!Send

LEMMA ReadMaps ==
    ASSUME Inv, NEW r, NEW n, Read(r, n)
    PROVE  Reference!Arrive
<1>a. TypeOK
  BY DEF Inv
<1>b. /\ r \in 1 .. Len(sent) /\ n <= sent[r].size
      /\ r > arriving \/ (r = arriving /\ n > got)
      /\ arriving' = r /\ got' = n
      /\ UNCHANGED <<sent, handled>>
  BY DEF Read, clientVars
<1>c. sent[r] \in Request /\ sent[r].size \in Nat
  <2>1. sent[r] \in Request
    BY <1>a, <1>b DEF TypeOK
  <2>. QED
    BY <2>1, RequestFields
<1>d. n \in Nat
  BY <1>b, <1>c, FramingAssumption DEF Read
<1>1. Arrived' = (IF n = sent[r].size THEN r ELSE r - 1)
  BY <1>b, <1>a, SMT DEF Arrived, TypeOK
<1>2. Arrived' \in Arrived .. Len(sent)
  BY <1>1, <1>a, <1>b, <1>c, <1>d, SMT DEF Arrived, TypeOK
<1>. QED
  BY <1>2, <1>b DEF Reference!Arrive

LEMMA HandleMaps ==
    ASSUME Inv, Handle
    PROVE  Reference!Handle
<1>1. handled' = Append(handled, sent[Len(handled) + 1])
  BY HandlesWhatWasSent DEF First
<1>2. Len(handled) < Arrived
  <2>1. Len(handled) \in Nat /\ arriving \in Nat
    BY DEF Inv, TypeOK
  <2>. QED
    BY <2>1, ArrivedRange, SMT DEF Handle, Whole, First, Arrived
<1>3. UNCHANGED <<sent, arriving, got>>
  BY DEF Handle, clientVars, readVars
<1>4. UNCHANGED Arrived
  BY <1>3 DEF Arrived
<1>. QED
  BY <1>1, <1>2, <1>3, <1>4 DEF Reference!Handle

LEMMA StepMaps == Inv /\ [Next]_vars => [Reference!Next]_<<sent, Arrived, handled>>
<1> SUFFICES ASSUME Inv, [Next]_vars PROVE [Reference!Next]_<<sent, Arrived, handled>>
  OBVIOUS
<1>1. CASE \E size \in SizeAt[server] : ClientSends(size)
  BY <1>1, SendsMaps DEF Reference!Next
<1>2. CASE \E r \in 1 .. Len(sent) : \E n \in Cut \union {sent[r].size} : Read(r, n)
  BY <1>2, ReadMaps DEF Reference!Next
<1>3. CASE Handle
  BY <1>3, HandleMaps DEF Reference!Next
<1>4. CASE Misframe \/ Incomplete \/ UNCHANGED vars
  BY <1>4 DEF Misframe, Incomplete, vars, clientVars, readVars, Arrived
<1>. QED
  BY <1>1, <1>2, <1>3, <1>4 DEF Next

\* However the stream is cut, requests are handled whole, once, in order, and read with
\* the key they were written with (handle_request and decrypt; the login server's
\* on_request): the handlers of both servers implement Requests.
THEOREM FramingImplements == Spec => ImplementsRequests
BY InitMaps, InvHolds, StepMaps, PTL DEF Spec, ImplementsRequests, Reference!Spec

=============================================================================
