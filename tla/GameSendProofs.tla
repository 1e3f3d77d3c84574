--------------------------- MODULE GameSendProofs ---------------------------
(***************************************************************************)
(* Proofs about GameSend, for any number of connections and clients, any   *)
(* sizes of packets and of the buffer.                                     *)
(***************************************************************************)
EXTENDS GameSend, SequenceTheorems, TLAPS

Byte == (Client \cup {0}) \X Nat

\* What NothingLost rests on: a client has one connection at most, a client that
\* was not accepted yet has no bytes, and what a client was sent is the start of
\* its stream.
Distinct == \A c, d \in Conn : client[c] # 0 /\ client[c] = client[d] => c = d

Accepted == \A c \in Conn : client[c] <= accepted

Fresh == \A k \in Client : k > accepted => produced[k] = 0 /\ received[k] = <<>>

Delivered ==
    \A k \in Client :
        /\ Len(received[k]) <= produced[k]
        /\ \A i \in 1 .. Len(received[k]) : received[k][i] = <<k, i>>

Inv ==
    /\ TypeOK /\ CountersAgree /\ NothingLost
    /\ Distinct /\ Accepted /\ Fresh /\ Delivered

-----------------------------------------------------------------------------
(* The bytes of a packet, of a stream and of a part of the buffer *)

\* A packet is n bytes that continue the stream of the connection's client.
LEMMA PacketBytes ==
    ASSUME TypeOK, NEW c \in Conn, NEW n \in Nat
    PROVE  /\ Packet(c, n) \in Seq(Byte)
           /\ Len(Packet(c, n)) = n
           /\ \A i \in 1 .. n :
                Packet(c, n)[i] = <<client[c], IF client[c] = 0 THEN 0
                                               ELSE produced[client[c]] + i>>
<1>1. client[c] \in Client \cup {0} /\ produced \in [Client -> Nat]
  BY DEF TypeOK
<1>2. \A i \in 1 .. n : (IF client[c] = 0 THEN 0 ELSE produced[client[c]] + i) \in Nat
  BY <1>1
<1>3. Packet(c, n) \in [1 .. n -> Byte]
  BY <1>1, <1>2 DEF Packet, Byte
<1>4. Packet(c, n) \in Seq(Byte) /\ Len(Packet(c, n)) = n
  BY <1>3
<1> QED BY <1>4 DEF Packet

\* A sequence whose i-th byte is the i-th of k's stream is that stream.
LEMMA StreamBytes ==
    ASSUME NEW k \in Client, NEW s \in Seq(Byte),
           \A i \in 1 .. Len(s) : s[i] = <<k, i>>
    PROVE  s = Wire!Stream(k, Len(s))
<1>1. Len(s) \in Nat
  BY LenProperties
<1>2. Wire!Stream(k, Len(s)) \in [1 .. Len(s) -> Byte]
  BY <1>1 DEF Wire!Stream, Byte
<1>3. Wire!Stream(k, Len(s)) \in Seq(Byte) /\ Len(Wire!Stream(k, Len(s))) = Len(s)
  BY <1>1, <1>2
<1>4. \A i \in 1 .. Len(s) : Wire!Stream(k, Len(s))[i] = <<k, i>>
  BY DEF Wire!Stream
<1> QED BY <1>3, <1>4, SeqEqual

\* What net_send takes out of the buffer.
LEMMA BufferPart ==
    ASSUME NEW s \in Seq(Byte), NEW j \in Nat, NEW m \in Nat, j + m <= Len(s)
    PROVE  /\ SubSeq(s, j + 1, j + m) \in Seq(Byte)
           /\ Len(SubSeq(s, j + 1, j + m)) = m
           /\ \A i \in 1 .. m : SubSeq(s, j + 1, j + m)[i] = s[j + i]
<1>1. Len(s) \in Nat /\ j + 1 \in Int /\ j + m \in Int
  BY LenProperties
<1>2. \A i \in j + 1 .. j + m : s[i] \in Byte
  BY <1>1, ElementOfSeq
<1>3. /\ SubSeq(s, j + 1, j + m) \in Seq(Byte)
      /\ Len(SubSeq(s, j + 1, j + m)) = IF j + 1 <= j + m THEN j + m - (j + 1) + 1 ELSE 0
      /\ \A i \in 1 .. j + m - (j + 1) + 1 : SubSeq(s, j + 1, j + m)[i] = s[j + 1 + i - 1]
  BY <1>1, <1>2, SubSeqProperties
<1>4. \A i \in 1 .. m : j + 1 + i - 1 = j + i
  OBVIOUS
<1> QED BY <1>3, <1>4

-----------------------------------------------------------------------------
(* The steps *)

\* A push leaves the invariant intact, to whomever the packet goes.
LEMMA PushStep ==
    ASSUME Inv, NEW D \in SUBSET Conn, NEW n \in Nat, Push(D, n),
           client' = client, sent' = sent, accepted' = accepted, received' = received
    PROVE  /\ toSend' \in [Conn -> Seq(Byte)] /\ produced' \in [Client -> Nat]
           /\ CountersAgree' /\ NothingLost'
           /\ Distinct' /\ Accepted' /\ Fresh' /\ Delivered'
           /\ \A k \in Client : produced'[k] >= produced[k]
<1>1. /\ client \in [Conn -> Client \cup {0}] /\ toSend \in [Conn -> Seq(Byte)]
      /\ sent \in [Conn -> Nat] /\ accepted \in Nat
      /\ produced \in [Client -> Nat] /\ received \in [Client -> Seq(Byte)]
  BY DEF Inv, TypeOK, Byte
<1>2. TypeOK
  BY DEF Inv
<1>3. ASSUME NEW c \in Conn, c \in D
      PROVE  /\ toSend'[c] = toSend[c] \o Packet(c, n)
             /\ toSend'[c] \in Seq(Byte) /\ Len(toSend'[c]) = Len(toSend[c]) + n
             /\ \A i \in 1 .. Len(toSend[c]) + n :
                  toSend'[c][i] = IF i <= Len(toSend[c]) THEN toSend[c][i]
                                  ELSE Packet(c, n)[i - Len(toSend[c])]
  <2>1. toSend'[c] = toSend[c] \o Packet(c, n)
    BY <1>3 DEF Push
  <2>2. Packet(c, n) \in Seq(Byte) /\ Len(Packet(c, n)) = n
    BY <1>2, PacketBytes
  <2>3. toSend[c] \in Seq(Byte)
    BY <1>1
  <2>4. /\ toSend[c] \o Packet(c, n) \in Seq(Byte)
        /\ Len(toSend[c] \o Packet(c, n)) = Len(toSend[c]) + Len(Packet(c, n))
        /\ \A i \in 1 .. Len(toSend[c]) + Len(Packet(c, n)) :
             (toSend[c] \o Packet(c, n))[i] = IF i <= Len(toSend[c]) THEN toSend[c][i]
                                              ELSE Packet(c, n)[i - Len(toSend[c])]
    BY <2>2, <2>3, ConcatProperties
  <2> QED BY <2>1, <2>2, <2>4
<1>4. ASSUME NEW c \in Conn, c \notin D PROVE toSend'[c] = toSend[c]
  BY <1>4 DEF Push
<1>5. toSend' \in [Conn -> Seq(Byte)]
  <2>1. \A c \in Conn : toSend'[c] \in Seq(Byte)
    BY <1>1, <1>3, <1>4
  <2> QED BY <2>1 DEF Push
<1>6. /\ produced' \in [Client -> Nat]
      /\ \A k \in Client : produced'[k] = IF \E c \in D : client[c] = k
                                          THEN produced[k] + n ELSE produced[k]
  BY <1>1 DEF Push
<1>7. ASSUME NEW k \in Client PROVE produced'[k] >= produced[k]
  <2>1. produced[k] \in Nat
    BY <1>1
  <2>2. produced'[k] = produced[k] + n \/ produced'[k] = produced[k]
    BY <1>6
  <2> QED BY <2>1, <2>2
<1>8. CountersAgree'
  <2> SUFFICES ASSUME NEW c \in Conn
               PROVE  sent[c] < Len(toSend'[c]) \/ (sent[c] = 0 /\ toSend'[c] = <<>>)
    BY DEF CountersAgree
  <2>1. sent[c] < Len(toSend[c]) \/ (sent[c] = 0 /\ toSend[c] = <<>>)
    BY DEF Inv, CountersAgree
  <2>2. Len(toSend[c]) \in Nat /\ sent[c] \in Nat
    BY <1>1, LenProperties
  <2>3. CASE c \in D
    <3>1. Len(toSend'[c]) = Len(toSend[c]) + n /\ toSend'[c] \in Seq(Byte)
      BY <2>3, <1>3
    <3>2. CASE sent[c] < Len(toSend[c])
      BY <3>1, <3>2, <2>2
    <3>3. CASE sent[c] = 0 /\ toSend[c] = <<>>
      <4>1. Len(toSend'[c]) = n
        BY <3>1, <3>3, EmptySeq
      <4>2. n = 0 => toSend'[c] = <<>>
        BY <4>1, <3>1, EmptySeq
      <4> QED BY <4>1, <4>2, <3>3
    <3> QED BY <3>2, <3>3, <2>1
  <2>4. CASE c \notin D
    BY <2>4, <1>4, <2>1
  <2> QED BY <2>3, <2>4
<1>9. NothingLost'
  <2> SUFFICES ASSUME NEW c \in Conn, client[c] # 0
               PROVE  /\ Len(received[client[c]]) + (Len(toSend'[c]) - sent[c])
                           = produced'[client[c]]
                      /\ \A i \in 1 .. Len(toSend'[c]) - sent[c] :
                           toSend'[c][sent[c] + i]
                             = <<client[c], Len(received[client[c]]) + i>>
    BY DEF NothingLost
  <2>1. PICK k \in Client : k = client[c] /\ k # 0
    BY <1>1
  <2>2. PICK at \in Nat, len \in Nat, done \in Nat, made \in Nat :
             /\ at = sent[c] /\ len = Len(toSend[c])
             /\ done = Len(received[k]) /\ made = produced[k]
    BY <1>1, LenProperties
  <2>3. PICK left \in Nat : left = len - at
    <3>1. at <= len
      BY <2>2, EmptySeq DEF Inv, CountersAgree
    <3> QED BY <3>1
  <2>4. done + left = made
    BY <2>1, <2>2, <2>3 DEF Inv, NothingLost
  <2>5. \A i \in 1 .. left : toSend[c][at + i] = <<k, done + i>>
    BY <2>1, <2>2, <2>3 DEF Inv, NothingLost
  <2>6. CASE c \in D
    <3>0. /\ toSend'[c] \in Seq(Byte) /\ Len(toSend'[c]) = len + n
          /\ \A i \in 1 .. len + n :
               toSend'[c][i] = IF i <= len THEN toSend[c][i] ELSE Packet(c, n)[i - len]
      BY ONLY <2>6, <1>3, <2>2
    <3>1. produced'[k] = made + n
      BY <2>6, <1>6, <2>1, <2>2
    <3>2. Len(toSend'[c]) = len + n
      BY <3>0
    <3>3. ASSUME NEW i \in 1 .. left + n
          PROVE  toSend'[c][at + i] = <<k, done + i>>
      <4>1. at + i \in 1 .. len + n /\ i \in Nat
        BY <2>3
      <4>2. toSend'[c][at + i] = IF at + i <= len THEN toSend[c][at + i]
                                 ELSE Packet(c, n)[at + i - len]
        BY <3>0, <4>1
      <4>3. CASE at + i <= len
        <5>1. i \in 1 .. left
          BY <4>3, <4>1, <2>3
        <5>2. toSend[c][at + i] = <<k, done + i>>
          BY <5>1, <2>5
        <5> QED BY <5>2, <4>2, <4>3
      <4>4. CASE ~(at + i <= len)
        <5>1. at + i - len \in 1 .. n
          BY <4>4, <4>1, <2>3
        <5>2. Packet(c, n)[at + i - len] = <<k, made + (at + i - len)>>
          BY <5>1, <1>2, <2>1, <2>2, PacketBytes
        <5>3. made + (at + i - len) = done + i
          BY <2>4, <2>3, <4>1
        <5> QED BY <5>2, <5>3, <4>2, <4>4
      <4> QED BY <4>3, <4>4
    <3>4. Len(toSend'[c]) - sent[c] = left + n
      <4>1. len + n - at = left + n
        BY <2>3
      <4>2. at = sent[c]
        BY <2>2
      <4>3. Len(toSend'[c]) - at = left + n
        BY ONLY <4>1, <3>2
      <4> QED BY ONLY <4>2, <4>3
    <3>5. done + (left + n) = made + n
      BY <2>4
    <3>6. done + (Len(toSend'[c]) - sent[c]) = produced'[k]
      BY <3>1, <3>4, <3>5
    <3> QED BY <3>3, <3>4, <3>6, <2>1, <2>2
  <2>7. CASE c \notin D
    <3>1. \A d \in D : client[d] # k
      BY <2>7, <2>1 DEF Inv, Distinct
    <3>2. produced'[k] = made
      BY <3>1, <1>6, <2>1, <2>2
    <3>3. Len(toSend'[c]) - sent[c] = left
      BY <2>7, <1>4, <2>2, <2>3
    <3> QED BY <3>2, <3>3, <2>7, <1>4, <2>1, <2>2, <2>4, <2>5
  <2> QED BY <2>6, <2>7
<1>10. Distinct' /\ Accepted'
  BY DEF Inv, Distinct, Accepted
<1>11. Fresh'
  <2> SUFFICES ASSUME NEW k \in Client, k > accepted
               PROVE  produced'[k] = 0 /\ received[k] = <<>>
    BY DEF Fresh
  <2>1. \A d \in D : client[d] # k
    BY <1>1 DEF Inv, Accepted, Client
  <2> QED BY <2>1, <1>6 DEF Inv, Fresh
<1>12. Delivered'
  <2> SUFFICES ASSUME NEW k \in Client
               PROVE  /\ Len(received[k]) <= produced'[k]
                      /\ \A i \in 1 .. Len(received[k]) : received[k][i] = <<k, i>>
    BY DEF Delivered
  <2>1. /\ Len(received[k]) <= produced[k]
        /\ \A i \in 1 .. Len(received[k]) : received[k][i] = <<k, i>>
    BY DEF Inv, Delivered
  <2>2. Len(received[k]) \in Nat
    BY <1>1, LenProperties
  <2> QED BY <2>1, <2>2, <1>1, <1>6, <1>7
<1> QED BY <1>5, <1>6, <1>7, <1>8, <1>9, <1>10, <1>11, <1>12

\* The worker's send leaves the invariant intact, however much the socket took;
\* only the client of its connection receives.
LEMMA SendStep ==
    ASSUME Inv, SendResponses
    PROVE  /\ toSend' \in [Conn -> Seq(Byte)] /\ sent' \in [Conn -> Nat]
           /\ received' \in [Client -> Seq(Byte)]
           /\ CountersAgree' /\ NothingLost' /\ Fresh' /\ Delivered'
           /\ \A k \in Client : \/ received'[k] = received[k]
                               \/ /\ k = client[worker]
                                  /\ Len(received[k]) <= Len(received'[k])
<1>1. /\ client \in [Conn -> Client \cup {0}] /\ toSend \in [Conn -> Seq(Byte)]
      /\ sent \in [Conn -> Nat] /\ accepted \in Nat
      /\ produced \in [Client -> Nat] /\ received \in [Client -> Seq(Byte)]
      /\ worker \in Conn
  BY DEF Inv, TypeOK, Byte, SendResponses
<1>2. PICK c \in Conn : c = worker
  BY <1>1
<1>3. PICK at \in Nat, len \in Nat : at = sent[c] /\ len = Len(toSend[c])
  BY <1>1, LenProperties
<1>4. at <= len /\ (at = len => at = 0 /\ toSend[c] = <<>>)
  BY <1>3, EmptySeq DEF Inv, CountersAgree
<1>5. PICK m \in Sendable(c, len - at) :
        /\ received' = [k \in Client |-> IF k = client[c]
               THEN received[k] \o SubSeq(toSend[c], at + 1, at + m) ELSE received[k]]
        /\ sent' = [sent EXCEPT ![c] = IF AllSent(c, m) THEN 0 ELSE SentAfter(c, m)]
        /\ toSend' = [toSend EXCEPT ![c] = IF AllSent(c, m) THEN <<>> ELSE @]
  BY <1>2, <1>3 DEF SendResponses
<1>6. m \in Nat /\ at + m <= len /\ (client[c] = 0 => m = 0)
  BY <1>4, <1>5 DEF Sendable
<1>7. /\ client' = client /\ produced' = produced /\ accepted' = accepted
  BY DEF SendResponses
<1>8. AllSent(c, m) <=> at + m >= len
  BY <1>3 DEF AllSent, SentAfter
<1>9. SentAfter(c, m) = at + m /\ at + m \in Nat
  BY <1>3, <1>6 DEF SentAfter
<1>10. PICK part : part = SubSeq(toSend[c], at + 1, at + m)
  OBVIOUS
<1>11. /\ part \in Seq(Byte) /\ Len(part) = m
       /\ \A i \in 1 .. m : part[i] = toSend[c][at + i]
  <2>1. toSend[c] \in Seq(Byte) /\ at + m <= Len(toSend[c])
    BY <1>1, <1>3, <1>6
  <2> QED BY <2>1, <1>6, <1>10, BufferPart
<1>12. toSend' \in [Conn -> Seq(Byte)] /\ sent' \in [Conn -> Nat]
  <2>1. <<>> \in Seq(Byte)
    BY EmptySeq
  <2> QED BY <2>1, <1>1, <1>5, <1>9
<1>13. /\ at + m >= len => sent'[c] = 0 /\ toSend'[c] = <<>>
       /\ ~(at + m >= len) => sent'[c] = at + m /\ toSend'[c] = toSend[c]
       /\ \A d \in Conn : d # c => sent'[d] = sent[d] /\ toSend'[d] = toSend[d]
  BY <1>1, <1>5, <1>8, <1>9
<1>14. CountersAgree'
  <2> SUFFICES ASSUME NEW d \in Conn
               PROVE  sent'[d] < Len(toSend'[d]) \/ (sent'[d] = 0 /\ toSend'[d] = <<>>)
    BY DEF CountersAgree
  <2>1. CASE d # c
    BY <2>1, <1>13 DEF Inv, CountersAgree
  <2>2. CASE d = c /\ at + m >= len
    BY <2>2, <1>13
  <2>3. CASE d = c /\ ~(at + m >= len)
    <3>1. sent'[c] = at + m /\ toSend'[c] = toSend[c]
      BY <2>3, <1>13
    <3>2. at + m < len
      BY <2>3, <1>6
    <3> QED BY <3>1, <3>2, <2>3, <1>3
  <2> QED BY <2>1, <2>2, <2>3
<1>15. ASSUME NEW k \in Client, k # client[c]
       PROVE  received'[k] = received[k]
  BY <1>15, <1>5
<1>16. ASSUME NEW k \in Client, k = client[c]
       PROVE  /\ received'[k] = received[k] \o part
              /\ received'[k] \in Seq(Byte)
              /\ Len(received'[k]) = Len(received[k]) + m
              /\ \A i \in 1 .. Len(received[k]) + m :
                   received'[k][i] = IF i <= Len(received[k]) THEN received[k][i]
                                     ELSE part[i - Len(received[k])]
  <2>1. received'[k] = received[k] \o part
    BY <1>16, <1>5, <1>10
  <2>2. received[k] \in Seq(Byte)
    BY <1>1
  <2>3. /\ received[k] \o part \in Seq(Byte)
        /\ Len(received[k] \o part) = Len(received[k]) + Len(part)
        /\ \A i \in 1 .. Len(received[k]) + Len(part) :
             (received[k] \o part)[i] = IF i <= Len(received[k]) THEN received[k][i]
                                        ELSE part[i - Len(received[k])]
    BY <2>2, <1>11, ConcatProperties
  <2> QED BY <2>1, <2>3, <1>11
<1>17. received' \in [Client -> Seq(Byte)]
  <2>1. \A k \in Client : received'[k] \in Seq(Byte)
    BY <1>1, <1>15, <1>16
  <2> QED BY <2>1, <1>5
<1>18. ASSUME NEW k \in Client, k = client[c]
       PROVE  \E done, left \in Nat :
                /\ done = Len(received[k]) /\ left = len - at
                /\ done + left = produced[k]
                /\ \A i \in 1 .. left : toSend[c][at + i] = <<k, done + i>>
                /\ \A i \in 1 .. done : received[k][i] = <<k, i>>
                /\ Len(received'[k]) = done + m
                /\ \A i \in 1 .. done + m : received'[k][i] = <<k, i>>
  <2>1. PICK done \in Nat, left \in Nat : done = Len(received[k]) /\ left = len - at
    <3>1. Len(received[k]) \in Nat
      BY <1>1, LenProperties
    <3> QED BY <3>1, <1>4
  <2>2. client[c] # 0
    BY <1>18 DEF Client
  <2>3. /\ done + left = produced[k]
        /\ \A i \in 1 .. left : toSend[c][at + i] = <<k, done + i>>
    BY <2>1, <2>2, <1>3, <1>18 DEF Inv, NothingLost
  <2>4. \A i \in 1 .. done : received[k][i] = <<k, i>>
    BY <2>1 DEF Inv, Delivered
  <2>5. /\ Len(received'[k]) = done + m
        /\ \A i \in 1 .. done + m :
             received'[k][i] = IF i <= done THEN received[k][i] ELSE part[i - done]
    BY ONLY <1>16, <1>18, <2>1
  <2>6. ASSUME NEW i \in 1 .. done + m PROVE received'[k][i] = <<k, i>>
    <3>1. CASE i <= done
      BY <3>1, <2>5, <2>4
    <3>2. CASE ~(i <= done)
      <4>1. i - done \in 1 .. m /\ i - done \in 1 .. left /\ done + (i - done) = i
        BY <3>2, <2>1, <1>6
      <4>2. part[i - done] = toSend[c][at + (i - done)]
        BY <4>1, <1>11
      <4>3. toSend[c][at + (i - done)] = <<k, done + (i - done)>>
        BY <4>1, <2>3
      <4>4. received'[k][i] = part[i - done]
        BY <3>2, <2>5
      <4> QED BY <4>1, <4>2, <4>3, <4>4
    <3> QED BY <3>1, <3>2
  <2> QED BY <2>1, <2>3, <2>4, <2>5, <2>6
<1>19. Fresh'
  <2> SUFFICES ASSUME NEW k \in Client, k > accepted
               PROVE  produced[k] = 0 /\ received'[k] = <<>>
    BY <1>7 DEF Fresh
  <2>1. k # client[c]
    BY <1>1 DEF Inv, Accepted, Client
  <2> QED BY <2>1, <1>15 DEF Inv, Fresh
<1>20. Delivered'
  <2> SUFFICES ASSUME NEW k \in Client
               PROVE  /\ Len(received'[k]) <= produced[k]
                      /\ \A i \in 1 .. Len(received'[k]) : received'[k][i] = <<k, i>>
    BY <1>7 DEF Delivered
  <2>1. CASE k # client[c]
    BY <2>1, <1>15 DEF Inv, Delivered
  <2>2. CASE k = client[c]
    <3>1. PICK done \in Nat, left \in Nat :
            /\ left = len - at /\ done + left = produced[k]
            /\ Len(received'[k]) = done + m
            /\ \A i \in 1 .. done + m : received'[k][i] = <<k, i>>
      BY <2>2, <1>18
    <3>2. done + m <= done + left
      BY <3>1, <1>6
    <3> QED BY <3>1, <3>2
  <2> QED BY <2>1, <2>2
<1>21. NothingLost'
  <2> SUFFICES ASSUME NEW d \in Conn, client[d] # 0
               PROVE  /\ Len(received'[client[d]]) + (Len(toSend'[d]) - sent'[d])
                           = produced[client[d]]
                      /\ \A i \in 1 .. Len(toSend'[d]) - sent'[d] :
                           toSend'[d][sent'[d] + i]
                             = <<client[d], Len(received'[client[d]]) + i>>
    BY <1>7 DEF NothingLost
  <2>1. CASE d # c
    <3>1. client[d] \in Client /\ client[d] # client[c]
      BY <2>1, <1>1 DEF Inv, Distinct
    <3>2. received'[client[d]] = received[client[d]]
      BY <3>1, <1>15
    <3>3. sent'[d] = sent[d] /\ toSend'[d] = toSend[d]
      BY <2>1, <1>13
    <3> QED BY <3>2, <3>3 DEF Inv, NothingLost
  <2>2. CASE d = c
    <3>1. PICK k \in Client : k = client[c]
      BY <2>2, <1>1
    <3>2. PICK done \in Nat, left \in Nat :
            /\ left = len - at /\ done + left = produced[k]
            /\ \A i \in 1 .. left : toSend[c][at + i] = <<k, done + i>>
            /\ Len(received'[k]) = done + m
      BY <3>1, <1>18
    <3>3. CASE at + m >= len
      <4>1. sent'[c] = 0 /\ Len(toSend'[c]) = 0
        BY <3>3, <1>13
      <4>2. done + m + 0 = produced[k]
        BY <3>2, <3>3, <1>6
      <4>3. Len(toSend'[c]) - sent'[c] = 0
        BY <4>1
      <4>4. Len(received'[k]) + (Len(toSend'[c]) - sent'[c]) = produced[k]
        BY ONLY <4>2, <4>3, <3>2
      <4> QED BY <4>3, <4>4, <2>2, <3>1
    <3>4. CASE ~(at + m >= len)
      <4>1. PICK rest \in Nat : rest = len - (at + m)
        BY <3>4, <1>6
      <4>2. sent'[c] = at + m /\ toSend'[c] = toSend[c]
        BY <3>4, <1>13
      <4>3. Len(toSend'[c]) - sent'[c] = rest
        BY ONLY <4>1, <4>2, <1>3
      <4>4. done + m + rest = produced[k]
        BY <3>2, <4>1, <1>6
      <4>5. ASSUME NEW i \in 1 .. rest
            PROVE  toSend'[c][sent'[c] + i] = <<k, done + m + i>>
        <5>1. m + i \in 1 .. left /\ at + m + i = at + (m + i)
               /\ done + m + i = done + (m + i)
          BY <4>1, <3>2, <1>6
        <5>2. toSend[c][at + (m + i)] = <<k, done + (m + i)>>
          BY <5>1, <3>2
        <5> QED BY <5>1, <5>2, <4>2
      <4>6. Len(received'[k]) + (Len(toSend'[c]) - sent'[c]) = produced[k]
        BY ONLY <4>3, <4>4, <3>2
      <4> QED BY <4>3, <4>5, <4>6, <2>2, <3>1, <3>2
    <3> QED BY <3>3, <3>4
  <2> QED BY <2>1, <2>2
<1>22. ASSUME NEW k \in Client, k = client[c]
       PROVE  Len(received[k]) <= Len(received'[k])
  <2>1. PICK done \in Nat : done = Len(received[k]) /\ Len(received'[k]) = done + m
    BY <1>22, <1>18
  <2>2. done <= done + m
    BY <1>6
  <2> QED BY ONLY <2>1, <2>2
<1>23. \A k \in Client : \/ received'[k] = received[k]
                        \/ (k = client[worker] /\ Len(received[k]) <= Len(received'[k]))
  BY <1>2, <1>15, <1>22
<1> QED BY <1>12, <1>14, <1>17, <1>19, <1>20, <1>21, <1>23

-----------------------------------------------------------------------------
(* The invariant is inductive *)

LEMMA InitInv == Init => Inv
<1> SUFFICES ASSUME Init PROVE Inv
  OBVIOUS
<1> USE SendAssumption
<1>1. <<>> \in Seq(Byte) /\ Len(<<>>) = 0
  BY EmptySeq
<1>2. TypeOK
  BY <1>1 DEF Init, TypeOK, Byte
<1>3. CountersAgree /\ NothingLost /\ Distinct /\ Accepted
  BY DEF Init, CountersAgree, NothingLost, Distinct, Accepted
<1>4. Fresh
  BY DEF Init, Fresh
<1>5. Delivered
  BY <1>1 DEF Init, Delivered
<1> QED BY <1>2, <1>3, <1>4, <1>5 DEF Inv

LEMMA NextInv == Inv /\ [Next]_vars => Inv'
<1> SUFFICES ASSUME Inv, [Next]_vars PROVE Inv'
  OBVIOUS
<1> USE SendAssumption
<1>1. /\ client \in [Conn -> Client \cup {0}] /\ toSend \in [Conn -> Seq(Byte)]
      /\ playing \in [Conn -> BOOLEAN] /\ queued \subseteq Conn
      /\ worker \in Conn \cup {0} /\ accepted \in 0 .. NClient
      /\ sent \in [Conn -> Nat] /\ produced \in [Client -> Nat]
      /\ received \in [Client -> Seq(Byte)]
  BY DEF Inv, TypeOK, Byte
<1>2. ASSUME NEW c \in Conn, OnConnection(c) PROVE Inv'
  <2>1. PICK k \in Client : k = accepted + 1
    BY <1>1, <1>2 DEF OnConnection, Client
  <2>2. /\ client' = [client EXCEPT ![c] = k] /\ toSend' = [toSend EXCEPT ![c] = <<>>]
        /\ sent' = [sent EXCEPT ![c] = 0] /\ accepted' = k
        /\ playing' = [playing EXCEPT ![c] = FALSE]
        /\ UNCHANGED <<queued, worker, produced, received>>
    BY <1>2, <2>1 DEF OnConnection
  <2>3. produced[k] = 0 /\ received[k] = <<>>
    BY <1>1, <2>1 DEF Inv, Fresh
  <2>4. \A d \in Conn : client[d] # k
    BY <1>1, <2>1 DEF Inv, Accepted
  <2>5. <<>> \in Seq(Byte) /\ Len(<<>>) = 0
    BY EmptySeq
  <2>6. TypeOK'
    BY <1>1, <2>1, <2>2, <2>5 DEF TypeOK, Byte, Client
  <2>7. CountersAgree'
    BY <1>1, <2>2 DEF Inv, CountersAgree
  <2>8. NothingLost'
    <3> SUFFICES ASSUME NEW d \in Conn, client'[d] # 0
                 PROVE  /\ Len(received'[client'[d]]) + (Len(toSend'[d]) - sent'[d])
                             = produced'[client'[d]]
                        /\ \A i \in 1 .. Len(toSend'[d]) - sent'[d] :
                             toSend'[d][sent'[d] + i]
                               = <<client'[d], Len(received'[client'[d]]) + i>>
      BY DEF NothingLost
    <3>1. CASE d = c
      <4>1. client'[d] = k /\ toSend'[d] = <<>> /\ sent'[d] = 0
        BY <3>1, <1>1, <2>2
      <4>2. /\ Len(received'[k]) + (Len(toSend'[d]) - sent'[d]) = produced'[k]
            /\ Len(toSend'[d]) - sent'[d] = 0
        BY <4>1, <2>2, <2>3, <2>5
      <4> QED BY <4>1, <4>2
    <3>2. CASE d # c
      <4>1. client'[d] = client[d] /\ toSend'[d] = toSend[d] /\ sent'[d] = sent[d]
        BY <3>2, <1>1, <2>2
      <4>2. /\ Len(received[client[d]]) + (Len(toSend[d]) - sent[d]) = produced[client[d]]
            /\ \A i \in 1 .. Len(toSend[d]) - sent[d] :
                 toSend[d][sent[d] + i] = <<client[d], Len(received[client[d]]) + i>>
        BY <4>1 DEF Inv, NothingLost
      <4> QED BY <4>1, <4>2, <2>2
    <3> QED BY <3>1, <3>2
  <2>9. Distinct'
    BY <1>1, <2>2, <2>4 DEF Inv, Distinct
  <2>10. Accepted'
    <3> SUFFICES ASSUME NEW d \in Conn PROVE client'[d] <= k
      BY <2>2 DEF Accepted
    <3>1. client[d] <= accepted /\ client[d] \in Nat
      BY <1>1 DEF Inv, Accepted, Client
    <3> QED BY <3>1, <1>1, <2>1, <2>2
  <2>11. Fresh'
    <3> SUFFICES ASSUME NEW j \in Client, j > k
                 PROVE  produced[j] = 0 /\ received[j] = <<>>
      BY <2>2 DEF Fresh
    <3>1. j > accepted
      BY <1>1, <2>1 DEF Client
    <3> QED BY <3>1 DEF Inv, Fresh
  <2>12. Delivered'
    BY <2>2 DEF Inv, Delivered
  <2> QED BY <2>6, <2>7, <2>8, <2>9, <2>10, <2>11, <2>12 DEF Inv
<1>3. ASSUME NEW c \in Conn, OnRequest(c) PROVE Inv'
  <2>1. PICK D \in SUBSET Conn, n \in PacketSize : Push(D, n)
    BY <1>3 DEF OnRequest
  <2>2. /\ client' = client /\ sent' = sent /\ accepted' = accepted
        /\ received' = received /\ worker' = worker
        /\ playing' \in [Conn -> BOOLEAN] /\ queued' \subseteq Conn
    BY <1>1, <1>3 DEF OnRequest
  <2>3. n \in Nat
    OBVIOUS
  <2>4. /\ toSend' \in [Conn -> Seq(Byte)] /\ produced' \in [Client -> Nat]
        /\ CountersAgree' /\ NothingLost'
        /\ Distinct' /\ Accepted' /\ Fresh' /\ Delivered'
    BY <2>1, <2>2, <2>3, PushStep
  <2>5. TypeOK'
    BY <1>1, <2>2, <2>4 DEF TypeOK, Byte
  <2> QED BY <2>4, <2>5 DEF Inv
<1>4. ASSUME NEW c \in Conn, OnRequestDropped(c) \/ OnDisconnect(c) PROVE Inv'
  <2>1. /\ client' = [client EXCEPT ![c] = 0]
        /\ playing' \in [Conn -> BOOLEAN] /\ queued' \subseteq Conn
        /\ UNCHANGED <<toSend, sent, worker, accepted, produced, received>>
    BY <1>1, <1>4 DEF OnRequestDropped, OnDisconnect
  <2>2. TypeOK'
    BY <1>1, <2>1 DEF TypeOK, Byte
  <2>3. CountersAgree' /\ Fresh' /\ Delivered'
    BY <2>1 DEF Inv, CountersAgree, Fresh, Delivered
  <2>4. ASSUME NEW d \in Conn, client'[d] # 0
        PROVE  d # c /\ client'[d] = client[d] /\ client[d] # 0
    BY <1>1, <2>1, <2>4
  <2>5. NothingLost'
    <3> SUFFICES ASSUME NEW d \in Conn, client'[d] # 0
                 PROVE  /\ Len(received'[client'[d]]) + (Len(toSend'[d]) - sent'[d])
                             = produced'[client'[d]]
                        /\ \A i \in 1 .. Len(toSend'[d]) - sent'[d] :
                             toSend'[d][sent'[d] + i]
                               = <<client'[d], Len(received'[client'[d]]) + i>>
      BY DEF NothingLost
    <3>1. /\ Len(received[client[d]]) + (Len(toSend[d]) - sent[d]) = produced[client[d]]
          /\ \A i \in 1 .. Len(toSend[d]) - sent[d] :
               toSend[d][sent[d] + i] = <<client[d], Len(received[client[d]]) + i>>
      BY <2>4 DEF Inv, NothingLost
    <3> QED BY <3>1, <2>4, <2>1
  <2>6. Distinct'
    BY <1>1, <2>1 DEF Inv, Distinct
  <2>7. Accepted'
    BY <1>1, <2>1 DEF Inv, Accepted
  <2> QED BY <2>2, <2>3, <2>5, <2>6, <2>7 DEF Inv
<1>5. ASSUME OnTick PROVE Inv'
  <2>1. PICK D \in SUBSET Conn, n \in PacketSize : Push(D, n)
    BY <1>5 DEF OnTick
  <2>2. /\ client' = client /\ sent' = sent /\ accepted' = accepted
        /\ received' = received /\ worker' = worker /\ playing' = playing
        /\ queued' \subseteq Conn
    BY <1>1, <1>5 DEF OnTick, Unsent
  <2>3. n \in Nat
    OBVIOUS
  <2>4. /\ toSend' \in [Conn -> Seq(Byte)] /\ produced' \in [Client -> Nat]
        /\ CountersAgree' /\ NothingLost'
        /\ Distinct' /\ Accepted' /\ Fresh' /\ Delivered'
    BY <2>1, <2>2, <2>3, PushStep
  <2>5. TypeOK'
    BY <1>1, <2>2, <2>4 DEF TypeOK, Byte
  <2> QED BY <2>4, <2>5 DEF Inv
<1>6. ASSUME Take PROVE Inv'
  <2>1. /\ worker' \in Conn \cup {0} /\ queued' \subseteq Conn
        /\ UNCHANGED <<client, playing, toSend, sent, accepted, produced, received>>
    BY <1>1, <1>6 DEF Take, connVars
  <2> QED
    BY <1>1, <2>1 DEF Inv, TypeOK, Byte, CountersAgree, NothingLost, Distinct,
                      Accepted, Fresh, Delivered
<1>7. ASSUME SendResponses PROVE Inv'
  <2>1. /\ toSend' \in [Conn -> Seq(Byte)] /\ sent' \in [Conn -> Nat]
        /\ received' \in [Client -> Seq(Byte)]
        /\ CountersAgree' /\ NothingLost' /\ Fresh' /\ Delivered'
    BY <1>7, SendStep
  <2>2. worker' = 0 /\ UNCHANGED <<client, playing, queued, accepted, produced>>
    BY <1>7 DEF SendResponses
  <2>3. TypeOK'
    BY <1>1, <2>1, <2>2 DEF TypeOK, Byte
  <2>4. Distinct' /\ Accepted'
    BY <2>2 DEF Inv, Distinct, Accepted
  <2> QED BY <2>1, <2>3, <2>4 DEF Inv
<1>8. ASSUME UNCHANGED vars PROVE Inv'
  BY <1>8 DEF Inv, TypeOK, CountersAgree, NothingLost, Distinct, Accepted, Fresh,
              Delivered, vars, connVars
<1> QED BY <1>2, <1>3, <1>4, <1>5, <1>6, <1>7, <1>8 DEF Next

LEMMA Invariance == Spec => []Inv
BY InitInv, NextInv, PTL DEF Spec

-----------------------------------------------------------------------------
(* The theorems *)

\* The variables keep their types: in particular sent never leaves the naturals,
\* because no send returns more than was left.
THEOREM Typing == Spec => []TypeOK
<1>1. Inv => TypeOK
  BY DEF Inv
<1> QED BY Invariance, <1>1, PTL

\* "to_send_count - sent" in send_responses never wraps around.
THEOREM Counters == Spec => []CountersAgree
<1>1. Inv => CountersAgree
  BY DEF Inv
<1> QED BY Invariance, <1>1, PTL

\* What a client was sent and what its buffer holds are its whole stream, through
\* every partial send and every reuse of a connection.
THEOREM Stream == Spec => []NothingLost
<1>1. Inv => NothingLost
  BY DEF Inv
<1> QED BY Invariance, <1>1, PTL

\* Every step of the server is a step of the byte streams, or changes neither what
\* was made for a client nor what it received.
LEMMA StreamStep ==
    ASSUME Inv, Inv', [Next]_vars
    PROVE  [Wire!Next]_<<produced, received>>
<1> USE SendAssumption
<1>1. /\ received \in [Client -> Seq(Byte)] /\ received' \in [Client -> Seq(Byte)]
      /\ client \in [Conn -> Client \cup {0}]
  BY DEF Inv, TypeOK, Byte
<1>2. ASSUME NEW D \in SUBSET Conn, NEW n \in PacketSize, Push(D, n),
             client' = client, sent' = sent, accepted' = accepted, received' = received
      PROVE  Wire!Produce
  <2>1. n \in Nat
    OBVIOUS
  <2>2. produced' \in [Client -> Nat] /\ \A k \in Client : produced'[k] >= produced[k]
    BY <1>2, <2>1, PushStep
  <2> QED BY <2>2, <1>2 DEF Wire!Produce
<1>3. ASSUME NEW c \in Conn, OnRequest(c) PROVE Wire!Next
  BY <1>2, <1>3 DEF OnRequest, Wire!Next
<1>4. ASSUME OnTick PROVE Wire!Next
  BY <1>2, <1>4 DEF OnTick, Wire!Next
<1>5. ASSUME SendResponses PROVE Wire!Next \/ (received' = received /\ produced' = produced)
  <2>1. \A k \in Client : \/ received'[k] = received[k]
                         \/ (k = client[worker] /\ Len(received[k]) <= Len(received'[k]))
    BY <1>5, SendStep
  <2>2. produced' = produced
    BY <1>5 DEF SendResponses
  <2>3. CASE received' # received
    <3>1. PICK k \in Client : received'[k] # received[k]
      BY <2>3, <1>1
    <3>2. Len(received[k]) <= Len(received'[k]) /\ Len(received'[k]) <= produced[k]
      BY <3>1, <2>1, <2>2 DEF Inv, Delivered
    <3>3. PICK n \in Nat : n = Len(received'[k])
      BY <1>1, LenProperties
    <3>4. received'[k] = Wire!Stream(k, n)
      <4>1. received'[k] \in Seq(Byte)
        BY <1>1
      <4>2. \A i \in 1 .. Len(received'[k]) : received'[k][i] = <<k, i>>
        BY DEF Inv, Delivered
      <4> QED BY <4>1, <4>2, <3>3, StreamBytes
    <3>5. \A j \in Client : j # k => received'[j] = received[j]
      BY <3>1, <2>1
    <3>6. received' = [received EXCEPT ![k] = Wire!Stream(k, n)]
      BY <1>1, <3>4, <3>5
    <3>7. n \in Len(received[k]) .. produced[k]
      <4>1. Len(received[k]) \in Nat /\ produced[k] \in Nat
        BY <1>1, LenProperties DEF Inv, TypeOK
      <4> QED BY <4>1, <3>2, <3>3
    <3>8. Wire!Receive(k)
      BY <3>6, <3>7, <2>2 DEF Wire!Receive
    <3> QED BY <3>8 DEF Wire!Next
  <2> QED BY <2>2, <2>3
<1>6. ASSUME NEW c \in Conn, OnConnection(c) \/ OnRequestDropped(c) \/ OnDisconnect(c)
      PROVE  received' = received /\ produced' = produced
  BY <1>6 DEF OnConnection, OnRequestDropped, OnDisconnect
<1>7. ASSUME Take \/ UNCHANGED vars PROVE received' = received /\ produced' = produced
  BY <1>7 DEF Take, vars, connVars
<1> QED BY <1>3, <1>4, <1>5, <1>6, <1>7 DEF Next

\* The game server implements the byte stream of every client, whatever the
\* sockets take and whoever else is served.
THEOREM Refinement == Spec => ImplementsByteStream
<1>1. Init => Wire!Init
  BY DEF Init, Wire!Init
<1>2. Inv /\ Inv' /\ [Next]_vars => [Wire!Next]_<<produced, received>>
  BY StreamStep
<1> QED BY <1>1, <1>2, Invariance, PTL DEF Spec, ImplementsByteStream, Wire!Spec
=============================================================================
